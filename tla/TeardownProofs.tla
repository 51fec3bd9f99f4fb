--------------------------- MODULE TeardownProofs ---------------------------
(***************************************************************************)
(* What the teardowns of destroy.ts keep, for any footprints, projects,    *)
(* owner names and processes, and any number of commands and failures.     *)
(*                                                                         *)
(* Everything turns on the footprints that are live: put up by a deploy    *)
(* that ran by itself, and not removed since.  A footprint becomes live    *)
(* only at the end of such a deploy, when no command on its owner name, or *)
(* on its whole project, is under way; so whatever a teardown has read of  *)
(* a live footprint still holds when it comes to act on it, though nothing *)
(* in the bucket is locked.                                                *)
(***************************************************************************)
EXTENDS Teardown, TLAPS

Live(o) == sound[o] /\ desired[o] # NoFootprint

TeardownKinds == {"env", "prune", "project"}

\* A footprint is published under its own name, and a project's index lists
\* its own components.
PlacesOK ==
    /\ \A o \in Owners : desired[o] # NoFootprint => OwnerOf[desired[o]] = o
    /\ \A p \in Projects : \A b \in index[p] : ProjectOf[b] = p

\* What a command's kind says of where it is and what it is about
JobOK(c) ==
    LET j == job[c] IN
      /\ j.kind = "deploy" => j.stage \in {"idle", "lock", "secrets", "publish",
                                           "baseline", "index", "marker"}
      /\ j.kind = "base" => /\ j.of \in Bases
                            /\ j.stage \in {"plan", "remove", "unlock", "wait",
                                            "purge", "unregister"}
      /\ j.kind \in TeardownKinds =>
           j.stage \in {"list", "next", "check", "plan", "remove", "unlock",
                        "wait", "purge", "keys", "sweep"}
      /\ j.stage = "marker" => j.of \in Envs
      /\ j.kind = "project" => \A f \in j.todo : ProjectOf[f] = ProjectOf[j.of]

\* A deploy that met nobody is in nobody's way now.
AloneOK ==
    \A c, d \in CLIs :
      c # d /\ Active(c) /\ Active(d) /\ job[c].kind = "deploy" /\ job[c].alone
        => ~Meet(job[c], job[d])

\* What a deploy that met nobody has written is still there.
DeployOK(c) ==
    job[c].kind = "deploy" /\ job[c].alone =>
      /\ job[c].stage \in {"publish", "baseline", "index", "marker"} => secrets[Owner(c)]
      /\ job[c].stage \in {"baseline", "index", "marker"} => desired[Owner(c)] = job[c].of
      /\ job[c].stage \in {"index", "marker"} => baseline[Owner(c)] = job[c].of

\* Stages past the write to desired.json
Past == {"baseline", "index", "marker", "unlock", "wait", "purge", "keys", "sweep",
         "unregister"}

\* Who has published or removed a footprint finds it live no more.
ClearOK(c) == job[c].stage \in Past => ~Live(Owner(c))

\* What an environment's teardown has checked of a live footprint still holds.
CheckedOK(c) ==
    At(c, "plan") \/ At(c, "remove") =>
      (job[c].of \in Envs /\ Live(Owner(c)) => ProjectOf[desired[Owner(c)]] = Project(c))

\* What a teardown has yet to remove
Ahead(j) == j.todo \cup (IF j.stage \in {"check", "plan", "remove"} THEN {j.of} ELSE {})

\* Live footprints that the prune has listed have expired.
PruneOK(c) ==
    job[c].kind = "prune" =>
      \A f \in Ahead(job[c]) : Live(OwnerOf[f]) => marker[OwnerOf[f]].ttl = "expired"

\* As long as none of its teardowns has failed, a project's destroy has every
\* live footprint of the project ahead of it.
CoversOK(c) ==
    job[c].kind = "project" /\ job[c].stage # "list" /\ ~job[c].failed =>
      \A o \in Owners : Live(o) /\ ProjectOf[desired[o]] = Project(c)
                          => desired[o] \in Ahead(job[c])

AccountedOK == \A o \in Owners : Live(o) => Accounted(o)

TeardownInv ==
    /\ TypeOK /\ PlacesOK /\ AloneOK /\ AccountedOK
    /\ \A c \in CLIs : /\ JobOK(c) /\ DeployOK(c) /\ ClearOK(c)
                       /\ CheckedOK(c) /\ PruneOK(c) /\ CoversOK(c)

-----------------------------------------------------------------------------
(* One command changes, the others only learn whom they have met            *)

\* Two records of one command, but that the second may be known to have met
\* more.
Like(i, j) ==
    /\ i.kind = j.kind /\ i.of = j.of /\ i.ttl = j.ttl /\ i.purge = j.purge
    /\ i.stage = j.stage /\ i.todo = j.todo /\ i.keys = j.keys /\ i.failed = j.failed
    /\ i.alone => j.alone

Moves(c, j) ==
    /\ job' \in [CLIs -> Job]
    /\ Like(job'[c], j)
    /\ \A d \in CLIs \ {c} : Like(job'[d], job[d])
    /\ AloneOK'

\* Becoming is writing one command's record, the history of meetings aside
\* (destroy.ts, deploy.ts: processes that share nothing but the bucket).
LEMMA BecomingMoves ==
    ASSUME job \in [CLIs -> Job], AloneOK, NEW c \in CLIs, NEW j \in Job, Becomes(c, j)
    PROVE  Moves(c, j)
<1> DEFINE met == {d \in CLIs \ {c} : Active(d) /\ j.stage # "idle" /\ Meet(j, job[d])}
           Met(i, others) == [i EXCEPT !.alone = @ /\ (i.kind = "deploy" => others = {})]
<1>0. job' = [d \in CLIs |-> IF d = c THEN Met(j, met) ELSE Met(job[d], met \cap {d})]
  BY Zenon DEF Becomes
<1>1. ASSUME NEW i \in Job, NEW others
      PROVE  /\ Met(i, others) \in Job
             /\ Like(Met(i, others), i)
             /\ Met(i, others).alone /\ i.kind = "deploy" => others = {}
  <2>1. PICK b \in BOOLEAN : b = (i.alone /\ (i.kind = "deploy" => others = {}))
    BY Zenon
  <2>2. Met(i, others) = [i EXCEPT !.alone = b]
    BY <2>1, Zenon
  <2>3. /\ [i EXCEPT !.alone = b] \in Job
        /\ [i EXCEPT !.alone = b].alone = b
        /\ [i EXCEPT !.alone = b].kind = i.kind /\ [i EXCEPT !.alone = b].of = i.of
        /\ [i EXCEPT !.alone = b].ttl = i.ttl /\ [i EXCEPT !.alone = b].purge = i.purge
        /\ [i EXCEPT !.alone = b].stage = i.stage /\ [i EXCEPT !.alone = b].todo = i.todo
        /\ [i EXCEPT !.alone = b].keys = i.keys /\ [i EXCEPT !.alone = b].failed = i.failed
    BY <2>1 DEF Job
  <2> QED BY <2>1, <2>2, <2>3, Zenon DEF Like
<1> HIDE DEF Met, met
<1>2. /\ job'[c] = Met(j, met)
      /\ \A d \in CLIs \ {c} : job'[d] = Met(job[d], met \cap {d}) /\ job[d] \in Job
  BY <1>0
<1>3. job' \in [CLIs -> Job]
  BY <1>0, <1>1
<1>4. /\ Like(job'[c], j)
      /\ job'[c].alone /\ j.kind = "deploy" => met = {}
  BY <1>1, <1>2, Zenon
<1>5. \A d \in CLIs \ {c} : /\ Like(job'[d], job[d])
                            /\ job'[d].alone /\ job[d].kind = "deploy" => met \cap {d} = {}
  BY <1>1, <1>2, Zenon
<1>6. AloneOK'
  <2> SUFFICES ASSUME NEW d \in CLIs, NEW e \in CLIs, d # e,
                      job'[d].stage # "idle", job'[e].stage # "idle",
                      job'[d].kind = "deploy", job'[d].alone
               PROVE  ~Meet(job'[d], job'[e])
    BY Zenon DEF AloneOK, Active, At
  <2>1. CASE d = c
    <3>1. Like(job'[e], job[e]) /\ met = {} /\ Like(job'[c], j) /\ e \in CLIs \ {c}
      BY <1>4, <1>5, <2>1, Zenon DEF Like
    <3>2. ~Meet(j, job[e])
      BY <3>1, <2>1 DEF met, Active, At, Like
    <3> QED BY <2>1, <3>1, <3>2 DEF Meet, Targets, Like
  <2>2. CASE e = c
    <3>0. d \in CLIs \ {c}
      BY <2>2, Zenon
    <3>1. /\ Like(job'[d], job[d]) /\ met \cap {d} = {} /\ Like(job'[c], j)
          /\ d \in CLIs \ {c}
      <4>1. Like(job'[d], job[d]) /\ Like(job'[c], j)
        BY <1>4, <1>5, <3>0, Zenon
      <4>2. job[d].kind = "deploy"
        BY <4>1, Zenon DEF Like
      <4>3. met \cap {d} = {}
        BY <1>5, <3>0, <4>2, Zenon
      <4> QED BY <3>0, <4>1, <4>3, Zenon
    <3>2. ~Meet(j, job[d])
      BY <3>1, <2>2 DEF met, Active, At, Like
    <3> QED BY <2>2, <3>1, <3>2 DEF Meet, Targets, Like
  <2>3. CASE d # c /\ e # c
    <3>1. Like(job'[d], job[d]) /\ Like(job'[e], job[e])
      BY <1>5, <2>3, Zenon
    <3>2. ~Meet(job[d], job[e])
      BY <3>1 DEF AloneOK, Active, At, Like
    <3> QED BY <3>1, <3>2 DEF Meet, Targets, Like
  <2> QED BY <2>1, <2>2, <2>3
<1> QED BY <1>3, <1>4, <1>5, <1>6, Zenon DEF Moves

-----------------------------------------------------------------------------
(* What one command does, as the others see it                              *)

\* What the command of c at hand does to what is kept under each owner: nothing
\* that matters; or c is at work under that name, and what is there is not live
\* afterwards, or it is because c's deploy, which met nobody, has ended well.
Spares(c) ==
    \A o \in Owners :
      \/ /\ desired'[o] = desired[o] /\ baseline'[o] = baseline[o]
         /\ secrets[o] => secrets'[o]
         /\ sound'[o] = sound[o]
         /\ marker'[o].of = marker[o].of
         /\ marker[o].ttl = "expired" => marker'[o].ttl = "expired"
         /\ Live(o) /\ desired[o] \in index[ProjectOf[desired[o]]]
              => desired[o] \in index'[ProjectOf[desired[o]]]
      \/ /\ o = Owner(c) /\ job[c].stage \notin {"idle", "list", "next"}
         /\ \/ ~Live(o)'
            \/ /\ job[c].kind = "deploy" /\ job[c].alone
               /\ desired'[o] = job[c].of
               /\ Live(o)' => Accounted(o)'

OwnOK(c) ==
    JobOK(c) /\ DeployOK(c) /\ ClearOK(c) /\ CheckedOK(c) /\ PruneOK(c) /\ CoversOK(c)

\* Two commands under one owner's name meet.
LEMMA OneOwnerMeets ==
    ASSUME NEW i \in Job, NEW d \in CLIs, job[d] \in Job, NEW f \in Footprints,
           i.stage \notin {"idle", "list", "next"}, OwnerOf[f] = OwnerOf[i.of],
           \/ f \in job[d].todo
           \/ f = job[d].of /\ job[d].stage \notin {"idle", "list", "next"}
    PROVE  Meet(i, job[d])
<1>1. OwnerOf[i.of] \in Targets(i)
  BY DEF Targets, Job
<1>2. OwnerOf[f] \in Targets(job[d])
  BY DEF Targets, Job
<1> QED BY <1>1, <1>2 DEF Meet

\* What the other commands rely on still holds.
LEMMA OthersKeep ==
    ASSUME TeardownAssumption, TeardownInv, NEW c \in CLIs, NEW j \in Job,
           Moves(c, j), Spares(c), NEW d \in CLIs \ {c}
    PROVE  OwnOK(d)'
<1> USE DEF TeardownInv, TypeOK
<1>1. Like(job'[d], job[d]) /\ job[d] \in Job /\ job[c] \in Job /\ job'[d] \in Job
  BY DEF Moves
<1>a. ASSUME NEW f \in Footprints, job[c].kind = "deploy", job[c].alone,
             job[c].stage \notin {"idle", "list", "next"},
             OwnerOf[f] = Owner(c), job[d].stage # "idle",
             \/ f \in job[d].todo
             \/ f = job[d].of /\ job[d].stage \notin {"idle", "list", "next"}
      PROVE  FALSE
  <2>1. Meet(job[c], job[d])
    BY <1>a, <1>1, OneOwnerMeets DEF Owner
  <2> QED BY <1>a, <2>1 DEF AloneOK, Active, At
<1>b. ASSUME NEW f \in Footprints, job[d].stage # "idle", Live(OwnerOf[f])',
             \/ f \in job[d].todo
             \/ f = job[d].of /\ job[d].stage \notin {"idle", "list", "next"}
      PROVE  /\ Live(OwnerOf[f]) /\ desired'[OwnerOf[f]] = desired[OwnerOf[f]]
             /\ marker[OwnerOf[f]].ttl = "expired" => marker'[OwnerOf[f]].ttl = "expired"
  <2>1. OwnerOf[f] \in Owners
    BY DEF TeardownAssumption
  <2>2. PICK o \in Owners : o = OwnerOf[f]
    BY <2>1
  <2>3. ~(o = Owner(c) /\ job[c].stage \notin {"idle", "list", "next"}
          /\ job[c].kind = "deploy" /\ job[c].alone)
    BY <1>a, <1>b, <2>2
  <2>4. Live(o)' /\ sound'[o] = sound[o] /\ desired'[o] = desired[o] => Live(o)
    BY DEF Live
  <2> QED BY <1>b, <2>2, <2>3, <2>4 DEF Spares
<1>2. JobOK(d)'
  BY <1>1 DEF JobOK, Like
<1>3. DeployOK(d)'
  <2> SUFFICES ASSUME job'[d].kind = "deploy", job'[d].alone,
                      job'[d].stage \in {"publish", "baseline", "index", "marker"}
               PROVE  DeployOK(d)'
    BY DEF DeployOK
  <2>1. /\ job[d].kind = "deploy" /\ job[d].alone /\ Owner(d)' = Owner(d)
        /\ job[d].stage = job'[d].stage /\ job[d].of = job'[d].of
    BY <1>1 DEF Like, Owner
  <2>2. Owner(d) \in Owners
    BY <1>1 DEF Owner, TeardownAssumption, Job
  <2>3. ~(Owner(d) = Owner(c) /\ job[c].stage \notin {"idle", "list", "next"})
    <3> SUFFICES ASSUME Owner(d) = Owner(c), job[c].stage \notin {"idle", "list", "next"}
                 PROVE  FALSE
      OBVIOUS
    <3>1. Meet(job[d], job[c])
      BY <1>1, <2>1, OneOwnerMeets DEF Owner, Job
    <3> QED BY <3>1, <2>1 DEF AloneOK, Active, At
  <2>4. /\ desired'[Owner(d)] = desired[Owner(d)]
        /\ baseline'[Owner(d)] = baseline[Owner(d)]
        /\ secrets[Owner(d)] => secrets'[Owner(d)]
    BY <2>2, <2>3, Zenon DEF Spares
  <2>5. DeployOK(d)
    OBVIOUS
  <2> QED BY <2>1, <2>4, <2>5 DEF DeployOK
<1>4. ClearOK(d)'
  <2> SUFFICES ASSUME NEW f \in Footprints, f = job'[d].of,
                      job'[d].stage \in Past, Live(OwnerOf[f])'
               PROVE  FALSE
    BY <1>1 DEF ClearOK, Owner, Live, Job
  <2>1. job[d].of = f /\ job'[d].stage = job[d].stage
    BY <1>1 DEF Like
  <2>2. Live(OwnerOf[f])
    BY <2>1, <1>b DEF Past
  <2> QED BY <2>1, <2>2 DEF ClearOK, Owner
<1>5. CheckedOK(d)'
  <2> SUFFICES ASSUME NEW f \in Footprints, f = job'[d].of,
                      job'[d].stage \in {"plan", "remove"}, f \in Envs, Live(OwnerOf[f])'
               PROVE  ProjectOf[desired'[OwnerOf[f]]] = ProjectOf[f]
    BY <1>1 DEF CheckedOK, Owner, Project, Live, Job, At
  <2>1. job[d].of = f /\ job'[d].stage = job[d].stage
    BY <1>1 DEF Like
  <2>2. Live(OwnerOf[f]) /\ desired'[OwnerOf[f]] = desired[OwnerOf[f]]
    BY <2>1, <1>b
  <2> QED BY <2>1, <2>2 DEF CheckedOK, Owner, Project, At
<1>6. PruneOK(d)'
  <2> SUFFICES ASSUME job'[d].kind = "prune", NEW f \in Ahead(job'[d]), Live(OwnerOf[f])'
               PROVE  marker'[OwnerOf[f]].ttl = "expired"
    BY DEF PruneOK
  <2>1. /\ job[d].kind = "prune" /\ f \in Ahead(job[d]) /\ f \in Footprints
        /\ job[d].stage # "idle"
        /\ \/ f \in job[d].todo
           \/ f = job[d].of /\ job[d].stage \notin {"idle", "list", "next"}
    BY <1>1 DEF Like, Ahead, Job, JobOK, TeardownKinds
  <2>2. /\ Live(OwnerOf[f])
        /\ marker[OwnerOf[f]].ttl = "expired" => marker'[OwnerOf[f]].ttl = "expired"
    BY <2>1, <1>b
  <2> QED BY <2>1, <2>2 DEF PruneOK
<1>7. CoversOK(d)'
  <2> SUFFICES ASSUME job'[d].kind = "project", job'[d].stage # "list", ~job'[d].failed,
                      NEW o \in Owners, Live(o)', ProjectOf[desired'[o]] = Project(d)'
               PROVE  desired'[o] \in Ahead(job'[d])
    BY DEF CoversOK
  <2>1. /\ job[d].kind = "project" /\ job[d].stage # "list" /\ ~job[d].failed
        /\ Project(d)' = Project(d) /\ Ahead(job'[d]) = Ahead(job[d])
        /\ job[d].stage # "idle"
    BY <1>1 DEF Like, Ahead, Project, JobOK, TeardownKinds
  <2>2. ASSUME job[c].kind = "deploy", job[c].alone, desired'[o] = job[c].of,
               job[c].stage \notin {"idle", "list", "next"}
        PROVE  FALSE
    <3>1. Meet(job[c], job[d])
      BY <2>1, <2>2 DEF Meet, Project
    <3> QED BY <2>1, <2>2, <3>1 DEF AloneOK, Active, At
  <2>3. desired'[o] = desired[o] /\ sound'[o] = sound[o]
    BY <2>2, Zenon DEF Spares
  <2>4. Live(o)
    BY <2>3 DEF Live
  <2> QED BY <2>1, <2>3, <2>4 DEF CoversOK
<1> QED BY <1>2, <1>3, <1>4, <1>5, <1>6, <1>7 DEF OwnOK

\* What is live stays accounted for.
LEMMA AccountsKept ==
    ASSUME TeardownInv, NEW c \in CLIs, Spares(c)
    PROVE  AccountedOK'
<1> SUFFICES ASSUME NEW o \in Owners, Live(o)'
             PROVE  Accounted(o)'
  BY DEF AccountedOK
<1>1. CASE /\ desired'[o] = desired[o] /\ baseline'[o] = baseline[o]
           /\ secrets[o] => secrets'[o]
           /\ sound'[o] = sound[o]
           /\ marker'[o].of = marker[o].of
           /\ Live(o) /\ desired[o] \in index[ProjectOf[desired[o]]]
                => desired[o] \in index'[ProjectOf[desired[o]]]
  <2>1. Live(o)
    BY <1>1 DEF Live
  <2>2. Accounted(o)
    BY <2>1 DEF TeardownInv, AccountedOK
  <2> QED BY <1>1, <2>1, <2>2 DEF Accounted
<1>2. CASE Live(o)' => Accounted(o)'
  BY <1>2
<1> QED BY <1>1, <1>2, Zenon DEF Spares

-----------------------------------------------------------------------------
(* The steps of a command, one by one                                       *)

\* What is left to show of a step: its own command.
LEMMA StepKeeps ==
    ASSUME TeardownAssumption, TeardownInv, NEW c \in CLIs, NEW j \in Job,
           Moves(c, j), Spares(c), TypeOK', PlacesOK', OwnOK(c)'
    PROVE  TeardownInv'
<1>1. ASSUME NEW d \in CLIs
      PROVE  OwnOK(d)'
  <2>1. CASE d = c
    BY <2>1
  <2>2. CASE d # c
    BY <2>2, OthersKeep
  <2> QED BY <2>1, <2>2
<1>2. AccountedOK' /\ AloneOK'
  BY AccountsKept DEF Moves
<1> QED BY <1>1, <1>2 DEF TeardownInv, OwnOK

\* A step that changes nothing in the bucket nor in SSM
LEMMA QuietKeeps ==
    ASSUME TeardownAssumption, TeardownInv, NEW c \in CLIs, NEW j \in Job,
           Moves(c, j), UNCHANGED <<state, sound>>,
           starts' \in 0 .. MaxStarts, faults' \in 0 .. MaxFaults, OwnOK(c)'
    PROVE  TeardownInv'
<1>1. Spares(c)
  BY DEF Spares, state
<1>2. TypeOK'
  BY DEF TypeOK, TeardownInv, Moves, state
<1>3. PlacesOK'
  BY DEF PlacesOK, TeardownInv, state
<1> QED BY <1>1, <1>2, <1>3, StepKeeps

\* A process that runs no command is in a state of the model.
LEMMA IdleIsAJob ==
    ASSUME TeardownAssumption
    PROVE  Idle \in Job
<1>1. \E f \in Footprints : TRUE
  BY DEF TeardownAssumption, Footprints
<1>2. (CHOOSE f \in Footprints : TRUE) \in Footprints
  BY <1>1
<1> QED BY <1>2 DEF Idle, Job, Kinds, Stages

\* A command that is over owes nothing.
LEMMA IdleOwesNothing ==
    ASSUME NEW c \in CLIs, Moves(c, Idle)
    PROVE  OwnOK(c)'
<1>1. job'[c].kind = "deploy" /\ job'[c].stage = "idle"
  BY DEF Moves, Like, Idle
<1> QED BY <1>1 DEF OwnOK, JobOK, DeployOK, ClearOK, CheckedOK, PruneOK, CoversOK,
              TeardownKinds, Past, At

\* Refused, failed, killed or with nothing to do (deploy.ts, destroy.ts: the
\* early returns and errors): what the command has written stays.
LEMMA QuietFinishKeeps ==
    ASSUME TeardownAssumption, TeardownInv, NEW c \in CLIs, Finish(c),
           UNCHANGED <<state, sound>>,
           starts' \in 0 .. MaxStarts, faults' \in 0 .. MaxFaults
    PROVE  TeardownInv'
<1>1. Idle \in Job
  BY IdleIsAJob
<1>2. Moves(c, Idle)
  BY <1>1, BecomingMoves DEF Finish, TeardownInv, TypeOK
<1> QED BY <1>1, <1>2, IdleOwesNothing, QuietKeeps

\* What Goto does to the record of the command
LEMMA GoingMoves ==
    ASSUME TeardownInv, NEW c \in CLIs, NEW s \in Stages, Goto(c, s)
    PROVE  /\ [job[c] EXCEPT !.stage = s] \in Job
           /\ Moves(c, [job[c] EXCEPT !.stage = s])
           /\ job'[c] \in Job /\ job[c] \in Job
           /\ job'[c].kind = job[c].kind /\ job'[c].of = job[c].of
           /\ job'[c].stage = s /\ job'[c].todo = job[c].todo
           /\ job'[c].keys = job[c].keys
           /\ job'[c].failed = job[c].failed /\ job'[c].purge = job[c].purge
           /\ job'[c].alone => job[c].alone
<1>1. job[c] \in Job /\ [job[c] EXCEPT !.stage = s] \in Job
  BY DEF TeardownInv, TypeOK, Job
<1>2. Moves(c, [job[c] EXCEPT !.stage = s])
  BY <1>1, BecomingMoves DEF Goto, TeardownInv, TypeOK
<1>3. job'[c] \in Job
  BY <1>2 DEF Moves
<1> QED BY <1>1, <1>2, <1>3 DEF Moves, Like, Job

\* Whose stages are whose
LEMMA KindAt ==
    ASSUME TeardownInv, NEW c \in CLIs
    PROVE  /\ job[c].kind \in {"deploy", "base"} \cup TeardownKinds
           /\ job[c].stage \in {"idle", "lock", "secrets", "publish", "baseline", "index",
                                "marker"} => job[c].kind = "deploy"
           /\ job[c].stage \in {"list", "next", "check", "keys", "sweep"}
                => job[c].kind \in TeardownKinds
           /\ job[c].stage = "unregister" => job[c].kind = "base"
           /\ job[c].stage \in {"plan", "remove", "unlock", "wait", "purge"}
                => job[c].kind \in {"base"} \cup TeardownKinds
           /\ job[c].kind = "base" => job[c].of \in Bases
           /\ job[c].kind = "project" => \A f \in job[c].todo : ProjectOf[f] = Project(c)
           /\ job[c].stage = "marker" => job[c].of \in Envs
           /\ job[c] \in Job /\ job[c].of \in Footprints /\ job[c].todo \subseteq Footprints
<1>1. JobOK(c) /\ job[c] \in Job
  BY DEF TeardownInv, TypeOK
<1>2. job[c].kind \in Kinds /\ job[c].of \in Footprints /\ job[c].todo \subseteq Footprints
  BY <1>1 DEF Job
<1> QED BY <1>1, <1>2 DEF JobOK, Kinds, TeardownKinds, Project

\* lock: the deploy is refused or goes on (config-lock.ts).
LEMMA LockKeeps ==
    ASSUME TeardownAssumption, TeardownInv, NEW c \in CLIs, Lock(c), UNCHANGED <<starts, faults>>
    PROVE  TeardownInv'
<1>0. starts' \in 0 .. MaxStarts /\ faults' \in 0 .. MaxFaults /\ UNCHANGED <<state, sound>>
  BY DEF TeardownInv, TypeOK, Lock
<1>1. CASE Finish(c)
  BY <1>0, <1>1, QuietFinishKeeps
<1>2. CASE Goto(c, "secrets")
  <2>1. "secrets" \in Stages
    BY DEF Stages
  <2>2. job'[c].kind = "deploy" /\ job'[c].stage = "secrets"
    BY <1>2, <2>1, GoingMoves, KindAt DEF Lock, At
  <2>3. OwnOK(c)'
    BY <2>2 DEF OwnOK, JobOK, DeployOK, ClearOK, CheckedOK, PruneOK, CoversOK,
         TeardownKinds, Past, At
  <2> QED BY <1>0, <1>2, <2>1, <2>3, GoingMoves, QuietKeeps
<1> QED BY <1>1, <1>2 DEF Lock

\* secrets: the deploy looks whether they are there (deploy.ts).
LEMMA AssertSecretsKeeps ==
    ASSUME TeardownAssumption, TeardownInv, NEW c \in CLIs, AssertSecrets(c),
           UNCHANGED <<starts, faults>>
    PROVE  TeardownInv'
<1>0. starts' \in 0 .. MaxStarts /\ faults' \in 0 .. MaxFaults /\ UNCHANGED <<state, sound>>
  BY DEF TeardownInv, TypeOK, AssertSecrets
<1>1. CASE Finish(c)
  BY <1>0, <1>1, QuietFinishKeeps
<1>2. CASE SecretsPresent(job[c].of) /\ Goto(c, "publish")
  <2>1. "publish" \in Stages
    BY DEF Stages
  <2>2. DeployOK(c)'
    BY <1>0, <1>2, <2>1, GoingMoves DEF DeployOK, SecretsPresent, Owner, state
  <2>3. job'[c].kind = "deploy" /\ job'[c].stage = "publish"
    BY <1>2, <2>1, GoingMoves, KindAt DEF AssertSecrets, At
  <2>4. OwnOK(c)'
    BY <2>2, <2>3 DEF OwnOK, JobOK, ClearOK, CheckedOK, PruneOK, CoversOK,
         TeardownKinds, Past, At
  <2> QED BY <1>0, <1>2, <2>1, <2>4, GoingMoves, QuietKeeps
<1> QED BY <1>1, <1>2 DEF AssertSecrets

\* A teardown goes from one stage to the next without a change outside: what it
\* has ahead is given up only if it is not live any more.
LEMMA TeardownGoes ==
    ASSUME TeardownAssumption, TeardownInv, NEW c \in CLIs, NEW j \in Job, Becomes(c, j),
           j.kind = job[c].kind, j.of = job[c].of, j.todo = job[c].todo,
           j.failed = job[c].failed,
           UNCHANGED <<state, sound>>,
           starts' \in 0 .. MaxStarts, faults' \in 0 .. MaxFaults,
           job[c].stage \notin {"list", "next"},
           \/ j.kind = "base" /\ j.stage \in {"remove", "purge", "unregister"}
           \/ j.kind \in TeardownKinds /\ j.stage \in {"plan", "remove", "purge", "keys", "sweep"},
           j.stage \in Past => ~Live(Owner(c)),
           j.stage = "plan" => At(c, "check") /\ Verified(job[c].of),
           j.stage = "remove" => At(c, "plan"),
           j.stage \in {"purge", "keys", "sweep", "unregister"} => ~Live(Owner(c))
    PROVE  TeardownInv'
<1>1. Moves(c, j)
  BY BecomingMoves DEF TeardownInv, TypeOK
<1>2. /\ job'[c].kind = j.kind /\ job'[c].of = j.of /\ job'[c].todo = j.todo
      /\ job'[c].failed = j.failed /\ job'[c].stage = j.stage
  BY <1>1 DEF Moves, Like
<1>3. OwnOK(c)
  BY DEF TeardownInv, OwnOK
<1>4. \A o : Live(o)' <=> Live(o)
  BY DEF Live, state
<1>5. JobOK(c)' /\ DeployOK(c)'
  BY <1>2, <1>3, KindAt DEF OwnOK, JobOK, DeployOK, TeardownKinds, Project
<1>6. ClearOK(c)'
  BY <1>2, <1>4 DEF ClearOK, Owner, Live, state
<1>7. CheckedOK(c)'
  <2>1. SUFFICES ASSUME j.stage \in {"plan", "remove"}, j.of \in Envs, Live(Owner(c))
                 PROVE  ProjectOf[desired[Owner(c)]] = Project(c)
    BY <1>2, <1>4 DEF CheckedOK, At, Owner, Project, Live, state
  <2>2. CASE j.stage = "plan"
    <3>1. Owner(c) \in Owners
      BY KindAt DEF Owner, TeardownAssumption
    <3>2. Accounted(Owner(c))
      BY <2>1, <3>1 DEF TeardownInv, AccountedOK
    <3> QED BY <2>1, <2>2, <3>2 DEF Accounted, Verified, Owner, Project, Live
  <2>3. CASE j.stage = "remove"
    <3>1. At(c, "plan") /\ CheckedOK(c) /\ job[c].of \in Envs
      BY <1>3, <2>1, <2>3 DEF OwnOK
    <3> QED BY <2>1, <3>1 DEF CheckedOK
  <2> QED BY <2>1, <2>2, <2>3
<1>8. \A f \in Ahead(j) : f \in Ahead(job[c])
  BY DEF Ahead, At
<1>9. \A f \in Footprints : f \in Ahead(job[c]) /\ Live(OwnerOf[f]) => f \in Ahead(j)
  BY DEF Ahead, Owner, Past
<1>10. Ahead(job'[c]) = Ahead(j)
  BY <1>2 DEF Ahead
<1>11. PruneOK(c)'
  <2> SUFFICES ASSUME j.kind = "prune", NEW f \in Ahead(j), Live(OwnerOf[f])
               PROVE  marker[OwnerOf[f]].ttl = "expired"
    BY <1>2, <1>10 DEF PruneOK, Live, state
  <2> QED BY <1>3, <1>8 DEF OwnOK, PruneOK
<1>12. CoversOK(c)'
  <2> SUFFICES ASSUME j.kind = "project", ~j.failed, NEW o \in Owners, Live(o),
                      ProjectOf[desired[o]] = ProjectOf[j.of]
               PROVE  desired[o] \in Ahead(j)
    BY <1>2, <1>10 DEF CoversOK, Live, Project, state
  <2>1. desired[o] \in Ahead(job[c])
    BY <1>3 DEF OwnOK, CoversOK, Project
  <2>2. OwnerOf[desired[o]] = o /\ desired[o] \in Footprints
    BY DEF TeardownInv, TypeOK, PlacesOK, Live
  <2> QED BY <1>9, <2>1, <2>2
<1> QED BY <1>1, <1>5, <1>6, <1>7, <1>11, <1>12, QuietKeeps DEF OwnOK

\* A teardown of several ends with one of them, failed, and turns to the next.
LEMMA FailingKeeps ==
    ASSUME TeardownAssumption, TeardownInv, NEW c \in CLIs, NextOrEnd(c, TRUE),
           job[c].kind \in {"base"} \cup TeardownKinds,
           UNCHANGED <<state, sound>>,
           starts' \in 0 .. MaxStarts, faults' \in 0 .. MaxFaults
    PROVE  TeardownInv'
<1>1. CASE job[c].kind = "base"
  BY <1>1, QuietFinishKeeps DEF NextOrEnd
<1>2. CASE job[c].kind \in TeardownKinds
  <2> DEFINE j == [job[c] EXCEPT !.stage = "next", !.failed = TRUE]
  <2>0. job[c] \in Job
    BY DEF TeardownInv, TypeOK
  <2>1. j \in Job /\ job[c] \in Job
    BY <2>0 DEF Job, Stages
  <2>2. Becomes(c, j)
    <3>1. job[c].kind # "base"
      BY <1>2 DEF TeardownKinds
    <3>2. (job[c].failed \/ TRUE) = TRUE
      OBVIOUS
    <3> QED BY <3>1, <3>2, Zenon DEF NextOrEnd
  <2>3. /\ j.kind = job[c].kind /\ j.of = job[c].of /\ j.todo = job[c].todo
        /\ j.stage = "next" /\ j.failed
    BY <2>1 DEF Job
  <2> HIDE DEF j
  <2>4. Moves(c, j)
    BY <2>1, <2>2, BecomingMoves DEF TeardownInv, TypeOK
  <2>5. /\ job'[c].kind = job[c].kind /\ job'[c].of = job[c].of
        /\ job'[c].todo = job[c].todo /\ job'[c].stage = "next" /\ job'[c].failed
    BY <2>3, <2>4, Zenon DEF Moves, Like
  <2>6. JobOK(c)' /\ DeployOK(c)' /\ ClearOK(c)' /\ CheckedOK(c)' /\ CoversOK(c)'
    BY <1>2, <2>5, KindAt DEF JobOK, DeployOK, ClearOK, CheckedOK, CoversOK, TeardownKinds,
         Past, At, Project
  <2>7. PruneOK(c)'
    <3> SUFFICES ASSUME job[c].kind = "prune", NEW f \in job[c].todo, Live(OwnerOf[f])
                 PROVE  marker[OwnerOf[f]].ttl = "expired"
      BY <2>5 DEF PruneOK, Ahead, Live, state
    <3> QED BY DEF TeardownInv, PruneOK, Ahead
  <2> QED BY <2>1, <2>4, <2>6, <2>7, QuietKeeps DEF OwnOK
<1> QED BY <1>1, <1>2

\* check: whose baseline is under the environment's name (markers.ts)
LEMMA CheckKeeps ==
    ASSUME TeardownAssumption, TeardownInv, NEW c \in CLIs, Check(c), UNCHANGED <<starts, faults>>
    PROVE  TeardownInv'
<1>0. starts' \in 0 .. MaxStarts /\ faults' \in 0 .. MaxFaults /\ UNCHANGED <<state, sound>>
  BY DEF TeardownInv, TypeOK, Check
<1>1. job[c].kind \in TeardownKinds /\ At(c, "check")
  BY KindAt DEF Check, At
<1>2. CASE NextOrEnd(c, TRUE)
  BY <1>0, <1>1, <1>2, FailingKeeps
<1>3. CASE Verified(job[c].of) /\ Goto(c, "plan")
  <2>1. "plan" \in Stages
    BY DEF Stages
  <2> DEFINE j == [job[c] EXCEPT !.stage = "plan"]
  <2>2. /\ j \in Job /\ Becomes(c, j) /\ j.kind = job[c].kind /\ j.of = job[c].of
        /\ j.todo = job[c].todo /\ j.failed = job[c].failed /\ j.stage = "plan"
    BY <1>3, <2>1, KindAt, GoingMoves DEF Goto, Job
  <2> HIDE DEF j
  <2> QED BY <1>0, <1>1, <1>3, <2>2, TeardownGoes DEF Past, At
<1> QED BY <1>2, <1>3 DEF Check

\* plan: is anything published under the name (undeploy.ts)
LEMMA PlanKeeps ==
    ASSUME TeardownAssumption, TeardownInv, NEW c \in CLIs, Plan(c), UNCHANGED <<starts, faults>>
    PROVE  TeardownInv'
<1>0. starts' \in 0 .. MaxStarts /\ faults' \in 0 .. MaxFaults /\ UNCHANGED <<state, sound>>
  BY DEF TeardownInv, TypeOK, Plan
<1>1. job[c].kind \in {"base"} \cup TeardownKinds /\ At(c, "plan")
  BY KindAt DEF Plan, At
<1>2. CASE Finish(c)
  BY <1>0, <1>2, QuietFinishKeeps
<1>3. CASE Goto(c, "remove")
  <2>1. "remove" \in Stages
    BY DEF Stages
  <2> DEFINE j == [job[c] EXCEPT !.stage = "remove"]
  <2>2. /\ j \in Job /\ Becomes(c, j) /\ j.kind = job[c].kind /\ j.of = job[c].of
        /\ j.todo = job[c].todo /\ j.failed = job[c].failed /\ j.stage = "remove"
    BY <1>3, <2>1, KindAt, GoingMoves DEF Goto, Job
  <2> HIDE DEF j
  <2> QED BY <1>0, <1>1, <2>2, TeardownGoes DEF Past, At
<1>4. CASE desired[Owner(c)] = NoFootprint /\ job[c].kind # "base" /\ Goto(c, "keys")
  <2>1. "keys" \in Stages /\ ~Live(Owner(c))
    BY <1>4 DEF Stages, Live
  <2> DEFINE j == [job[c] EXCEPT !.stage = "keys"]
  <2>2. /\ j \in Job /\ Becomes(c, j) /\ j.kind = job[c].kind /\ j.of = job[c].of
        /\ j.todo = job[c].todo /\ j.failed = job[c].failed /\ j.stage = "keys"
    BY <1>4, <2>1, KindAt, GoingMoves DEF Goto, Job
  <2> HIDE DEF j
  <2> QED BY <1>0, <1>1, <1>4, <2>1, <2>2, TeardownGoes DEF Past, At
<1> QED BY <1>2, <1>3, <1>4, Zenon DEF Plan, NothingToRemove

\* Past the removal, from stage to stage
LEMMA PastGoes ==
    ASSUME TeardownAssumption, TeardownInv, NEW c \in CLIs,
           NEW s \in {"purge", "keys", "unregister"},
           Goto(c, s), UNCHANGED <<state, sound>>,
           starts' \in 0 .. MaxStarts, faults' \in 0 .. MaxFaults,
           job[c].stage \in {"wait", "purge"},
           s = "keys" => job[c].kind # "base",
           s = "unregister" => job[c].kind = "base"
    PROVE  TeardownInv'
<1>1. s \in Stages /\ ~Live(Owner(c)) /\ job[c].kind \in {"base"} \cup TeardownKinds
  BY KindAt DEF TeardownInv, ClearOK, Past, Stages
<1> DEFINE j == [job[c] EXCEPT !.stage = s]
<1>2. /\ j \in Job /\ Becomes(c, j) /\ j.kind = job[c].kind /\ j.of = job[c].of
      /\ j.todo = job[c].todo /\ j.failed = job[c].failed /\ j.stage = s
  BY <1>1, KindAt, GoingMoves DEF Goto, Job
<1> HIDE DEF j
<1> QED BY <1>1, <1>2, TeardownGoes

\* wait: until the containers are gone, or not (destroy.ts)
LEMMA WaitKeeps ==
    ASSUME TeardownAssumption, TeardownInv, NEW c \in CLIs, WaitForDrain(c),
           UNCHANGED <<starts, faults>>
    PROVE  TeardownInv'
<1>1. PICK s : s = AfterWait(c)
  OBVIOUS
<1>2. /\ s \in {"purge", "keys", "unregister"} /\ Goto(c, s) /\ job[c].stage = "wait"
      /\ s = "keys" => job[c].kind # "base"
      /\ s = "unregister" => job[c].kind = "base"
  BY <1>1 DEF WaitForDrain, AfterWait, At
<1>3. starts' \in 0 .. MaxStarts /\ faults' \in 0 .. MaxFaults /\ UNCHANGED <<state, sound>>
  BY DEF TeardownInv, TypeOK, WaitForDrain
<1> QED BY <1>2, <1>3, PastGoes

\* keys: the sweep lists what it will delete (s3-state.ts deletePrefix).
LEMMA ListKeysKeeps ==
    ASSUME TeardownAssumption, TeardownInv, NEW c \in CLIs, ListKeys(c),
           UNCHANGED <<starts, faults>>
    PROVE  TeardownInv'
<1>0. starts' \in 0 .. MaxStarts /\ faults' \in 0 .. MaxFaults /\ UNCHANGED <<state, sound>>
  BY DEF TeardownInv, TypeOK, ListKeys
<1> DEFINE listed == {k \in {"baseline", "marker"} :
                        \/ k = "baseline" /\ baseline[Owner(c)] # NoFootprint
                        \/ k = "marker" /\ marker[Owner(c)] # NoMarker}
<1>a. listed \in SUBSET {"baseline", "marker"}
  OBVIOUS
<1>b. Becomes(c, [job[c] EXCEPT !.stage = "sweep", !.keys = listed])
  BY Zenon DEF ListKeys
<1> HIDE DEF listed
<1>1. PICK K \in SUBSET {"baseline", "marker"} :
        Becomes(c, [job[c] EXCEPT !.stage = "sweep", !.keys = K])
  BY <1>a, <1>b, Zenon
<1> DEFINE j == [job[c] EXCEPT !.stage = "sweep", !.keys = K]
<1>2. job[c].stage = "keys" /\ job[c].kind \in TeardownKinds /\ ~Live(Owner(c))
  BY KindAt DEF ListKeys, At, TeardownInv, ClearOK, Past
<1>3. Becomes(c, j)
  BY <1>1, Zenon
<1>4. job[c] \in Job
  BY KindAt
<1>5. /\ j \in Job /\ j.kind = job[c].kind /\ j.of = job[c].of
      /\ j.todo = job[c].todo /\ j.failed = job[c].failed /\ j.stage = "sweep"
  BY <1>4 DEF Job, Stages
<1> HIDE DEF j
<1> QED BY <1>0, <1>2, <1>3, <1>5, TeardownGoes

-----------------------------------------------------------------------------
(* What a command takes on                                                  *)

\* list: the expired environments, or the project's index and its environments
\* (markers.ts, registry.ts).  Whatever is live is accounted for, so it is on
\* the list.
LEMMA ListKeeps ==
    ASSUME TeardownAssumption, TeardownInv, NEW c \in CLIs, List(c), UNCHANGED <<starts, faults>>
    PROVE  TeardownInv'
<1> DEFINE all == CASE job[c].kind = "env"     -> Marked \cap {job[c].of}
                    [] job[c].kind = "prune"   -> Expired
                    [] job[c].kind = "project" -> OfProject(Project(c))
<1>0. starts' \in 0 .. MaxStarts /\ faults' \in 0 .. MaxFaults /\ UNCHANGED <<state, sound>>
  BY DEF TeardownInv, TypeOK, List
<1>1. job[c].kind \in TeardownKinds /\ job[c].stage = "list" /\ job[c] \in Job
  BY KindAt DEF List, At
<1>2. CASE Finish(c)
  BY <1>0, <1>2, QuietFinishKeeps
<1>3. CASE Becomes(c, [job[c] EXCEPT !.todo = all, !.stage = "next"])
  <2>1. \A f \in Marked : f \in Footprints /\ \E o \in Owners : marker[o].of = f
    BY DEF Marked, TeardownInv, TypeOK, Marker, NoMarker, Footprints
  <2>2. \A p \in Projects : \A b \in index[p] : b \in Footprints /\ ProjectOf[b] = p
    BY DEF TeardownInv, TypeOK, PlacesOK, Footprints
  <2>3. Project(c) \in Projects
    BY KindAt DEF Project, TeardownAssumption
  <2>4. /\ job[c].kind = "prune" => all = Expired
        /\ job[c].kind = "env" => all = Marked \cap {job[c].of}
        /\ job[c].kind = "project" => all = OfProject(Project(c))
    OBVIOUS
  <2>5. all \subseteq Footprints
    BY <1>1, <2>1, <2>2, <2>3, <2>4 DEF TeardownKinds, Expired, OfProject
  <2> HIDE DEF all
  <2>6. PICK T \in SUBSET Footprints : T = all
    BY <2>5
  <2> DEFINE j == [job[c] EXCEPT !.todo = T, !.stage = "next"]
  <2>7. /\ j \in Job /\ Becomes(c, j) /\ j.kind = job[c].kind /\ j.of = job[c].of
        /\ j.todo = T /\ j.stage = "next"
    BY <1>1, <1>3, <2>6 DEF Job, Stages
  <2> HIDE DEF j
  <2>8. Moves(c, j)
    BY <2>7, BecomingMoves DEF TeardownInv, TypeOK
  <2>9. /\ job'[c].kind = job[c].kind /\ job'[c].of = job[c].of
        /\ job'[c].todo = T /\ job'[c].stage = "next"
    BY <2>7, <2>8, Zenon DEF Moves, Like
  <2>10. job[c].kind = "project" => \A f \in T : ProjectOf[f] = Project(c)
    BY <2>2, <2>3, <2>4, <2>6 DEF OfProject
  <2>11. JobOK(c)' /\ DeployOK(c)' /\ ClearOK(c)' /\ CheckedOK(c)'
    BY <1>1, <2>9, <2>10 DEF JobOK, DeployOK, ClearOK, CheckedOK, TeardownKinds, Past, At,
         Project
  <2>12. PruneOK(c)'
    <3> SUFFICES ASSUME job[c].kind = "prune", NEW f \in T
                 PROVE  marker[OwnerOf[f]].ttl = "expired"
      BY <1>0, <2>9 DEF PruneOK, Ahead, state
    <3> QED BY <2>4, <2>6 DEF Expired
  <2>13. CoversOK(c)'
    <3> SUFFICES ASSUME job[c].kind = "project", NEW o \in Owners, Live(o),
                        ProjectOf[desired[o]] = Project(c)
                 PROVE  desired[o] \in T
      BY <1>0, <2>9 DEF CoversOK, Ahead, Live, Project, state
    <3>1. Accounted(o)
      BY DEF TeardownInv, AccountedOK
    <3>2. desired[o] \in Footprints /\ desired[o] # NoFootprint
      BY DEF TeardownInv, TypeOK, Live
    <3>3. desired[o] \in Marked \/ desired[o] \in index[Project(c)]
      BY <3>1, <3>2 DEF Accounted, Marked
    <3> QED BY <2>4, <2>6, <3>3 DEF OfProject, Marked
  <2> QED BY <1>0, <2>7, <2>8, <2>11, <2>12, <2>13, QuietKeeps DEF OwnOK
<1> QED BY <1>2, <1>3, Zenon DEF List

\* next: one of them comes in hand (destroy.ts).
LEMMA TakeKeeps ==
    ASSUME TeardownAssumption, TeardownInv, NEW c \in CLIs, Take(c), UNCHANGED <<starts, faults>>
    PROVE  TeardownInv'
<1>0. starts' \in 0 .. MaxStarts /\ faults' \in 0 .. MaxFaults /\ UNCHANGED <<state, sound>>
  BY DEF TeardownInv, TypeOK, Take
<1>1. job[c].kind \in TeardownKinds /\ job[c].stage = "next" /\ job[c] \in Job
  BY KindAt DEF Take, At
<1>2. PICK f \in NextTarget(job[c]) :
        Becomes(c, [job[c] EXCEPT !.todo = @ \ {f}, !.of = f, !.keys = {},
                      !.stage = IF f \in Envs THEN "check" ELSE "plan"])
  BY Zenon DEF Take
<1>3. f \in job[c].todo /\ f \in Footprints
  BY <1>1 DEF NextTarget, Job
<1> DEFINE j == [job[c] EXCEPT !.todo = @ \ {f}, !.of = f, !.keys = {},
                   !.stage = IF f \in Envs THEN "check" ELSE "plan"]
<1>4. /\ j \in Job /\ Becomes(c, j) /\ j.kind = job[c].kind /\ j.of = f
      /\ j.todo = job[c].todo \ {f} /\ j.stage \in {"check", "plan"}
      /\ j.stage = "plan" => f \notin Envs
      /\ j.failed = job[c].failed
  BY <1>1, <1>2, <1>3 DEF Job, Stages
<1> HIDE DEF j
<1>5. Moves(c, j)
  BY <1>4, BecomingMoves DEF TeardownInv, TypeOK
<1>6. /\ job'[c].kind = job[c].kind /\ job'[c].of = f
      /\ job'[c].todo = job[c].todo \ {f} /\ job'[c].stage \in {"check", "plan"}
      /\ job'[c].stage = "plan" => f \notin Envs
      /\ job'[c].failed = job[c].failed
  BY <1>4, <1>5, Zenon DEF Moves, Like
<1>7. /\ job[c].kind = "project" => \A g \in job[c].todo : ProjectOf[g] = Project(c)
  BY KindAt
<1>8. JobOK(c)' /\ DeployOK(c)' /\ ClearOK(c)' /\ CheckedOK(c)'
  BY <1>1, <1>3, <1>6, <1>7 DEF JobOK, DeployOK, ClearOK, CheckedOK, TeardownKinds, Past, At,
       Project
<1>9. Ahead(job'[c]) = Ahead(job[c])
  BY <1>1, <1>3, <1>6 DEF Ahead
<1>10. PruneOK(c)'
  <2> SUFFICES ASSUME job[c].kind = "prune", NEW g \in Ahead(job[c]), Live(OwnerOf[g])
               PROVE  marker[OwnerOf[g]].ttl = "expired"
    BY <1>0, <1>6, <1>9 DEF PruneOK, Live, state
  <2> QED BY DEF TeardownInv, PruneOK
<1>11. CoversOK(c)'
  <2> SUFFICES ASSUME job[c].kind = "project", ~job[c].failed, NEW o \in Owners, Live(o),
                      ProjectOf[desired[o]] = Project(c)
               PROVE  desired[o] \in Ahead(job[c])
    BY <1>0, <1>3, <1>6, <1>7, <1>9 DEF CoversOK, Live, Project, state
  <2> QED BY <1>1 DEF TeardownInv, CoversOK
<1> QED BY <1>0, <1>4, <1>5, <1>8, <1>10, <1>11, QuietKeeps DEF OwnOK

\* A command that has just been started has nothing to account for.
LEMMA StartingKeeps ==
    ASSUME TeardownAssumption, TeardownInv, NEW c \in CLIs, NEW j \in Job, Becomes(c, j),
           UNCHANGED <<state, sound>>,
           starts' \in 0 .. MaxStarts, faults' \in 0 .. MaxFaults,
           j.todo = {},
           \/ j.kind = "deploy" /\ j.stage = "lock"
           \/ j.kind = "base" /\ j.stage = "plan" /\ j.of \in Bases
           \/ j.kind \in TeardownKinds /\ j.stage = "list"
    PROVE  TeardownInv'
<1>1. Moves(c, j)
  BY BecomingMoves DEF TeardownInv, TypeOK
<1>2. /\ job'[c].kind = j.kind /\ job'[c].of = j.of /\ job'[c].todo = {}
      /\ job'[c].stage = j.stage
  BY <1>1, Zenon DEF Moves, Like
<1>3. JobOK(c)' /\ DeployOK(c)' /\ ClearOK(c)' /\ PruneOK(c)' /\ CoversOK(c)'
  BY <1>2 DEF JobOK, DeployOK, ClearOK, PruneOK, CoversOK, TeardownKinds, Past, Ahead
<1>4. CheckedOK(c)'
  BY <1>2 DEF CheckedOK, At, TeardownKinds, TeardownAssumption
<1> QED BY <1>1, <1>3, <1>4, QuietKeeps DEF OwnOK

\* A user starts a deploy, or a destroy of any kind (deploy.ts, destroy.ts).
LEMMA StartKeeps ==
    ASSUME TeardownAssumption, TeardownInv, NEW c \in CLIs, Start(c)
    PROVE  TeardownInv'
<1>1. PICK k \in Kinds \ {"prune"}, f \in Footprints, ttl \in BOOLEAN, purge \in BOOLEAN :
        /\ k = "base" => f \in Bases
        /\ Becomes(c, [Idle EXCEPT !.kind = k, !.of = f, !.ttl = ttl, !.purge = purge,
              !.stage = CASE k = "deploy" -> "lock"
                          [] k = "base" -> "plan"
                          [] OTHER -> "list"])
  BY ZenonT(40) DEF Start
<1>2. PICK s : s = CASE k = "deploy" -> "lock" [] k = "base" -> "plan" [] OTHER -> "list"
  OBVIOUS
<1>3. /\ k = "deploy" => s = "lock"
      /\ k = "base" => s = "plan"
      /\ k \in TeardownKinds => s = "list"
      /\ k \in {"deploy", "base"} \cup TeardownKinds
  BY <1>2 DEF TeardownKinds, Kinds
<1> DEFINE j == [Idle EXCEPT !.kind = k, !.of = f, !.ttl = ttl, !.purge = purge, !.stage = s]
<1>4. Becomes(c, j)
  BY <1>1, <1>2, Zenon
<1>5. /\ j \in Job /\ j.todo = {} /\ j.kind = k /\ j.of = f /\ j.stage = s
  <2>1. s \in Stages /\ k \in Kinds
    BY <1>1, <1>3 DEF Stages, TeardownKinds, Kinds
  <2> QED
    BY <2>1, IdleIsAJob, ZenonT(60) DEF Job, Idle
<1> HIDE DEF j
<1>6. starts' \in 0 .. MaxStarts /\ faults' \in 0 .. MaxFaults /\ UNCHANGED <<state, sound>>
  BY DEF TeardownInv, TypeOK, Start, TeardownAssumption
<1> QED BY <1>1, <1>3, <1>4, <1>5, <1>6, StartingKeeps

\* The scheduled destroy --prune-expired starts (destroy.ts).
LEMMA PruneKeeps ==
    ASSUME TeardownAssumption, TeardownInv, NEW c \in CLIs, Prune(c)
    PROVE  TeardownInv'
<1> DEFINE j == [Idle EXCEPT !.kind = "prune", !.stage = "list"]
<1>1. Becomes(c, j)
  BY DEF Prune
<1>2. /\ j \in Job /\ j.todo = {} /\ j.kind = "prune" /\ j.stage = "list"
  BY IdleIsAJob DEF Job, Idle, Stages, Kinds
<1> HIDE DEF j
<1>3. starts' \in 0 .. MaxStarts /\ faults' \in 0 .. MaxFaults /\ UNCHANGED <<state, sound>>
  BY DEF TeardownInv, TypeOK, Prune
<1> QED BY <1>1, <1>2, <1>3, StartingKeeps DEF TeardownKinds

-----------------------------------------------------------------------------
(* What a command writes                                                    *)

\* A teardown removes something of the footprint in hand, which is not live
\* afterwards.
LEMMA TeardownWrites ==
    ASSUME TeardownAssumption, TeardownInv, NEW c \in CLIs, NEW j \in Job, Becomes(c, j),
           j.kind = job[c].kind, j.of = job[c].of, j.todo = job[c].todo,
           j.failed = job[c].failed,
           job[c].stage \in {"remove", "unlock", "purge", "sweep"},
           \/ j.kind = "base" /\ j.stage \in {"unlock", "wait", "unregister"}
           \/ j.kind \in TeardownKinds /\ j.stage \in {"unlock", "wait", "keys", "next"},
           ~Live(Owner(c))', UNCHANGED <<index, starts, faults>>,
           \A o \in Owners \ {Owner(c)} :
             /\ desired'[o] = desired[o] /\ baseline'[o] = baseline[o]
             /\ secrets'[o] = secrets[o] /\ sound'[o] = sound[o] /\ marker'[o] = marker[o],
           TypeOK', PlacesOK'
    PROVE  TeardownInv'
<1>1. Moves(c, j)
  BY BecomingMoves DEF TeardownInv, TypeOK
<1>2. /\ job'[c].kind = j.kind /\ job'[c].of = j.of /\ job'[c].todo = j.todo
      /\ job'[c].failed = j.failed /\ job'[c].stage = j.stage
  BY <1>1 DEF Moves, Like
<1>3. PICK q \in Owners : q = Owner(c) /\ q = Owner(c)'
  BY <1>2, KindAt DEF Owner, TeardownAssumption
<1>4. ~Live(q)'
  BY <1>3 DEF Live
<1>5. \A o \in Owners \ {q} : Live(o)' <=> Live(o)
  BY <1>3 DEF Live
<1>6. Spares(c)
  <2> SUFFICES ASSUME NEW o \in Owners, o # q
               PROVE  /\ desired'[o] = desired[o] /\ baseline'[o] = baseline[o]
                      /\ secrets[o] => secrets'[o]
                      /\ sound'[o] = sound[o]
                      /\ marker'[o].of = marker[o].of
                      /\ marker[o].ttl = "expired" => marker'[o].ttl = "expired"
                      /\ Live(o) /\ desired[o] \in index[ProjectOf[desired[o]]]
                           => desired[o] \in index'[ProjectOf[desired[o]]]
    BY <1>3, <1>4 DEF Spares
  <2> QED BY <1>3
<1>7. JobOK(c)' /\ DeployOK(c)' /\ CheckedOK(c)'
  BY <1>2, KindAt DEF JobOK, DeployOK, CheckedOK, At, TeardownKinds, Project
<1>8. ClearOK(c)'
  BY <1>3, <1>4 DEF ClearOK, Live
<1>9. \A f \in Footprints : f \in Ahead(job'[c]) => f \in Ahead(job[c])
  BY <1>2 DEF Ahead, TeardownKinds
<1>10. \A f \in Footprints : f \in Ahead(job[c]) /\ OwnerOf[f] # q => f \in Ahead(job'[c])
  BY <1>2, <1>3 DEF Ahead, Owner
<1>11. PruneOK(c)'
  <2> SUFFICES ASSUME job[c].kind = "prune", NEW f \in Ahead(job'[c]), Live(OwnerOf[f])'
               PROVE  marker'[OwnerOf[f]].ttl = "expired"
    BY <1>2 DEF PruneOK
  <2>1. f \in Footprints
    BY <1>1, <1>2, KindAt DEF Moves, Job, Ahead
  <2>2. PICK o \in Owners : o = OwnerOf[f]
    BY <2>1 DEF TeardownAssumption
  <2>3. o # q /\ Live(o)
    BY <1>4, <1>5, <2>2
  <2>4. marker[o].ttl = "expired"
    BY <1>9, <2>1, <2>2, <2>3 DEF TeardownInv, PruneOK
  <2> QED BY <1>3, <2>2, <2>3, <2>4
<1>12. CoversOK(c)'
  <2> SUFFICES ASSUME job[c].kind = "project", ~job[c].failed, NEW o \in Owners, Live(o)',
                      ProjectOf[desired'[o]] = Project(c)
               PROVE  desired'[o] \in Ahead(job'[c])
    BY <1>2 DEF CoversOK, Project
  <2>1. o # q /\ Live(o) /\ desired'[o] = desired[o]
    BY <1>3, <1>4, <1>5
  <2>2. desired[o] \in Ahead(job[c])
    BY <2>1 DEF TeardownInv, CoversOK
  <2>3. OwnerOf[desired[o]] = o /\ desired[o] \in Footprints
    BY <2>1 DEF TeardownInv, TypeOK, PlacesOK, Live
  <2> QED BY <1>10, <2>1, <2>2, <2>3
<1> QED BY <1>1, <1>6, <1>7, <1>8, <1>11, <1>12, StepKeeps DEF OwnOK

\* A command that goes on has a new stage, and is the same command otherwise.
LEMMA Staged ==
    ASSUME TeardownInv, NEW c \in CLIs, NEW s \in Stages, Goto(c, s)
    PROVE  \E j \in Job : /\ Becomes(c, j) /\ j.kind = job[c].kind /\ j.of = job[c].of
                          /\ j.todo = job[c].todo /\ j.failed = job[c].failed
                          /\ j.alone = job[c].alone /\ j.stage = s
<1> DEFINE j == [job[c] EXCEPT !.stage = s]
<1>1. Becomes(c, j)
  BY DEF Goto
<1>2. job[c] \in Job
  BY KindAt
<1>3. /\ j \in Job /\ j.kind = job[c].kind /\ j.of = job[c].of
      /\ j.todo = job[c].todo /\ j.failed = job[c].failed
      /\ j.alone = job[c].alone /\ j.stage = s
  BY <1>2 DEF Job
<1> HIDE DEF j
<1> QED BY <1>1, <1>3

\* remove: the services leave desired.json (undeploy.ts applyUndeploy).
LEMMA RemoveKeeps ==
    ASSUME TeardownAssumption, TeardownInv, NEW c \in CLIs, Remove(c), UNCHANGED <<starts, faults>>
    PROVE  TeardownInv'
<1>1. /\ job[c].kind \in {"base"} \cup TeardownKinds /\ job[c].stage = "remove"
      /\ Owner(c) \in Owners
  BY KindAt DEF Remove, At, Owner, TeardownAssumption
<1>2. PICK j \in Job : /\ Becomes(c, j) /\ j.kind = job[c].kind /\ j.of = job[c].of
                       /\ j.todo = job[c].todo /\ j.failed = job[c].failed
                       /\ j.stage = "unlock"
  BY Staged DEF Remove, Stages
<1>3. /\ desired' = [desired EXCEPT ![Owner(c)] = NoFootprint]
      /\ UNCHANGED <<baseline, marker, index, secrets, sound>>
  BY DEF Remove
<1>4. Moves(c, j)
  BY <1>2, BecomingMoves DEF TeardownInv, TypeOK
<1>5. TypeOK' /\ PlacesOK'
  BY <1>1, <1>3, <1>4 DEF TeardownInv, TypeOK, PlacesOK, Moves
<1>6. Owner(c)' = Owner(c)
  BY <1>2, <1>4 DEF Moves, Like, Owner
<1>7. ~Live(Owner(c))'
  BY <1>1, <1>3, <1>6 DEF Live, TeardownInv, TypeOK
<1>8. \A o \in Owners \ {Owner(c)} :
             /\ desired'[o] = desired[o] /\ baseline'[o] = baseline[o]
             /\ secrets'[o] = secrets[o] /\ sound'[o] = sound[o] /\ marker'[o] = marker[o]
  BY <1>3 DEF TeardownInv, TypeOK
<1> QED BY <1>1, <1>2, <1>3, <1>5, <1>7, <1>8, TeardownWrites

\* unlock: the baseline goes (undeploy.ts).
LEMMA UpdateBaselineKeeps ==
    ASSUME TeardownAssumption, TeardownInv, NEW c \in CLIs, UpdateBaseline(c),
           UNCHANGED <<starts, faults>>
    PROVE  TeardownInv'
<1>1. /\ job[c].kind \in {"base"} \cup TeardownKinds /\ job[c].stage = "unlock"
      /\ Owner(c) \in Owners
  BY KindAt DEF UpdateBaseline, At, Owner, TeardownAssumption
<1>2. PICK j \in Job : /\ Becomes(c, j) /\ j.kind = job[c].kind /\ j.of = job[c].of
                       /\ j.todo = job[c].todo /\ j.failed = job[c].failed
                       /\ j.stage = "wait"
  BY Staged DEF UpdateBaseline, Stages
<1>3. /\ baseline' = [baseline EXCEPT ![Owner(c)] = NoFootprint]
      /\ UNCHANGED <<desired, marker, index, secrets, sound>>
  BY DEF UpdateBaseline
<1>4. Moves(c, j)
  BY <1>2, BecomingMoves DEF TeardownInv, TypeOK
<1>5. TypeOK' /\ PlacesOK'
  BY <1>1, <1>3, <1>4 DEF TeardownInv, TypeOK, PlacesOK, Moves
<1>6. Owner(c)' = Owner(c)
  BY <1>2, <1>4 DEF Moves, Like, Owner
<1>7. ~Live(Owner(c))'
  BY <1>1, <1>3, <1>6 DEF Live, TeardownInv, ClearOK, Past
<1>8. \A o \in Owners \ {Owner(c)} :
             /\ desired'[o] = desired[o] /\ baseline'[o] = baseline[o]
             /\ secrets'[o] = secrets[o] /\ sound'[o] = sound[o] /\ marker'[o] = marker[o]
  BY <1>3 DEF TeardownInv, TypeOK
<1> QED BY <1>1, <1>2, <1>3, <1>5, <1>7, <1>8, TeardownWrites

\* purge: the secrets go (destroy.ts --purge-secrets).
LEMMA PurgeKeeps ==
    ASSUME TeardownAssumption, TeardownInv, NEW c \in CLIs, Purge(c), UNCHANGED <<starts, faults>>
    PROVE  TeardownInv'
<1>1. /\ job[c].kind \in {"base"} \cup TeardownKinds /\ job[c].stage = "purge"
      /\ Owner(c) \in Owners
  BY KindAt DEF Purge, At, Owner, TeardownAssumption
<1>2. PICK s \in {"unregister", "keys"} :
        Goto(c, s) /\ s = (IF job[c].kind = "base" THEN "unregister" ELSE "keys")
  BY DEF Purge
<1>3. s \in Stages
  BY DEF Stages
<1>4. PICK j \in Job : /\ Becomes(c, j) /\ j.kind = job[c].kind /\ j.of = job[c].of
                       /\ j.todo = job[c].todo /\ j.failed = job[c].failed
                       /\ j.stage = s
  BY <1>2, <1>3, Staged
<1>5. /\ secrets' = [secrets EXCEPT ![Owner(c)] = FALSE]
      /\ UNCHANGED <<desired, baseline, marker, index, sound>>
  BY DEF Purge
<1>6. Moves(c, j)
  BY <1>4, BecomingMoves DEF TeardownInv, TypeOK
<1>7. TypeOK' /\ PlacesOK'
  BY <1>1, <1>5, <1>6 DEF TeardownInv, TypeOK, PlacesOK, Moves
<1>8. Owner(c)' = Owner(c)
  BY <1>4, <1>6 DEF Moves, Like, Owner
<1>9. ~Live(Owner(c))'
  BY <1>1, <1>5, <1>8 DEF Live, TeardownInv, ClearOK, Past
<1>10. \A o \in Owners \ {Owner(c)} :
             /\ desired'[o] = desired[o] /\ baseline'[o] = baseline[o]
             /\ secrets'[o] = secrets[o] /\ sound'[o] = sound[o] /\ marker'[o] = marker[o]
  BY <1>5 DEF TeardownInv, TypeOK
<1>11. \/ j.kind = "base" /\ j.stage \in {"unlock", "wait", "unregister"}
       \/ j.kind \in TeardownKinds /\ j.stage \in {"unlock", "wait", "keys", "next"}
  BY <1>1, <1>2, <1>4 DEF TeardownKinds
<1> QED BY <1>1, <1>4, <1>5, <1>7, <1>9, <1>10, <1>11, TeardownWrites

\* sweep: the listed keys go (s3-state.ts deletePrefix), and the next one's turn
\* comes.
LEMMA SweepKeeps ==
    ASSUME TeardownAssumption, TeardownInv, NEW c \in CLIs, Sweep(c), UNCHANGED <<starts, faults>>
    PROVE  TeardownInv'
<1>1. /\ job[c].kind \in TeardownKinds /\ job[c].stage = "sweep"
      /\ Owner(c) \in Owners /\ job[c] \in Job
  BY KindAt DEF Sweep, At, Owner, TeardownAssumption
<1>2. Becomes(c, [job[c] EXCEPT !.stage = "next", !.failed = job[c].failed \/ FALSE])
  <2>1. job[c].kind # "base"
    BY <1>1 DEF TeardownKinds
  <2> QED BY <2>1, Zenon DEF Sweep, NextOrEnd
<1>3. PICK b \in BOOLEAN : b = (job[c].failed \/ FALSE)
  OBVIOUS
<1>4. b = job[c].failed
  <2>1. job[c].failed \in BOOLEAN
    BY <1>1 DEF Job
  <2> QED BY <1>3, <2>1, Zenon
<1> DEFINE j == [job[c] EXCEPT !.stage = "next", !.failed = b]
<1>5. Becomes(c, j)
  BY <1>2, <1>3, Zenon
<1>6. /\ j \in Job /\ j.kind = job[c].kind /\ j.of = job[c].of
      /\ j.todo = job[c].todo /\ j.failed = b /\ j.stage = "next"
  BY <1>1 DEF Job, Stages
<1> HIDE DEF j
<1>7. /\ baseline' = [baseline EXCEPT
           ![Owner(c)] = IF "baseline" \in job[c].keys THEN NoFootprint ELSE @]
      /\ marker' = [marker EXCEPT
           ![Owner(c)] = IF "marker" \in job[c].keys THEN NoMarker ELSE @]
      /\ UNCHANGED <<desired, index, secrets, sound>>
  BY DEF Sweep
<1>8. Moves(c, j)
  BY <1>5, <1>6, BecomingMoves DEF TeardownInv, TypeOK
<1>9. TypeOK' /\ PlacesOK'
  BY <1>1, <1>7, <1>8 DEF TeardownInv, TypeOK, PlacesOK, Moves
<1>10. Owner(c)' = Owner(c)
  BY <1>6, <1>8 DEF Moves, Like, Owner
<1>11. ~Live(Owner(c))'
  BY <1>1, <1>7, <1>10 DEF Live, TeardownInv, ClearOK, Past
<1>12. \A o \in Owners \ {Owner(c)} :
             /\ desired'[o] = desired[o] /\ baseline'[o] = baseline[o]
             /\ secrets'[o] = secrets[o] /\ sound'[o] = sound[o] /\ marker'[o] = marker[o]
  BY <1>7 DEF TeardownInv, TypeOK
<1> QED BY <1>1, <1>4, <1>5, <1>6, <1>7, <1>9, <1>11, <1>12, TeardownWrites

\* What a deploy writes while it is under way leaves the name not live, or is
\* what it has written already.
LEMMA DeployWrites ==
    ASSUME TeardownAssumption, TeardownInv, NEW c \in CLIs, NEW j \in Job, Becomes(c, j),
           job[c].kind = "deploy", job[c].stage \in {"publish", "baseline", "index"},
           j.kind = "deploy", j.of = job[c].of,
           j.stage \in {"baseline", "index", "marker"},
           j.stage = "marker" => j.of \in Envs, j.todo = job[c].todo,
           j.alone => job[c].alone,
           ~Live(Owner(c))', UNCHANGED <<marker, secrets, starts, faults>>,
           job[c].alone => desired'[Owner(c)] = job[c].of,
           j.stage = "index" => baseline'[Owner(c)] = job[c].of,
           j.stage = "marker" => At(c, "index") /\ baseline'[Owner(c)] = baseline[Owner(c)],
           \A o \in Owners \ {Owner(c)} :
             desired'[o] = desired[o] /\ baseline'[o] = baseline[o] /\ sound'[o] = sound[o],
           \A p \in Projects : index[p] \subseteq index'[p],
           TypeOK', PlacesOK'
    PROVE  TeardownInv'
<1>1. Moves(c, j)
  BY BecomingMoves DEF TeardownInv, TypeOK
<1>2. /\ job'[c].kind = j.kind /\ job'[c].of = j.of
      /\ job'[c].stage = j.stage /\ job'[c].todo = j.todo
      /\ job'[c].alone => job[c].alone
  BY <1>1 DEF Moves, Like
<1>3. PICK q \in Owners : q = Owner(c) /\ q = Owner(c)'
  BY <1>2, KindAt DEF Owner, TeardownAssumption
<1>4. ~Live(q)'
  BY <1>3 DEF Live
<1>5. Spares(c)
  <2> SUFFICES ASSUME NEW o \in Owners, o # q
               PROVE  /\ desired'[o] = desired[o] /\ baseline'[o] = baseline[o]
                      /\ secrets[o] => secrets'[o]
                      /\ sound'[o] = sound[o]
                      /\ marker'[o].of = marker[o].of
                      /\ marker[o].ttl = "expired" => marker'[o].ttl = "expired"
                      /\ Live(o) /\ desired[o] \in index[ProjectOf[desired[o]]]
                           => desired[o] \in index'[ProjectOf[desired[o]]]
    BY <1>3, <1>4 DEF Spares
  <2>1. Live(o) => ProjectOf[desired[o]] \in Projects
    BY DEF Live, TeardownInv, TypeOK, TeardownAssumption
  <2> QED BY <1>3, <2>1
<1>6. JobOK(c)' /\ CheckedOK(c)' /\ PruneOK(c)' /\ CoversOK(c)'
  BY <1>2 DEF JobOK, CheckedOK, PruneOK, CoversOK, At, TeardownKinds
<1>7. ClearOK(c)'
  BY <1>3, <1>4 DEF ClearOK, Live
<1>8. DeployOK(c)'
  <2>1. DeployOK(c)
    BY DEF TeardownInv
  <2> QED BY <1>2, <1>3, <2>1 DEF DeployOK, At
<1> QED BY <1>1, <1>5, <1>6, <1>7, <1>8, StepKeeps DEF OwnOK

\* publish: the services come into desired.json (deploy.ts).
LEMMA PublishKeeps ==
    ASSUME TeardownAssumption, TeardownInv, NEW c \in CLIs, Publish(c), UNCHANGED <<starts, faults>>
    PROVE  TeardownInv'
<1>1. /\ job[c].kind = "deploy" /\ job[c].stage = "publish"
      /\ Owner(c) \in Owners /\ job[c].of \in Footprints
  BY KindAt DEF Publish, At, Owner, TeardownAssumption
<1>2. PICK j \in Job : /\ Becomes(c, j) /\ j.kind = job[c].kind /\ j.of = job[c].of
                       /\ j.todo = job[c].todo /\ j.alone = job[c].alone
                       /\ j.stage = "baseline"
  BY Staged DEF Publish, Stages
<1>3. /\ desired' = [desired EXCEPT ![Owner(c)] = job[c].of]
      /\ sound' = [sound EXCEPT ![Owner(c)] = FALSE]
      /\ UNCHANGED <<baseline, marker, index, secrets>>
  BY DEF Publish
<1>4. Moves(c, j)
  BY <1>2, BecomingMoves DEF TeardownInv, TypeOK
<1>5. TypeOK'
  BY <1>1, <1>3, <1>4 DEF TeardownInv, TypeOK, Moves
<1>6. PlacesOK'
  BY <1>1, <1>3 DEF TeardownInv, TypeOK, PlacesOK, Owner
<1>7. Owner(c)' = Owner(c)
  BY <1>2, <1>4 DEF Moves, Like, Owner
<1>8. ~Live(Owner(c))'
  BY <1>1, <1>3, <1>7 DEF Live, TeardownInv, TypeOK
<1>9. /\ desired'[Owner(c)] = job[c].of
      /\ \A o \in Owners \ {Owner(c)} :
           desired'[o] = desired[o] /\ baseline'[o] = baseline[o] /\ sound'[o] = sound[o]
  BY <1>1, <1>3 DEF TeardownInv, TypeOK
<1> QED BY <1>1, <1>2, <1>3, <1>5, <1>6, <1>8, <1>9, DeployWrites

\* baseline: the configuration baseline is put (deploy.ts).
LEMMA WriteBaselineKeeps ==
    ASSUME TeardownAssumption, TeardownInv, NEW c \in CLIs, WriteBaseline(c),
           UNCHANGED <<starts, faults>>
    PROVE  TeardownInv'
<1>1. /\ job[c].kind = "deploy" /\ job[c].stage = "baseline"
      /\ Owner(c) \in Owners /\ job[c].of \in Footprints
  BY KindAt DEF WriteBaseline, At, Owner, TeardownAssumption
<1>2. PICK j \in Job : /\ Becomes(c, j) /\ j.kind = job[c].kind /\ j.of = job[c].of
                       /\ j.todo = job[c].todo /\ j.alone = job[c].alone
                       /\ j.stage = "index"
  BY Staged DEF WriteBaseline, Stages
<1>3. /\ baseline' = [baseline EXCEPT ![Owner(c)] = job[c].of]
      /\ UNCHANGED <<desired, marker, index, secrets, sound>>
  BY DEF WriteBaseline
<1>4. Moves(c, j)
  BY <1>2, BecomingMoves DEF TeardownInv, TypeOK
<1>5. TypeOK' /\ PlacesOK'
  BY <1>1, <1>3, <1>4 DEF TeardownInv, TypeOK, PlacesOK, Moves
<1>6. Owner(c)' = Owner(c)
  BY <1>2, <1>4 DEF Moves, Like, Owner
<1>7. ~Live(Owner(c))'
  BY <1>1, <1>3, <1>6 DEF Live, TeardownInv, ClearOK, Past
<1>8. /\ baseline'[Owner(c)] = job[c].of
      /\ job[c].alone => desired'[Owner(c)] = job[c].of
      /\ \A o \in Owners \ {Owner(c)} :
           desired'[o] = desired[o] /\ baseline'[o] = baseline[o] /\ sound'[o] = sound[o]
  BY <1>1, <1>3 DEF TeardownInv, TypeOK, DeployOK
<1> QED BY <1>1, <1>2, <1>3, <1>5, <1>7, <1>8, DeployWrites

\* A deploy ends: its footprint is live if nobody met it, and then all that says
\* so is there.
LEMMA DoneKeeps ==
    ASSUME TeardownAssumption, TeardownInv, NEW c \in CLIs, Done(c),
           job[c].kind = "deploy", job[c].stage \in {"index", "marker"},
           UNCHANGED <<desired, baseline, secrets, starts, faults>>,
           marker' \in [Owners -> Marker \cup {NoMarker}],
           \A o \in Owners \ {Owner(c)} : marker'[o] = marker[o],
           \A p \in Projects : index[p] \subseteq index'[p],
           index' \in [Projects -> SUBSET Bases],
           \A p \in Projects : \A b \in index'[p] : ProjectOf[b] = p,
           IF job[c].of \in Envs THEN marker'[Owner(c)].of = job[c].of
                                 ELSE job[c].of \in index'[ProjectOf[job[c].of]]
    PROVE  TeardownInv'
<1>1. /\ Idle \in Job /\ Moves(c, Idle)
  BY IdleIsAJob, BecomingMoves DEF Done, Finish, TeardownInv, TypeOK
<1>2. PICK q \in Owners : q = Owner(c)
  BY KindAt DEF Owner, TeardownAssumption
<1>3. PICK b \in BOOLEAN : b = job[c].alone
  BY KindAt DEF Job
<1>4. sound' = [sound EXCEPT ![q] = b]
  BY <1>2, <1>3 DEF Done
<1>5. TypeOK'
  BY <1>1, <1>2, <1>3, <1>4 DEF TeardownInv, TypeOK, Moves
<1>6. PlacesOK'
  BY DEF TeardownInv, PlacesOK
<1>7. Spares(c)
  <2> SUFFICES ASSUME NEW o \in Owners
               PROVE  \/ /\ o # q
                         /\ sound'[o] = sound[o]
                         /\ marker'[o].of = marker[o].of
                         /\ marker[o].ttl = "expired" => marker'[o].ttl = "expired"
                         /\ Live(o) /\ desired[o] \in index[ProjectOf[desired[o]]]
                              => desired[o] \in index'[ProjectOf[desired[o]]]
                      \/ /\ o = q
                         /\ ~b => ~Live(o)'
                         /\ b => desired'[o] = job[c].of /\ Accounted(o)'
    BY <1>2, <1>3, Zenon DEF Spares
  <2>1. CASE o # q
    <3>1. Live(o) => ProjectOf[desired[o]] \in Projects
      BY DEF Live, TeardownInv, TypeOK, TeardownAssumption
    <3>2. sound'[o] = sound[o] /\ marker'[o] = marker[o]
      BY <1>2, <1>4, <2>1 DEF TeardownInv, TypeOK
    <3> QED BY <2>1, <3>1, <3>2
  <2>2. CASE o = q
    <3>1. ~b => ~Live(o)'
      BY <1>4, <2>2 DEF Live, TeardownInv, TypeOK
    <3>2. ASSUME b
          PROVE  desired'[o] = job[c].of /\ Accounted(o)'
      <4>1. DeployOK(c) /\ job[c].alone
        BY <3>2, <1>3 DEF TeardownInv
      <4>2. secrets[o] /\ desired[o] = job[c].of
        BY <1>2, <2>2, <4>1 DEF DeployOK
      <4>3. baseline[o] = job[c].of
        BY <1>2, <2>2, <4>1 DEF DeployOK
      <4>4. IF job[c].of \in Envs THEN marker'[o].of = job[c].of
                                  ELSE job[c].of \in index'[ProjectOf[job[c].of]]
        BY <1>2, <2>2
      <4> QED BY <4>2, <4>3, <4>4 DEF Accounted
    <3> QED BY <2>2, <3>1, <3>2
  <2> QED BY <2>1, <2>2
<1> QED BY <1>1, <1>5, <1>6, <1>7, IdleOwesNothing, StepKeeps

\* index: the component is registered with its project (registry.ts), and a base
\* footprint's deploy is over.
LEMMA UpsertIndexKeeps ==
    ASSUME TeardownAssumption, TeardownInv, NEW c \in CLIs, UpsertIndex(c),
           UNCHANGED <<starts, faults>>
    PROVE  TeardownInv'
<1>1. /\ job[c].kind = "deploy" /\ job[c].stage = "index"
      /\ Owner(c) \in Owners /\ Project(c) \in Projects /\ job[c].of \in Footprints
      /\ BaseOf[job[c].of] \in Bases /\ ProjectOf[BaseOf[job[c].of]] = Project(c)
  BY KindAt DEF UpsertIndex, At, Owner, Project, TeardownAssumption
<1>2. /\ index' = [index EXCEPT ![Project(c)] = @ \cup {BaseOf[job[c].of]}]
      /\ UNCHANGED <<desired, baseline, marker, secrets>>
  BY DEF UpsertIndex
<1>3. /\ index' \in [Projects -> SUBSET Bases]
      /\ \A p \in Projects : index[p] \subseteq index'[p]
      /\ \A p \in Projects : \A b \in index'[p] : ProjectOf[b] = p
      /\ BaseOf[job[c].of] \in index'[Project(c)]
  <2>1. index \in [Projects -> SUBSET Bases]
    BY DEF TeardownInv, TypeOK
  <2>2. \A p \in Projects : index'[p] = IF p = Project(c)
                                        THEN index[p] \cup {BaseOf[job[c].of]} ELSE index[p]
    BY <1>2, <2>1
  <2>3. \A p \in Projects : \A b \in index[p] : ProjectOf[b] = p
    BY DEF TeardownInv, PlacesOK
  <2> QED BY <1>1, <1>2, <2>1, <2>2, <2>3
<1>4. CASE job[c].of \in Bases /\ Done(c)
  <2>1. BaseOf[job[c].of] = job[c].of /\ job[c].of \notin Envs
    BY <1>4 DEF TeardownAssumption
  <2>2. marker' \in [Owners -> Marker \cup {NoMarker}] /\ \A o \in Owners : marker'[o] = marker[o]
    BY <1>2 DEF TeardownInv, TypeOK
  <2> QED BY <1>1, <1>2, <1>3, <1>4, <2>1, <2>2, DoneKeeps DEF Project
<1>5. CASE job[c].of \in Envs /\ Goto(c, "marker") /\ UNCHANGED sound
  <2>1. PICK j \in Job : /\ Becomes(c, j) /\ j.kind = job[c].kind /\ j.of = job[c].of
                         /\ j.todo = job[c].todo /\ j.alone = job[c].alone
                         /\ j.stage = "marker"
    BY <1>5, Staged DEF Stages
  <2>2. Moves(c, j)
    BY <2>1, BecomingMoves DEF TeardownInv, TypeOK
  <2>3. TypeOK' /\ PlacesOK'
    BY <1>2, <1>3, <1>5, <2>2 DEF TeardownInv, TypeOK, PlacesOK, Moves
  <2>4. Owner(c)' = Owner(c)
    BY <2>1, <2>2 DEF Moves, Like, Owner
  <2>5. ~Live(Owner(c))'
    BY <1>1, <1>2, <1>5, <2>4 DEF Live, TeardownInv, ClearOK, Past
  <2>6. /\ job[c].alone => desired'[Owner(c)] = job[c].of
        /\ At(c, "index")
    BY <1>1, <1>2 DEF TeardownInv, DeployOK, At
  <2> QED BY <1>1, <1>2, <1>3, <1>5, <2>1, <2>3, <2>5, <2>6, DeployWrites
<1> QED BY <1>4, <1>5 DEF UpsertIndex

\* marker: an environment's deploy puts its marker and is over (markers.ts).
LEMMA RecordPreviewStateKeeps ==
    ASSUME TeardownAssumption, TeardownInv, NEW c \in CLIs, RecordPreviewState(c),
           UNCHANGED <<starts, faults>>
    PROVE  TeardownInv'
<1>1. /\ job[c].kind = "deploy" /\ job[c].stage = "marker"
      /\ Owner(c) \in Owners /\ job[c].of \in Envs
  BY KindAt DEF RecordPreviewState, At, Owner, TeardownAssumption
<1>2. PICK m : m = BuildPreviewMarker(c)
  OBVIOUS
<1>3. marker \in [Owners -> Marker \cup {NoMarker}]
  BY DEF TeardownInv, TypeOK
<1>4. marker[Owner(c)].ttl \in {"none", "runs", "expired"}
  BY <1>1, <1>3 DEF Marker, NoMarker
<1>5. m \in Marker /\ m.of = job[c].of
  BY <1>1, <1>2, <1>4 DEF BuildPreviewMarker, Marker
<1>6. /\ marker' = [marker EXCEPT ![Owner(c)] = m] /\ Done(c)
      /\ UNCHANGED <<desired, baseline, index, secrets>>
  BY <1>2 DEF RecordPreviewState
<1>7. /\ marker' \in [Owners -> Marker \cup {NoMarker}]
      /\ \A o \in Owners \ {Owner(c)} : marker'[o] = marker[o]
      /\ marker'[Owner(c)].of = job[c].of
  BY <1>1, <1>3, <1>5, <1>6
<1>8. /\ index' \in [Projects -> SUBSET Bases]
      /\ \A p \in Projects : index[p] \subseteq index'[p]
      /\ \A p \in Projects : \A b \in index'[p] : ProjectOf[b] = p
  BY <1>6 DEF TeardownInv, TypeOK, PlacesOK
<1> QED BY <1>1, <1>6, <1>7, <1>8, DoneKeeps

\* A teardown ends with a change of the index that takes nothing live off it.
LEMMA UnlistingKeeps ==
    ASSUME TeardownAssumption, TeardownInv, NEW c \in CLIs, Finish(c),
           UNCHANGED <<desired, baseline, marker, secrets, sound, starts, faults>>,
           index' \in [Projects -> SUBSET Bases],
           \A p \in Projects : index'[p] \subseteq index[p],
           \A o \in Owners : Live(o) /\ desired[o] \in index[ProjectOf[desired[o]]]
                               => desired[o] \in index'[ProjectOf[desired[o]]]
    PROVE  TeardownInv'
<1>1. /\ Idle \in Job /\ Moves(c, Idle)
  BY IdleIsAJob, BecomingMoves DEF Finish, TeardownInv, TypeOK
<1>2. TypeOK' /\ PlacesOK'
  BY <1>1 DEF TeardownInv, TypeOK, PlacesOK, Moves
<1>3. Spares(c)
  BY DEF Spares
<1> QED BY <1>1, <1>2, <1>3, IdleOwesNothing, StepKeeps

\* unregister: a base footprint's destroy takes its component off the index
\* (registry.ts).  The component is not live: its services were removed.
LEMMA RemoveFromProjectIndexKeeps ==
    ASSUME TeardownAssumption, TeardownInv, NEW c \in CLIs, RemoveFromProjectIndex(c),
           UNCHANGED <<starts, faults>>
    PROVE  TeardownInv'
<1>1. /\ index \in [Projects -> SUBSET Bases] /\ Project(c) \in Projects
      /\ index' = [index EXCEPT ![Project(c)] = @ \ {job[c].of}]
  BY KindAt DEF TeardownInv, TypeOK, RemoveFromProjectIndex, Project, TeardownAssumption
<1>2. ASSUME NEW o \in Owners, Live(o)
      PROVE  desired[o] # job[c].of
  <2>1. OwnerOf[desired[o]] = o
    BY <1>2 DEF TeardownInv, PlacesOK, Live
  <2>2. ~Live(Owner(c))
    BY DEF TeardownInv, ClearOK, Past, RemoveFromProjectIndex, At
  <2> QED BY <1>2, <2>1, <2>2 DEF Owner
<1>3. /\ index' \in [Projects -> SUBSET Bases]
      /\ \A p \in Projects : index'[p] \subseteq index[p]
  BY <1>1
<1>4. ASSUME NEW o \in Owners, Live(o), desired[o] \in index[ProjectOf[desired[o]]]
      PROVE  desired[o] \in index'[ProjectOf[desired[o]]]
  <2>1. ProjectOf[desired[o]] \in Projects
    BY <1>4 DEF Live, TeardownInv, TypeOK, TeardownAssumption
  <2> QED BY <1>1, <1>2, <1>4, <2>1
<1> QED BY <1>3, <1>4, UnlistingKeeps DEF RemoveFromProjectIndex

\* next, with nothing left to tear down: a project's destroy that has not failed
\* deletes the index (destroy.ts), which no live footprint is on.
LEMMA LastKeeps ==
    ASSUME TeardownAssumption, TeardownInv, NEW c \in CLIs, Last(c), UNCHANGED <<starts, faults>>
    PROVE  TeardownInv'
<1>1. CASE UNCHANGED index
  <2>1. starts' \in 0 .. MaxStarts /\ faults' \in 0 .. MaxFaults /\ UNCHANGED <<state, sound>>
    BY <1>1 DEF TeardownInv, TypeOK, Last, state
  <2> QED BY <2>1, QuietFinishKeeps DEF Last
<1>2. CASE /\ job[c].kind = "project" /\ IndexGoes(c)
           /\ index' = [index EXCEPT ![Project(c)] = {}]
  <2>1. index \in [Projects -> SUBSET Bases] /\ Project(c) \in Projects
    BY KindAt DEF TeardownInv, TypeOK, Project, TeardownAssumption
  <2>2. /\ index' \in [Projects -> SUBSET Bases]
        /\ \A p \in Projects : index'[p] \subseteq index[p]
    BY <1>2, <2>1
  <2>3. Ahead(job[c]) = {}
    BY DEF Last, At, Ahead
  <2>4. \A o \in Owners : Live(o) => ProjectOf[desired[o]] # Project(c)
    BY <1>2, <2>3 DEF TeardownInv, CoversOK, IndexGoes, Last, At
  <2>5. ASSUME NEW o \in Owners, Live(o), desired[o] \in index[ProjectOf[desired[o]]]
        PROVE  desired[o] \in index'[ProjectOf[desired[o]]]
    <3>1. ProjectOf[desired[o]] \in Projects
      BY <2>5 DEF Live, TeardownInv, TypeOK, TeardownAssumption
    <3> QED BY <1>2, <2>1, <2>4, <2>5, <3>1
  <2> QED BY <2>2, <2>5, UnlistingKeeps DEF Last
<1> QED BY <1>1, <1>2 DEF Last

-----------------------------------------------------------------------------
(* Failures, and what goes on beside the commands                           *)

\* A call fails (destroy.ts, markers.ts: what is caught and what is not).
LEMMA FailKeeps ==
    ASSUME TeardownAssumption, TeardownInv, NEW c \in CLIs, Fail(c)
    PROVE  TeardownInv'
<1>1. starts' \in 0 .. MaxStarts /\ faults' \in 0 .. MaxFaults /\ UNCHANGED <<state, sound>>
  BY DEF TeardownInv, TypeOK, Fail, TeardownAssumption
<1>2. PICK s \in {"unregister", "keys"} :
        s = (IF job[c].kind = "base" THEN "unregister" ELSE "keys")
  OBVIOUS
<1>3. CASE job[c].kind = "deploy"
  <2>1. job[c].stage \notin {"purge", "list", "next"}
    BY <1>3, KindAt DEF TeardownKinds
  <2>2. Finish(c)
    BY <1>3, <2>1 DEF Fail, At
  <2> QED BY <1>1, <2>2, QuietFinishKeeps
<1>4. CASE job[c].kind # "deploy" /\ job[c].stage = "purge"
  <2>1. Goto(c, s)
    BY <1>2, <1>4 DEF Fail, At
  <2>2. s = "keys" => job[c].kind # "base"
    BY <1>2
  <2>3. s = "unregister" => job[c].kind = "base"
    BY <1>2
  <2> QED BY <1>1, <1>4, <2>1, <2>2, <2>3, PastGoes
<1>5. CASE job[c].kind # "deploy" /\ job[c].stage \in {"list", "next"}
  <2>1. Finish(c)
    BY <1>5 DEF Fail, At
  <2> QED BY <1>1, <2>1, QuietFinishKeeps
<1>6. CASE job[c].kind # "deploy" /\ job[c].stage \notin {"purge", "list", "next"}
  <2>1. NextOrEnd(c, TRUE) /\ job[c].kind \in {"base"} \cup TeardownKinds
    BY <1>6, KindAt DEF Fail, At
  <2> QED BY <1>1, <2>1, FailingKeeps
<1> QED BY <1>3, <1>4, <1>5, <1>6

\* A process is killed where it stands.
LEMMA KillKeeps ==
    ASSUME TeardownAssumption, TeardownInv, NEW c \in CLIs, Kill(c)
    PROVE  TeardownInv'
<1>1. starts' \in 0 .. MaxStarts /\ faults' \in 0 .. MaxFaults /\ UNCHANGED <<state, sound>>
  BY DEF TeardownInv, TypeOK, Kill, TeardownAssumption
<1> QED BY <1>1, QuietFinishKeeps DEF Kill

\* Time runs out for an environment, or secrets are set: no command moves.
LEMMA BesideKeeps ==
    ASSUME TeardownAssumption, TeardownInv, UNCHANGED <<desired, baseline, index, job, sound>>,
           TypeOK',
           \A o \in Owners : /\ secrets[o] => secrets'[o]
                             /\ marker'[o].of = marker[o].of
                             /\ marker[o].ttl = "expired" => marker'[o].ttl = "expired"
    PROVE  TeardownInv'
<1>1. \A o : Live(o)' <=> Live(o)
  BY DEF Live
<1>2. PlacesOK' /\ AloneOK'
  <2>1. PlacesOK'
    BY DEF TeardownInv, PlacesOK
  <2>2. AloneOK /\ job' = job
    BY DEF TeardownInv
  <2>3. AloneOK'
    <3> SUFFICES ASSUME NEW c \in CLIs, NEW d \in CLIs, c # d,
                        job'[c].stage # "idle", job'[d].stage # "idle",
                        job'[c].kind = "deploy", job'[c].alone
                 PROVE  ~Meet(job'[c], job'[d])
      BY Zenon DEF AloneOK, Active, At
    <3> QED BY <2>2, Zenon DEF AloneOK, Active, At
  <2> QED BY <2>1, <2>3
<1>3. AccountedOK'
  BY <1>1 DEF TeardownInv, AccountedOK, Accounted
<1>4. ASSUME NEW c \in CLIs
      PROVE  OwnOK(c)'
  <2>1. job[c].of \in Footprints /\ Owner(c) \in Owners
    BY KindAt DEF Owner, TeardownAssumption
  <2>2. JobOK(c)' /\ DeployOK(c)' /\ ClearOK(c)' /\ CheckedOK(c)'
    BY <2>1 DEF TeardownInv, JobOK, DeployOK, ClearOK, CheckedOK, Owner, Project, Live, At
  <2>3. PruneOK(c)'
    <3> SUFFICES ASSUME job[c].kind = "prune", NEW f \in Ahead(job[c]), Live(OwnerOf[f])
                 PROVE  marker'[OwnerOf[f]].ttl = "expired"
      BY DEF PruneOK, Live
    <3>1. marker[OwnerOf[f]].ttl = "expired"
      BY DEF TeardownInv, PruneOK
    <3>2. f \in Footprints
      BY KindAt DEF Ahead
    <3> QED BY <3>1, <3>2 DEF TeardownAssumption
  <2>4. CoversOK(c)'
    BY DEF TeardownInv, CoversOK, Live, Project
  <2> QED BY <2>2, <2>3, <2>4 DEF OwnOK
<1> QED BY <1>2, <1>3, <1>4 DEF TeardownInv, OwnOK

\* An environment's time to live runs out (markers.ts).
LEMMA ExpireKeeps ==
    ASSUME TeardownAssumption, TeardownInv, NEW q \in Owners, Expire(q)
    PROVE  TeardownInv'
<1>1. marker \in [Owners -> Marker \cup {NoMarker}] /\ marker[q].ttl = "runs"
  BY DEF TeardownInv, TypeOK, Expire
<1>2. marker[q] \in Marker
  BY <1>1 DEF NoMarker
<1>3. PICK m : m = [marker[q] EXCEPT !.ttl = "expired"]
  OBVIOUS
<1>4. m \in Marker /\ m.of = marker[q].of /\ m.ttl = "expired"
  BY <1>2, <1>3 DEF Marker
<1>5. marker' = [marker EXCEPT ![q] = m]
  BY <1>3 DEF Expire
<1>6. /\ marker' \in [Owners -> Marker \cup {NoMarker}]
      /\ \A o \in Owners : /\ marker'[o].of = marker[o].of
                           /\ marker[o].ttl = "expired" => marker'[o].ttl = "expired"
  BY <1>1, <1>4, <1>5
<1>7. UNCHANGED <<desired, baseline, index, job, sound, secrets, starts, faults>>
  BY DEF Expire
<1>8. TypeOK'
  BY <1>6, <1>7 DEF TeardownInv, TypeOK
<1> QED BY <1>6, <1>7, <1>8, BesideKeeps

\* secret set puts an owner's secrets back (secret/index.ts).
LEMMA SetSecretsKeeps ==
    ASSUME TeardownAssumption, TeardownInv, NEW q \in Owners, SetSecrets(q)
    PROVE  TeardownInv'
<1>1. /\ secrets' \in [Owners -> BOOLEAN]
      /\ \A o \in Owners : secrets[o] => secrets'[o]
  BY DEF SetSecrets, TeardownInv, TypeOK
<1>2. UNCHANGED <<desired, baseline, index, job, sound, marker, starts, faults>>
  BY DEF SetSecrets
<1>3. TypeOK'
  BY <1>1, <1>2 DEF TeardownInv, TypeOK
<1> QED BY <1>1, <1>2, <1>3, BesideKeeps

-----------------------------------------------------------------------------
(* The invariant                                                            *)

\* In an empty bucket the invariant holds.
LEMMA InitHolds ==
    ASSUME TeardownAssumption, Init
    PROVE  TeardownInv
<1>1. Idle \in Job
  BY IdleIsAJob
<1>2. TypeOK
  BY <1>1 DEF Init, TypeOK, TeardownAssumption
<1>3. PlacesOK /\ AccountedOK /\ \A o \in Owners : ~Live(o)
  BY DEF Init, PlacesOK, AccountedOK, Live
<1>4. \A c \in CLIs : job[c].kind = "deploy" /\ job[c].stage = "idle"
  BY DEF Init, Idle
<1>5. AloneOK
  BY <1>4 DEF AloneOK, Active, At
<1>6. \A c \in CLIs : JobOK(c) /\ DeployOK(c) /\ ClearOK(c)
  BY <1>4 DEF JobOK, DeployOK, ClearOK, TeardownKinds, Past
<1>7. \A c \in CLIs : CheckedOK(c) /\ PruneOK(c) /\ CoversOK(c)
  BY <1>4 DEF CheckedOK, PruneOK, CoversOK, At
<1> QED BY <1>2, <1>3, <1>5, <1>6, <1>7 DEF TeardownInv

\* Every step of every command, failure and user keeps the invariant.
LEMMA NextKeeps ==
    ASSUME TeardownAssumption, TeardownInv, [Next]_vars
    PROVE  TeardownInv'
<1>1. CASE UNCHANGED vars
  <2>1. TypeOK'
    BY <1>1 DEF TeardownInv, TypeOK, vars, state
  <2> QED BY <1>1, <2>1, BesideKeeps DEF vars, state
<1>2. ASSUME NEW c \in CLIs, Start(c) \/ Prune(c) \/ Fail(c) \/ Kill(c)
      PROVE  TeardownInv'
  BY <1>2, StartKeeps, PruneKeeps, FailKeeps, KillKeeps
<1>3. ASSUME NEW c \in CLIs, Deploy(c), UNCHANGED <<starts, faults>>
      PROVE  TeardownInv'
  BY <1>3, LockKeeps, AssertSecretsKeeps, PublishKeeps, WriteBaselineKeeps, UpsertIndexKeeps,
     RecordPreviewStateKeeps DEF Deploy
<1>4. ASSUME NEW c \in CLIs, Destroy(c), UNCHANGED <<starts, faults>>
      PROVE  TeardownInv'
  BY <1>4, ListKeeps, TakeKeeps, LastKeeps, CheckKeeps, PlanKeeps, RemoveKeeps,
     UpdateBaselineKeeps, WaitKeeps, PurgeKeeps, ListKeysKeeps, SweepKeeps,
     RemoveFromProjectIndexKeeps DEF Destroy
<1>5. ASSUME NEW o \in Owners, Expire(o) \/ SetSecrets(o)
      PROVE  TeardownInv'
  BY <1>5, ExpireKeeps, SetSecretsKeeps
<1> QED BY <1>1, <1>2, <1>3, <1>4, <1>5 DEF Next, Step

\* The invariant holds of every behaviour of deploys and teardowns.
THEOREM Invariant ==
    ASSUME TeardownAssumption
    PROVE  Spec => []TeardownInv
<1>1. Init => TeardownInv
  BY InitHolds
<1>2. TeardownInv /\ [Next]_vars => TeardownInv'
  BY NextKeeps
<1> QED BY <1>1, <1>2, PTL DEF Spec

\* What a deploy that ran by itself has put up stays listed, locked and provided
\* with its secrets until it is removed, whatever destroy.ts tears down beside it
\* and wherever a teardown fails or is killed.
THEOREM LiveAlwaysAccountedFor ==
    ASSUME TeardownAssumption
    PROVE  Spec => []LiveIsAccountedFor
<1>1. TeardownInv => LiveIsAccountedFor
  BY DEF TeardownInv, LiveIsAccountedFor, AccountedOK, Live
<1> QED BY <1>1, Invariant, PTL

\* At the removal of an environment, what is live under its name is of its
\* project, and expired if the prune removes it (markers.ts, destroy.ts).
LEMMA RemovalSpares ==
    ASSUME TeardownInv, NEW c \in CLIs, At(c, "remove"), job[c].of \in Envs,
           sound[Owner(c)], desired[Owner(c)] # NoFootprint
    PROVE  /\ ProjectOf[desired[Owner(c)]] = Project(c)
           /\ job[c].kind = "prune" => marker[Owner(c)].ttl = "expired"
<1>1. Live(Owner(c)) /\ CheckedOK(c) /\ PruneOK(c) /\ job[c].of \in Ahead(job[c])
  BY DEF Live, TeardownInv, Ahead, At
<1>2. ProjectOf[desired[Owner(c)]] = Project(c)
  BY <1>1 DEF CheckedOK
<1>3. job[c].kind = "prune" => marker[Owner(c)].ttl = "expired"
  BY <1>1 DEF PruneOK, Owner
<1> QED BY <1>2, <1>3

\* At the end of a project's destroy that has not failed, nothing of the project
\* is live (destroy.ts --project).
LEMMA EndLeavesNothing ==
    ASSUME TeardownInv, NEW c \in CLIs, At(c, "next"), job[c].kind = "project",
           job[c].todo = {}, ~job[c].failed, NEW o \in Owners, desired[o] # NoFootprint,
           ProjectOf[desired[o]] = Project(c)
    PROVE  ~sound[o]
<1>1. CoversOK(c) /\ Ahead(job[c]) = {}
  BY DEF TeardownInv, Ahead, At
<1> QED BY <1>1 DEF CoversOK, Live, At

\* A teardown removes all of what it is about and nothing else: no live footprint
\* of another project that has the name, no environment whose time is not up, and
\* nothing live of a project that is reported gone is left (destroy.ts,
\* markers.ts).
THEOREM TeardownsAlwaysExact ==
    ASSUME TeardownAssumption
    PROVE  Spec => TeardownsAreExact
<1> DEFINE A == \A c \in CLIs :
         At(c, "remove") /\ job'[c].stage = "unlock" /\ job[c].of \in Envs =>
           LET o == Owner(c) IN
             sound[o] /\ desired[o] # NoFootprint =>
                         /\ ProjectOf[desired[o]] = Project(c)
                         /\ job[c].kind = "prune" => marker[o].ttl = "expired"
           B == \A c \in CLIs :
         At(c, "next") /\ job[c].kind = "project" /\ job[c].todo = {} /\ ~job[c].failed
         /\ job'[c].stage = "idle" /\ faults' = faults =>
           \A o \in Owners :
             desired[o] # NoFootprint /\ ProjectOf[desired[o]] = Project(c)
               => ~sound[o]
<1>1. TeardownInv => A
  BY RemovalSpares
<1>2. TeardownInv => B
  BY EndLeavesNothing
<1>3. []TeardownInv => [][A]_vars /\ [][B]_vars
  <2> HIDE DEF A, B
  <2> QED BY <1>1, <1>2, PTL
<1> QED BY <1>3, Invariant DEF TeardownsAreExact, TeardownsSpareOthers, GoneMeansGone
=============================================================================
