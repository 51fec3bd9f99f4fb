-------------------------- MODULE StatusFeedProofs --------------------------
(***************************************************************************)
(* Proofs about StatusFeed for any cadence, any number of publications and *)
(* any faults: the agent sleeps on no publication whose message came, its  *)
(* heartbeat stays inside the window if a poll and a tick leave room, and  *)
(* a deploy that reports convergence had its container started.            *)
(* About Shipping, the commands that publish: what they publish is in ECR  *)
(* and is what its tag says, and they bring a footprint where they should. *)
(***************************************************************************)
EXTENDS StatusFeed, Shipping, Sequences, WellFoundedInduction, TLAPS

(* A message that came is on its way to the agent until it reads.            *)
WakeOK ==
    /\ delivered <= desired
    /\ agent.pc # "read" /\ agent.want < delivered =>
          mail \/ taken \/ permit \/ agent.blind

(* How old status.json can be while no put failed, along the agent's loop.   *)
BeatOK ==
    ~missed =>
        /\ agent.pc = "sleep" => age + agent.left <= Grace + Poll
        /\ agent.pc \in {"read", "beat"} => age <= Grace + Poll
        /\ agent.pc = "act" => age <= Grace + Poll + agent.busy
        /\ agent.pc = "write" => age <= Grace + Poll + MaxTick

(* What runs and what is reported lag behind what is published, and what is  *)
(* reported of the last publication still runs.                              *)
BoxOK ==
    /\ \A g \in Gens : image[g] <= g
    /\ agent.want <= desired /\ box <= desired /\ doc.run <= desired
    /\ agent.pc \in {"act", "write"} => box <= agent.want
    /\ image[desired] # 0 /\ doc.run = desired => box = desired

\* The command's publication is the last one.
Published == deploy.pc \in {"notify", "watch"} \/ deploy.verdict # "none"

(* What the command publishes, and what it saw before.                       *)
DeployOK ==
    /\ deploy.pc # "idle" => deploy.verdict = "none"
    /\ deploy.pc \in {"look", "put"} =>
          desired < MaxGen /\ (deploy.kind # "build" => image[desired] # 0)
    /\ Published /\ deploy.kind = "build" => desired # 0 /\ image[desired] = desired
    /\ Published /\ deploy.kind = "restart" => image[desired] # 0
    /\ deploy.pc \in {"put", "notify", "watch"} /\ deploy.kind = "restart" /\ deploy.settled =>
          /\ deploy.seen <= box /\ (doc.run = 0 \/ deploy.seen <= doc.run)
          /\ deploy.seen # 0 /\ image[deploy.seen] # 0
          /\ desired = IF deploy.pc = "put" THEN deploy.seen ELSE deploy.seen + 1

(* The inductive invariant.                                                  *)
FeedInv == TypeOK /\ WakeOK /\ BeatOK /\ BoxOK /\ DeployOK /\ ConvergedMeansRan
-----------------------------------------------------------------------------

(* resolve_liveness: the cadence is at most half the window.                 *)
LEMMA GraceOK == ASSUME FeedAssumption PROVE Grace \in Nat /\ Clock \in Nat
<1>1. BeatEvery \in Nat
  BY DEF FeedAssumption, BeatEvery
<1>2. Grace \in Nat
  BY <1>1 DEF Grace
<1> QED
  BY <1>2 DEF Clock, Silence, FeedAssumption

(* A fault is one of those there may be.                                     *)
LEMMA MayOK ==
    ASSUME FeedAssumption, TypeOK, NEW kind, May(kind) \/ UNCHANGED faults
    PROVE  faults' \in 0 .. MaxFaults
BY DEF FeedAssumption, TypeOK, May

LEMMA GensOK == ASSUME FeedAssumption PROVE Gens \subseteq Nat /\ 0 \in Gens
BY DEF FeedAssumption, Gens

(* At the start nothing is published and nothing runs.                       *)
LEMMA InitInv == ASSUME FeedAssumption, Init PROVE FeedInv
<1>0. 0 \in Gens /\ Minimal \in Doc
  BY GensOK DEF Minimal, Doc
<1>1. TypeOK
  <2>1. deploy \in Deploy /\ agent \in Agent
    BY <1>0 DEF FeedAssumption, Init, Deploy, Agent, Kinds
  <2>2. mail \in BOOLEAN /\ taken \in BOOLEAN /\ permit \in BOOLEAN /\ missed \in BOOLEAN
    BY DEF Init
  <2>3. image \in [Gens -> Gens] /\ age \in 0 .. Clock /\ faults \in 0 .. MaxFaults
    BY <1>0, GraceOK DEF FeedAssumption, Init
  <2>4. desired \in Gens /\ delivered \in Gens /\ box \in Gens /\ doc \in Doc
           /\ last \in Doc \cup {Nothing}
    BY <1>0 DEF Init
  <2> QED
    BY <2>1, <2>2, <2>3, <2>4 DEF TypeOK
<1>2. WakeOK /\ BeatOK
  BY <1>0, GraceOK DEF FeedAssumption, Init, WakeOK, BeatOK
<1>3. BoxOK /\ DeployOK /\ ConvergedMeansRan
  BY <1>0, GensOK DEF Init, BoxOK, DeployOK, Published, ConvergedMeansRan, Minimal
<1> QED
  BY <1>1, <1>2, <1>3 DEF FeedInv

-----------------------------------------------------------------------------
(* The command                                                               *)

(* What a step of the command leaves to prove if it publishes nothing and    *)
(* sends no message.                                                         *)
LEMMA CommandInv ==
    ASSUME FeedAssumption, FeedInv, deploy' \in Deploy,
           UNCHANGED <<desired, image, feed, node, faults>>,
           DeployOK', ConvergedMeansRan'
    PROVE  FeedInv'
<1> USE DEF FeedInv
<1>0. UNCHANGED <<desired, image, mail, delivered, taken, permit, agent, box, doc, last, age,
                  missed, faults>>
  BY DEF feed, node
<1>1. TypeOK'
  BY <1>0 DEF TypeOK
<1>2. WakeOK' /\ BeatOK' /\ BoxOK'
  BY <1>0 DEF WakeOK, BeatOK, BoxOK
<1> QED
  BY <1>1, <1>2

LEMMA BeginInv ==
    ASSUME FeedAssumption, FeedInv, NEW kind \in Kinds, Begin(kind) PROVE FeedInv'
<1> USE DEF FeedInv
<1>1. deploy \in Deploy
  BY DEF TypeOK
<1>2. /\ deploy' \in Deploy /\ deploy'.pc = "look" /\ deploy'.kind = kind
      /\ deploy'.verdict = "none"
  BY <1>1 DEF Begin, Deploy
<1>3. UNCHANGED <<desired, image, feed, node, faults>>
  BY DEF Begin
<1>4. DeployOK'
  BY <1>2, <1>3 DEF Begin, DeployOK, Published
<1>5. ConvergedMeansRan'
  BY <1>2 DEF ConvergedMeansRan
<1> QED
  BY <1>2, <1>3, <1>4, <1>5, CommandInv

(* loadRunningContainerIds: if what it saw was settled, it saw the last      *)
(* publication.                                                              *)
LEMMA LookInv == ASSUME FeedAssumption, FeedInv, Look PROVE FeedInv'
<1> USE DEF FeedInv
<1>1. deploy \in Deploy /\ doc \in Doc /\ 0 \in Gens /\ deploy.pc = "look"
  BY GensOK DEF TypeOK, Look
<1>2. Settled \in BOOLEAN /\ doc.run \in Gens
  BY <1>1 DEF Settled, Doc
<1>3. /\ deploy' \in Deploy /\ deploy'.pc = "put" /\ deploy'.kind = deploy.kind
      /\ deploy'.verdict = deploy.verdict /\ deploy'.settled = Settled
      /\ deploy'.seen = IF deploy.kind = "restart" THEN doc.run ELSE 0
  BY <1>1, <1>2 DEF Look, Deploy
<1>4. UNCHANGED <<desired, image, feed, node, faults>>
  BY DEF Look
<1>5. DeployOK'
  <2>1. deploy.verdict = "none" /\ desired < MaxGen /\ (deploy.kind # "build" => image[desired] # 0)
    BY <1>1 DEF DeployOK
  <2>2. UNCHANGED <<desired, image, box, doc>>
    BY <1>4 DEF node
  <2>3. ASSUME deploy.kind = "restart", Settled
        PROVE  /\ doc.run = desired /\ box = desired /\ desired # 0 /\ desired <= desired
    <3>1. image[desired] # 0 /\ doc.run = desired /\ box = desired
      BY <2>1, <2>3 DEF Settled
    <3>2. desired \in Gens /\ image[0] <= 0 /\ image[0] \in Gens
      BY <1>1 DEF BoxOK, TypeOK
    <3> QED
      BY <3>1, <3>2, GensOK
  <2>4. deploy'.kind = "restart" /\ deploy'.settled =>
          /\ deploy'.seen <= box' /\ deploy'.seen <= doc'.run
          /\ deploy'.seen # 0 /\ image'[deploy'.seen] # 0
          /\ desired' = deploy'.seen
    BY <1>3, <2>1, <2>2, <2>3
  <2> QED
    BY <1>3, <2>1, <2>2, <2>4 DEF DeployOK, Published
<1>6. ConvergedMeansRan'
  BY <1>1, <1>3 DEF ConvergedMeansRan, DeployOK
<1> QED
  BY <1>3, <1>4, <1>5, <1>6, CommandInv
(* publishDesired: nothing is reported of the new publication yet.           *)
LEMMA PublishInv == ASSUME FeedAssumption, FeedInv, Publish PROVE FeedInv'
<1> USE DEF FeedInv
<1> DEFINE new == CASE deploy.kind = "build"   -> desired + 1
                    [] deploy.kind = "restart" -> image[desired]
                    [] deploy.kind = "remove"  -> 0
<1>0. /\ deploy.pc = "put" /\ desired' = desired + 1 /\ image' = [image EXCEPT ![desired + 1] = new]
      /\ UNCHANGED <<mail, delivered, taken, permit, agent, box, doc, last, age, missed, faults>>
  BY DEF Publish, feed, node
<1>1. /\ deploy \in Deploy /\ deploy'.pc = "notify" /\ deploy' \in Deploy
      /\ deploy'.kind = deploy.kind /\ deploy'.seen = deploy.seen
      /\ deploy'.settled = deploy.settled /\ deploy'.verdict = deploy.verdict
  BY DEF Publish, TypeOK, Deploy
<1>2. /\ deploy.verdict = "none" /\ desired < MaxGen
      /\ deploy.kind # "build" => image[desired] # 0
  BY <1>0 DEF DeployOK
<1>3. /\ desired \in Nat /\ desired \in Gens /\ desired + 1 \in Gens /\ delivered \in Nat
      /\ agent.want \in Nat /\ box \in Nat /\ doc.run \in Nat
      /\ image[desired] \in Gens /\ image[desired] \in Nat /\ image[desired] <= desired
  <2>1. desired \in Gens /\ delivered \in Gens /\ agent.want \in Gens /\ box \in Gens
           /\ doc.run \in Gens /\ image[desired] \in Gens
    BY DEF TypeOK, Agent, Doc
  <2>2. desired + 1 \in Gens
    BY <1>2, <2>1 DEF FeedAssumption, Gens
  <2>3. image[desired] <= desired
    BY <2>1 DEF BoxOK
  <2> QED
    BY <2>1, <2>2, <2>3, GensOK
<1>4. /\ new \in Gens /\ new <= desired + 1
      /\ deploy.kind = "build" => new = desired + 1
      /\ deploy.kind = "restart" => new # 0
  <2>1. deploy.kind \in {"build", "restart", "remove"}
    BY <1>1 DEF Deploy, Kinds
  <2>2. deploy.kind = "build" => new = desired + 1
    OBVIOUS
  <2>3. deploy.kind = "restart" => new = image[desired] /\ image[desired] # 0
    BY <1>2
  <2>4. deploy.kind = "remove" => new = 0
    OBVIOUS
  <2> HIDE DEF new
  <2> QED
    BY <1>3, <2>1, <2>2, <2>3, <2>4, GensOK
<1> HIDE DEF new
<1>5. \A g \in Gens : image'[g] = IF g = desired + 1 THEN new ELSE image[g]
  BY <1>0, <1>3 DEF TypeOK
<1>6. TypeOK'
  BY <1>0, <1>1, <1>3, <1>4 DEF TypeOK
<1>7. WakeOK' /\ BeatOK'
  BY <1>0, <1>3 DEF WakeOK, BeatOK
<1>8. BoxOK'
  BY <1>0, <1>3, <1>4, <1>5 DEF BoxOK
<1>9. DeployOK'
  <2>1. ASSUME deploy.kind = "restart", deploy.settled
        PROVE  /\ deploy.seen <= box /\ (doc.run = 0 \/ deploy.seen <= doc.run)
               /\ deploy.seen # 0 /\ image'[deploy.seen] # 0 /\ desired' = deploy.seen + 1
    <3>1. /\ deploy.seen <= box /\ (doc.run = 0 \/ deploy.seen <= doc.run)
          /\ deploy.seen # 0 /\ image[deploy.seen] # 0 /\ desired = deploy.seen
      BY <1>0, <2>1 DEF DeployOK
    <3>2. image'[deploy.seen] = image[deploy.seen]
      BY <1>3, <1>5, <3>1
    <3> QED
      BY <1>0, <3>1, <3>2
  <2>2. image'[desired'] = new /\ desired' # 0
    BY <1>0, <1>3, <1>5
  <2> QED
    BY <1>0, <1>1, <1>2, <1>4, <2>1, <2>2 DEF DeployOK, Published
<1>10. ConvergedMeansRan'
  BY <1>1, <1>2 DEF ConvergedMeansRan
<1> QED
  BY <1>6, <1>7, <1>8, <1>9, <1>10

(* publishDeployNotification: a message is in the queue, or nothing comes.   *)
LEMMA NotifyInv == ASSUME FeedAssumption, FeedInv, Notify PROVE FeedInv'
<1> USE DEF FeedInv
<1>0. /\ deploy.pc = "notify"
      /\ UNCHANGED <<desired, image, taken, permit, agent, box, doc, last, age, missed>>
      /\ (mail' /\ mail' \in BOOLEAN /\ delivered' = desired) \/ UNCHANGED <<mail, delivered>>
  BY DEF Notify, Notice, node
<1>1. /\ deploy \in Deploy /\ deploy'.pc = "watch" /\ deploy' \in Deploy
      /\ deploy'.kind = deploy.kind /\ deploy'.seen = deploy.seen
      /\ deploy'.settled = deploy.settled /\ deploy'.verdict = deploy.verdict
  BY DEF Notify, TypeOK, Deploy
<1>2. faults' \in 0 .. MaxFaults
  BY MayOK DEF Notify
<1>3. TypeOK'
  <2>1. mail' \in BOOLEAN /\ delivered' \in Gens
    BY <1>0 DEF TypeOK
  <2> QED
    BY <1>0, <1>1, <1>2, <2>1 DEF TypeOK
<1>4. WakeOK'
  <2>1. delivered' <= desired
    BY <1>0, GensOK DEF WakeOK, TypeOK
  <2>2. CASE mail'
    BY <1>0, <2>1, <2>2 DEF WakeOK
  <2>3. CASE UNCHANGED <<mail, delivered>>
    BY <1>0, <2>1, <2>3 DEF WakeOK
  <2> QED
    BY <1>0, <2>2, <2>3
<1>5. BeatOK' /\ BoxOK'
  BY <1>0 DEF BeatOK, BoxOK
<1>6. DeployOK'
  BY <1>0, <1>1 DEF DeployOK, Published
<1>7. ConvergedMeansRan'
  BY <1>0, <1>1 DEF DeployOK, ConvergedMeansRan
<1> QED
  BY <1>3, <1>4, <1>5, <1>6, <1>7

(* evaluate: a container of the image that was published, started after what *)
(* a restart replaces, is the container of the publication.                  *)
LEMMA ConvergedRan ==
    ASSUME FeedAssumption, FeedInv, deploy.pc = "watch", Converged,
           deploy.kind = "build" \/ (deploy.kind = "restart" /\ deploy.settled)
    PROVE  box = desired
<1> USE DEF FeedInv
<1>0. /\ doc.run # 0 /\ image[doc.run] = image[desired]
      /\ deploy.kind = "restart" => doc.run # deploy.seen
      /\ doc.run <= desired /\ doc.run \in Gens /\ doc.run \in Nat /\ desired \in Nat
  BY GensOK DEF Converged, BoxOK, TypeOK, Doc
<1>1. CASE deploy.kind = "build"
  <2>1. image[desired] = desired /\ desired # 0
    BY <1>1 DEF DeployOK, Published
  <2>2. image[doc.run] <= doc.run
    BY <1>0 DEF BoxOK
  <2>3. doc.run = desired
    BY <1>0, <2>1, <2>2
  <2> QED
    BY <2>1, <2>3 DEF BoxOK
<1>2. CASE deploy.kind = "restart" /\ deploy.settled
  <2>1. deploy.seen <= doc.run /\ desired = deploy.seen + 1 /\ image[desired] # 0
    BY <1>0, <1>2 DEF DeployOK, Published
  <2>2. deploy.seen \in Nat
    BY GensOK DEF TypeOK, Deploy
  <2>3. doc.run = desired
    BY <1>0, <1>2, <2>1, <2>2
  <2> QED
    BY <2>1, <2>3 DEF BoxOK
<1> QED
  BY <1>1, <1>2

LEMMA EndsInv ==
    ASSUME FeedAssumption, FeedInv, deploy.pc = "watch",
           NEW verdict \in {"ok", "error", "timeout"}, Ends(verdict),
           verdict = "ok" => Converged \/ deploy.kind = "remove"
    PROVE  FeedInv'
<1> USE DEF FeedInv
<1>1. /\ deploy \in Deploy /\ deploy'.pc = "idle" /\ deploy' \in Deploy
      /\ deploy'.kind = deploy.kind /\ deploy'.verdict = verdict
      /\ deploy'.settled = deploy.settled
  BY DEF Ends, TypeOK, Deploy
<1>2. UNCHANGED <<desired, image, feed, node, faults>>
  BY DEF Ends
<1>3. DeployOK'
  BY <1>1, <1>2 DEF DeployOK, Published, node
<1>4. ConvergedMeansRan'
  BY <1>1, <1>2, ConvergedRan DEF ConvergedMeansRan, node
<1> QED
  BY <1>1, <1>2, <1>3, <1>4, CommandInv

LEMMA WatchInv == ASSUME FeedAssumption, FeedInv, Watch \/ WatchDrain PROVE FeedInv'
<1>1. CASE Watch
  BY <1>1, EndsInv DEF Watch
<1>2. CASE WatchDrain
  BY <1>2, EndsInv DEF WatchDrain
<1> QED
  BY <1>1, <1>2

-----------------------------------------------------------------------------
(* run_sqs_listener                                                          *)

(* A message goes from the queue to the listener and from there to the       *)
(* permit.                                                                   *)
LEMMA ListenerInv == ASSUME FeedAssumption, FeedInv, Receive \/ NotifyOne PROVE FeedInv'
<1> USE DEF FeedInv
<1>0. /\ UNCHANGED <<desired, image, deploy, delivered, agent, box, doc, last, age, missed>>
      /\ mail' \in BOOLEAN /\ taken' \in BOOLEAN /\ permit' \in BOOLEAN
      /\ (mail \/ taken \/ permit) => (mail' \/ taken' \/ permit')
  BY DEF Receive, NotifyOne, world, node, TypeOK
<1>1. faults' \in 0 .. MaxFaults
  BY MayOK DEF Receive, NotifyOne
<1>2. TypeOK'
  BY <1>0, <1>1 DEF TypeOK
<1>3. WakeOK'
  BY <1>0 DEF WakeOK
<1>4. BeatOK' /\ BoxOK' /\ DeployOK' /\ ConvergedMeansRan'
  BY <1>0 DEF BeatOK, BoxOK, DeployOK, Published, ConvergedMeansRan
<1> QED
  BY <1>2, <1>3, <1>4
-----------------------------------------------------------------------------
(* run_poll_loop and the tick                                                *)

LEMMA ViewOK ==
    ASSUME FeedAssumption, TypeOK
    PROVE  /\ View \in Doc /\ Minimal \in Doc
           /\ View.run = 0 \/ View.run = box
           /\ Minimal.run = 0
<1>1. agent.error \in BOOLEAN /\ box \in Gens /\ 0 \in Gens
  BY GensOK DEF TypeOK, Agent
<1>2. Minimal \in Doc /\ Minimal.run = 0
  BY <1>1 DEF Minimal, Doc
<1>3. [lists |-> TRUE, run |-> box, error |-> agent.error] \in Doc
  BY <1>1 DEF Doc
<1> QED
  BY <1>2, <1>3 DEF View

(* A step of the agent that starts and stops no container keeps what is       *)
(* known of the publications, whichever status it puts.                      *)
LEMMA SameBox ==
    ASSUME FeedAssumption, FeedInv, UNCHANGED <<world, box>>,
           agent'.want <= desired,
           agent'.pc \in {"act", "write"} => box <= agent'.want,
           doc' = doc \/ doc'.run = 0 \/ doc'.run = box
    PROVE  BoxOK' /\ DeployOK' /\ ConvergedMeansRan'
<1> USE DEF FeedInv
<1>0. UNCHANGED <<desired, image, deploy, box>>
  BY DEF world
<1>1. box \in Nat /\ desired \in Nat /\ image[0] <= 0 /\ image[0] \in Nat
  BY GensOK DEF TypeOK, BoxOK
<1>2. BoxOK'
  <2>1. doc'.run <= desired
    BY <1>1 DEF BoxOK
  <2>2. image[desired] # 0 /\ doc'.run = desired => box = desired
    BY <1>1 DEF BoxOK
  <2> QED
    BY <1>0, <2>1, <2>2 DEF BoxOK
<1>3. DeployOK'
  BY <1>0 DEF DeployOK, Published
<1>4. ConvergedMeansRan'
  BY <1>0 DEF ConvergedMeansRan
<1> QED
  BY <1>2, <1>3, <1>4

LEMMA AgentType ==
    ASSUME FeedAssumption, TypeOK
    PROVE  /\ agent \in Agent /\ agent.want \in Nat /\ agent.left \in Nat /\ agent.left <= Poll
           /\ agent.busy \in Nat /\ agent.busy <= MaxTick /\ age \in Nat /\ Poll \in Nat
           /\ MaxTick \in Nat /\ delivered \in Nat /\ desired \in Nat /\ box \in Nat /\ Stale \in Nat
           /\ Grace \in Nat /\ Clock \in Nat
BY GensOK, GraceOK DEF TypeOK, Agent, FeedAssumption

(* wait_or_wake: no permit and no message is given up before the agent reads. *)
LEMMA WakeInv == ASSUME FeedAssumption, FeedInv, Wake PROVE FeedInv'
<1> USE DEF FeedInv
<1>0. /\ agent.pc = "sleep" /\ permit' \in BOOLEAN
      /\ UNCHANGED <<world, mail, delivered, taken, box, doc, last, age, missed, faults>>
  BY DEF Wake, TypeOK
<1>1. agent' \in Agent /\ agent'.pc = "read" /\ agent'.want = agent.want
  <2>1. agent \in Agent /\ 0 \in 0 .. Poll
    BY AgentType
  <2>2. agent' = [agent EXCEPT !.pc = "read", !.left = 0, !.error = FALSE]
    BY DEF Wake
  <2> QED
    BY <2>1, <2>2 DEF Agent
<1>2. TypeOK'
  BY <1>0, <1>1 DEF TypeOK, world
<1>3. WakeOK'
  BY <1>0, <1>1 DEF WakeOK, world
<1>4. BeatOK'
  <2>1. ~missed => age <= Grace + Poll
    BY <1>0, AgentType DEF BeatOK
  <2> QED
    BY <1>0, <1>1, <2>1 DEF BeatOK
<1>5. BoxOK' /\ DeployOK' /\ ConvergedMeansRan'
  BY <1>0, <1>1, SameBox DEF BoxOK
<1> QED
  BY <1>2, <1>3, <1>4, <1>5

LEMMA ReadInv == ASSUME FeedAssumption, FeedInv, Read PROVE FeedInv'
<1> USE DEF FeedInv
<1>0. /\ agent.pc = "read"
      /\ UNCHANGED <<world, mail, delivered, taken, permit, box, doc, last, age, missed>>
  BY DEF Read, here
<1>1. /\ agent' \in Agent /\ agent'.busy = agent.busy
      /\ \/ agent'.pc = "act" /\ agent'.want = desired
         \/ agent'.pc = "beat" /\ agent'.want = agent.want /\ agent'.blind
  <2>1. desired \in Gens /\ agent \in Agent
    BY DEF TypeOK
  <2>2. CASE agent' = [agent EXCEPT !.pc = "act", !.want = desired, !.blind = FALSE]
    BY <2>1, <2>2 DEF Agent
  <2>3. CASE agent' = [agent EXCEPT !.pc = "beat", !.blind = TRUE]
    BY <2>1, <2>3 DEF Agent
  <2> QED
    BY <2>2, <2>3 DEF Read
<1>2. faults' \in 0 .. MaxFaults
  BY MayOK DEF Read
<1>3. TypeOK'
  BY <1>0, <1>1, <1>2 DEF TypeOK, world
<1>4. WakeOK'
  BY <1>0, <1>1, AgentType DEF WakeOK, world
<1>5. BeatOK'
  <2>1. ~missed => age <= Grace + Poll /\ age <= Grace + Poll + agent.busy
    BY <1>0, AgentType DEF BeatOK
  <2> QED
    BY <1>0, <1>1, <2>1 DEF BeatOK
<1>6. BoxOK' /\ DeployOK' /\ ConvergedMeansRan'
  BY <1>0, <1>1, AgentType, SameBox DEF BoxOK
<1> QED
  BY <1>3, <1>4, <1>5, <1>6

(* plan_reconcile and apply_actions: no container is replaced by an older    *)
(* one, and none of the last publication is taken away.                      *)
LEMMA ActInv == ASSUME FeedAssumption, FeedInv, Act PROVE FeedInv'
<1> USE DEF FeedInv
<1> DEFINE aim == IF image[agent.want] = 0 THEN 0 ELSE agent.want
<1>0. /\ agent.pc = "act" /\ box' \in {box, aim}
      /\ UNCHANGED <<world, mail, delivered, taken, permit, doc, last, age, missed>>
  BY DEF Act, here
<1>1. agent' \in Agent /\ agent'.pc = "write" /\ agent'.want = agent.want
         /\ agent'.blind = agent.blind
  <2>1. CASE agent' = [agent EXCEPT !.pc = "write"]
    BY <2>1, AgentType DEF Agent
  <2>2. CASE agent' = [agent EXCEPT !.pc = "write", !.error = TRUE]
    BY <2>2, AgentType DEF Agent
  <2> QED
    BY <2>1, <2>2 DEF Act
<1>2. faults' \in 0 .. MaxFaults
  BY MayOK DEF Act
<1>3. /\ desired \in Nat /\ desired \in Gens /\ agent.want \in Gens /\ agent.want \in Nat
      /\ 0 \in Gens /\ agent.want <= desired /\ box <= agent.want /\ box \in Nat /\ box \in Gens
      /\ aim \in Gens /\ aim \in Nat /\ aim <= agent.want
  BY <1>0, GensOK DEF TypeOK, BoxOK, Agent
<1>4. image[desired] # 0 /\ box = desired => box' = desired
  BY <1>0, <1>3
<1>5. UNCHANGED <<desired, image, deploy>>
  BY <1>0 DEF world
<1>6. TypeOK'
  BY <1>0, <1>1, <1>2, <1>3, <1>5 DEF TypeOK
<1>7. WakeOK'
  BY <1>0, <1>1, <1>5 DEF WakeOK
<1>8. BeatOK'
  <2>1. ~missed => age <= Grace + Poll + MaxTick
    BY <1>0, AgentType DEF BeatOK
  <2> QED
    BY <1>0, <1>1, <2>1 DEF BeatOK
<1>9. BoxOK'
  <2>1. box' <= agent.want /\ box' <= desired
    BY <1>0, <1>3
  <2> QED
    BY <1>0, <1>1, <1>4, <1>5, <2>1 DEF BoxOK
<1>10. DeployOK'
  <2>1. ASSUME deploy.pc \in {"put", "notify", "watch"}, deploy.kind = "restart", deploy.settled
        PROVE  deploy.seen <= box'
    <3>1. /\ deploy.seen <= box /\ deploy.seen # 0 /\ image[deploy.seen] # 0
          /\ desired = IF deploy.pc = "put" THEN deploy.seen ELSE deploy.seen + 1
      BY <2>1 DEF DeployOK
    <3>2. deploy.pc # "put" => image[desired] # 0
      BY <2>1 DEF DeployOK, Published
    <3>3. deploy.seen \in Nat
      BY GensOK DEF TypeOK, Deploy
    <3>4. agent.want = deploy.seen \/ agent.want = desired
      BY <1>3, <3>1, <3>3
    <3>5. image[agent.want] # 0
      BY <3>1, <3>2, <3>4
    <3> QED
      BY <1>0, <1>3, <3>1, <3>3, <3>5
  <2> QED
    BY <1>0, <1>5, <2>1 DEF DeployOK, Published
<1>11. ConvergedMeansRan'
  <2>1. deploy.verdict = "ok" /\ (deploy.kind = "build" \/ deploy.kind = "restart")
           => image[desired] # 0
    BY DEF DeployOK, Published
  <2> QED
    BY <1>4, <1>5, <2>1 DEF ConvergedMeansRan
<1> QED
  BY <1>6, <1>7, <1>8, <1>9, <1>10, <1>11
LEMMA SleepOK ==
    ASSUME FeedAssumption, TypeOK, Sleep(agent)
    PROVE  /\ agent' \in Agent /\ agent'.pc = "sleep" /\ agent'.left = Poll
           /\ agent'.want = agent.want /\ agent'.blind = agent.blind /\ permit' = permit
<1>1. agent \in Agent /\ Poll \in 0 .. Poll /\ 0 \in 0 .. MaxTick
  BY AgentType
<1>2. agent' = [agent EXCEPT !.pc = "sleep", !.left = Poll, !.busy = 0] /\ permit' = permit
  BY DEF Sleep
<1> QED
  BY <1>1, <1>2 DEF Agent

(* A put of a status starts the clock again.                                 *)
LEMMA PutOK ==
    ASSUME FeedAssumption, TypeOK, NEW d \in Doc, Put(d)
    PROVE  /\ doc' \in Doc /\ doc' = d /\ last' \in Doc /\ age' \in 0 .. Clock /\ age' = 0
           /\ missed' \in BOOLEAN
<1>1. doc' = d /\ last' = d /\ age' = 0
  BY DEF Put
<1>2. 0 \in 0 .. Clock
  BY AgentType
<1>3. missed' = FALSE
  BY DEF Put
<1>4. missed' \in BOOLEAN
  BY <1>3, Zenon
<1> QED
  BY <1>1, <1>2, <1>4

(* decide_status_write: what is not put is younger than the heartbeat.       *)
LEMMA WriteInv == ASSUME FeedAssumption, FeedInv, Write PROVE FeedInv'
<1> USE DEF FeedInv
<1>0. agent.pc = "write" /\ UNCHANGED <<world, mail, delivered, taken, box>>
  BY DEF Write
<1>1. faults' \in 0 .. MaxFaults
  BY MayOK DEF Write
<1>2. CASE Due(View) /\ Put(View) /\ Sleep(agent)
  <2>1. /\ doc' \in Doc /\ doc' = View /\ last' \in Doc /\ age' \in 0 .. Clock /\ age' = 0
        /\ missed' \in BOOLEAN
    BY <1>2, PutOK, ViewOK
  <2>2. /\ agent' \in Agent /\ agent'.pc = "sleep" /\ agent'.left = Poll
        /\ agent'.want = agent.want /\ agent'.blind = agent.blind /\ permit' = permit
    BY <1>2, SleepOK
  <2>3. TypeOK'
    BY <1>0, <1>1, <2>1, <2>2 DEF TypeOK, world
  <2>4. WakeOK'
    BY <1>0, <2>2 DEF WakeOK, world
  <2>5. BeatOK'
    BY <2>1, <2>2, AgentType DEF BeatOK
  <2>6. BoxOK' /\ DeployOK' /\ ConvergedMeansRan'
    BY <1>0, <2>1, <2>2, ViewOK, SameBox DEF BoxOK
  <2> QED
    BY <2>3, <2>4, <2>5, <2>6
<1>3. CASE Due(View) /\ Lost /\ UNCHANGED <<doc, permit>> /\ agent' = [agent EXCEPT !.pc = "beat"]
  <2>1. /\ agent' \in Agent /\ agent'.pc = "beat" /\ agent'.want = agent.want
        /\ agent'.blind = agent.blind
    BY <1>3, AgentType DEF Agent
  <2>2. missed' /\ missed' \in BOOLEAN /\ UNCHANGED <<last, age>>
    BY <1>3 DEF Lost
  <2>3. TypeOK'
    BY <1>0, <1>1, <1>3, <2>1, <2>2 DEF TypeOK, world
  <2>4. WakeOK' /\ BeatOK'
    BY <1>0, <1>3, <2>1, <2>2 DEF WakeOK, BeatOK, world
  <2>5. BoxOK' /\ DeployOK' /\ ConvergedMeansRan'
    BY <1>0, <1>3, <2>1, SameBox DEF BoxOK
  <2> QED
    BY <2>3, <2>4, <2>5
<1>4. CASE ~Due(View) /\ Sleep(agent) /\ UNCHANGED <<doc, last, age, missed>>
  <2>1. /\ agent' \in Agent /\ agent'.pc = "sleep" /\ agent'.left = Poll
        /\ agent'.want = agent.want /\ agent'.blind = agent.blind /\ permit' = permit
    BY <1>4, SleepOK
  <2>2. age <= Grace
    <3>1. BeatEvery \in Nat
      BY DEF FeedAssumption, BeatEvery
    <3>2. ~(age >= BeatEvery) /\ age \in Nat
      BY <1>4, AgentType DEF Due
    <3> QED
      BY <3>1, <3>2 DEF Grace
  <2>3. TypeOK'
    BY <1>0, <1>1, <1>4, <2>1 DEF TypeOK, world
  <2>4. WakeOK'
    BY <1>0, <2>1 DEF WakeOK, world
  <2>5. BeatOK'
    BY <1>4, <2>1, <2>2, AgentType DEF BeatOK
  <2>6. BoxOK' /\ DeployOK' /\ ConvergedMeansRan'
    BY <1>0, <1>4, <2>1, SameBox DEF BoxOK
  <2> QED
    BY <2>3, <2>4, <2>5, <2>6
<1> QED
  BY <1>2, <1>3, <1>4 DEF Write

(* The heartbeat of a tick that failed puts a status, or does not.           *)
LEMMA BeatInv == ASSUME FeedAssumption, FeedInv, Beat PROVE FeedInv'
<1> USE DEF FeedInv
<1>0. agent.pc = "beat" /\ UNCHANGED <<world, mail, delivered, taken, box>> /\ Sleep(agent)
  BY DEF Beat
<1>1. faults' \in 0 .. MaxFaults
  BY MayOK DEF Beat
<1>2. /\ agent' \in Agent /\ agent'.pc = "sleep" /\ agent'.left = Poll
      /\ agent'.want = agent.want /\ agent'.blind = agent.blind /\ permit' = permit
  BY <1>0, SleepOK
<1>3. /\ doc' \in Doc /\ doc' \in {doc, Minimal} /\ last' \in Doc \cup {Nothing}
      /\ age' \in 0 .. Clock /\ missed' \in BOOLEAN /\ (missed' \/ age' = 0)
  <2>1. CASE Put(Minimal)
    BY <2>1, PutOK, ViewOK
  <2>2. CASE Lost /\ UNCHANGED doc
    BY <2>2 DEF Lost, TypeOK
  <2> QED
    BY <2>1, <2>2 DEF Beat
<1>4. TypeOK'
  BY <1>0, <1>1, <1>2, <1>3 DEF TypeOK, world
<1>5. WakeOK'
  BY <1>0, <1>2 DEF WakeOK, world
<1>6. BeatOK'
  BY <1>2, <1>3, AgentType DEF BeatOK
<1>7. BoxOK' /\ DeployOK' /\ ConvergedMeansRan'
  BY <1>0, <1>2, <1>3, ViewOK, SameBox DEF BoxOK
<1> QED
  BY <1>4, <1>5, <1>6, <1>7

LEMMA MidTickInv == ASSUME FeedAssumption, FeedInv, MidTick PROVE FeedInv'
<1> USE DEF FeedInv
<1>0. agent.pc = "act" /\ Put(View)
         /\ UNCHANGED <<world, mail, delivered, taken, permit, agent, box, faults>>
  BY DEF MidTick, here
<1>1. /\ doc' \in Doc /\ doc' = View /\ last' \in Doc /\ age' \in 0 .. Clock /\ age' = 0
      /\ missed' \in BOOLEAN
  BY <1>0, PutOK, ViewOK
<1>2. TypeOK'
  BY <1>0, <1>1 DEF TypeOK, world
<1>3. WakeOK'
  BY <1>0 DEF WakeOK, world
<1>4. BeatOK'
  BY <1>0, <1>1, AgentType DEF BeatOK
<1>5. BoxOK' /\ DeployOK' /\ ConvergedMeansRan'
  BY <1>0, <1>1, ViewOK, SameBox DEF BoxOK
<1> QED
  BY <1>2, <1>3, <1>4, <1>5

(* The agent that starts again reads before it sleeps.                       *)
LEMMA CrashInv == ASSUME FeedAssumption, FeedInv, Crash PROVE FeedInv'
<1> USE DEF FeedInv
<1>0. UNCHANGED <<world, mail, delivered, box, doc, age>>
         /\ taken' \in BOOLEAN /\ permit' \in BOOLEAN /\ missed' \in BOOLEAN /\ missed'
         /\ last' = Nothing
  BY DEF Crash
<1>1. faults' \in 0 .. MaxFaults
  BY MayOK DEF Crash
<1>2. agent' \in Agent /\ agent'.pc = "read" /\ agent'.want = 0
  <2>1. 0 \in Gens /\ 0 \in 0 .. Poll /\ 0 \in 0 .. MaxTick
    BY GensOK, AgentType
  <2>2. agent' = [pc |-> "read", want |-> 0, left |-> 0, busy |-> 0, error |-> FALSE,
                  blind |-> FALSE]
    BY DEF Crash
  <2> QED
    BY <2>1, <2>2 DEF Agent
<1>3. TypeOK'
  BY <1>0, <1>1, <1>2 DEF TypeOK, world
<1>4. WakeOK' /\ BeatOK'
  BY <1>0, <1>2 DEF WakeOK, BeatOK, world
<1>5. BoxOK' /\ DeployOK' /\ ConvergedMeansRan'
  BY <1>0, <1>2, AgentType, SameBox
<1> QED
  BY <1>3, <1>4, <1>5

(* Time passes for the agent and for its last status alike.                  *)
LEMMA ElapseInv == ASSUME FeedAssumption, FeedInv, Elapse PROVE FeedInv'
<1> USE DEF FeedInv
<1>0. /\ UNCHANGED <<world, mail, delivered, taken, permit, box, doc, last, missed, faults>>
      /\ age' = IF age < Clock THEN age + 1 ELSE age
  BY DEF Elapse, here
<1>1. age \in Nat /\ age' \in 0 .. Clock /\ age' \in Nat /\ age' <= age + 1
  BY <1>0, AgentType DEF TypeOK
<1>2. /\ agent' \in Agent /\ agent'.pc = agent.pc /\ agent'.want = agent.want
      /\ agent'.blind = agent.blind
      /\ (\/ agent.pc = "sleep" /\ agent'.left = agent.left - 1
          \/ agent.pc = "act" /\ agent'.busy = agent.busy + 1)
  <2>1. CASE Asleep /\ agent' = [agent EXCEPT !.left = @ - 1]
    <3>1. agent.left - 1 \in 0 .. Poll /\ agent.pc = "sleep"
      BY <2>1, AgentType DEF Asleep
    <3> QED
      BY <2>1, <3>1, AgentType DEF Agent
  <2>2. CASE agent.pc = "act" /\ agent.busy < MaxTick /\ agent' = [agent EXCEPT !.busy = @ + 1]
    <3>1. agent.busy + 1 \in 0 .. MaxTick
      BY <2>2, AgentType
    <3> QED
      BY <2>2, <3>1, AgentType DEF Agent
  <2> QED
    BY <2>1, <2>2 DEF Elapse
<1>3. TypeOK'
  BY <1>0, <1>1, <1>2 DEF TypeOK, world
<1>4. WakeOK'
  BY <1>0, <1>2 DEF WakeOK, world
<1>5. BeatOK'
  <2>1. CASE agent.pc = "sleep"
    BY <1>0, <1>1, <1>2, <2>1, AgentType DEF BeatOK
  <2>2. CASE agent.pc = "act"
    BY <1>0, <1>1, <1>2, <2>2, AgentType DEF BeatOK
  <2> QED
    BY <1>2, <2>1, <2>2
<1>6. BoxOK' /\ DeployOK' /\ ConvergedMeansRan'
  BY <1>0, <1>2, SameBox DEF BoxOK
<1> QED
  BY <1>3, <1>4, <1>5, <1>6

-----------------------------------------------------------------------------

(* Every step keeps the invariant.                                           *)
LEMMA StepInv == ASSUME FeedAssumption, FeedInv, [Next]_vars PROVE FeedInv'
<1>1. CASE \E kind \in Kinds : Begin(kind)
  BY <1>1, BeginInv
<1>2. CASE Command
  BY <1>2, LookInv, PublishInv, NotifyInv, WatchInv DEF Command
<1>3. CASE Receive \/ NotifyOne
  BY <1>3, ListenerInv
<1>4. CASE Tick
  BY <1>4, WakeInv, ReadInv, ActInv, WriteInv, BeatInv DEF Tick
<1>5. CASE MidTick \/ Crash \/ Elapse
  BY <1>5, MidTickInv, CrashInv, ElapseInv
<1>6. CASE UNCHANGED vars
  BY <1>6 DEF vars, feed, FeedInv, TypeOK, WakeOK, BeatOK, BoxOK, DeployOK, Published,
     ConvergedMeansRan
<1> QED
  BY <1>1, <1>2, <1>3, <1>4, <1>5, <1>6 DEF Next

(* The queue, the agent's loop, the status and the waiting command fit        *)
(* together in every reachable state.                                        *)
THEOREM Invariant == ASSUME FeedAssumption PROVE Spec => []FeedInv
<1>1. Init => FeedInv
  BY InitInv
<1>2. FeedInv /\ [Next]_vars => FeedInv'
  BY StepInv
<1> QED
  BY <1>1, <1>2, PTL DEF Spec

(* run_sqs_listener deletes a message before notify_one: still wait_or_wake   *)
(* never sleeps on a publication whose message came, at any cadence.         *)
THEOREM WakesAreKept == ASSUME FeedAssumption PROVE Spec => []WakeIsKept
<1>1. FeedInv => WakeIsKept
  BY DEF FeedInv, WakeOK, WakeIsKept
<1> QED
  BY <1>1, Invariant, PTL

(* decide_status_write and the loop keep in touch both ways: no message is    *)
(* slept on, and while puts succeed a status is at most as old as one that    *)
(* was too young for a heartbeat, a poll and a tick later, at any             *)
(* LAUNCHPAD_LIVENESS_MS and LAUNCHPAD_POLL_MS.                               *)
THEOREM AlwaysInTouch == ASSUME FeedAssumption PROVE Spec => []StaysInTouch
<1>1. FeedInv => StaysInTouch
  <2> SUFFICES ASSUME FeedInv, ~missed PROVE age <= Silence
    BY DEF StaysInTouch, FeedInv, WakeOK, WakeIsKept, SilenceIsBounded
  <2>1. /\ age \in Nat /\ agent.left \in Nat /\ agent.busy \in Nat /\ agent.busy <= MaxTick
        /\ Poll \in Nat /\ MaxTick \in Nat /\ Grace \in Nat
    BY AgentType DEF FeedInv
  <2>2. agent.pc \in {"sleep", "read", "act", "write", "beat"}
    BY DEF FeedInv, TypeOK, Agent
  <2>3. age <= Grace + Poll + MaxTick
    BY <2>1, <2>2 DEF FeedInv, BeatOK
  <2> QED
    BY <2>3 DEF Silence
<1> QED
  BY <1>1, Invariant, PTL

(* waitForConvergence: a deploy that reports convergence had a container of   *)
(* its own publication started, and it still is the one that runs.           *)
THEOREM ConvergedAlwaysRan == ASSUME FeedAssumption PROVE Spec => []ConvergedMeansRan
<1>1. FeedInv => ConvergedMeansRan
  BY DEF FeedInv
<1> QED
  BY <1>1, Invariant, PTL

-----------------------------------------------------------------------------
(* Release                                                                  *)

Tree == [head : Ship!Commits, edited : [Services -> 0 .. MaxEdits], toml : BOOLEAN]
Platforms == {Platform[f] : f \in Footprints}
Pushed == [tag : Ship!Tags, context : Ship!Contexts, platform : Platforms]
Tarball == [key : Ship!Keys, context : Ship!Contexts]
RemoteBuild == [by : CLIs, serial : 0 .. MaxStarts, key : Ship!Keys, platform : Platforms,
                status : {"queued", "building", "succeeded", "failed"}, context : Ship!Contexts]
Building == {"build", "push", "pending", "upload", "start", "run"}
Job == [stage : Building \cup {"idle", "tag", "check", "publish"},
        kind : {"none", "build", "edit", "restart", "rollback", "image"},
        footprint : Footprints, remote : BOOLEAN, serial : 0 .. MaxStarts, ref : 0 .. Len(Touches),
        tags : [Services -> Ship!Tags], todo : SUBSET Services, context : Ship!Contexts,
        alone : BOOLEAN, still : BOOLEAN]

ShipType ==
    /\ tree \in [CLIs -> Tree]
    /\ ecr \in [Services -> Seq(Pushed)]
    /\ uploads \subseteq Tarball /\ builds \subseteq RemoteBuild
    /\ shipped \in [Footprints -> [Services -> Ship!Tags]]
    /\ job \in [CLIs -> Job]
    /\ lost \subseteq Ship!Keys
    /\ starts \in 0 .. MaxStarts /\ edits \in 0 .. MaxEdits /\ shipFaults \in 0 .. MaxShipFaults

\* The images of a repository, by their tags
Has(q, tag) == \E i \in DOMAIN q : q[i].tag = tag
At(q, tag) == CHOOSE i \in DOMAIN q : q[i].tag = tag
Of(q, tag) == CHOOSE x \in {q[i] : i \in DOMAIN q} : x.tag = tag
Before(q, tag) == IF Has(q, tag) /\ At(q, tag) > 1 THEN q[At(q, tag) - 1].tag ELSE Ship!NoTag

\* What a tag promises of what it is given to
True(context, s, tag) ==
    tag.dev = 0 /\ context.still => context.content = Ship!Source(s, tag.commit)

(* A tag names one image, and one of a dirty checkout is of a command.       *)
ImagesOK ==
    \A s \in Services : \A i \in DOMAIN ecr[s] :
      /\ \A j \in DOMAIN ecr[s] : i # j => ecr[s][i].tag # ecr[s][j].tag
      /\ ecr[s][i].tag.dev <= starts
      /\ True(ecr[s][i].context, s, ecr[s][i].tag)

(* Nor is what CodeBuild works from; what it says it has pushed is there.    *)
ContextsOK ==
    /\ \A u \in uploads : u.key.tag.dev <= starts /\ True(u.context, u.key.service, u.key.tag)
    /\ \A b \in builds :
         /\ b.key.tag.dev <= starts /\ b.serial <= starts
         /\ b.status = "building" => True(b.context, b.key.service, b.key.tag)
         /\ b.status = "succeeded" => Has(ecr[b.key.service], b.key.tag)

(* Commands that run at the same time know of each other.                    *)
CompanyOK ==
    \A c, d \in CLIs : c # d /\ Ship!Active(c) /\ Ship!Active(d) =>
      ~job[c].alone /\ job[c].serial # job[d].serial

(* Where a command stands, and what it has left to do                        *)
StandsOK(c) ==
    /\ job[c].serial \in 1 .. starts
    /\ job[c].stage \in Building \cup {"tag"} => job[c].kind \in {"build", "edit"}
    /\ job[c].stage \in (Building \cup {"tag"}) \ {"pending"} => job[c].todo # {}
    /\ job[c].stage \in {"check", "publish"} => job[c].todo = {}
    /\ job[c].stage = "check" => job[c].kind \in {"rollback", "image"}

(* What it is done with is in ECR.                                           *)
ReadyOK(c) ==
    job[c].stage \in Building \cup {"publish"} =>
      \A s \in Services \ job[c].todo :
        job[c].tags[s] # Ship!NoTag => Has(ecr[s], job[c].tags[s])

Mine(c, b) == b.by = c /\ b.serial = job[c].serial

(* The build it waits for is the one it has started.                         *)
MineOK(c) ==
    /\ job[c].stage # "run" => \A b \in builds : ~Mine(c, b)
    /\ job[c].stage = "run" =>
         \E b \in builds : /\ Mine(c, b) /\ b.key = Ship!Key(c, Ship!Current(c))
                           /\ \A x \in builds : Mine(c, x) => x = b

(* A deploy's tags are of its checkout or its own.                           *)
TagsOK(c) ==
    job[c].kind \in {"build", "edit"} /\ job[c].stage \in Building \cup {"publish"} =>
      /\ job[c].todo \subseteq Ship!Chosen(c)
      /\ \A s \in Ship!Chosen(c) :
           /\ job[c].tags[s].dev \in {0, job[c].serial}
           /\ job[c].still /\ job[c].tags[s].dev = 0
                => Ship!Content(tree[c], s) = Ship!Source(s, job[c].tags[s].commit)

(* The context of a build that runs here                                     *)
HereOK(c) ==
    job[c].stage = "push" =>
      /\ True(job[c].context, Ship!Current(c), job[c].tags[Ship!Current(c)])
      /\ job[c].still => job[c].context.content = Ship!Content(tree[c], Ship!Current(c))

\* If the tag is one of c's own, it is given to what the checkout has.
Own(c, context, s, tag) ==
    tag.dev = job[c].serial => context.content = Ship!Content(tree[c], s)

(* What a dirty checkout's tag is given to is what that checkout has.        *)
OwnOK(c) ==
    job[c].still =>
      /\ \A s \in Services : \A i \in DOMAIN ecr[s] : Own(c, ecr[s][i].context, s, ecr[s][i].tag)
      /\ \A u \in uploads : Own(c, u.context, u.key.service, u.key.tag)
      /\ \A b \in builds : b.status = "building" => Own(c, b.context, b.key.service, b.key.tag)

(* What deploy --changed leaves alone is as it was at the ref, and is so in   *)
(* the checkout.                                                            *)
RefOK(c) ==
    job[c].ref # 0 /\ job[c].alone /\ job[c].still =>
      /\ job[c].kind = "build"
      /\ \A s \in Services :
           LET tag == shipped[job[c].footprint][s] IN
           /\ tag # Ship!NoTag
           /\ Of(ecr[s], tag).context.content = Ship!Source(s, job[c].ref)
           /\ (IF job[c].stage = "tag" THEN s \notin job[c].todo ELSE job[c].tags[s] = Ship!NoTag)
                => Ship!Content(tree[c], s) = Ship!Source(s, job[c].ref)

(* A rollback goes to the image before the one that runs.                    *)
BackOK(c) ==
    job[c].kind = "rollback" /\ job[c].alone =>
      \E s \in Services :
        LET tag == shipped[job[c].footprint][s] IN
        /\ Before(ecr[s], tag) # Ship!NoTag
        /\ job[c].tags[s] = Before(ecr[s], tag)

(* What runs is in ECR.                                                      *)
PushedOK ==
    \A f \in Footprints, s \in Services :
      shipped[f][s] # Ship!NoTag => Has(ecr[s], shipped[f][s])

CommandOK(c) ==
    /\ StandsOK(c) /\ ReadyOK(c) /\ MineOK(c) /\ TagsOK(c) /\ HereOK(c) /\ OwnOK(c)
    /\ RefOK(c) /\ BackOK(c)

ShipInv ==
    /\ ShipType /\ ImagesOK /\ ContextsOK /\ CompanyOK
    /\ PushedOK /\ Ship!UploadsAreCleaned
    /\ \A c \in CLIs : Ship!Active(c) => CommandOK(c)

-----------------------------------------------------------------------------
(* Data                                                                     *)

\* What is assumed of the constants: the first commit has every service.
LEMMA TouchesFacts ==
    /\ Services \subseteq Nat /\ Services # {} /\ Base \in Footprints
    /\ Touches \in Seq(SUBSET Services) /\ Len(Touches) \in Nat \ {0}
    /\ Ship!Commits = 1 .. Len(Touches)
    /\ Touches[1] = Services
    /\ MaxStarts \in Nat /\ MaxEdits \in Nat /\ MaxShipFaults \in Nat
BY ShippingAssumption DEF Ship!ReleaseAssumption, Ship!Commits

\* Naturals have a least among them.
LEMMA LeastOfNaturals ==
    ASSUME NEW S \in SUBSET Nat, S # {}
    PROVE  \E x \in S : \A y \in S : x <= y
<1>1. PICK x \in S : \A y \in S : ~ (<<y, x>> \in OpToRel(<, Nat))
  BY NatLessThanWellFounded, WFMin
<1>2. \A y \in S : ~ (y < x)
  BY <1>1 DEF OpToRel
<1> QED
  BY <1>2

\* The service whose turn it is is one of those left to do.
LEMMA MinFacts ==
    ASSUME NEW S \in SUBSET Services, S # {}
    PROVE  Ship!Min(S) \in S
<1>1. \E x \in S : \A y \in S : x <= y
  BY LeastOfNaturals, TouchesFacts
<1> QED
  BY <1>1 DEF Ship!Min

\* The last commit that changed a service is there, and is the only such.
LEMMA TouchFacts ==
    ASSUME NEW s \in Services, NEW k \in Ship!Commits
    PROVE  /\ Ship!LastTouch(s, k) \in 1 .. k /\ s \in Touches[Ship!LastTouch(s, k)]
           /\ \A j \in Ship!LastTouch(s, k) + 1 .. k : s \notin Touches[j]
           /\ \A i \in 1 .. k : s \in Touches[i] /\ (\A j \in i + 1 .. k : s \notin Touches[j])
                => i = Ship!LastTouch(s, k)
<1> DEFINE S == {k - i : i \in {j \in 1 .. k : s \in Touches[j]}}
<1>0. k \in Nat \ {0} /\ k \in 1 .. Len(Touches)
  BY TouchesFacts
<1>1. S \in SUBSET Nat /\ S # {}
  <2>1. k - 1 \in S
    BY <1>0, TouchesFacts
  <2> QED
    BY <1>0, <2>1
<1>2. PICK x \in S : \A y \in S : x <= y
  BY <1>1, LeastOfNaturals
<1>3. PICK i \in 1 .. k : s \in Touches[i] /\ x = k - i
  BY <1>2
<1>4. \A j \in i + 1 .. k : s \notin Touches[j]
  <2> SUFFICES ASSUME NEW j \in i + 1 .. k, s \in Touches[j] PROVE FALSE
    OBVIOUS
  <2>1. k - j \in S
    BY <1>0, <1>3
  <2>2. x <= k - j
    BY <1>2, <2>1
  <2> QED
    BY <1>0, <1>3, <2>2
<1>5. \A a, b \in 1 .. k :
        /\ s \in Touches[a] /\ (\A j \in a + 1 .. k : s \notin Touches[j])
        /\ s \in Touches[b] /\ (\A j \in b + 1 .. k : s \notin Touches[j])
        => a = b
  BY <1>0
<1>6. /\ Ship!LastTouch(s, k) \in 1 .. k /\ s \in Touches[Ship!LastTouch(s, k)]
      /\ \A j \in Ship!LastTouch(s, k) + 1 .. k : s \notin Touches[j]
  BY <1>3, <1>4 DEF Ship!LastTouch
<1> QED
  BY <1>5, <1>6

\* A service that no commit between two changes is the same at both.
LEMMA SourceKept ==
    ASSUME NEW s \in Services, NEW a \in Ship!Commits, NEW b \in Ship!Commits,
           \A k \in Ship!Between(a, b) : s \notin Touches[k]
    PROVE  Ship!Source(s, a) = Ship!Source(s, b)
<1>1. ASSUME NEW x \in Ship!Commits, NEW y \in Ship!Commits, x <= y,
             \A k \in x + 1 .. y : s \notin Touches[k]
      PROVE  Ship!LastTouch(s, x) = Ship!LastTouch(s, y)
  <2>1. x \in Nat /\ y \in Nat
    BY TouchesFacts
  <2>2. /\ Ship!LastTouch(s, x) \in 1 .. x /\ s \in Touches[Ship!LastTouch(s, x)]
        /\ \A j \in Ship!LastTouch(s, x) + 1 .. x : s \notin Touches[j]
    BY TouchFacts
  <2>3. Ship!LastTouch(s, x) \in 1 .. y
    BY <1>1, <2>1, <2>2
  <2>4. \A j \in Ship!LastTouch(s, x) + 1 .. y : s \notin Touches[j]
    BY <1>1, <2>1, <2>2
  <2> QED
    BY <2>2, <2>3, <2>4, TouchFacts
<1>2. a \in Nat /\ b \in Nat
  BY TouchesFacts
<1>3. CASE a <= b
  BY <1>1, <1>3 DEF Ship!Between, Ship!Source
<1>4. CASE b <= a
  BY <1>1, <1>4 DEF Ship!Between, Ship!Source
<1> QED
  BY <1>2, <1>3, <1>4

\* What a checkout builds has its type, and is its commit's unless it is dirty.
LEMMA ContentFacts ==
    ASSUME NEW s \in Services, NEW t \in Tree
    PROVE  /\ Ship!Content(t, s) \in [commit : 0 .. Len(Touches), edit : 0 .. MaxEdits]
           /\ ~Ship!Dirty(t) => Ship!Content(t, s) = Ship!Source(s, t.head)
<1>1. t.head \in Ship!Commits /\ t.edited \in [Services -> 0 .. MaxEdits]
  BY DEF Tree
<1>2. Ship!LastTouch(s, t.head) \in 0 .. Len(Touches)
  BY <1>1, TouchFacts, TouchesFacts
<1>3. Ship!Content(t, s) = [commit |-> Ship!LastTouch(s, t.head), edit |-> t.edited[s]]
  BY DEF Ship!Content, Ship!Source
<1>4. ~Ship!Dirty(t) => t.edited[s] = 0
  BY DEF Ship!Dirty
<1> QED
  BY <1>1, <1>2, <1>3, <1>4 DEF Ship!Source

\* What a commit has of a service
LEMMA SourceType ==
    ASSUME NEW s \in Services, NEW k \in Ship!Commits
    PROVE  Ship!Source(s, k) \in [commit : 0 .. Len(Touches), edit : 0 .. MaxEdits]
<1>1. Ship!LastTouch(s, k) \in 0 .. Len(Touches)
  BY TouchFacts, TouchesFacts
<1> QED
  BY <1>1, TouchesFacts DEF Ship!Source

\* computeImageTag: the commit's tag for a clean checkout, one of the command's own otherwise.
LEMMA TagFacts ==
    ASSUME NEW t \in Tree, NEW serial \in 1 .. MaxStarts
    PROVE  LET tag == Ship!ComputeImageTag(t, serial) IN
             /\ tag \in Ship!Tags /\ tag # Ship!NoTag
             /\ tag.dev \in {0, serial}
             /\ tag.dev = 0 => ~Ship!Dirty(t) /\ tag.commit = t.head
<1>1. t.head \in Ship!Commits
  BY DEF Tree
<1>2. t.head \in 1 .. Len(Touches) /\ MaxStarts \in Nat
  BY <1>1, TouchesFacts
<1> QED
  BY <1>2, TouchesFacts DEF Ship!ComputeImageTag, Ship!Tags, Ship!NoTag, Ship!Clean

\* A commit's tag
LEMMA CleanFacts ==
    ASSUME NEW k \in Ship!Commits
    PROVE  Ship!Clean(k) \in Ship!Tags /\ Ship!Clean(k) # Ship!NoTag /\ Ship!NoTag \in Ship!Tags
           /\ Ship!Clean(k).dev = 0 /\ Ship!Clean(k).commit = k
BY TouchesFacts DEF Ship!Clean, Ship!NoTag, Ship!Tags

\* The empty tag has a tag's type.
LEMMA NoTagType == Ship!NoTag \in Ship!Tags
BY TouchesFacts DEF Ship!Clean, Ship!NoTag, Ship!Tags

\* So has the empty context a context's.
LEMMA NoContextType == Ship!NoContext \in Ship!Contexts
BY TouchesFacts DEF Ship!NoContext, Ship!Contexts

\* The record of a command line without a command
LEMMA IdleType ==
    /\ Ship!Idle \in Job
    /\ Ship!Idle.stage = "idle" /\ Ship!Idle.kind = "none" /\ Ship!Idle.ref = 0
    /\ Ship!Idle.todo = {} /\ Ship!Idle.still /\ Ship!Idle.tags = [s \in Services |-> Ship!NoTag]
BY TouchesFacts, NoTagType, NoContextType DEF Ship!Idle, Job, Building

-----------------------------------------------------------------------------
(* The repositories only grow.                                              *)

\* The model's lookups are those of the repository they look in.
LEMMA NamedFacts ==
    \A s, tag :
      /\ Ship!ImageExists(s, tag) = Has(ecr[s], tag)
      /\ Ship!PushedAt(s, tag) = At(ecr[s], tag)
      /\ Ship!ImageOf(s, tag) = Of(ecr[s], tag)
      /\ Ship!PreviousTag(s, tag) = Before(ecr[s], tag)
<1>1. \A s, tag : Ship!ImageExists(s, tag) = Has(ecr[s], tag)
  BY DEF Ship!ImageExists, Ship!Images, Has
<1>2. \A s, tag : Ship!PushedAt(s, tag) = At(ecr[s], tag)
  BY DEF Ship!PushedAt, At
<1>3. \A s, tag : Ship!ImageOf(s, tag) = Of(ecr[s], tag)
  BY DEF Ship!ImageOf, Ship!Images, Of
<1>4. \A s, tag : Ship!PreviousTag(s, tag) = Before(ecr[s], tag)
  BY <1>1, <1>2 DEF Ship!PreviousTag, Before
<1> QED
  BY <1>1, <1>2, <1>3, <1>4

\* Repositories in which a tag names one image
Repository(q) ==
    /\ q \in Seq(Pushed)
    /\ \A i, j \in DOMAIN q : i # j => q[i].tag # q[j].tag

\* The repositories of ECR are such.
LEMMA RepositoryFacts ==
    ASSUME ShipType, ImagesOK, NEW s \in Services PROVE Repository(ecr[s])
BY DEF ShipType, ImagesOK, Repository

\* A tag that is there is found, at one place.
LEMMA ImageFacts ==
    ASSUME NEW q, Repository(q), NEW tag, Has(q, tag)
    PROVE  /\ At(q, tag) \in DOMAIN q /\ At(q, tag) \in Nat
           /\ q[At(q, tag)].tag = tag /\ Of(q, tag) = q[At(q, tag)]
           /\ \A i \in DOMAIN q : q[i].tag = tag => i = At(q, tag)
<1>1. At(q, tag) \in DOMAIN q /\ q[At(q, tag)].tag = tag
  BY DEF Has, At
<1> DEFINE at == At(q, tag)
<1> HIDE DEF at
<1>2. at \in DOMAIN q /\ q[at].tag = tag
  BY <1>1 DEF at
<1>3. \A i \in DOMAIN q : q[i].tag = tag => i = at
  BY <1>2 DEF Repository
<1>4. Of(q, tag) = q[at]
  BY <1>2, <1>3 DEF Of
<1>5. DOMAIN q \subseteq Nat
  BY DEF Repository
<1> QED
  BY <1>2, <1>3, <1>4, <1>5 DEF at

\* The image before another is there, under another tag and at an earlier place.
LEMMA BeforeFacts ==
    ASSUME NEW q, Repository(q), NEW tag, Before(q, tag) # Ship!NoTag
    PROVE  /\ Before(q, tag) \in Ship!Tags
           /\ Has(q, tag) /\ Has(q, Before(q, tag))
           /\ At(q, Before(q, tag)) < At(q, tag)
           /\ Before(q, tag) # tag
<1> DEFINE at == At(q, tag)
           p == Before(q, tag)
<1>1. Has(q, tag) /\ at > 1 /\ p = q[at - 1].tag
  BY DEF Before
<1>2. at \in DOMAIN q /\ at \in Nat /\ q[at].tag = tag
  BY <1>1, ImageFacts
<1> HIDE DEF at, p
<1>4. at - 1 \in DOMAIN q /\ at - 1 < at /\ at - 1 # at
  BY <1>1, <1>2 DEF Repository
<1>5. p \in Ship!Tags
  <2>1. q[at - 1] \in Pushed
    BY <1>4 DEF Repository
  <2> QED
    BY <1>1, <2>1 DEF Pushed
<1>6. Has(q, p)
  BY <1>1, <1>4 DEF Has
<1>7. At(q, p) = at - 1
  BY <1>1, <1>4, <1>6, ImageFacts
<1>8. p # tag
  BY <1>1, <1>2, <1>4 DEF Repository
<1> QED
  BY <1>1, <1>4, <1>5, <1>6, <1>7, <1>8 DEF at, p

\* A push adds to the end.
LEMMA AppendFacts ==
    ASSUME NEW q \in Seq(Pushed), NEW x \in Pushed
    PROVE  /\ Append(q, x) \in Seq(Pushed)
           /\ DOMAIN Append(q, x) = DOMAIN q \cup {Len(q) + 1}
           /\ Len(q) + 1 \notin DOMAIN q
           /\ \A i \in DOMAIN q : Append(q, x)[i] = q[i]
           /\ Append(q, x)[Len(q) + 1] = x
OBVIOUS

\* The repository r has what q has, at the same places.
Extends(r, q) ==
    /\ Repository(r)
    /\ DOMAIN q \subseteq DOMAIN r
    /\ \A i \in DOMAIN q : r[i] = q[i]

\* A push of a new tag keeps what there was.
LEMMA AppendExtends ==
    ASSUME NEW q, Repository(q), NEW x \in Pushed, ~Has(q, x.tag)
    PROVE  Extends(Append(q, x), q) /\ Has(Append(q, x), x.tag)
<1> DEFINE r == Append(q, x)
           n == Len(q) + 1
<1>1. /\ r \in Seq(Pushed)
      /\ DOMAIN r = DOMAIN q \cup {n} /\ n \notin DOMAIN q
      /\ \A i \in DOMAIN q : r[i] = q[i]
      /\ r[n] = x
  BY AppendFacts DEF Repository
<1>2. \A i \in DOMAIN q : q[i].tag # x.tag
  BY DEF Has
<1>3. \A i, j \in DOMAIN q : i # j => q[i].tag # q[j].tag
  BY DEF Repository
<1> HIDE DEF r, n
<1>4. \A i, j \in DOMAIN r : i # j => r[i].tag # r[j].tag
  BY <1>1, <1>2, <1>3
<1>5. Extends(r, q) /\ Has(r, x.tag)
  BY <1>1, <1>4 DEF Extends, Repository, Has
<1> QED
  BY <1>5 DEF r

\* What was found in a repository is found in a later one, the same and at the same place.
LEMMA StaysPushed ==
    ASSUME NEW q, NEW r, Repository(q), Extends(r, q), NEW tag, Has(q, tag)
    PROVE  /\ Has(r, tag) /\ At(r, tag) = At(q, tag) /\ Of(r, tag) = Of(q, tag)
           /\ Before(r, tag) = Before(q, tag)
<1>1. /\ At(q, tag) \in DOMAIN q /\ At(q, tag) \in Nat
      /\ q[At(q, tag)].tag = tag /\ Of(q, tag) = q[At(q, tag)]
  BY ImageFacts
<1>2. Has(r, tag) /\ Repository(r)
  BY <1>1 DEF Has, Extends
<1>3. At(r, tag) = At(q, tag)
  BY <1>1, <1>2, ImageFacts DEF Extends
<1>4. Of(r, tag) = Of(q, tag)
  BY <1>1, <1>2, <1>3, ImageFacts DEF Extends
<1>5. At(q, tag) > 1 => At(q, tag) - 1 \in DOMAIN q
  BY <1>1 DEF Repository
<1>6. Before(r, tag) = Before(q, tag)
  BY <1>2, <1>3, <1>5 DEF Before, Extends
<1> QED
  BY <1>2, <1>3, <1>4, <1>6

-----------------------------------------------------------------------------
(* The other commands                                                       *)

\* A command's record that is the same, or has learned something
Same(j, i) ==
    /\ j.stage = i.stage /\ j.kind = i.kind /\ j.footprint = i.footprint /\ j.serial = i.serial
    /\ j.ref = i.ref /\ j.tags = i.tags /\ j.todo = i.todo /\ j.context = i.context
    /\ j.alone => i.alone
    /\ j.still => i.still

\* Its turn, its key and its tags are the same too.
LEMMA SameTodo ==
    ASSUME NEW d \in CLIs, Same(job'[d], job[d])
    PROVE  /\ Ship!Current(d)' = Ship!Current(d)
           /\ Ship!Key(d, Ship!Current(d))' = Ship!Key(d, Ship!Current(d))
           /\ Ship!Active(d)' = Ship!Active(d)
           /\ Ship!Chosen(d)' = Ship!Chosen(d)
BY DEF Same, Ship!Current, Ship!Key, Ship!Active, Ship!Chosen

\* The build that it waits for stays the one, if no build of its own comes or goes.
LEMMA MineKept ==
    ASSUME NEW d \in CLIs, Same(job'[d], job[d]), MineOK(d),
           \A b : Mine(d, b) => (b \in builds' <=> b \in builds)
    PROVE  MineOK(d)'
<1>1. \A b : Mine(d, b)' = Mine(d, b)
  BY DEF Same, Mine
<1>2. job'[d].stage = job[d].stage
  BY DEF Same
<1>3. Ship!Key(d, Ship!Current(d))' = Ship!Key(d, Ship!Current(d))
  BY SameTodo
<1>4. CASE job[d].stage # "run"
  <2>1. \A b \in builds : ~Mine(d, b)
    BY <1>4 DEF MineOK
  <2>2. \A b \in builds' : ~Mine(d, b)'
    BY <1>1, <2>1
  <2> QED
    BY <1>2, <1>4, <2>2 DEF MineOK
<1>5. CASE job[d].stage = "run"
  <2>1. PICK b \in builds : /\ Mine(d, b) /\ b.key = Ship!Key(d, Ship!Current(d))
                            /\ \A x \in builds : Mine(d, x) => x = b
    BY <1>5 DEF MineOK
  <2>2. b \in builds' /\ Mine(d, b)' /\ b.key = Ship!Key(d, Ship!Current(d))'
    BY <1>1, <1>3, <2>1
  <2>3. \A x \in builds' : Mine(d, x)' => x = b
    BY <1>1, <2>1
  <2> QED
    BY <1>2, <1>5, <2>2, <2>3 DEF MineOK
<1> QED
  BY <1>4, <1>5

\* Every repository has what it had.
Grows == \A s \in Services : Extends(ecr'[s], ecr[s])

\* Repositories that stay as they are count as grown.
LEMMA SameGrows ==
    ASSUME ShipType, ImagesOK, ecr' = ecr PROVE Grows
BY RepositoryFacts DEF Grows, Extends

\* A command that the step leaves alone stays right.
LEMMA OthersKeep ==
    ASSUME ShipInv, ShipType', Grows, starts <= starts',
           NEW d \in CLIs, Ship!Active(d), Same(job'[d], job[d]),
           job'[d].still => tree'[d] = tree[d],
           job'[d].alone => shipped' = shipped,
           MineOK(d)', OwnOK(d)'
    PROVE  CommandOK(d)'
<1>0. /\ ShipType /\ ImagesOK /\ CommandOK(d) /\ PushedOK
      /\ job[d] \in Job /\ job'[d] \in Job /\ starts \in Nat /\ starts' \in Nat
  BY TouchesFacts DEF ShipInv, ShipType
<1>1. /\ job'[d].stage = job[d].stage /\ job'[d].kind = job[d].kind /\ job'[d].footprint = job[d].footprint
      /\ job'[d].serial = job[d].serial /\ job'[d].ref = job[d].ref /\ job'[d].tags = job[d].tags
      /\ job'[d].todo = job[d].todo /\ job'[d].context = job[d].context
      /\ Ship!Current(d)' = Ship!Current(d) /\ Ship!Chosen(d)' = Ship!Chosen(d)
  BY SameTodo DEF Same
<1>2. (job'[d].alone => job[d].alone) /\ (job'[d].still => job[d].still)
  BY DEF Same
<1>G. \A s \in Services : \A tag : Has(ecr[s], tag) =>
        Has(ecr'[s], tag) /\ Of(ecr'[s], tag) = Of(ecr[s], tag) /\ Before(ecr'[s], tag) = Before(ecr[s], tag)
  BY <1>0, RepositoryFacts, StaysPushed DEF Grows
<1>3. StandsOK(d)'
  BY <1>0, <1>1 DEF CommandOK, StandsOK
<1>4. ReadyOK(d)'
  <2> SUFFICES ASSUME job[d].stage \in Building \cup {"publish"},
                      NEW s \in Services \ job[d].todo, job[d].tags[s] # Ship!NoTag
               PROVE  Has(ecr'[s], job[d].tags[s])
    BY <1>1 DEF ReadyOK
  <2>1. Has(ecr[s], job[d].tags[s])
    BY <1>0 DEF CommandOK, ReadyOK
  <2> QED
    BY <1>G, <2>1
<1>5. TagsOK(d)'
  <2> SUFFICES ASSUME job[d].kind \in {"build", "edit"}, job[d].stage \in Building \cup {"publish"}
               PROVE  /\ job[d].todo \subseteq Ship!Chosen(d)
                      /\ \A s \in Ship!Chosen(d) :
                           /\ job[d].tags[s].dev \in {0, job[d].serial}
                           /\ job'[d].still /\ job[d].tags[s].dev = 0
                                => Ship!Content(tree'[d], s) = Ship!Source(s, job[d].tags[s].commit)
    BY <1>1 DEF TagsOK
  <2> QED
    BY <1>0, <1>2 DEF CommandOK, TagsOK
<1>6. HereOK(d)'
  <2> SUFFICES ASSUME job[d].stage = "push"
               PROVE  /\ True(job[d].context, Ship!Current(d), job[d].tags[Ship!Current(d)])
                      /\ job'[d].still => job[d].context.content = Ship!Content(tree'[d], Ship!Current(d))
    BY <1>1 DEF HereOK
  <2> QED
    BY <1>0, <1>2 DEF CommandOK, HereOK
<1>7. RefOK(d)'
  <2> SUFFICES ASSUME job[d].ref # 0, job'[d].alone, job'[d].still
               PROVE  /\ job[d].kind = "build"
                      /\ \A s \in Services :
                           LET tag == shipped'[job[d].footprint][s] IN
                           /\ tag # Ship!NoTag
                           /\ Of(ecr'[s], tag).context.content = Ship!Source(s, job[d].ref)
                           /\ (IF job[d].stage = "tag" THEN s \notin job[d].todo ELSE job[d].tags[s] = Ship!NoTag)
                                => Ship!Content(tree'[d], s) = Ship!Source(s, job[d].ref)
    BY <1>1 DEF RefOK
  <2>1. shipped' = shipped /\ tree'[d] = tree[d] /\ job[d].alone /\ job[d].still
    BY <1>2
  <2>2. RefOK(d) /\ job[d].footprint \in Footprints
    BY <1>0 DEF CommandOK, Job
  <2>3. \A s \in Services :
          shipped[job[d].footprint][s] # Ship!NoTag
            => Of(ecr'[s], shipped[job[d].footprint][s]) = Of(ecr[s], shipped[job[d].footprint][s])
    BY <1>0, <1>G, <2>2 DEF PushedOK
  <2> QED
    BY <2>1, <2>2, <2>3 DEF RefOK
<1>8. BackOK(d)'
  <2> SUFFICES ASSUME job[d].kind = "rollback", job'[d].alone
               PROVE  \E s \in Services :
                        LET tag == shipped'[job[d].footprint][s]
                        IN Before(ecr'[s], tag) # Ship!NoTag /\ job[d].tags[s] = Before(ecr'[s], tag)
    BY <1>1 DEF BackOK
  <2>1. shipped' = shipped /\ job[d].alone
    BY <1>2
  <2>2. PICK s \in Services :
          /\ Before(ecr[s], shipped[job[d].footprint][s]) # Ship!NoTag
          /\ job[d].tags[s] = Before(ecr[s], shipped[job[d].footprint][s])
    BY <1>0, <2>1 DEF CommandOK, BackOK
  <2>3. Has(ecr[s], shipped[job[d].footprint][s])
    BY <1>0, <2>2, RepositoryFacts, BeforeFacts
  <2> QED
    BY <1>G, <2>1, <2>2, <2>3
<1> QED
  BY <1>3, <1>4, <1>5, <1>6, <1>7, <1>8 DEF CommandOK

-----------------------------------------------------------------------------
(* The steps of a command                                                   *)

\* What a command's own tags are given to stays so, unless something is new.
LEMMA OwnKept ==
    ASSUME NEW d \in CLIs, OwnOK(d),
           job'[d].serial = job[d].serial, job'[d].still => job[d].still,
           job'[d].still => tree'[d] = tree[d],
           \A s \in Services : \A i \in DOMAIN ecr'[s] :
             \/ i \in DOMAIN ecr[s] /\ ecr'[s][i] = ecr[s][i]
             \/ ecr'[s][i].tag.dev # job[d].serial
             \/ job[d].still => ecr'[s][i].context.content = Ship!Content(tree[d], s),
           \A u \in uploads' :
             \/ u \in uploads
             \/ u.key.tag.dev # job[d].serial
             \/ job[d].still => u.context.content = Ship!Content(tree[d], u.key.service),
           \A b \in builds' :
             \/ b.status # "building"
             \/ b \in builds
             \/ b.key.tag.dev # job[d].serial
             \/ job[d].still => b.context.content = Ship!Content(tree[d], b.key.service)
    PROVE  OwnOK(d)'
<1> SUFFICES ASSUME job'[d].still PROVE OwnOK(d)'
  BY DEF OwnOK
<1>0. job[d].still /\ tree'[d] = tree[d]
  OBVIOUS
<1>1. \A context, s, tag : Own(d, context, s, tag)' = Own(d, context, s, tag)
  BY <1>0 DEF Own
<1>2. \A s \in Services : \A i \in DOMAIN ecr'[s] : Own(d, ecr'[s][i].context, s, ecr'[s][i].tag)
  BY <1>0 DEF OwnOK, Own
<1>3. \A u \in uploads' : Own(d, u.context, u.key.service, u.key.tag)
  BY <1>0 DEF OwnOK, Own
<1>4. \A b \in builds' : b.status = "building" => Own(d, b.context, b.key.service, b.key.tag)
  BY <1>0 DEF OwnOK, Own
<1> QED
  BY <1>0, <1>2, <1>3, <1>4 DEF OwnOK, Own

\* An unchanged record is the same.
LEMMA SameIsSame == ASSUME NEW d, job'[d] = job[d] PROVE Same(job'[d], job[d])
BY DEF Same

\* A step of one command keeps the invariant if it keeps the shared parts and its own.
LEMMA CommandStep ==
    ASSUME ShipInv, NEW c \in CLIs, Ship!Active(c),
           ShipType', ImagesOK', ContextsOK', PushedOK', Ship!UploadsAreCleaned', Grows,
           \A d \in CLIs \ {c} : job'[d] = job[d],
           tree' = tree, starts' = starts,
           \A b : b.by # c => (b \in builds' <=> b \in builds),
           \/ job'[c].stage = "idle"
           \/ /\ job'[c].alone = job[c].alone /\ job'[c].serial = job[c].serial
              /\ CommandOK(c)',
           \A d \in CLIs \ {c} : Ship!Active(d) => OwnOK(d)'
    PROVE  ShipInv'
<1>0. CompanyOK /\ starts \in Nat
  BY TouchesFacts DEF ShipInv, ShipType
<1>1. CompanyOK'
  BY <1>0 DEF CompanyOK, Ship!Active
<1>2. ASSUME NEW d \in CLIs \ {c}, Ship!Active(d)' PROVE CommandOK(d)'
  <2>1. Ship!Active(d) /\ job'[d] = job[d]
    BY <1>2 DEF Ship!Active
  <2>2. ~job[d].alone
    BY <1>0, <2>1 DEF CompanyOK
  <2>3. MineOK(d)'
    <3>1. MineOK(d)
      BY <2>1 DEF ShipInv, CommandOK
    <3>2. \A b : Mine(d, b) => (b \in builds' <=> b \in builds)
      BY DEF Mine
    <3> QED
      BY <2>1, <3>1, <3>2, MineKept, SameIsSame
  <2> QED
    BY <1>0, <2>1, <2>2, <2>3, OthersKeep, SameIsSame
<1>3. \A d \in CLIs : Ship!Active(d)' => CommandOK(d)'
  BY <1>2 DEF Ship!Active
<1> QED
  BY <1>1, <1>3 DEF ShipInv

\* A step that only moves the command on, or ends it
LEMMA JobStep ==
    ASSUME ShipInv, NEW c \in CLIs, Ship!Active(c), NEW j \in Job, job' = [job EXCEPT ![c] = j],
           UNCHANGED <<tree, ecr, builds, shipped, starts, edits>>,
           uploads' \subseteq uploads, lost' \subseteq Ship!Keys, shipFaults' \in 0 .. MaxShipFaults,
           Ship!UploadsAreCleaned',
           \/ j.stage = "idle"
           \/ j.alone = job[c].alone /\ j.serial = job[c].serial /\ CommandOK(c)'
    PROVE  ShipInv'
<1>0. ShipType /\ ImagesOK /\ ContextsOK /\ PushedOK /\ \A d \in CLIs : Ship!Active(d) => CommandOK(d)
  BY DEF ShipInv
<1>1. job' \in [CLIs -> Job] /\ job'[c] = j /\ \A d \in CLIs \ {c} : job'[d] = job[d]
  BY <1>0 DEF ShipType
<1>2. ShipType'
  BY <1>0, <1>1 DEF ShipType
<1>3. ImagesOK' /\ PushedOK'
  BY <1>0 DEF ImagesOK, PushedOK
<1>4. ContextsOK'
  BY <1>0 DEF ContextsOK
<1>5. Grows
  BY <1>0, SameGrows
<1>6. ASSUME NEW d \in CLIs \ {c}, Ship!Active(d) PROVE OwnOK(d)'
  <2>1. OwnOK(d) /\ job'[d] = job[d]
    BY <1>0, <1>1, <1>6 DEF CommandOK
  <2> QED
    BY <2>1, OwnKept
<1> QED
  BY <1>1, <1>2, <1>3, <1>4, <1>5, <1>6, CommandStep

\* Nothing is uploaded, and no command that waits for an upload ends.
LEMMA UploadsKept ==
    ASSUME Ship!UploadsAreCleaned, NEW c \in CLIs, job[c].stage \notin {"start", "run"},
           \A d \in CLIs \ {c} : job'[d] = job[d],
           uploads' \subseteq uploads, lost \subseteq lost'
    PROVE  Ship!UploadsAreCleaned'
<1>1. \A d \in CLIs \ {c} : Ship!Key(d, Ship!Current(d))' = Ship!Key(d, Ship!Current(d))
  BY SameTodo, SameIsSame
<1> SUFFICES ASSUME NEW u \in uploads', u.key \notin lost'
             PROVE  \E d \in CLIs : job'[d].stage \in {"start", "run"} /\ Ship!Key(d, Ship!Current(d))' = u.key
  BY DEF Ship!UploadsAreCleaned
<1>2. PICK d \in CLIs : job[d].stage \in {"start", "run"} /\ Ship!Key(d, Ship!Current(d)) = u.key
  BY DEF Ship!UploadsAreCleaned
<1> QED
  BY <1>1, <1>2

\* The tarball of the build in progress is removed.
LEMMA UploadsCleaned ==
    ASSUME Ship!UploadsAreCleaned, NEW c \in CLIs,
           \A d \in CLIs \ {c} : job'[d] = job[d],
           uploads' = {u \in uploads : u.key # Ship!Key(c, Ship!Current(c))}, lost' = lost
    PROVE  Ship!UploadsAreCleaned'
<1>1. \A d \in CLIs \ {c} : Ship!Key(d, Ship!Current(d))' = Ship!Key(d, Ship!Current(d))
  BY SameTodo, SameIsSame
<1> SUFFICES ASSUME NEW u \in uploads', u.key \notin lost'
             PROVE  \E d \in CLIs : job'[d].stage \in {"start", "run"} /\ Ship!Key(d, Ship!Current(d))' = u.key
  BY DEF Ship!UploadsAreCleaned
<1>2. PICK d \in CLIs : job[d].stage \in {"start", "run"} /\ Ship!Key(d, Ship!Current(d)) = u.key
  BY DEF Ship!UploadsAreCleaned
<1> QED
  BY <1>1, <1>2

\* What the invariant says of a command that runs, put together.
LEMMA JobFacts ==
    ASSUME ShipInv, NEW c \in CLIs, Ship!Active(c)
    PROVE  /\ job \in [CLIs -> Job] /\ job[c] \in Job /\ tree[c] \in Tree
           /\ job[c].tags \in [Services -> Ship!Tags] /\ job[c].todo \subseteq Services
           /\ job[c].serial \in 1 .. MaxStarts /\ job[c].footprint \in Footprints
           /\ CommandOK(c)
           /\ job[c].stage \in (Building \cup {"tag"}) \ {"pending"} => Ship!Current(c) \in job[c].todo
           /\ lost \subseteq Ship!Keys /\ shipFaults \in 0 .. MaxShipFaults
<1>1. job \in [CLIs -> Job] /\ job[c] \in Job /\ tree[c] \in Tree /\ CommandOK(c) /\ starts \in 0 .. MaxStarts
      /\ lost \subseteq Ship!Keys /\ shipFaults \in 0 .. MaxShipFaults
  BY DEF ShipInv, ShipType
<1>2. /\ job[c].tags \in [Services -> Ship!Tags] /\ job[c].todo \subseteq Services
      /\ job[c].footprint \in Footprints
  BY <1>1 DEF Job
<1>3. job[c].serial \in 1 .. MaxStarts
  BY <1>1, TouchesFacts DEF CommandOK, StandsOK
<1>4. ASSUME job[c].stage \in (Building \cup {"tag"}) \ {"pending"} PROVE Ship!Current(c) \in job[c].todo
  <2>1. job[c].todo # {}
    BY <1>1, <1>4 DEF CommandOK, StandsOK
  <2> QED
    BY <1>2, <2>1, MinFacts DEF Ship!Current
<1> QED
  BY <1>1, <1>2, <1>3, <1>4

\* A command may end at any time.
LEMMA StopInv ==
    ASSUME ShipInv, NEW c \in CLIs, Ship!Active(c), Ship!Stop(c),
           UNCHANGED <<tree, ecr, builds, shipped, starts, edits>>,
           uploads' \subseteq uploads, lost' \subseteq Ship!Keys, shipFaults' \in 0 .. MaxShipFaults,
           Ship!UploadsAreCleaned'
    PROVE  ShipInv'
BY IdleType, JobStep DEF Ship!Stop

\* The parts of CommandOK that a step keeps which does not change the tags
LEMMA OnTheWay ==
    ASSUME ShipInv, NEW c \in CLIs, Ship!Active(c), NEW j \in Job, job'[c] = j, Grows,
           UNCHANGED <<tree, shipped, starts>>,
           j.kind = job[c].kind, j.footprint = job[c].footprint, j.serial = job[c].serial, j.ref = job[c].ref,
           j.tags = job[c].tags, j.alone = job[c].alone, j.still = job[c].still,
           j.todo \subseteq job[c].todo, j.stage \in Building \cup {"publish"}, job[c].stage # "tag",
           j.stage \in Building => job[c].stage \in Building,
           j.stage \in Building \ {"pending"} => j.todo # {},
           j.stage = "publish" => j.todo = {} /\ job[c].stage \in Building \cup {"check"},
           \A s \in Services \ j.todo : j.tags[s] # Ship!NoTag => Has(ecr'[s], j.tags[s]),
           MineOK(c)', OwnOK(c)', HereOK(c)'
    PROVE  CommandOK(c)'
<1>0. /\ ShipType /\ ImagesOK /\ PushedOK /\ CommandOK(c) /\ job[c].footprint \in Footprints
  BY JobFacts DEF ShipInv
<1>1. StandsOK(c)'
  BY <1>0 DEF CommandOK, StandsOK, Building
<1>2. ReadyOK(c)'
  BY <1>0 DEF ReadyOK
<1>4. TagsOK(c)'
  <2>1. Ship!Chosen(c)' = Ship!Chosen(c)
    BY <1>0 DEF Ship!Chosen
  <2>2. j.kind \in {"build", "edit"} => job[c].stage \in Building
    BY <1>0 DEF CommandOK, StandsOK
  <2> QED
    BY <1>0, <2>1, <2>2 DEF CommandOK, TagsOK
<1>5. \A s \in Services : \A tag : Has(ecr[s], tag) =>
        Of(ecr'[s], tag) = Of(ecr[s], tag) /\ Before(ecr'[s], tag) = Before(ecr[s], tag)
  BY <1>0, RepositoryFacts, StaysPushed DEF Grows
<1>6. RefOK(c)'
  <2> SUFFICES ASSUME job[c].ref # 0, job[c].alone, job[c].still
               PROVE  /\ job[c].kind = "build"
                      /\ \A s \in Services :
                           LET tag == shipped[job[c].footprint][s] IN
                           /\ tag # Ship!NoTag
                           /\ Of(ecr'[s], tag).context.content = Ship!Source(s, job[c].ref)
                           /\ job[c].tags[s] = Ship!NoTag
                                => Ship!Content(tree[c], s) = Ship!Source(s, job[c].ref)
    BY DEF RefOK, Building
  <2>1. RefOK(c)
    BY <1>0 DEF CommandOK
  <2>2. \A s \in Services :
          shipped[job[c].footprint][s] # Ship!NoTag
            => Of(ecr'[s], shipped[job[c].footprint][s]) = Of(ecr[s], shipped[job[c].footprint][s])
    BY <1>0, <1>5 DEF PushedOK
  <2> QED
    BY <2>1, <2>2 DEF RefOK
<1>7. BackOK(c)'
  <2> SUFFICES ASSUME job[c].kind = "rollback", job[c].alone
               PROVE  \E s \in Services :
                        LET tag == shipped[job[c].footprint][s]
                        IN Before(ecr'[s], tag) # Ship!NoTag /\ job[c].tags[s] = Before(ecr'[s], tag)
    BY DEF BackOK
  <2>2. PICK s \in Services :
          /\ Before(ecr[s], shipped[job[c].footprint][s]) # Ship!NoTag
          /\ job[c].tags[s] = Before(ecr[s], shipped[job[c].footprint][s])
    BY <1>0 DEF CommandOK, BackOK
  <2>3. Has(ecr[s], shipped[job[c].footprint][s])
    BY <1>0, <2>2, RepositoryFacts, BeforeFacts
  <2> QED
    BY <1>5, <2>2, <2>3
<1> QED
  BY <1>1, <1>2, <1>4, <1>6, <1>7 DEF CommandOK

\* As the parts that a step keeps which stays here
LEMMA StayHere ==
    ASSUME ShipInv, NEW c \in CLIs, Ship!Active(c), NEW j \in Job, job'[c] = j,
           UNCHANGED <<tree, ecr, builds>>, uploads' \subseteq uploads,
           j.serial = job[c].serial, j.still = job[c].still, job[c].stage # "run", j.stage # "run"
    PROVE  MineOK(c)' /\ OwnOK(c)' /\ Grows
<1>1. MineOK(c) /\ OwnOK(c) /\ ShipType /\ ImagesOK
  BY DEF ShipInv, CommandOK
<1>2. MineOK(c)'
  BY <1>1 DEF MineOK, Mine
<1>3. OwnOK(c)'
  BY <1>1, OwnKept
<1> QED
  BY <1>1, <1>2, <1>3, SameGrows

\* A command with a stage is one that runs.
LEMMA ActiveFacts == \A c \in CLIs : job[c].stage # "idle" => Ship!Active(c)
BY DEF Ship!Active

\* loadOverrideImage
LEMMA CheckInv == ASSUME ShipInv, NEW c \in CLIs, Ship!Check(c) PROVE ShipInv'
<1>0. /\ Ship!Active(c) /\ job[c].stage = "check"
      /\ UNCHANGED <<tree, ecr, builds, shipped, starts, edits, uploads, lost, shipFaults>>
  BY DEF Ship!Check, Ship!Active, Ship!outside, Ship!aws
<1>1. job \in [CLIs -> Job] /\ job[c] \in Job /\ CommandOK(c) /\ lost \subseteq Ship!Keys /\ shipFaults \in 0 .. MaxShipFaults
  BY <1>0, JobFacts
<1>2. CASE ~Ship!OverrideIsThere(c)
  <2>1. Ship!Stop(c)
    BY <1>2 DEF Ship!Check
  <2>2. Ship!UploadsAreCleaned'
    BY <1>0, <1>1, <2>1, UploadsKept DEF ShipInv, Ship!Stop
  <2> QED
    BY <1>0, <1>1, <2>1, <2>2, StopInv
<1>3. CASE Ship!OverrideIsThere(c)
  <2> DEFINE j == [job[c] EXCEPT !.stage = "publish"]
  <2>1. job' = [job EXCEPT ![c] = j]
    BY <1>3, Zenon DEF Ship!Check
  <2>2. /\ j \in Job /\ j.stage = "publish" /\ j.kind = job[c].kind /\ j.footprint = job[c].footprint
        /\ j.serial = job[c].serial /\ j.ref = job[c].ref /\ j.tags = job[c].tags /\ j.alone = job[c].alone
        /\ j.still = job[c].still /\ j.todo = job[c].todo
    BY <1>1 DEF Job
  <2> HIDE DEF j
  <2>3. job'[c] = j /\ \A d \in CLIs \ {c} : job'[d] = job[d]
    BY <1>1, <2>1
  <2>4. j.todo = {}
    BY <1>0, <1>1, <2>2 DEF CommandOK, StandsOK
  <2>5. \A s \in Services \ j.todo : j.tags[s] # Ship!NoTag => Has(ecr[s], j.tags[s])
    BY <1>3, <2>2, NamedFacts DEF Ship!OverrideIsThere, Ship!Chosen
  <2>6. HereOK(c)'
    BY <2>2, <2>3 DEF HereOK
  <2>9. MineOK(c)' /\ OwnOK(c)' /\ Grows
    BY <1>0, <2>2, <2>3, StayHere
  <2>7. CommandOK(c)'
    BY <1>0, <2>2, <2>3, <2>4, <2>5, <2>6, <2>9, OnTheWay DEF Building
  <2>8. Ship!UploadsAreCleaned'
    BY <1>0, <2>3, UploadsKept DEF ShipInv
  <2> QED
    BY <1>0, <1>1, <2>1, <2>2, <2>7, <2>8, JobStep
<1> QED
  BY <1>2, <1>3

\* computeImageTag of every service
LEMMA TagInv == ASSUME ShipInv, NEW c \in CLIs, Ship!Tag(c) PROVE ShipInv'
<1>0. /\ Ship!Active(c) /\ job[c].stage = "tag"
      /\ UNCHANGED <<tree, ecr, builds, shipped, starts, edits, uploads, lost, shipFaults>>
  BY DEF Ship!Tag, Ship!Active, Ship!outside, Ship!aws
<1>1. /\ job \in [CLIs -> Job] /\ job[c] \in Job /\ CommandOK(c) /\ lost \subseteq Ship!Keys
      /\ shipFaults \in 0 .. MaxShipFaults
      /\ tree[c] \in Tree /\ job[c].todo \subseteq Services /\ job[c].serial \in 1 .. MaxStarts
  BY <1>0, JobFacts
<1> DEFINE tag == Ship!ComputeImageTag(tree[c], job[c].serial)
           tags == [s \in Services |-> IF s \in job[c].todo THEN tag ELSE Ship!NoTag]
           stage == IF job[c].remote THEN "pending" ELSE "build"
           j == [job[c] EXCEPT !.stage = stage, !.tags = tags]
<1>2. job' = [job EXCEPT ![c] = j]
  BY Zenon DEF Ship!Tag
<1>3. /\ tag \in Ship!Tags /\ tag # Ship!NoTag /\ tag.dev \in {0, job[c].serial}
      /\ tag.dev = 0 => ~Ship!Dirty(tree[c]) /\ tag.commit = tree[c].head
  BY <1>1, TagFacts
<1> HIDE DEF tag
<1>4. tags \in [Services -> Ship!Tags] /\ stage \in {"pending", "build"}
  BY <1>3, NoTagType
<1>5. /\ \A s \in job[c].todo : tags[s] = tag
      /\ \A s \in Services \ job[c].todo : tags[s] = Ship!NoTag
  BY <1>1
<1> HIDE DEF tags, stage
<1>6. /\ j \in Job /\ j.stage = stage /\ j.tags = tags /\ j.kind = job[c].kind /\ j.footprint = job[c].footprint
      /\ j.serial = job[c].serial /\ j.ref = job[c].ref /\ j.alone = job[c].alone
      /\ j.still = job[c].still /\ j.todo = job[c].todo
  BY <1>1, <1>4 DEF Job, Building
<1> HIDE DEF j
<1>7. job'[c] = j /\ \A d \in CLIs \ {c} : job'[d] = job[d]
  BY <1>1, <1>2
<1>8. StandsOK(c) /\ MineOK(c) /\ OwnOK(c) /\ RefOK(c) /\ job[c].kind \in {"build", "edit"}
  BY <1>0, <1>1 DEF CommandOK, StandsOK
<1>9. CommandOK(c)'
  <2>1. StandsOK(c)'
    BY <1>0, <1>4, <1>6, <1>7, <1>8 DEF StandsOK, Building
  <2>2. ReadyOK(c)'
    BY <1>5, <1>6, <1>7 DEF ReadyOK
  <2>3. MineOK(c)'
    BY <1>0, <1>4, <1>6, <1>7, <1>8 DEF MineOK, Mine
  <2>4. TagsOK(c)'
    <3>1. Ship!Chosen(c)' = job[c].todo
      BY <1>1, <1>3, <1>5, <1>6, <1>7 DEF Ship!Chosen
    <3>2. ASSUME NEW s \in job[c].todo
          PROVE  /\ tags[s].dev \in {0, job[c].serial}
                 /\ tags[s].dev = 0 => Ship!Content(tree[c], s) = Ship!Source(s, tags[s].commit)
      BY <1>1, <1>3, <1>5, ContentFacts
    <3> QED
      BY <1>0, <1>6, <1>7, <3>1, <3>2 DEF TagsOK
  <2>5. HereOK(c)'
    BY <1>4, <1>6, <1>7 DEF HereOK
  <2>6. OwnOK(c)'
    BY <1>0, <1>6, <1>7, <1>8, OwnKept
  <2>7. RefOK(c)'
    BY <1>0, <1>3, <1>4, <1>5, <1>6, <1>7, <1>8 DEF RefOK
  <2>8. BackOK(c)'
    BY <1>6, <1>7, <1>8 DEF BackOK
  <2> QED
    BY <2>1, <2>2, <2>3, <2>4, <2>5, <2>6, <2>7, <2>8 DEF CommandOK
<1>10. Ship!UploadsAreCleaned'
  BY <1>0, <1>7, UploadsKept DEF ShipInv
<1> QED
  BY <1>0, <1>1, <1>2, <1>6, <1>9, <1>10, JobStep

\* Services are done one after the other.
LEMMA OnwardFacts ==
    ASSUME ShipInv, NEW c \in CLIs, Ship!Active(c), NEW working \in {"build", "upload"}, Ship!Onward(c, working),
           job[c].todo # {}
    PROVE  LET j == job'[c] IN
             /\ j \in Job /\ job' = [job EXCEPT ![c] = j] /\ \A d \in CLIs \ {c} : job'[d] = job[d]
             /\ j.todo = job[c].todo \ {Ship!Current(c)}
             /\ j.stage = IF j.todo = {} THEN "publish" ELSE working
             /\ j.kind = job[c].kind /\ j.footprint = job[c].footprint
             /\ j.serial = job[c].serial /\ j.ref = job[c].ref /\ j.tags = job[c].tags
             /\ j.alone = job[c].alone /\ j.still = job[c].still
<1> DEFINE todo == job[c].todo \ {Ship!Current(c)}
           stage == IF job[c].todo = {Ship!Current(c)} THEN "publish" ELSE working
           x == [job[c] EXCEPT !.todo = todo, !.stage = stage]
<1>1. job \in [CLIs -> Job] /\ job[c] \in Job /\ job[c].todo \subseteq Services
  BY JobFacts
<1>2. job' = [job EXCEPT ![c] = x]
  BY Zenon DEF Ship!Onward
<1>3. x \in Job /\ x.todo = todo /\ x.stage = stage /\ x.kind = job[c].kind /\ x.footprint = job[c].footprint
      /\ x.serial = job[c].serial /\ x.ref = job[c].ref /\ x.tags = job[c].tags
      /\ x.alone = job[c].alone /\ x.still = job[c].still
  <2>1. todo \subseteq Services /\ stage \in {"publish", "build", "upload"}
    BY <1>1
  <2> HIDE DEF todo, stage
  <2> QED
    BY <1>1, <2>1 DEF Job, Building
<1>4. stage = IF todo = {} THEN "publish" ELSE working
  BY <1>1, MinFacts DEF Ship!Current
<1> HIDE DEF x
<1>5. job'[c] = x /\ \A d \in CLIs \ {c} : job'[d] = job[d]
  BY <1>1, <1>2
<1> QED
  BY <1>2, <1>3, <1>4, <1>5

\* What was done is in ECR, and so is the current service's image now.
LEMMA OneMore ==
    ASSUME ShipInv, NEW c \in CLIs, Ship!Active(c), job[c].stage \in Building, Grows,
           job'[c].todo = job[c].todo \ {Ship!Current(c)}, job'[c].tags = job[c].tags,
           Has(ecr'[Ship!Current(c)], job[c].tags[Ship!Current(c)])
    PROVE  \A s \in Services \ job'[c].todo : job'[c].tags[s] # Ship!NoTag => Has(ecr'[s], job'[c].tags[s])
<1>1. ReadyOK(c) /\ ShipType /\ ImagesOK
  BY DEF ShipInv, CommandOK
<1>2. \A s \in Services : \A tag : Has(ecr[s], tag) => Has(ecr'[s], tag)
  BY <1>1, RepositoryFacts, StaysPushed DEF Grows
<1> SUFFICES ASSUME NEW s \in Services \ job'[c].todo, job[c].tags[s] # Ship!NoTag
             PROVE  Has(ecr'[s], job[c].tags[s])
  OBVIOUS
<1>3. CASE s = Ship!Current(c)
  BY <1>3
<1>4. CASE s \notin job[c].todo
  BY <1>1, <1>2, <1>4 DEF ReadyOK
<1> QED
  BY <1>3, <1>4

\* An image that ECR has is not built again.
LEMMA SkipInv == ASSUME ShipInv, NEW c \in CLIs, Ship!Skip(c) PROVE ShipInv'
<1>0. /\ Ship!Active(c) /\ job[c].stage = "build" /\ Ship!Onward(c, "build")
      /\ UNCHANGED <<tree, ecr, builds, shipped, starts, edits, uploads, lost, shipFaults>>
  BY DEF Ship!Skip, Ship!Active, Ship!outside, Ship!aws
<1>1. /\ CommandOK(c) /\ lost \subseteq Ship!Keys /\ shipFaults \in 0 .. MaxShipFaults
      /\ Ship!Current(c) \in job[c].todo
  BY <1>0, JobFacts DEF Building
<1> DEFINE j == job'[c]
<1>2. /\ j \in Job /\ job' = [job EXCEPT ![c] = j] /\ \A d \in CLIs \ {c} : job'[d] = job[d]
      /\ j.todo = job[c].todo \ {Ship!Current(c)}
      /\ j.stage = IF j.todo = {} THEN "publish" ELSE "build"
      /\ j.kind = job[c].kind /\ j.footprint = job[c].footprint
      /\ j.serial = job[c].serial /\ j.ref = job[c].ref /\ j.tags = job[c].tags
      /\ j.alone = job[c].alone /\ j.still = job[c].still
  BY <1>0, <1>1, OnwardFacts
<1>3. MineOK(c)' /\ OwnOK(c)' /\ Grows
  BY <1>0, <1>2, StayHere
<1>4. Has(ecr[Ship!Current(c)], job[c].tags[Ship!Current(c)])
  BY NamedFacts DEF Ship!Skip
<1>5. \A s \in Services \ j.todo : j.tags[s] # Ship!NoTag => Has(ecr'[s], j.tags[s])
  BY <1>0, <1>2, <1>3, <1>4, OneMore DEF Building
<1>6. HereOK(c)'
  BY <1>2 DEF HereOK
<1> HIDE DEF j
<1>7. job'[c] = j
  BY DEF j
<1>8. CommandOK(c)'
  BY <1>0, <1>2, <1>3, <1>5, <1>6, <1>7, OnTheWay DEF Building
<1>9. Ship!UploadsAreCleaned'
  BY <1>0, <1>2, UploadsKept DEF ShipInv
<1> QED
  BY <1>0, <1>1, <1>2, <1>8, <1>9, JobStep

\* What is packed now is what the tag promises.
LEMMA ContextFacts ==
    ASSUME ShipInv, NEW c \in CLIs, Ship!Active(c), job[c].stage \in Building \ {"pending"}
    PROVE  LET context == Ship!Context(c)
               s == Ship!Current(c)
           IN /\ context \in Ship!Contexts
              /\ s \in Services /\ job[c].tags[s] \in Ship!Tags
              /\ Ship!Key(c, s) \in Ship!Keys
              /\ Ship!Key(c, s).service = s /\ Ship!Key(c, s).tag = job[c].tags[s]
              /\ context.content = Ship!Content(tree[c], s) /\ context.still = job[c].still
              /\ True(context, s, job[c].tags[s])
              /\ job[c].tags[s].dev \in {0, job[c].serial} /\ job[c].tags[s].dev <= starts
<1>1. /\ job[c] \in Job /\ CommandOK(c) /\ tree[c] \in Tree /\ Ship!Current(c) \in job[c].todo
      /\ job[c].todo \subseteq Services /\ job[c].tags \in [Services -> Ship!Tags] /\ job[c].footprint \in Footprints
  BY JobFacts
<1> DEFINE s == Ship!Current(c)
<1>2. s \in Services /\ job[c].tags[s] \in Ship!Tags
  BY <1>1
<1>3. Ship!Key(c, s) \in Ship!Keys /\ Ship!Key(c, s).service = s /\ Ship!Key(c, s).tag = job[c].tags[s]
  BY <1>1, <1>2 DEF Ship!Key, Ship!Keys
<1>4. Ship!Context(c) = [content |-> Ship!Content(tree[c], s), still |-> job[c].still]
  BY DEF Ship!Context
<1>5. Ship!Content(tree[c], s) \in [commit : 0 .. Len(Touches), edit : 0 .. MaxEdits] /\ job[c].still \in BOOLEAN
  BY <1>1, <1>2, ContentFacts DEF Job
<1>6. /\ Ship!Context(c) \in Ship!Contexts /\ Ship!Context(c).content = Ship!Content(tree[c], s)
      /\ Ship!Context(c).still = job[c].still
  BY <1>4, <1>5 DEF Ship!Contexts
<1>7. /\ s \in Ship!Chosen(c) /\ job[c].tags[s].dev \in {0, job[c].serial}
      /\ job[c].still /\ job[c].tags[s].dev = 0
           => Ship!Content(tree[c], s) = Ship!Source(s, job[c].tags[s].commit)
  BY <1>1 DEF CommandOK, StandsOK, TagsOK
<1>8. True(Ship!Context(c), s, job[c].tags[s])
  BY <1>6, <1>7 DEF True
<1>9. job[c].tags[s].dev <= starts
  <2>1. job[c].serial \in 1 .. starts /\ starts \in Nat
    BY <1>1, TouchesFacts DEF CommandOK, StandsOK, ShipInv, ShipType
  <2> QED
    BY <1>7, <2>1
<1> QED
  BY <1>2, <1>3, <1>6, <1>7, <1>8, <1>9

\* buildAndPush takes the context.
LEMMA BuildInv == ASSUME ShipInv, NEW c \in CLIs, Ship!Build(c) PROVE ShipInv'
<1>0. /\ Ship!Active(c) /\ job[c].stage = "build"
      /\ UNCHANGED <<tree, ecr, builds, shipped, starts, edits, uploads, lost, shipFaults>>
  BY DEF Ship!Build, Ship!Active, Ship!outside, Ship!aws
<1>1. /\ CommandOK(c) /\ lost \subseteq Ship!Keys /\ shipFaults \in 0 .. MaxShipFaults
      /\ Ship!Current(c) \in job[c].todo /\ job \in [CLIs -> Job] /\ job[c] \in Job
  BY <1>0, JobFacts DEF Building
<1> DEFINE x == Ship!Context(c)
           j == [job[c] EXCEPT !.stage = "push", !.context = x]
<1>2. job' = [job EXCEPT ![c] = j]
  BY Zenon DEF Ship!Build
<1>3. /\ x \in Ship!Contexts /\ x.content = Ship!Content(tree[c], Ship!Current(c))
      /\ True(x, Ship!Current(c), job[c].tags[Ship!Current(c)])
  BY <1>0, ContextFacts DEF Building
<1> HIDE DEF x
<1>4. /\ j \in Job /\ j.stage = "push" /\ j.context = x /\ j.kind = job[c].kind /\ j.footprint = job[c].footprint
      /\ j.serial = job[c].serial /\ j.ref = job[c].ref /\ j.tags = job[c].tags
      /\ j.alone = job[c].alone /\ j.still = job[c].still /\ j.todo = job[c].todo
  BY <1>1, <1>3 DEF Job, Building
<1> HIDE DEF j
<1>5. job'[c] = j /\ \A d \in CLIs \ {c} : job'[d] = job[d]
  BY <1>1, <1>2
<1>6. MineOK(c)' /\ OwnOK(c)' /\ Grows
  BY <1>0, <1>4, <1>5, StayHere
<1>7. HereOK(c)'
  <2>1. Ship!Current(c)' = Ship!Current(c)
    BY <1>4, <1>5 DEF Ship!Current
  <2> QED
    BY <1>0, <1>3, <1>4, <1>5, <2>1 DEF HereOK
<1>8. \A s \in Services \ j.todo : j.tags[s] # Ship!NoTag => Has(ecr'[s], j.tags[s])
  BY <1>0, <1>1, <1>4 DEF CommandOK, ReadyOK, Building
<1>9. CommandOK(c)'
  BY <1>0, <1>1, <1>4, <1>5, <1>6, <1>7, <1>8, OnTheWay DEF Building
<1>10. Ship!UploadsAreCleaned'
  BY <1>0, <1>5, UploadsKept DEF ShipInv
<1> QED
  BY <1>0, <1>1, <1>2, <1>4, <1>9, <1>10, JobStep

\* Which images are missing
LEMMA PendingInv == ASSUME ShipInv, NEW c \in CLIs, Ship!Pending(c) PROVE ShipInv'
<1>0. /\ Ship!Active(c) /\ job[c].stage = "pending"
      /\ UNCHANGED <<tree, ecr, builds, shipped, starts, edits, uploads, lost, shipFaults>>
  BY DEF Ship!Pending, Ship!Active, Ship!outside, Ship!aws
<1>1. /\ CommandOK(c) /\ lost \subseteq Ship!Keys /\ shipFaults \in 0 .. MaxShipFaults
      /\ job \in [CLIs -> Job] /\ job[c] \in Job /\ job[c].todo \subseteq Services
  BY <1>0, JobFacts
<1> DEFINE missing == {s \in job[c].todo : ~Ship!ImageExists(s, job[c].tags[s])}
           stage == IF missing = {} THEN "publish" ELSE "upload"
           j == [job[c] EXCEPT !.todo = missing, !.stage = stage]
<1>2. job' = [job EXCEPT ![c] = j]
  BY Zenon DEF Ship!Pending
<1>3. missing \subseteq job[c].todo /\ \A s \in job[c].todo \ missing : Has(ecr[s], job[c].tags[s])
  BY NamedFacts
<1> HIDE DEF missing
<1>4. /\ j \in Job /\ j.stage = stage /\ j.todo = missing /\ j.kind = job[c].kind /\ j.footprint = job[c].footprint
      /\ j.serial = job[c].serial /\ j.ref = job[c].ref /\ j.tags = job[c].tags
      /\ j.alone = job[c].alone /\ j.still = job[c].still
  <2>1. missing \subseteq Services /\ stage \in {"publish", "upload"}
    BY <1>1, <1>3
  <2> QED
    BY <1>1, <2>1 DEF Job, Building
<1> HIDE DEF j
<1>5. job'[c] = j /\ \A d \in CLIs \ {c} : job'[d] = job[d]
  BY <1>1, <1>2
<1>6. MineOK(c)' /\ OwnOK(c)' /\ Grows
  BY <1>0, <1>4, <1>5, StayHere
<1>7. HereOK(c)'
  BY <1>4, <1>5 DEF HereOK
<1>8. \A s \in Services \ j.todo : j.tags[s] # Ship!NoTag => Has(ecr'[s], j.tags[s])
  BY <1>0, <1>1, <1>3, <1>4 DEF CommandOK, ReadyOK, Building
<1>9. CommandOK(c)'
  BY <1>0, <1>1, <1>3, <1>4, <1>5, <1>6, <1>7, <1>8, OnTheWay DEF Building
<1>10. Ship!UploadsAreCleaned'
  BY <1>0, <1>5, UploadsKept DEF ShipInv
<1> QED
  BY <1>0, <1>1, <1>2, <1>4, <1>9, <1>10, JobStep

\* A push to a repository that has no such tag
LEMMA PushFacts ==
    ASSUME ShipType, ImagesOK, PushedOK, NEW s \in Services, NEW x \in Pushed, ~Has(ecr[s], x.tag), Ship!Push(s, x),
           x.tag.dev <= starts, True(x.context, s, x.tag), UNCHANGED <<starts, shipped>>
    PROVE  /\ ecr' \in [Services -> Seq(Pushed)] /\ ImagesOK' /\ PushedOK' /\ Grows
           /\ Has(ecr'[s], x.tag)
           /\ \A t \in Services : \A tag : Has(ecr[t], tag) => Has(ecr'[t], tag)
           /\ \A t \in Services : \A i \in DOMAIN ecr'[t] :
                \/ i \in DOMAIN ecr[t] /\ ecr'[t][i] = ecr[t][i]
                \/ t = s /\ ecr'[t][i] = x
<1> DEFINE r == Append(ecr[s], x)
<1>1. ecr \in [Services -> Seq(Pushed)] /\ Repository(ecr[s])
  BY RepositoryFacts DEF ShipType
<1>2. Extends(r, ecr[s]) /\ Has(r, x.tag)
  BY <1>1, AppendExtends
<1>3. \A i \in DOMAIN r : (i \in DOMAIN ecr[s] /\ r[i] = ecr[s][i]) \/ r[i] = x
  BY <1>1, AppendFacts
<1>4. ecr' = [ecr EXCEPT ![s] = r]
  BY Zenon DEF Ship!Push
<1> HIDE DEF r
<1>5. r \in Seq(Pushed)
  BY <1>2 DEF Extends, Repository
<1>6. /\ ecr' \in [Services -> Seq(Pushed)] /\ ecr'[s] = r
      /\ \A t \in Services \ {s} : ecr'[t] = ecr[t]
  BY <1>1, <1>4, <1>5
<1>7. Grows
  <2> SUFFICES ASSUME NEW t \in Services PROVE Extends(ecr'[t], ecr[t])
    BY DEF Grows
  <2>1. CASE t = s
    BY <1>2, <1>6, <2>1
  <2>2. CASE t # s
    BY <1>6, <2>2, RepositoryFacts DEF Extends
  <2> QED
    BY <2>1, <2>2
<1>8. \A t \in Services : \A tag : Has(ecr[t], tag) => Has(ecr'[t], tag)
  BY <1>7, RepositoryFacts, StaysPushed DEF Grows
<1>9. \A t \in Services : \A i \in DOMAIN ecr'[t] :
        \/ i \in DOMAIN ecr[t] /\ ecr'[t][i] = ecr[t][i]
        \/ t = s /\ ecr'[t][i] = x
  BY <1>3, <1>6
<1>10. ImagesOK'
  <2> SUFFICES ASSUME NEW t \in Services, NEW i \in DOMAIN ecr'[t]
               PROVE  /\ \A j \in DOMAIN ecr'[t] : i # j => ecr'[t][i].tag # ecr'[t][j].tag
                      /\ ecr'[t][i].tag.dev <= starts'
                      /\ True(ecr'[t][i].context, t, ecr'[t][i].tag)
    BY DEF ImagesOK
  <2>1. Repository(ecr'[t])
    BY <1>7 DEF Grows, Extends
  <2>2. ecr'[t][i].tag.dev <= starts /\ True(ecr'[t][i].context, t, ecr'[t][i].tag)
    BY <1>9 DEF ImagesOK
  <2> QED
    BY <2>1, <2>2 DEF Repository
<1>11. PushedOK'
  BY <1>8 DEF PushedOK
<1> QED
  BY <1>2, <1>6, <1>7, <1>8, <1>9, <1>10, <1>11

\* Another command's own tags are none of c's.
LEMMA OthersOwn ==
    ASSUME ShipInv, NEW c \in CLIs, Ship!Active(c), NEW tag, tag.dev \in {0, job[c].serial}
    PROVE  \A d \in CLIs \ {c} : Ship!Active(d) => OwnOK(d) /\ tag.dev # job[d].serial
BY TouchesFacts DEF ShipInv, ShipType, CompanyOK, CommandOK, StandsOK

\* buildAndPush pushes.
LEMMA ShipPushBuiltInv == ASSUME ShipInv, NEW c \in CLIs, Ship!PushBuilt(c) PROVE ShipInv'
<1>0. /\ Ship!Active(c) /\ job[c].stage = "push"
      /\ UNCHANGED <<tree, builds, shipped, starts, edits, uploads, lost, shipFaults>>
  BY DEF Ship!PushBuilt, Ship!Active, Ship!outside
<1>1. /\ CommandOK(c) /\ lost \subseteq Ship!Keys /\ shipFaults \in 0 .. MaxShipFaults
      /\ Ship!Current(c) \in job[c].todo /\ job \in [CLIs -> Job] /\ job[c] \in Job
      /\ ShipType /\ ImagesOK /\ PushedOK /\ ContextsOK /\ Ship!UploadsAreCleaned
  BY <1>0, JobFacts DEF Building, ShipInv
<1> DEFINE s == Ship!Current(c)
           x == [tag |-> job[c].tags[s], context |-> job[c].context, platform |-> Platform[job[c].footprint]]
<1>2. CASE Has(ecr[s], job[c].tags[s])
  <2>1. Ship!Stop(c) /\ ecr' = ecr
    BY <1>2, NamedFacts DEF Ship!PushBuilt
  <2>2. Ship!UploadsAreCleaned'
    BY <1>0, <1>1, <2>1, UploadsKept DEF Ship!Stop
  <2> QED
    BY <1>0, <1>1, <2>1, <2>2, StopInv
<1>3. CASE ~Has(ecr[s], job[c].tags[s])
  <2>1. Ship!Push(s, x) /\ Ship!Onward(c, "build")
    BY <1>3, NamedFacts DEF Ship!PushBuilt
  <2>2. /\ s \in Services /\ job[c].tags[s] \in Ship!Tags
        /\ job[c].tags[s].dev \in {0, job[c].serial} /\ job[c].tags[s].dev <= starts
    BY <1>0, ContextFacts DEF Building
  <2>3. /\ x \in Pushed /\ x.tag = job[c].tags[s] /\ x.context = job[c].context
    BY <1>1, <2>2 DEF Pushed, Platforms, Job
  <2>4. True(x.context, s, x.tag) /\ (job[c].still => x.context.content = Ship!Content(tree[c], s))
    BY <1>0, <1>1, <2>3 DEF CommandOK, HereOK
  <2> HIDE DEF x
  <2>5. /\ ecr' \in [Services -> Seq(Pushed)] /\ ImagesOK' /\ PushedOK' /\ Grows
        /\ Has(ecr'[s], x.tag)
        /\ \A t \in Services : \A tag : Has(ecr[t], tag) => Has(ecr'[t], tag)
        /\ \A t \in Services : \A i \in DOMAIN ecr'[t] :
             \/ i \in DOMAIN ecr[t] /\ ecr'[t][i] = ecr[t][i]
             \/ t = s /\ ecr'[t][i] = x
    BY <1>0, <1>1, <1>3, <2>1, <2>2, <2>3, <2>4, PushFacts
  <2> DEFINE j == job'[c]
  <2>6. /\ j \in Job /\ job' = [job EXCEPT ![c] = j] /\ \A d \in CLIs \ {c} : job'[d] = job[d]
        /\ j.todo = job[c].todo \ {s}
        /\ j.stage = IF j.todo = {} THEN "publish" ELSE "build"
        /\ j.kind = job[c].kind /\ j.footprint = job[c].footprint
        /\ j.serial = job[c].serial /\ j.ref = job[c].ref /\ j.tags = job[c].tags
        /\ j.alone = job[c].alone /\ j.still = job[c].still
    BY <1>0, <1>1, <2>1, OnwardFacts
  <2>7. \A t \in Services \ j.todo : j.tags[t] # Ship!NoTag => Has(ecr'[t], j.tags[t])
    BY <1>0, <2>3, <2>5, <2>6, OneMore DEF Building
  <2>8. HereOK(c)'
    BY <2>6 DEF HereOK
  <2>9. MineOK(c)'
    BY <1>0, <1>1, <2>6 DEF CommandOK, MineOK, Mine
  <2>10. OwnOK(c)'
    BY <1>0, <1>1, <2>4, <2>5, <2>6, OwnKept DEF CommandOK
  <2>11. ShipType'
    <3>1. job' \in [CLIs -> Job]
      BY <1>1, <2>6
    <3> HIDE DEF j
    <3> QED
      BY <1>0, <1>1, <2>5, <3>1 DEF ShipType
  <2>12. ContextsOK'
    <3>1. \A b \in builds : b.key.service \in Services
      BY <1>1 DEF ShipType, RemoteBuild, Ship!Keys
    <3> QED
      BY <1>0, <1>1, <2>5, <3>1 DEF ContextsOK
  <2>13. Ship!UploadsAreCleaned'
    BY <1>0, <1>1, <2>6, UploadsKept
  <2>14. \A d \in CLIs \ {c} : Ship!Active(d) => OwnOK(d)'
    <3> SUFFICES ASSUME NEW d \in CLIs \ {c}, Ship!Active(d) PROVE OwnOK(d)'
      OBVIOUS
    <3>1. OwnOK(d) /\ x.tag.dev # job[d].serial
      BY <1>0, <2>2, <2>3, OthersOwn
    <3> QED
      BY <1>0, <2>5, <2>6, <3>1, OwnKept
  <2> HIDE DEF j
  <2>15. job'[c] = j
    BY DEF j
  <2>16. CommandOK(c)'
    BY <1>0, <2>5, <2>6, <2>7, <2>8, <2>9, <2>10, <2>15, OnTheWay DEF Building
  <2>17. job'[c].alone = job[c].alone /\ job'[c].serial = job[c].serial
    BY <2>6, <2>15
  <2> QED
    BY <1>0, <2>5, <2>6, <2>11, <2>12, <2>13, <2>14, <2>16, <2>17, CommandStep
<1> QED
  BY <1>2, <1>3

\* A context is packed and uploaded.
LEMMA UploadInv == ASSUME ShipInv, NEW c \in CLIs, Ship!Upload(c) PROVE ShipInv'
<1> DEFINE s == Ship!Current(c)
           x == Ship!Context(c)
           key == Ship!Key(c, s)
           u == [key |-> key, context |-> x]
           j == [job[c] EXCEPT !.stage = "start"]
<1>0. /\ Ship!Active(c) /\ job[c].stage = "upload"
      /\ UNCHANGED <<tree, ecr, builds, shipped, starts, edits, lost, shipFaults>>
      /\ uploads' = {v \in uploads : v.key # key} \cup {u}
  BY DEF Ship!Upload, Ship!Active, Ship!outside
<1>1. /\ CommandOK(c) /\ lost \subseteq Ship!Keys /\ shipFaults \in 0 .. MaxShipFaults
      /\ job \in [CLIs -> Job] /\ job[c] \in Job
      /\ ShipType /\ ImagesOK /\ PushedOK /\ ContextsOK /\ Ship!UploadsAreCleaned
  BY <1>0, JobFacts DEF ShipInv
<1>2. job' = [job EXCEPT ![c] = j]
  BY Zenon DEF Ship!Upload
<1>3. /\ x \in Ship!Contexts /\ s \in Services /\ key \in Ship!Keys /\ key.service = s /\ key.tag = job[c].tags[s]
      /\ x.content = Ship!Content(tree[c], s) /\ True(x, s, job[c].tags[s])
      /\ job[c].tags[s].dev \in {0, job[c].serial} /\ job[c].tags[s].dev <= starts
  BY <1>0, ContextFacts DEF Building
<1>4. /\ j \in Job /\ j.stage = "start" /\ j.kind = job[c].kind /\ j.footprint = job[c].footprint
      /\ j.serial = job[c].serial /\ j.ref = job[c].ref /\ j.tags = job[c].tags
      /\ j.alone = job[c].alone /\ j.still = job[c].still /\ j.todo = job[c].todo
  BY <1>1 DEF Job, Building
<1> HIDE DEF j
<1>5. job'[c] = j /\ \A d \in CLIs \ {c} : job'[d] = job[d]
  BY <1>1, <1>2
<1>6. key = Ship!Key(c, s)' /\ s = Ship!Current(c)' /\ Ship!Key(c, Ship!Current(c))' = key
  BY <1>4, <1>5 DEF Ship!Key, Ship!Current
<1> HIDE DEF s, x, key
<1>7. u \in Tarball /\ u.key = key /\ u.context = x
  BY <1>3 DEF Tarball
<1> HIDE DEF u
<1>8. ShipType'
  <2>1. job' \in [CLIs -> Job] /\ uploads' \subseteq Tarball
    BY <1>0, <1>1, <1>2, <1>4, <1>7 DEF ShipType
  <2> QED
    BY <1>0, <1>1, <2>1 DEF ShipType
<1>9. ImagesOK' /\ PushedOK' /\ Grows
  <2>1. Grows
    BY <1>0, <1>1, SameGrows
  <2>2. ImagesOK'
    BY <1>0, <1>1 DEF ImagesOK
  <2>3. PushedOK'
    BY <1>0, <1>1 DEF PushedOK
  <2> QED
    BY <2>1, <2>2, <2>3
<1>10. ContextsOK'
  BY <1>0, <1>1, <1>3, <1>7 DEF ContextsOK
<1>11. Ship!UploadsAreCleaned'
  <2>1. \A d \in CLIs \ {c} : Ship!Key(d, Ship!Current(d))' = Ship!Key(d, Ship!Current(d))
    BY <1>5, SameTodo, SameIsSame
  <2> SUFFICES ASSUME NEW v \in uploads', v.key \notin lost'
               PROVE  \E d \in CLIs : job'[d].stage \in {"start", "run"} /\ Ship!Key(d, Ship!Current(d))' = v.key
    BY DEF Ship!UploadsAreCleaned
  <2>2. CASE v.key = key
    BY <1>4, <1>5, <1>6, <2>2
  <2>3. CASE v.key # key
    <3>1. v \in uploads
      BY <1>0, <1>7, <2>3
    <3>2. PICK d \in CLIs : job[d].stage \in {"start", "run"} /\ Ship!Key(d, Ship!Current(d)) = v.key
      BY <1>0, <1>1, <3>1 DEF Ship!UploadsAreCleaned
    <3> QED
      BY <1>0, <1>5, <2>1, <3>2
  <2> QED
    BY <2>2, <2>3
<1>12. MineOK(c)'
  BY <1>0, <1>1, <1>4, <1>5 DEF CommandOK, MineOK, Mine
<1>13. OwnOK(c)'
  BY <1>0, <1>1, <1>3, <1>4, <1>5, <1>7, OwnKept DEF CommandOK
<1>14. HereOK(c)'
  BY <1>4, <1>5 DEF HereOK
<1>15. \A t \in Services \ j.todo : j.tags[t] # Ship!NoTag => Has(ecr'[t], j.tags[t])
  BY <1>0, <1>1, <1>4 DEF CommandOK, ReadyOK, Building
<1>16. CommandOK(c)'
  <2>1. j.todo # {}
    BY <1>0, <1>1, <1>4 DEF CommandOK, StandsOK, Building
  <2> QED
    BY <1>0, <1>4, <1>5, <1>9, <1>12, <1>13, <1>14, <1>15, <2>1, OnTheWay DEF Building
<1>17. \A d \in CLIs \ {c} : Ship!Active(d) => OwnOK(d)'
  <2> SUFFICES ASSUME NEW d \in CLIs \ {c}, Ship!Active(d) PROVE OwnOK(d)'
    OBVIOUS
  <2>1. OwnOK(d) /\ key.tag.dev # job[d].serial
    BY <1>0, <1>3, OthersOwn
  <2> QED
    BY <1>0, <1>5, <1>7, <2>1, OwnKept
<1>18. job'[c].alone = job[c].alone /\ job'[c].serial = job[c].serial
  BY <1>4, <1>5
<1> QED
  BY <1>0, <1>5, <1>8, <1>9, <1>10, <1>11, <1>16, <1>17, <1>18, CommandStep

\* Moving between the two stages of a build that CodeBuild runs
LEMMA UploadsStay ==
    ASSUME Ship!UploadsAreCleaned, NEW c \in CLIs, job'[c].stage \in {"start", "run"},
           \A d \in CLIs \ {c} : job'[d] = job[d],
           job'[c].todo = job[c].todo, job'[c].tags = job[c].tags, job'[c].footprint = job[c].footprint,
           uploads' = uploads, lost' = lost
    PROVE  Ship!UploadsAreCleaned'
<1>1. \A d \in CLIs : Ship!Key(d, Ship!Current(d))' = Ship!Key(d, Ship!Current(d))
  BY DEF Ship!Key, Ship!Current
<1> QED
  BY <1>1 DEF Ship!UploadsAreCleaned

\* A build starts.
LEMMA StartBuildInv == ASSUME ShipInv, NEW c \in CLIs, Ship!StartBuild(c) PROVE ShipInv'
<1> DEFINE s == Ship!Current(c)
           key == Ship!Key(c, s)
           n == [by |-> c, serial |-> job[c].serial, key |-> key, platform |-> Platform[job[c].footprint],
                 status |-> "queued", context |-> Ship!NoContext]
           j == [job[c] EXCEPT !.stage = "run"]
<1>0. /\ Ship!Active(c) /\ job[c].stage = "start"
      /\ UNCHANGED <<tree, ecr, uploads, shipped, starts, edits, lost, shipFaults>>
      /\ builds' = builds \cup {n}
  BY DEF Ship!StartBuild, Ship!Active, Ship!outside
<1>1. /\ CommandOK(c) /\ lost \subseteq Ship!Keys /\ shipFaults \in 0 .. MaxShipFaults
      /\ job \in [CLIs -> Job] /\ job[c] \in Job /\ job[c].footprint \in Footprints /\ job[c].serial \in 0 .. MaxStarts
      /\ ShipType /\ ImagesOK /\ PushedOK /\ ContextsOK /\ Ship!UploadsAreCleaned
  BY <1>0, JobFacts, TouchesFacts DEF ShipInv
<1>2. job' = [job EXCEPT ![c] = j]
  BY Zenon DEF Ship!StartBuild
<1>3. /\ s \in Services /\ key \in Ship!Keys /\ key.service = s /\ key.tag = job[c].tags[s]
      /\ job[c].tags[s].dev \in {0, job[c].serial} /\ job[c].tags[s].dev <= starts
  BY <1>0, ContextFacts DEF Building
<1>4. /\ j \in Job /\ j.stage = "run" /\ j.kind = job[c].kind /\ j.footprint = job[c].footprint
      /\ j.serial = job[c].serial /\ j.ref = job[c].ref /\ j.tags = job[c].tags
      /\ j.alone = job[c].alone /\ j.still = job[c].still /\ j.todo = job[c].todo
  BY <1>1 DEF Job, Building
<1> HIDE DEF j
<1>5. job'[c] = j /\ \A d \in CLIs \ {c} : job'[d] = job[d]
  BY <1>1, <1>2
<1>6. Ship!Key(c, Ship!Current(c))' = key
  BY <1>4, <1>5 DEF Ship!Key, Ship!Current
<1> HIDE DEF s, key
<1>7. n \in RemoteBuild /\ n.key = key /\ n.by = c /\ n.serial = job[c].serial /\ n.status = "queued"
  <2>1. Platform[job[c].footprint] \in Platforms
    BY <1>1 DEF Platforms
  <2> QED
    BY <1>1, <1>3, <2>1, NoContextType DEF RemoteBuild
<1> HIDE DEF n
<1>8. ShipType'
  <2>1. job' \in [CLIs -> Job] /\ builds' \subseteq RemoteBuild
    BY <1>0, <1>1, <1>2, <1>4, <1>7 DEF ShipType
  <2> QED
    BY <1>0, <1>1, <2>1 DEF ShipType
<1>9. ImagesOK' /\ PushedOK' /\ Grows
  <2>1. Grows
    BY <1>0, <1>1, SameGrows
  <2>2. ImagesOK'
    BY <1>0, <1>1 DEF ImagesOK
  <2>3. PushedOK'
    BY <1>0, <1>1 DEF PushedOK
  <2> QED
    BY <2>1, <2>2, <2>3
<1>10. ContextsOK'
  <2>1. job[c].serial <= starts
    BY <1>1, TouchesFacts DEF CommandOK, StandsOK, ShipType
  <2> QED
    BY <1>0, <1>1, <1>3, <1>7, <2>1 DEF ContextsOK
<1>11. Ship!UploadsAreCleaned'
  BY <1>0, <1>1, <1>4, <1>5, UploadsStay
<1>12. MineOK(c)'
  <2>1. \A b \in builds : ~Mine(c, b)
    BY <1>0, <1>1 DEF CommandOK, MineOK
  <2>2. \A b : Mine(c, b)' = Mine(c, b)
    BY <1>4, <1>5 DEF Mine
  <2>3. PICK m : m = n
    OBVIOUS
  <2>4. Mine(c, m)
    BY <1>7, <2>3 DEF Mine
  <2>5. /\ m \in builds' /\ Mine(c, m)' /\ m.key = Ship!Key(c, Ship!Current(c))'
        /\ \A b \in builds' : Mine(c, b)' => b = m
    BY <1>0, <1>6, <1>7, <2>1, <2>2, <2>3, <2>4
  <2> QED
    BY <1>4, <1>5, <2>5 DEF MineOK
<1>13. OwnOK(c)'
  BY <1>0, <1>1, <1>4, <1>5, <1>7, OwnKept DEF CommandOK
<1>14. HereOK(c)'
  BY <1>4, <1>5 DEF HereOK
<1>15. \A t \in Services \ j.todo : j.tags[t] # Ship!NoTag => Has(ecr'[t], j.tags[t])
  BY <1>0, <1>1, <1>4 DEF CommandOK, ReadyOK, Building
<1>16. CommandOK(c)'
  <2>1. j.todo # {}
    BY <1>0, <1>1, <1>4 DEF CommandOK, StandsOK, Building
  <2> QED
    BY <1>0, <1>4, <1>5, <1>9, <1>12, <1>13, <1>14, <1>15, <2>1, OnTheWay DEF Building
<1>17. \A d \in CLIs \ {c} : Ship!Active(d) => OwnOK(d)'
  <2> SUFFICES ASSUME NEW d \in CLIs \ {c}, Ship!Active(d) PROVE OwnOK(d)'
    OBVIOUS
  <2>1. OwnOK(d)
    BY DEF ShipInv, CommandOK
  <2> QED
    BY <1>0, <1>5, <1>7, <2>1, OwnKept
<1>18. job'[c].alone = job[c].alone /\ job'[c].serial = job[c].serial
  BY <1>4, <1>5
<1>19. \A b : b.by # c => (b \in builds' <=> b \in builds)
  BY <1>0, <1>7
<1> QED
  BY <1>0, <1>5, <1>8, <1>9, <1>10, <1>11, <1>16, <1>17, <1>18, <1>19, CommandStep

\* The build that a command waits for
LEMMA MineFacts ==
    ASSUME ShipInv, NEW c \in CLIs, job[c].stage = "run"
    PROVE  /\ Ship!Mine(c) \in builds /\ Mine(c, Ship!Mine(c))
           /\ Ship!Mine(c).key = Ship!Key(c, Ship!Current(c))
           /\ \A b \in builds : Mine(c, b) => b = Ship!Mine(c)
<1>1. MineOK(c)
  BY ActiveFacts DEF ShipInv, CommandOK
<1>2. PICK m \in builds : /\ Mine(c, m) /\ m.key = Ship!Key(c, Ship!Current(c))
                          /\ \A x \in builds : Mine(c, x) => x = m
  BY <1>1 DEF MineOK
<1>3. Ship!Mine(c) = m
  BY <1>2 DEF Ship!Mine, Mine
<1> QED
  BY <1>2, <1>3

\* The build has ended.
LEMMA ShipPollInv == ASSUME ShipInv, NEW c \in CLIs, Ship!Poll(c) PROVE ShipInv'
<1> DEFINE s == Ship!Current(c)
           m == Ship!Mine(c)
           j == job'[c]
<1>0. /\ Ship!Active(c) /\ job[c].stage = "run"
      /\ UNCHANGED <<tree, ecr, shipped, starts, edits, lost, shipFaults>>
      /\ builds' = builds \ {m}
      /\ uploads' = {u \in uploads : u.key # Ship!Key(c, s)}
  BY DEF Ship!Poll, Ship!Active, Ship!outside, Ship!Cleaned
<1>1. /\ CommandOK(c) /\ lost \subseteq Ship!Keys /\ shipFaults \in 0 .. MaxShipFaults
      /\ job \in [CLIs -> Job] /\ job[c] \in Job /\ s \in job[c].todo /\ s \in Services
      /\ ShipType /\ ImagesOK /\ PushedOK /\ ContextsOK /\ Ship!UploadsAreCleaned
  BY <1>0, JobFacts DEF ShipInv, Building
<1>2. /\ m \in builds /\ Mine(c, m) /\ m.by = c
      /\ m.key = Ship!Key(c, s) /\ m.key.service = s /\ m.key.tag = job[c].tags[s]
      /\ \A b \in builds : Mine(c, b) => b = m
  BY <1>0, MineFacts DEF Mine, Ship!Key
<1> HIDE DEF m
<1>3. \/ Ship!Stop(c)
      \/ m.status = "succeeded" /\ Ship!Onward(c, "upload")
  BY DEF Ship!Poll, Ship!Succeeded, m
<1>4. /\ \A d \in CLIs \ {c} : job'[d] = job[d]
      /\ job' \in [CLIs -> Job]
      /\ \/ j.stage = "idle"
         \/ /\ m.status = "succeeded"
            /\ j \in Job /\ j.todo = job[c].todo \ {s}
            /\ j.stage = IF j.todo = {} THEN "publish" ELSE "upload"
            /\ j.kind = job[c].kind /\ j.footprint = job[c].footprint
            /\ j.serial = job[c].serial /\ j.ref = job[c].ref /\ j.tags = job[c].tags
            /\ j.alone = job[c].alone /\ j.still = job[c].still
  <2>1. CASE Ship!Stop(c)
    BY <1>1, <2>1, IdleType DEF Ship!Stop
  <2>2. CASE m.status = "succeeded" /\ Ship!Onward(c, "upload")
    <3>1. job[c].todo # {}
      BY <1>1
    <3>2. /\ j \in Job /\ job' = [job EXCEPT ![c] = j] /\ \A d \in CLIs \ {c} : job'[d] = job[d]
          /\ j.todo = job[c].todo \ {s}
          /\ j.stage = IF j.todo = {} THEN "publish" ELSE "upload"
          /\ j.kind = job[c].kind /\ j.footprint = job[c].footprint
          /\ j.serial = job[c].serial /\ j.ref = job[c].ref /\ j.tags = job[c].tags
          /\ j.alone = job[c].alone /\ j.still = job[c].still
      BY <1>0, <2>2, <3>1, OnwardFacts
    <3> HIDE DEF j
    <3>3. job' \in [CLIs -> Job]
      BY <1>1, <3>2
    <3> QED
      BY <2>2, <3>2, <3>3
  <2> QED
    BY <1>3, <2>1, <2>2
<1>5. ShipType'
  <2>1. uploads' \subseteq Tarball /\ builds' \subseteq RemoteBuild
    BY <1>0, <1>1 DEF ShipType
  <2> QED
    BY <1>0, <1>1, <1>4, <2>1 DEF ShipType
<1>6. ImagesOK' /\ PushedOK' /\ Grows
  <2>1. Grows
    BY <1>0, <1>1, SameGrows
  <2>2. ImagesOK'
    BY <1>0, <1>1 DEF ImagesOK
  <2>3. PushedOK'
    BY <1>0, <1>1 DEF PushedOK
  <2> QED
    BY <2>1, <2>2, <2>3
<1>7. ContextsOK'
  BY <1>0, <1>1 DEF ContextsOK
<1>8. Ship!UploadsAreCleaned'
  BY <1>0, <1>1, <1>4, UploadsCleaned
<1>9. \A d \in CLIs \ {c} : Ship!Active(d) => OwnOK(d)'
  <2> SUFFICES ASSUME NEW d \in CLIs \ {c}, Ship!Active(d) PROVE OwnOK(d)'
    OBVIOUS
  <2>1. OwnOK(d)
    BY DEF ShipInv, CommandOK
  <2> QED
    BY <1>0, <1>4, <2>1, OwnKept
<1>10. \A b : b.by # c => (b \in builds' <=> b \in builds)
  BY <1>0, <1>2
<1>11. ASSUME j.stage # "idle"
       PROVE  job'[c].alone = job[c].alone /\ job'[c].serial = job[c].serial /\ CommandOK(c)'
  <2>1. /\ m.status = "succeeded"
        /\ j \in Job /\ j.todo = job[c].todo \ {s}
        /\ j.stage = IF j.todo = {} THEN "publish" ELSE "upload"
        /\ j.kind = job[c].kind /\ j.footprint = job[c].footprint
        /\ j.serial = job[c].serial /\ j.ref = job[c].ref /\ j.tags = job[c].tags
        /\ j.alone = job[c].alone /\ j.still = job[c].still
    BY <1>4, <1>11
  <2>2. Has(ecr'[s], job[c].tags[s])
    BY <1>0, <1>1, <1>2, <2>1 DEF ContextsOK
  <2>3. \A t \in Services \ j.todo : j.tags[t] # Ship!NoTag => Has(ecr'[t], j.tags[t])
    BY <1>0, <1>6, <2>1, <2>2, OneMore DEF Building
  <2>4. HereOK(c)'
    BY <2>1 DEF HereOK
  <2>5. MineOK(c)'
    <3>1. \A b : Mine(c, b)' = Mine(c, b)
      BY <2>1 DEF Mine
    <3>2. j.stage # "run" /\ \A b \in builds' : ~Mine(c, b)'
      BY <1>0, <1>2, <2>1, <3>1
    <3> QED
      BY <3>2 DEF MineOK
  <2>6. OwnOK(c)'
    BY <1>0, <1>1, <2>1, OwnKept DEF CommandOK
  <2> HIDE DEF j
  <2>7. job'[c] = j
    BY DEF j
  <2>8. CommandOK(c)'
    BY <1>0, <1>6, <2>1, <2>3, <2>4, <2>5, <2>6, <2>7, OnTheWay DEF Building
  <2> QED
    BY <2>1, <2>7, <2>8
<1> QED
  BY <1>0, <1>4, <1>5, <1>6, <1>7, <1>8, <1>9, <1>10, <1>11, CommandStep

\* The wait is over.
LEMMA DeadlineInv == ASSUME ShipInv, NEW c \in CLIs, Ship!Deadline(c) PROVE ShipInv'
<1>0. /\ Ship!Active(c) /\ Ship!Stop(c)
      /\ UNCHANGED <<tree, ecr, builds, shipped, starts, edits, lost, shipFaults>>
      /\ uploads' = {u \in uploads : u.key # Ship!Key(c, Ship!Current(c))}
  BY DEF Ship!Deadline, Ship!Active, Ship!outside, Ship!Cleaned
<1>1. /\ lost \subseteq Ship!Keys /\ shipFaults \in 0 .. MaxShipFaults /\ Ship!UploadsAreCleaned
      /\ \A d \in CLIs \ {c} : job'[d] = job[d]
  BY <1>0, JobFacts DEF ShipInv, Ship!Stop
<1>2. Ship!UploadsAreCleaned'
  BY <1>0, <1>1, UploadsCleaned
<1> QED
  BY <1>0, <1>1, <1>2, StopInv

\* A call fails.
LEMMA ShipFailInv == ASSUME ShipInv, NEW c \in CLIs, Ship!Fail(c) PROVE ShipInv'
<1>0. /\ Ship!Active(c) /\ Ship!Stop(c)
      /\ UNCHANGED <<tree, ecr, builds, shipped, starts, edits, lost>>
      /\ shipFaults < MaxShipFaults /\ shipFaults' = shipFaults + 1
  BY DEF Ship!Fail, Ship!outside
<1>1. /\ lost \subseteq Ship!Keys /\ shipFaults \in 0 .. MaxShipFaults /\ Ship!UploadsAreCleaned
      /\ \A d \in CLIs \ {c} : job'[d] = job[d]
  BY <1>0, JobFacts DEF ShipInv, Ship!Stop
<1>2. shipFaults' \in 0 .. MaxShipFaults
  BY <1>0, <1>1, TouchesFacts
<1>3. CASE job[c].stage \in {"upload", "start", "run"}
  <2>1. uploads' = {u \in uploads : u.key # Ship!Key(c, Ship!Current(c))}
    BY <1>3 DEF Ship!Fail, Ship!Cleaned
  <2>2. Ship!UploadsAreCleaned'
    BY <1>0, <1>1, <2>1, UploadsCleaned
  <2> QED
    BY <1>0, <1>1, <1>2, <2>1, <2>2, StopInv
<1>4. CASE job[c].stage \notin {"upload", "start", "run"}
  <2>1. uploads' = uploads
    BY <1>4 DEF Ship!Fail
  <2>2. Ship!UploadsAreCleaned'
    BY <1>0, <1>1, <1>4, <2>1, UploadsKept
  <2> QED
    BY <1>0, <1>1, <1>2, <2>1, <2>2, StopInv
<1> QED
  BY <1>3, <1>4

\* The command is killed.
LEMMA KillInv == ASSUME ShipInv, NEW c \in CLIs, Ship!Kill(c) PROVE ShipInv'
<1> DEFINE key == Ship!Key(c, Ship!Current(c))
<1>0. /\ Ship!Active(c) /\ Ship!Stop(c)
      /\ UNCHANGED <<tree, ecr, uploads, builds, shipped, starts, edits>>
      /\ shipFaults < MaxShipFaults /\ shipFaults' = shipFaults + 1
      /\ lost' = lost \cup IF job[c].stage \in {"start", "run"} THEN {key} ELSE {}
  BY DEF Ship!Kill, Ship!outside, Ship!aws
<1>1. /\ lost \subseteq Ship!Keys /\ shipFaults \in 0 .. MaxShipFaults /\ Ship!UploadsAreCleaned
      /\ \A d \in CLIs \ {c} : job'[d] = job[d]
  BY <1>0, JobFacts DEF ShipInv, Ship!Stop
<1>2. shipFaults' \in 0 .. MaxShipFaults
  BY <1>0, <1>1, TouchesFacts
<1>3. CASE job[c].stage \in {"start", "run"}
  <2>1. key \in Ship!Keys
    BY <1>0, <1>3, ContextFacts DEF Building
  <2>2. \A d \in CLIs \ {c} : Ship!Key(d, Ship!Current(d))' = Ship!Key(d, Ship!Current(d))
    BY <1>1, SameTodo, SameIsSame
  <2>3. Ship!UploadsAreCleaned'
    <3> SUFFICES ASSUME NEW u \in uploads', u.key \notin lost'
                 PROVE  \E d \in CLIs : job'[d].stage \in {"start", "run"} /\ Ship!Key(d, Ship!Current(d))' = u.key
      BY DEF Ship!UploadsAreCleaned
    <3>1. PICK d \in CLIs : job[d].stage \in {"start", "run"} /\ Ship!Key(d, Ship!Current(d)) = u.key
      BY <1>0, <1>1 DEF Ship!UploadsAreCleaned
    <3>2. d # c
      BY <1>0, <1>3, <3>1
    <3> QED
      BY <1>1, <2>2, <3>1, <3>2
  <2>4. lost' \subseteq Ship!Keys
    BY <1>0, <1>1, <2>1
  <2> QED
    BY <1>0, <1>2, <2>3, <2>4, StopInv
<1>4. CASE job[c].stage \notin {"start", "run"}
  <2>1. lost' = lost
    BY <1>0, <1>4
  <2>2. Ship!UploadsAreCleaned'
    BY <1>0, <1>1, <1>4, <2>1, UploadsKept
  <2> QED
    BY <1>0, <1>1, <1>2, <2>1, <2>2, StopInv
<1> QED
  BY <1>3, <1>4

\* The services of the command are replaced.
LEMMA ShipPublishInv == ASSUME ShipInv, NEW c \in CLIs, Ship!Publish(c) PROVE ShipInv'
<1> DEFINE f == job[c].footprint
           new == [s \in Services |-> IF s \in Ship!Chosen(c) THEN job[c].tags[s] ELSE shipped[f][s]]
<1>0. /\ Ship!Active(c) /\ job[c].stage = "publish" /\ Ship!Stop(c)
      /\ UNCHANGED <<tree, ecr, builds, uploads, starts, edits, lost, shipFaults>>
  BY DEF Ship!Publish, Ship!Active, Ship!outside
<1>1. /\ CommandOK(c) /\ job \in [CLIs -> Job] /\ f \in Footprints /\ job[c].tags \in [Services -> Ship!Tags]
      /\ ShipType /\ ImagesOK /\ PushedOK /\ ContextsOK /\ Ship!UploadsAreCleaned
  BY <1>0, JobFacts DEF ShipInv
<1>2. shipped' = [shipped EXCEPT ![f] = new]
  BY Zenon DEF Ship!Publish
<1>3. new \in [Services -> Ship!Tags]
  BY <1>1 DEF ShipType
<1>4. \A s \in Services : new[s] # Ship!NoTag => Has(ecr[s], new[s])
  <2>1. job[c].todo = {} /\ ReadyOK(c)
    BY <1>0, <1>1 DEF CommandOK, StandsOK
  <2>2. \A s \in Services : job[c].tags[s] # Ship!NoTag => Has(ecr[s], job[c].tags[s])
    BY <1>0, <2>1 DEF ReadyOK
  <2> QED
    BY <1>1, <2>2 DEF PushedOK
<1> HIDE DEF new, f
<1>5. /\ shipped' \in [Footprints -> [Services -> Ship!Tags]] /\ shipped'[f] = new
      /\ \A g \in Footprints \ {f} : shipped'[g] = shipped[g]
  BY <1>1, <1>2, <1>3 DEF ShipType
<1>6. PushedOK'
  <2> SUFFICES ASSUME NEW g \in Footprints, NEW s \in Services, shipped'[g][s] # Ship!NoTag
               PROVE  Has(ecr[s], shipped'[g][s])
    BY <1>0 DEF PushedOK
  <2>1. CASE g = f
    BY <1>4, <1>5, <2>1
  <2>2. CASE g # f
    BY <1>1, <1>5, <2>2 DEF PushedOK
  <2> QED
    BY <2>1, <2>2
<1>7. job' = [job EXCEPT ![c] = Ship!Idle] /\ Ship!Idle \in Job /\ Ship!Idle.stage = "idle"
  BY <1>0, IdleType DEF Ship!Stop
<1>8. job' \in [CLIs -> Job] /\ job'[c].stage = "idle" /\ \A d \in CLIs \ {c} : job'[d] = job[d]
  BY <1>1, <1>7
<1>9. ShipType'
  BY <1>0, <1>1, <1>5, <1>8 DEF ShipType
<1>10. ImagesOK' /\ Grows
  <2>1. Grows
    BY <1>0, <1>1, SameGrows
  <2>2. ImagesOK'
    BY <1>0, <1>1 DEF ImagesOK
  <2> QED
    BY <2>1, <2>2
<1>11. ContextsOK'
  BY <1>0, <1>1 DEF ContextsOK
<1>12. Ship!UploadsAreCleaned'
  BY <1>0, <1>1, <1>8, UploadsKept
<1>13. \A d \in CLIs \ {c} : Ship!Active(d) => OwnOK(d)'
  <2> SUFFICES ASSUME NEW d \in CLIs \ {c}, Ship!Active(d) PROVE OwnOK(d)'
    OBVIOUS
  <2>1. OwnOK(d)
    BY DEF ShipInv, CommandOK
  <2> QED
    BY <1>0, <1>8, <2>1, OwnKept
<1> QED
  BY <1>0, <1>6, <1>8, <1>9, <1>10, <1>11, <1>12, <1>13, CommandStep

-----------------------------------------------------------------------------
(* The steps of CodeBuild                                                   *)

\* A build that moves on is still the one that its command waits for.
LEMMA CodeBuildStep ==
    ASSUME ShipInv, NEW b \in builds, NEW n \in RemoteBuild, n.by = b.by, n.serial = b.serial, n.key = b.key,
           builds' = (builds \ {b}) \cup {n},
           UNCHANGED <<tree, uploads, shipped, job, starts, edits, lost, shipFaults>>,
           ecr' \in [Services -> Seq(Pushed)], ImagesOK', PushedOK', Grows,
           \A t \in Services : \A tag : Has(ecr[t], tag) => Has(ecr'[t], tag),
           n.status = "building" => True(n.context, n.key.service, n.key.tag),
           n.status = "succeeded" => Has(ecr'[n.key.service], n.key.tag),
           \A d \in CLIs : Ship!Active(d) => OwnOK(d)'
    PROVE  ShipInv'
<1>0. ShipType /\ ContextsOK /\ CompanyOK /\ Ship!UploadsAreCleaned /\ starts \in Nat
  BY TouchesFacts DEF ShipInv, ShipType
<1>1. ShipType'
  BY <1>0 DEF ShipType
<1>2. CompanyOK' /\ Ship!UploadsAreCleaned'
  <2>1. CompanyOK'
    BY <1>0 DEF CompanyOK, Ship!Active
  <2>2. \A d \in CLIs : Ship!Key(d, Ship!Current(d))' = Ship!Key(d, Ship!Current(d))
    BY DEF Ship!Key, Ship!Current
  <2>3. Ship!UploadsAreCleaned'
    BY <1>0, <2>2 DEF Ship!UploadsAreCleaned
  <2> QED
    BY <2>1, <2>3
<1>3. ContextsOK'
  <2>1. \A x \in builds : x.key.service \in Services
    BY <1>0 DEF ShipType, RemoteBuild, Ship!Keys
  <2>2. \A x \in builds' :
          /\ x.key.tag.dev <= starts /\ x.serial <= starts
          /\ x.status = "building" => True(x.context, x.key.service, x.key.tag)
          /\ x.status = "succeeded" => Has(ecr'[x.key.service], x.key.tag)
    BY <1>0, <2>1 DEF ContextsOK
  <2>3. \A u \in uploads : u.key.tag.dev <= starts /\ True(u.context, u.key.service, u.key.tag)
    BY <1>0 DEF ContextsOK
  <2> QED
    BY <2>2, <2>3 DEF ContextsOK
<1>4. ASSUME NEW d \in CLIs, Ship!Active(d) PROVE CommandOK(d)'
  <2>1. MineOK(d) /\ CommandOK(d)
    BY <1>4 DEF ShipInv, CommandOK
  <2>2. \A x : Mine(d, x)' = Mine(d, x)
    BY DEF Mine
  <2>3. Mine(d, n) = Mine(d, b)
    BY DEF Mine
  <2>4. Ship!Key(d, Ship!Current(d))' = Ship!Key(d, Ship!Current(d))
    BY DEF Ship!Key, Ship!Current
  <2>5. MineOK(d)'
    <3>1. CASE job[d].stage # "run"
      <4>1. \A x \in builds' : ~Mine(d, x)'
        BY <2>1, <2>2, <2>3, <3>1 DEF MineOK
      <4> QED
        BY <3>1, <4>1 DEF MineOK
    <3>2. CASE job[d].stage = "run"
      <4>1. PICK m \in builds : /\ Mine(d, m) /\ m.key = Ship!Key(d, Ship!Current(d))
                                /\ \A x \in builds : Mine(d, x) => x = m
        BY <2>1, <3>2 DEF MineOK
      <4>2. PICK k \in builds' : Mine(d, k) /\ k.key = m.key /\ \A x \in builds' : Mine(d, x) => x = k
        <5>1. CASE m = b
          BY <2>3, <4>1, <5>1
        <5>2. CASE m # b
          BY <2>3, <4>1, <5>2
        <5> QED
          BY <5>1, <5>2
      <4>3. Mine(d, k)' /\ k.key = Ship!Key(d, Ship!Current(d))' /\ \A x \in builds' : Mine(d, x)' => x = k
        BY <2>2, <2>4, <4>1, <4>2
      <4> QED
        BY <3>2, <4>2, <4>3 DEF MineOK
    <3> QED
      BY <3>1, <3>2
  <2>6. Same(job'[d], job[d])
    BY SameIsSame
  <2> QED
    BY <1>0, <1>1, <1>4, <2>5, <2>6, OthersKeep
<1>5. \A d \in CLIs : Ship!Active(d)' => CommandOK(d)'
  BY <1>4 DEF Ship!Active
<1> QED
  BY <1>1, <1>2, <1>3, <1>5 DEF ShipInv

\* CodeBuild fetches the context.
LEMMA FetchInv == ASSUME ShipInv, NEW b \in builds, Ship!Fetch(b) PROVE ShipInv'
<1>0. /\ b.status = "queued"
      /\ UNCHANGED <<tree, ecr, uploads, shipped, job, starts, edits, lost, shipFaults>>
  BY DEF Ship!Fetch, Ship!outside
<1>1. /\ ShipType /\ ImagesOK /\ PushedOK /\ ContextsOK /\ b \in RemoteBuild
      /\ \A d \in CLIs : Ship!Active(d) => OwnOK(d)
  BY DEF ShipInv, ShipType, CommandOK
<1>2. PICK n : n = IF \E u \in uploads : u.key = b.key
                   THEN LET u == CHOOSE u \in uploads : u.key = b.key
                        IN [b EXCEPT !.status = "building", !.context = u.context]
                   ELSE [b EXCEPT !.status = "failed"]
  OBVIOUS
<1>3. builds' = (builds \ {b}) \cup {n}
  BY <1>2, Zenon DEF Ship!Fetch
<1>4. /\ n \in RemoteBuild /\ n.by = b.by /\ n.serial = b.serial /\ n.key = b.key
      /\ \/ n.status = "failed"
         \/ \E u \in uploads : u.key = b.key /\ n.status = "building" /\ n.context = u.context
  <2>1. CASE \E u \in uploads : u.key = b.key
    <3> DEFINE u == CHOOSE u \in uploads : u.key = b.key
    <3>1. u \in uploads /\ u.key = b.key
      BY <2>1
    <3>2. n = [b EXCEPT !.status = "building", !.context = u.context]
      BY <1>2, <2>1
    <3> HIDE DEF u
    <3>3. u.context \in Ship!Contexts
      BY <1>1, <3>1 DEF ShipType, Tarball
    <3> QED
      BY <1>1, <3>1, <3>2, <3>3 DEF RemoteBuild
  <2>2. CASE ~\E u \in uploads : u.key = b.key
    <3>1. n = [b EXCEPT !.status = "failed"]
      BY <1>2, <2>2
    <3> QED
      BY <1>1, <3>1 DEF RemoteBuild
  <2> QED
    BY <2>1, <2>2
<1>5. n.status = "building" => True(n.context, n.key.service, n.key.tag)
  BY <1>1, <1>4 DEF ContextsOK
<1>6. ImagesOK' /\ PushedOK' /\ Grows
  <2>1. Grows
    BY <1>0, <1>1, SameGrows
  <2>2. ImagesOK'
    BY <1>0, <1>1 DEF ImagesOK
  <2>3. PushedOK'
    BY <1>0, <1>1 DEF PushedOK
  <2> QED
    BY <2>1, <2>2, <2>3
<1>7. ASSUME NEW d \in CLIs, Ship!Active(d) PROVE OwnOK(d)'
  <2>1. OwnOK(d)
    BY <1>1, <1>7
  <2>2. n.status # "building" \/ n.key.tag.dev # job[d].serial
          \/ (job[d].still => n.context.content = Ship!Content(tree[d], n.key.service))
    BY <1>4, <2>1 DEF OwnOK, Own
  <2>3. job'[d] = job[d]
    BY <1>0
  <2> QED
    BY <1>0, <1>3, <2>1, <2>2, <2>3, OwnKept
<1>8. ecr \in [Services -> Seq(Pushed)] /\ n.status # "succeeded"
  BY <1>1, <1>4 DEF ShipType
<1> QED
  BY <1>0, <1>3, <1>4, <1>5, <1>6, <1>7, <1>8, CodeBuildStep

\* It has built, and pushes.
LEMMA EndedInv == ASSUME ShipInv, NEW b \in builds, Ship!Ended(b) PROVE ShipInv'
<1> DEFINE s == b.key.service
           x == [tag |-> b.key.tag, context |-> b.context, platform |-> b.platform]
<1>0. /\ b.status = "building"
      /\ UNCHANGED <<tree, uploads, shipped, job, starts, edits, lost, shipFaults>>
  BY DEF Ship!Ended, Ship!outside
<1>1. /\ ShipType /\ ImagesOK /\ PushedOK /\ ContextsOK /\ b \in RemoteBuild
      /\ \A d \in CLIs : Ship!Active(d) => OwnOK(d)
  BY DEF ShipInv, ShipType, CommandOK
<1>2. /\ s \in Services /\ x \in Pushed /\ x.tag = b.key.tag /\ x.context = b.context
      /\ x.tag.dev <= starts /\ True(x.context, s, x.tag)
  BY <1>0, <1>1 DEF RemoteBuild, Ship!Keys, Pushed, ContextsOK
<1> HIDE DEF x
<1>3. CASE Has(ecr[s], b.key.tag)
  <2>1. PICK n : n = [b EXCEPT !.status = "failed"]
    OBVIOUS
  <2>2. ecr' = ecr /\ builds' = (builds \ {b}) \cup {n}
    BY <1>3, <2>1, NamedFacts DEF Ship!Ended
  <2>3. n \in RemoteBuild /\ n.by = b.by /\ n.serial = b.serial /\ n.key = b.key /\ n.status = "failed"
    BY <1>1, <2>1 DEF RemoteBuild
  <2>4. ImagesOK' /\ PushedOK' /\ Grows
    <3>1. Grows
      BY <1>1, <2>2, SameGrows
    <3>2. ImagesOK'
      BY <1>0, <1>1, <2>2 DEF ImagesOK
    <3>3. PushedOK'
      BY <1>0, <1>1, <2>2 DEF PushedOK
    <3> QED
      BY <3>1, <3>2, <3>3
  <2>5. ASSUME NEW d \in CLIs, Ship!Active(d) PROVE OwnOK(d)'
    <3>1. OwnOK(d) /\ job'[d] = job[d]
      BY <1>0, <1>1, <2>5
    <3> QED
      BY <1>0, <2>2, <2>3, <3>1, OwnKept
  <2>6. ecr \in [Services -> Seq(Pushed)]
    BY <1>1 DEF ShipType
  <2> QED
    BY <1>0, <2>2, <2>3, <2>4, <2>5, <2>6, CodeBuildStep
<1>4. CASE ~Has(ecr[s], b.key.tag)
  <2>1. PICK n : n = [b EXCEPT !.status = "succeeded"]
    OBVIOUS
  <2>2. Ship!Push(s, x) /\ builds' = (builds \ {b}) \cup {n}
    BY <1>4, <2>1, NamedFacts DEF Ship!Ended, x
  <2>3. n \in RemoteBuild /\ n.by = b.by /\ n.serial = b.serial /\ n.key = b.key /\ n.status = "succeeded"
    BY <1>1, <2>1 DEF RemoteBuild
  <2>4. /\ ecr' \in [Services -> Seq(Pushed)] /\ ImagesOK' /\ PushedOK' /\ Grows
        /\ Has(ecr'[s], x.tag)
        /\ \A t \in Services : \A tag : Has(ecr[t], tag) => Has(ecr'[t], tag)
        /\ \A t \in Services : \A i \in DOMAIN ecr'[t] :
             \/ i \in DOMAIN ecr[t] /\ ecr'[t][i] = ecr[t][i]
             \/ t = s /\ ecr'[t][i] = x
    BY <1>0, <1>1, <1>2, <1>4, <2>2, PushFacts
  <2>5. ASSUME NEW d \in CLIs, Ship!Active(d) PROVE OwnOK(d)'
    <3>1. OwnOK(d) /\ job'[d] = job[d]
      BY <1>0, <1>1, <2>5
    <3>2. x.tag.dev # job[d].serial \/ (job[d].still => x.context.content = Ship!Content(tree[d], s))
      BY <1>0, <1>2, <3>1 DEF OwnOK, Own
    <3> QED
      BY <1>0, <2>2, <2>3, <2>4, <3>1, <3>2, OwnKept
  <2> QED
    BY <1>0, <1>2, <2>2, <2>3, <2>4, <2>5, CodeBuildStep
<1> QED
  BY <1>3, <1>4

-----------------------------------------------------------------------------
(* The steps around the commands                                            *)

\* Nothing is uploaded, and who waits for an upload goes on waiting.
LEMMA SameUploads ==
    ASSUME Ship!UploadsAreCleaned, uploads' = uploads, lost' = lost,
           \A d \in CLIs : job[d].stage \in {"start", "run"} => Same(job'[d], job[d])
    PROVE  Ship!UploadsAreCleaned'
<1> SUFFICES ASSUME NEW u \in uploads', u.key \notin lost'
             PROVE  \E d \in CLIs : job'[d].stage \in {"start", "run"} /\ Ship!Key(d, Ship!Current(d))' = u.key
  BY DEF Ship!UploadsAreCleaned
<1>1. PICK d \in CLIs : job[d].stage \in {"start", "run"} /\ Ship!Key(d, Ship!Current(d)) = u.key
  BY DEF Ship!UploadsAreCleaned
<1>2. Same(job'[d], job[d])
  BY <1>1
<1>3. Ship!Key(d, Ship!Current(d))' = Ship!Key(d, Ship!Current(d)) /\ job'[d].stage = job[d].stage
  BY <1>2, SameTodo DEF Same
<1> QED
  BY <1>1, <1>3

\* A command that only hears of what goes on around it stays right.
LEMMA HeardKeeps ==
    ASSUME ShipInv, ShipType', starts <= starts', UNCHANGED <<ecr, uploads, builds, shipped>>,
           NEW d \in CLIs, Ship!Active(d), Same(job'[d], job[d]),
           job'[d].still => tree'[d] = tree[d]
    PROVE  CommandOK(d)'
<1>1. ShipType /\ ImagesOK /\ MineOK(d) /\ OwnOK(d)
  BY DEF ShipInv, CommandOK
<1>2. Grows
  BY <1>1, SameGrows
<1>3. MineOK(d)'
  BY <1>1, MineKept
<1>4. job'[d].serial = job[d].serial /\ (job'[d].still => job[d].still)
  BY DEF Same
<1>5. OwnOK(d)'
  BY <1>1, <1>4, OwnKept
<1> QED
  BY <1>2, <1>3, <1>5, OthersKeep

\* The checkout changes, under a command too.
LEMMA ChangeInv == ASSUME ShipInv, NEW c \in CLIs, NEW t \in Tree, Ship!Change(c, t) PROVE ShipInv'
<1> DEFINE j == [job[c] EXCEPT !.still = job[c].still /\ ~Ship!Active(c)]
<1>0. /\ edits < MaxEdits /\ edits' = edits + 1 /\ tree' = [tree EXCEPT ![c] = t]
      /\ UNCHANGED <<ecr, uploads, builds, shipped, lost, starts, shipFaults>>
  BY DEF Ship!Change, Ship!aws
<1>1. /\ ShipType /\ ImagesOK /\ ContextsOK /\ CompanyOK /\ PushedOK /\ Ship!UploadsAreCleaned
      /\ job \in [CLIs -> Job] /\ job[c] \in Job /\ starts \in Nat
  BY TouchesFacts DEF ShipInv, ShipType
<1>2. job' = [job EXCEPT ![c] = j]
  BY Zenon DEF Ship!Change
<1>3. j.still = (job[c].still /\ ~Ship!Active(c))
  BY <1>1, Zenon DEF Job
<1>4. /\ j \in Job /\ j.stage = job[c].stage /\ j.kind = job[c].kind /\ j.footprint = job[c].footprint
      /\ j.serial = job[c].serial /\ j.ref = job[c].ref /\ j.tags = job[c].tags /\ j.todo = job[c].todo
      /\ j.context = job[c].context /\ j.alone = job[c].alone
  BY <1>1 DEF Job
<1> HIDE DEF j
<1>5. job'[c] = j /\ job' \in [CLIs -> Job] /\ \A d \in CLIs \ {c} : job'[d] = job[d] /\ tree'[d] = tree[d]
  BY <1>0, <1>1, <1>2, <1>4 DEF ShipType
<1>6. ASSUME NEW d \in CLIs
      PROVE  Same(job'[d], job[d]) /\ (Ship!Active(d) /\ job'[d].still => tree'[d] = tree[d])
  <2>1. CASE d = c
    BY <1>3, <1>4, <1>5, <2>1 DEF Same
  <2>2. CASE d # c
    BY <1>5, <2>2 DEF Same
  <2> QED
    BY <2>1, <2>2
<1>7. ShipType'
  <2>1. tree' \in [CLIs -> Tree]
    BY <1>0, <1>1 DEF ShipType
  <2>2. edits' \in 0 .. MaxEdits
    BY <1>0, <1>1, TouchesFacts DEF ShipType
  <2> QED
    BY <1>0, <1>1, <1>5, <2>1, <2>2 DEF ShipType
<1>8. ImagesOK' /\ PushedOK'
  BY <1>0, <1>1 DEF ImagesOK, PushedOK
<1>9. ContextsOK'
  BY <1>0, <1>1 DEF ContextsOK
<1>10. CompanyOK'
  <2>1. \A d \in CLIs : job'[d].stage = job[d].stage /\ job'[d].alone = job[d].alone /\ job'[d].serial = job[d].serial
    BY <1>4, <1>5
  <2> QED
    BY <1>1, <2>1 DEF CompanyOK, Ship!Active
<1>11. Ship!UploadsAreCleaned'
  BY <1>0, <1>1, <1>6, SameUploads
<1>12. \A d \in CLIs : Ship!Active(d)' => CommandOK(d)'
  <2> SUFFICES ASSUME NEW d \in CLIs, Ship!Active(d)' PROVE CommandOK(d)'
    OBVIOUS
  <2>1. Ship!Active(d)
    BY <1>6, SameTodo
  <2> QED
    BY <1>0, <1>1, <1>6, <1>7, <2>1, HeardKeeps
<1> QED
  BY <1>7, <1>8, <1>9, <1>10, <1>11, <1>12 DEF ShipInv

\* A file is edited.
LEMMA EditInv == ASSUME ShipInv, NEW c \in CLIs, Ship!Edit(c) PROVE ShipInv'
<1>1. PICK s \in Services : Ship!Change(c, [tree[c] EXCEPT !.edited[s] = edits + 1])
  BY DEF Ship!Edit
<1>2. tree[c] \in Tree /\ edits \in 0 .. MaxEdits /\ edits < MaxEdits
  BY <1>1 DEF ShipInv, ShipType, Ship!Change
<1>3. edits + 1 \in 0 .. MaxEdits
  BY <1>2, TouchesFacts
<1> DEFINE edited == [tree[c].edited EXCEPT ![s] = edits + 1]
<1>4. PICK t : t = [tree[c] EXCEPT !.edited = edited]
  OBVIOUS
<1>5. Ship!Change(c, t)
  BY <1>1, <1>4, Zenon
<1>6. edited \in [Services -> 0 .. MaxEdits]
  BY <1>2, <1>3 DEF Tree
<1> HIDE DEF edited
<1>7. t \in Tree
  BY <1>2, <1>4, <1>6 DEF Tree
<1> QED
  BY <1>5, <1>7, ChangeInv

\* Another commit is checked out.
LEMMA CheckoutInv == ASSUME ShipInv, NEW c \in CLIs, Ship!Checkout(c) PROVE ShipInv'
<1>1. PICK k \in Ship!Commits : Ship!Change(c, [tree[c] EXCEPT !.head = k])
  BY DEF Ship!Checkout
<1>2. [tree[c] EXCEPT !.head = k] \in Tree
  BY DEF ShipInv, ShipType, Tree
<1> QED
  BY <1>1, <1>2, ChangeInv

\* What a command may begin with
FirstOK(c, record) ==
    /\ record \in Job /\ record.still
    /\ record.stage \in {"tag", "check", "publish"}
    /\ record.stage = "tag" => record.kind \in {"build", "edit"} /\ record.todo # {}
    /\ record.stage = "check" => record.kind \in {"rollback", "image"} /\ record.todo = {}
    /\ record.stage = "publish" =>
         /\ record.kind = "restart" /\ record.todo = {}
         /\ \A s \in Services : record.tags[s] # Ship!NoTag => Has(ecr[s], record.tags[s])
    /\ record.ref # 0 =>
         /\ record.kind = "build" /\ record.stage = "tag"
         /\ \A s \in Services :
              LET tag == shipped[record.footprint][s] IN
              /\ tag # Ship!NoTag
              /\ Of(ecr[s], tag).context.content = Ship!Source(s, record.ref)
              /\ s \notin record.todo => Ship!Content(tree[c], s) = Ship!Source(s, record.ref)
    /\ record.kind = "rollback" =>
         \E s \in Services :
           LET tag == shipped[record.footprint][s] IN
           /\ Before(ecr[s], tag) # Ship!NoTag
           /\ record.tags[s] = Before(ecr[s], tag)

\* A command that another one meets is no longer alone, and the same otherwise.
LEMMA AloneFacts ==
    ASSUME NEW i \in Job, NEW d
    PROVE  LET k == [i EXCEPT !.alone = i.alone /\ ~Ship!Active(d)] IN
             /\ k.alone = (i.alone /\ ~Ship!Active(d))
             /\ k \in Job /\ k.stage = i.stage /\ k.kind = i.kind
             /\ k.footprint = i.footprint /\ k.serial = i.serial /\ k.ref = i.ref
             /\ k.tags = i.tags /\ k.todo = i.todo /\ k.context = i.context /\ k.still = i.still
BY DEF Job

\* A command begins.
LEMMA ShipBeginInv ==
    ASSUME ShipInv, NEW c \in CLIs, NEW record, FirstOK(c, record), Ship!Begin(c, record),
           UNCHANGED <<ecr, uploads, builds, shipped, lost, edits, shipFaults>>,
           tree' \in [CLIs -> Tree], \A d \in CLIs \ {c} : tree'[d] = tree[d],
           record.ref # 0 => tree' = tree
    PROVE  ShipInv'
<1> DEFINE company == \A o \in CLIs \ {c} : ~Ship!Active(o)
           j == [record EXCEPT !.serial = starts + 1, !.alone = company]
           other(d) == [job[d] EXCEPT !.alone = job[d].alone /\ ~Ship!Active(d)]
<1>0. ~Ship!Active(c) /\ starts < MaxStarts /\ starts' = starts + 1
  BY DEF Ship!Begin
<1>1. /\ ShipType /\ ImagesOK /\ ContextsOK /\ CompanyOK /\ PushedOK /\ Ship!UploadsAreCleaned
      /\ job \in [CLIs -> Job] /\ starts \in Nat /\ starts' \in 0 .. MaxStarts /\ starts + 1 \in 1 .. MaxStarts
  BY <1>0, TouchesFacts DEF ShipInv, ShipType
<1>2. job' = [d \in CLIs |-> IF d = c THEN j ELSE other(d)]
  BY Zenon DEF Ship!Begin
<1>3. company \in BOOLEAN
  OBVIOUS
<1> HIDE DEF company
<1>F. record \in Job /\ record.still /\ record.stage \in {"tag", "check", "publish"}
  BY DEF FirstOK
<1>C. j.alone = company
  BY <1>F, Zenon DEF Job
<1>4. /\ j \in Job /\ j.serial = starts + 1 /\ j.stage = record.stage /\ j.kind = record.kind
      /\ j.footprint = record.footprint /\ j.ref = record.ref /\ j.tags = record.tags /\ j.todo = record.todo
      /\ j.stage # "idle"
  <2> DEFINE with(n, a) == [record EXCEPT !.serial = n, !.alone = a]
  <2>1. \A n \in 0 .. MaxStarts, a \in BOOLEAN :
          /\ with(n, a) \in Job /\ with(n, a).serial = n /\ with(n, a).stage = record.stage
          /\ with(n, a).kind = record.kind /\ with(n, a).footprint = record.footprint
          /\ with(n, a).ref = record.ref /\ with(n, a).tags = record.tags /\ with(n, a).todo = record.todo
    BY <1>F DEF Job
  <2>2. j = with(starts + 1, company)
    OBVIOUS
  <2> HIDE DEF j, with
  <2>3. starts + 1 \in 0 .. MaxStarts /\ record.stage # "idle"
    BY <1>1, <1>F, TouchesFacts
  <2> QED
    BY <1>3, <2>1, <2>2, <2>3, Zenon
<1>5. \A d \in CLIs : other(d).alone = (job[d].alone /\ ~Ship!Active(d))
  <2> SUFFICES ASSUME NEW d \in CLIs PROVE other(d).alone = (job[d].alone /\ ~Ship!Active(d))
    BY Zenon
  <2>1. job[d] \in Job
    BY <1>1, Zenon
  <2> QED
    BY <2>1, AloneFacts
<1>51. \A d \in CLIs : (other(d).alone => job[d].alone) /\ (Ship!Active(d) => ~other(d).alone)
  BY <1>5, Zenon
<1>6. \A d \in CLIs :
        /\ other(d) \in Job /\ other(d).stage = job[d].stage /\ other(d).kind = job[d].kind
        /\ other(d).footprint = job[d].footprint /\ other(d).serial = job[d].serial /\ other(d).ref = job[d].ref
        /\ other(d).tags = job[d].tags /\ other(d).todo = job[d].todo /\ other(d).context = job[d].context
        /\ other(d).still = job[d].still
  <2> SUFFICES ASSUME NEW d \in CLIs
               PROVE  /\ other(d) \in Job /\ other(d).stage = job[d].stage /\ other(d).kind = job[d].kind
                      /\ other(d).footprint = job[d].footprint /\ other(d).serial = job[d].serial
                      /\ other(d).ref = job[d].ref /\ other(d).tags = job[d].tags
                      /\ other(d).todo = job[d].todo /\ other(d).context = job[d].context
                      /\ other(d).still = job[d].still
    BY Zenon
  <2>1. job[d] \in Job
    BY <1>1, Zenon
  <2> QED
    BY <2>1, AloneFacts
<1> HIDE DEF j, other
<1>7. job'[c] = j /\ job' \in [CLIs -> Job] /\ \A d \in CLIs \ {c} : job'[d] = other(d)
  BY <1>2, <1>4, <1>6
<1>8. \A d \in CLIs \ {c} : Same(job'[d], job[d]) /\ (Ship!Active(d) => ~job'[d].alone)
  BY <1>51, <1>6, <1>7 DEF Same
<1>9. ShipType'
  BY <1>1, <1>7 DEF ShipType
<1>D. ASSUME NEW s \in Services, NEW i \in DOMAIN ecr[s] PROVE ecr[s][i].tag.dev \in Nat
  <2>1. ecr[s] \in Seq(Pushed)
    BY <1>1 DEF ShipType
  <2>2. ecr[s][i] \in Pushed
    BY <2>1
  <2> QED
    BY <2>2, TouchesFacts DEF Pushed, Ship!Tags
<1>10. ImagesOK' /\ PushedOK'
  <2>1. ImagesOK'
    <3> SUFFICES ASSUME NEW s \in Services, NEW i \in DOMAIN ecr[s]
                 PROVE  /\ \A k \in DOMAIN ecr[s] : i # k => ecr[s][i].tag # ecr[s][k].tag
                        /\ ecr[s][i].tag.dev <= starts + 1
                        /\ True(ecr[s][i].context, s, ecr[s][i].tag)
      BY <1>0 DEF ImagesOK
    <3>1. ecr[s][i].tag.dev \in Nat
      BY <1>D
    <3> QED
      BY <1>1, <3>1 DEF ImagesOK
  <2>2. PushedOK'
    BY <1>1 DEF PushedOK
  <2> QED
    BY <2>1, <2>2
<1>11. ContextsOK'
  <2>1. \A u \in uploads : u.key.tag.dev \in Nat
    BY <1>1, TouchesFacts DEF ShipType, Tarball, Ship!Keys, Ship!Tags
  <2>2. \A b \in builds : b.key.tag.dev \in Nat /\ b.serial \in Nat
    BY <1>1, TouchesFacts DEF ShipType, RemoteBuild, Ship!Keys, Ship!Tags
  <2> QED
    BY <1>0, <1>1, <2>1, <2>2 DEF ContextsOK
<1>12. CompanyOK'
  <2> SUFFICES ASSUME NEW d \in CLIs, NEW e \in CLIs, d # e, Ship!Active(d)', Ship!Active(e)'
               PROVE  ~job'[d].alone /\ job'[d].serial # job'[e].serial
    BY DEF CompanyOK
  <2>1. \A x \in CLIs \ {c} : Ship!Active(x)' = Ship!Active(x) /\ job'[x].serial = job[x].serial
    BY <1>8, SameTodo DEF Same
  <2>2. \A x \in CLIs \ {c} : Ship!Active(x) => job[x].serial \in 1 .. starts
    BY DEF ShipInv, CommandOK, StandsOK
  <2>3. CASE d = c
    <3>1. ~company
      BY <2>1, <2>3 DEF company
    <3>2. ~j.alone
      BY <1>C, <3>1, Zenon
    <3>3. job[e].serial \in 1 .. starts /\ job'[e].serial = job[e].serial
      BY <2>1, <2>2, <2>3
    <3> QED
      BY <1>1, <1>4, <1>7, <2>3, <3>2, <3>3
  <2>4. CASE d # c /\ e = c
    <3>1. job[d].serial \in 1 .. starts /\ job'[d].serial = job[d].serial /\ ~job'[d].alone
      BY <1>8, <2>1, <2>2, <2>4
    <3> QED
      BY <1>1, <1>4, <1>7, <2>4, <3>1
  <2>5. CASE d # c /\ e # c
    BY <1>1, <1>8, <2>1, <2>5 DEF CompanyOK
  <2> QED
    BY <2>3, <2>4, <2>5
<1>13. Ship!UploadsAreCleaned'
  <2>1. job[c].stage \notin {"start", "run"}
    BY <1>0 DEF Ship!Active
  <2> QED
    BY <1>1, <1>8, <2>1, SameUploads
<1>14. CommandOK(c)'
  <2>1. StandsOK(c)'
    BY <1>0, <1>1, <1>4, <1>7 DEF StandsOK, FirstOK, Building
  <2>2. ReadyOK(c)'
    BY <1>4, <1>7 DEF ReadyOK, FirstOK, Building
  <2>3. MineOK(c)'
    <3>1. \A b \in builds : b.serial <= starts /\ b.serial \in Nat
      BY <1>1, TouchesFacts DEF ContextsOK, ShipType, RemoteBuild
    <3>2. \A b \in builds : b.serial # starts + 1
      BY <1>1, <3>1
    <3>3. \A b \in builds : ~Mine(c, b)'
      BY <1>4, <1>7, <3>2 DEF Mine
    <3>4. job'[c].stage # "run"
      BY <1>4, <1>7 DEF FirstOK
    <3> QED
      BY <3>3, <3>4 DEF MineOK
  <2>4. TagsOK(c)'
    BY <1>4, <1>7 DEF TagsOK, FirstOK, Building
  <2>5. HereOK(c)'
    BY <1>4, <1>7 DEF HereOK, FirstOK
  <2>6. OwnOK(c)'
    <3>1. \A s \in Services : \A i \in DOMAIN ecr[s] : ecr[s][i].tag.dev # starts + 1
      <4> SUFFICES ASSUME NEW s \in Services, NEW i \in DOMAIN ecr[s] PROVE ecr[s][i].tag.dev # starts + 1
        OBVIOUS
      <4>1. ecr[s][i].tag.dev \in Nat /\ ecr[s][i].tag.dev <= starts
        BY <1>1, <1>D DEF ImagesOK
      <4> QED
        BY <1>1, <4>1
    <3>2. \A u \in uploads : u.key.tag.dev # starts + 1
      <4> SUFFICES ASSUME NEW u \in uploads PROVE u.key.tag.dev # starts + 1
        OBVIOUS
      <4>1. u.key.tag.dev \in Nat /\ u.key.tag.dev <= starts
        BY <1>1, TouchesFacts DEF ShipType, Tarball, Ship!Keys, Ship!Tags, ContextsOK
      <4> QED
        BY <1>1, <4>1
    <3>3. \A b \in builds : b.key.tag.dev # starts + 1
      <4> SUFFICES ASSUME NEW b \in builds PROVE b.key.tag.dev # starts + 1
        OBVIOUS
      <4>1. b.key.tag.dev \in Nat /\ b.key.tag.dev <= starts
        BY <1>1, TouchesFacts DEF ShipType, RemoteBuild, Ship!Keys, Ship!Tags, ContextsOK
      <4> QED
        BY <1>1, <4>1
    <3>4. job'[c].serial = starts + 1
      BY <1>4, <1>7
    <3> QED
      BY <3>1, <3>2, <3>3, <3>4 DEF OwnOK, Own
  <2>7. RefOK(c)'
    BY <1>4, <1>7 DEF RefOK, FirstOK
  <2>8. BackOK(c)'
    BY <1>4, <1>7 DEF BackOK, FirstOK
  <2> QED
    BY <2>1, <2>2, <2>3, <2>4, <2>5, <2>6, <2>7, <2>8 DEF CommandOK
<1>15. \A d \in CLIs : Ship!Active(d)' => CommandOK(d)'
  <2> SUFFICES ASSUME NEW d \in CLIs \ {c}, Ship!Active(d)' PROVE CommandOK(d)'
    BY <1>14
  <2>1. Ship!Active(d) /\ Same(job'[d], job[d])
    BY <1>8, SameTodo
  <2>2. starts <= starts'
    BY <1>0, <1>1
  <2> QED
    BY <1>9, <2>1, <2>2, HeardKeeps
<1> QED
  BY <1>9, <1>10, <1>11, <1>12, <1>13, <1>15 DEF ShipInv

\* The records that commands begin with
Since(f, services, remote, ref) == [Ship!Deploying(f, services, remote) EXCEPT !.ref = ref]
Editing(s) == [Ship!Deploying(Base, {s}, FALSE) EXCEPT !.kind = "edit"]
Naming(kind, f, s, tag) == [Ship!Idle EXCEPT !.stage = "check", !.kind = kind, !.footprint = f, !.tags[s] = tag]

\* The record of a deploy, of which something may have been published since a ref.
LEMMA DeployingFacts ==
    ASSUME NEW f \in Footprints, NEW services \in SUBSET Services, services # {}, NEW remote \in BOOLEAN,
           NEW ref \in 0 .. Len(Touches)
    PROVE  /\ Since(f, services, remote, ref) \in Job /\ Since(f, services, remote, ref).still
           /\ Since(f, services, remote, ref).stage = "tag" /\ Since(f, services, remote, ref).kind = "build"
           /\ Since(f, services, remote, ref).footprint = f /\ Since(f, services, remote, ref).todo = services
           /\ Since(f, services, remote, ref).ref = ref
           /\ ref = 0 => Since(f, services, remote, ref) = Ship!Deploying(f, services, remote)
<1> DEFINE first == Ship!Deploying(f, services, remote)
<1>1. /\ first \in Job /\ first.still /\ first.stage = "tag" /\ first.kind = "build"
      /\ first.footprint = f /\ first.todo = services /\ first.ref = 0
  BY IdleType DEF Ship!Deploying, Job
<1>2. Since(f, services, remote, ref) = [first EXCEPT !.ref = ref]
  BY DEF Since
<1> HIDE DEF first
<1>3. [first EXCEPT !.ref = ref] \in Job /\ (ref = 0 => [first EXCEPT !.ref = ref] = first)
  BY <1>1 DEF Job
<1>4. /\ Since(f, services, remote, ref).still
      /\ Since(f, services, remote, ref).stage = "tag" /\ Since(f, services, remote, ref).kind = "build"
      /\ Since(f, services, remote, ref).footprint = f /\ Since(f, services, remote, ref).todo = services
      /\ Since(f, services, remote, ref).ref = ref
  BY <1>1, <1>2 DEF Job
<1> QED
  BY <1>2, <1>3, <1>4 DEF first

\* The record of a deploy by scale or config set
LEMMA EditingFacts ==
    ASSUME NEW s \in Services
    PROVE  /\ Editing(s) \in Job /\ Editing(s).still /\ Editing(s).stage = "tag" /\ Editing(s).kind = "edit"
           /\ Editing(s).todo = {s} /\ Editing(s).ref = 0
<1> DEFINE first == Ship!Deploying(Base, {s}, FALSE)
<1>1. /\ first \in Job /\ first.still /\ first.stage = "tag" /\ first.todo = {s} /\ first.ref = 0
  BY IdleType, TouchesFacts DEF Ship!Deploying, Job
<1>2. Editing(s) = [first EXCEPT !.kind = "edit"]
  BY DEF Editing
<1> HIDE DEF first
<1> QED
  BY <1>1, <1>2 DEF Job

\* deploy, or deploy --service
LEMMA DeployInv == ASSUME ShipInv, NEW c \in CLIs, Ship!Deploy(c) PROVE ShipInv'
<1>1. PICK f \in Footprints, services \in {Services} \cup {{s} : s \in Services} :
        Ship!Begin(c, Ship!Deploying(f, services, c \in Remote))
  BY DEF Ship!Deploy
<1>R. PICK remote \in BOOLEAN : remote = (c \in Remote)
  <2>1. (c \in Remote) \in BOOLEAN
    OBVIOUS
  <2>2. \E remote \in BOOLEAN : remote = (c \in Remote)
    <3> WITNESS (c \in Remote) \in BOOLEAN
    <3> QED
      OBVIOUS
  <2> QED
    BY <2>2
<1>B. Ship!Begin(c, Ship!Deploying(f, services, remote))
  BY <1>1, <1>R, Zenon
<1>2. services \in SUBSET Services /\ services # {} /\ 0 \in 0 .. Len(Touches)
  <2>1. Services # {} /\ Len(Touches) \in Nat \ {0}
    BY TouchesFacts
  <2>2. services \in SUBSET Services /\ services # {}
    BY <2>1
  <2> QED
    BY <2>1, <2>2
<1>3. PICK record : record = Since(f, services, remote, 0)
  OBVIOUS
<1>4. record = Ship!Deploying(f, services, remote)
  BY <1>2, <1>3, DeployingFacts
<1>5. /\ record \in Job /\ record.still /\ record.stage = "tag" /\ record.kind = "build"
      /\ record.todo = services /\ record.ref = 0
  BY <1>2, <1>3, DeployingFacts
<1>6. FirstOK(c, record)
  BY <1>2, <1>5 DEF FirstOK
<1>7. /\ UNCHANGED <<tree, ecr, uploads, builds, shipped, lost, edits, shipFaults>>
      /\ tree \in [CLIs -> Tree] /\ Ship!Begin(c, record)
  BY <1>B, <1>4 DEF Ship!Deploy, Ship!outside, Ship!aws, ShipInv, ShipType
<1> QED
  BY <1>6, <1>7, ShipBeginInv

\* What has not changed since the ref is as it was there.
LEMMA UnchangedFacts ==
    ASSUME NEW t \in Tree, NEW ref \in Ship!Commits, NEW s \in Services, s \notin Ship!ChangedServices(t, ref)
    PROVE  Ship!Content(t, s) = Ship!Source(s, ref)
<1>1. t.edited[s] = 0 /\ \A k \in Ship!Between(ref, t.head) : s \notin Touches[k]
  BY DEF Ship!ChangedServices
<1>2. Ship!Source(s, ref) = Ship!Source(s, t.head)
  BY <1>1, SourceKept DEF Tree
<1>3. Ship!Content(t, s) = Ship!Source(s, t.head)
  BY <1>1 DEF Ship!Content, Ship!Source
<1> QED
  BY <1>2, <1>3

\* deploy --changed
LEMMA DeployChangedInv == ASSUME ShipInv, NEW c \in CLIs, Ship!DeployChanged(c) PROVE ShipInv'
<1> DEFINE ran(f, ref) == \A s \in Services : /\ shipped[f][s] # Ship!NoTag
                                             /\ Ship!ImageOf(s, shipped[f][s]).context.content = Ship!Source(s, ref)
<1>1. PICK f \in Footprints, ref \in Ship!Commits :
        /\ Ship!ChangedServices(tree[c], ref) # {}
        /\ Ship!Begin(c, [Ship!Deploying(f, Ship!ChangedServices(tree[c], ref), c \in Remote) EXCEPT
                            !.ref = IF ran(f, ref) THEN ref ELSE 0])
  BY DEF Ship!DeployChanged
<1>R. PICK remote \in BOOLEAN : remote = (c \in Remote)
  <2>1. (c \in Remote) \in BOOLEAN
    OBVIOUS
  <2>2. \E remote \in BOOLEAN : remote = (c \in Remote)
    <3> WITNESS (c \in Remote) \in BOOLEAN
    <3> QED
      OBVIOUS
  <2> QED
    BY <2>2
<1>B. Ship!Begin(c, [Ship!Deploying(f, Ship!ChangedServices(tree[c], ref), remote) EXCEPT
                       !.ref = IF ran(f, ref) THEN ref ELSE 0])
  BY <1>1, <1>R, Zenon
<1>2. PICK services : services = Ship!ChangedServices(tree[c], ref)
  OBVIOUS
<1>3. PICK since : since = IF ran(f, ref) THEN ref ELSE 0
  OBVIOUS
<1>4. PICK record : record = Since(f, services, remote, since)
  OBVIOUS
<1>5. /\ services \in SUBSET Services /\ services # {}
      /\ since \in 0 .. Len(Touches) /\ tree[c] \in Tree /\ tree \in [CLIs -> Tree]
  BY <1>1, <1>2, <1>3, TouchesFacts DEF Ship!ChangedServices, ShipInv, ShipType
<1>7. Ship!Begin(c, record)
  BY <1>B, <1>2, <1>3, <1>4 DEF Since
<1>8. /\ record \in Job /\ record.still /\ record.stage = "tag" /\ record.kind = "build"
      /\ record.footprint = f /\ record.todo = services /\ record.ref = since
  BY <1>4, <1>5, DeployingFacts
<1>9. ASSUME since # 0
      PROVE  \A s \in Services :
               /\ shipped[f][s] # Ship!NoTag
               /\ Of(ecr[s], shipped[f][s]).context.content = Ship!Source(s, since)
               /\ s \notin services => Ship!Content(tree[c], s) = Ship!Source(s, since)
  <2>1. since = ref /\ ran(f, ref)
    BY <1>3, <1>9
  <2> QED
    BY <1>2, <1>5, <2>1, NamedFacts, UnchangedFacts
<1>10. FirstOK(c, record)
  BY <1>5, <1>8, <1>9 DEF FirstOK
<1>11. UNCHANGED <<tree, ecr, uploads, builds, shipped, lost, edits, shipFaults>>
  BY DEF Ship!DeployChanged, Ship!outside, Ship!aws
<1> QED
  BY <1>5, <1>7, <1>10, <1>11, ShipBeginInv

\* scale and config set
LEMMA EditDeployInv == ASSUME ShipInv, NEW c \in CLIs, Ship!EditDeploy(c) PROVE ShipInv'
<1>1. PICK s \in Services : Ship!Begin(c, [Ship!Deploying(Base, {s}, FALSE) EXCEPT !.kind = "edit"])
  BY DEF Ship!EditDeploy
<1>2. PICK new \in BOOLEAN : tree' = [tree EXCEPT ![c] = Ship!Edited(@, new)]
  BY DEF Ship!EditDeploy
<1>3. tree \in [CLIs -> Tree] /\ tree[c] \in Tree /\ Base \in Footprints /\ {s} \in SUBSET Services /\ {s} # {}
  BY TouchesFacts DEF ShipInv, ShipType
<1>4. PICK t : t = Ship!Edited(tree[c], new)
  OBVIOUS
<1>5. t \in Tree
  <2>1. (tree[c].toml \/ new) \in BOOLEAN
    OBVIOUS
  <2>2. \A b \in BOOLEAN : [tree[c] EXCEPT !.toml = b] \in Tree
    BY <1>3 DEF Tree
  <2>3. t = [tree[c] EXCEPT !.toml = tree[c].toml \/ new]
    BY <1>4, Zenon DEF Ship!Edited
  <2> QED
    BY <2>1, <2>2, <2>3, Zenon
<1>6. tree' = [tree EXCEPT ![c] = t]
  BY <1>2, <1>4, Zenon
<1>7. tree' \in [CLIs -> Tree] /\ \A d \in CLIs \ {c} : tree'[d] = tree[d]
  BY <1>3, <1>5, <1>6
<1>8. PICK record : record = Editing(s)
  OBVIOUS
<1>10. /\ record \in Job /\ record.still /\ record.stage = "tag" /\ record.kind = "edit"
       /\ record.todo = {s} /\ record.ref = 0
  BY <1>8, EditingFacts, Zenon
<1>11. FirstOK(c, record)
  BY <1>3, <1>10 DEF FirstOK
<1>12. UNCHANGED <<ecr, uploads, builds, shipped, lost, edits, shipFaults>> /\ Ship!Begin(c, record)
  BY <1>1, <1>8 DEF Ship!EditDeploy, Ship!aws, Editing
<1> QED
  BY <1>7, <1>10, <1>11, <1>12, ShipBeginInv

\* deploy --restart
LEMMA RestartInv == ASSUME ShipInv, NEW c \in CLIs, Ship!Restart(c) PROVE ShipInv'
<1>1. PICK f \in Footprints, services \in {Services} \cup {{s} : s \in Services} :
        Ship!Begin(c, [Ship!Idle EXCEPT !.stage = "publish", !.kind = "restart", !.footprint = f,
                         !.tags = [s \in Services |-> IF s \in services THEN shipped[f][s] ELSE Ship!NoTag]])
  BY DEF Ship!Restart
<1>2. PICK tags : tags = [s \in Services |-> IF s \in services THEN shipped[f][s] ELSE Ship!NoTag]
  OBVIOUS
<1>3. tags \in [Services -> Ship!Tags] /\ tree \in [CLIs -> Tree]
  BY <1>2, NoTagType DEF ShipInv, ShipType
<1>4. PICK record : record = [Ship!Idle EXCEPT !.stage = "publish", !.kind = "restart", !.footprint = f, !.tags = tags]
  OBVIOUS
<1>5. /\ record \in Job /\ record.still /\ record.stage = "publish" /\ record.kind = "restart"
      /\ record.tags = tags /\ record.todo = {} /\ record.ref = 0
  BY <1>3, <1>4, IdleType DEF Job
<1>6. \A s \in Services : tags[s] # Ship!NoTag => Has(ecr[s], tags[s])
  BY <1>2 DEF ShipInv, PushedOK
<1>7. FirstOK(c, record)
  BY <1>5, <1>6 DEF FirstOK
<1>8. /\ UNCHANGED <<tree, ecr, uploads, builds, shipped, lost, edits, shipFaults>> /\ Ship!Begin(c, record)
  BY <1>1, <1>2, <1>4 DEF Ship!Restart, Ship!outside, Ship!aws
<1> QED
  BY <1>3, <1>7, <1>8, ShipBeginInv

\* A tag that was given, or found
LEMMA NamedTag ==
    ASSUME NEW f \in Footprints, NEW s \in Services, NEW tag \in Ship!Tags, NEW kind \in {"rollback", "image"}
    PROVE  \A record : record = Naming(kind, f, s, tag) =>
           /\ record \in Job /\ record.still /\ record.stage = "check" /\ record.kind = kind
           /\ record.footprint = f /\ record.tags[s] = tag /\ record.todo = {} /\ record.ref = 0
<1> SUFFICES ASSUME NEW record, record = Naming(kind, f, s, tag)
             PROVE  /\ record \in Job /\ record.still /\ record.stage = "check" /\ record.kind = kind
                    /\ record.footprint = f /\ record.tags[s] = tag /\ record.todo = {} /\ record.ref = 0
  OBVIOUS
<1> DEFINE tags == [Ship!Idle.tags EXCEPT ![s] = tag]
<1>1. tags \in [Services -> Ship!Tags] /\ tags[s] = tag
  BY IdleType, NoTagType
<1>3. record = [Ship!Idle EXCEPT !.stage = "check", !.kind = kind, !.footprint = f, !.tags = tags]
  BY Zenon DEF Naming
<1> HIDE DEF tags
<1>2. /\ record \in Job /\ record.still /\ record.stage = "check" /\ record.kind = kind
      /\ record.footprint = f /\ record.tags = tags /\ record.todo = {} /\ record.ref = 0
  BY <1>1, <1>3, IdleType DEF Job
<1> QED
  BY <1>1, <1>2

\* rollback
LEMMA RollbackInv == ASSUME ShipInv, NEW c \in CLIs, Ship!Rollback(c) PROVE ShipInv'
<1>1. PICK f \in Footprints, s \in Services :
        \E target \in {Ship!PreviousTag(s, shipped[f][s])} :
          /\ target # Ship!NoTag
          /\ Ship!Begin(c, [Ship!Idle EXCEPT !.stage = "check", !.kind = "rollback", !.footprint = f,
                              !.tags[s] = target])
  BY DEF Ship!Rollback
<1>P. PICK tag \in {Ship!PreviousTag(s, shipped[f][s])} :
        /\ tag # Ship!NoTag
        /\ Ship!Begin(c, [Ship!Idle EXCEPT !.stage = "check", !.kind = "rollback", !.footprint = f, !.tags[s] = tag])
  BY <1>1
<1>2. tag = Before(ecr[s], shipped[f][s]) /\ ShipType /\ ImagesOK
  BY NamedFacts DEF ShipInv
<1>3. tag \in Ship!Tags /\ "rollback" \in {"rollback", "image"} /\ tree \in [CLIs -> Tree]
  BY <1>P, <1>2, RepositoryFacts, BeforeFacts DEF ShipType
<1>4. PICK record : record = Naming("rollback", f, s, tag)
  OBVIOUS
<1>5. /\ record \in Job /\ record.still /\ record.stage = "check" /\ record.kind = "rollback"
      /\ record.footprint = f /\ record.tags[s] = tag /\ record.todo = {} /\ record.ref = 0
  BY <1>3, <1>4, NamedTag
<1>6. FirstOK(c, record)
  BY <1>P, <1>2, <1>5 DEF FirstOK
<1>7. /\ UNCHANGED <<tree, ecr, uploads, builds, shipped, lost, edits, shipFaults>> /\ Ship!Begin(c, record)
  BY <1>P, <1>4, Zenon DEF Ship!Rollback, Ship!outside, Ship!aws, Naming
<1> QED
  BY <1>3, <1>6, <1>7, ShipBeginInv

\* deploy --image, rollback --to
LEMMA OverrideInv == ASSUME ShipInv, NEW c \in CLIs, Ship!Override(c) PROVE ShipInv'
<1>1. PICK f \in Footprints, s \in Services, k \in Ship!Commits :
        Ship!Begin(c, [Ship!Idle EXCEPT !.stage = "check", !.kind = "image", !.footprint = f, !.tags[s] = Ship!Clean(k)])
  BY DEF Ship!Override
<1>2. Ship!Clean(k) \in Ship!Tags /\ "image" \in {"rollback", "image"} /\ tree \in [CLIs -> Tree]
  BY CleanFacts DEF ShipInv, ShipType
<1>3. PICK record : record = Naming("image", f, s, Ship!Clean(k))
  OBVIOUS
<1>4. /\ record \in Job /\ record.still /\ record.stage = "check" /\ record.kind = "image"
      /\ record.todo = {} /\ record.ref = 0
  BY <1>2, <1>3, NamedTag
<1>5. FirstOK(c, record)
  BY <1>4 DEF FirstOK
<1>6. /\ UNCHANGED <<tree, ecr, uploads, builds, shipped, lost, edits, shipFaults>> /\ Ship!Begin(c, record)
  BY <1>1, <1>3, Zenon DEF Ship!Override, Ship!outside, Ship!aws, Naming
<1> QED
  BY <1>2, <1>5, <1>6, ShipBeginInv

-----------------------------------------------------------------------------
(* The specification                                                        *)

\* The first state
LEMMA ShipInitInv == Ship!Init => ShipInv
<1> SUFFICES ASSUME Ship!Init PROVE ShipInv
  OBVIOUS
<1>0. 1 \in Ship!Commits /\ Len(Touches) \in Ship!Commits /\ 0 \in 0 .. MaxEdits /\ Base \in Footprints
  BY TouchesFacts
<1>1. /\ Ship!Clean(1) \in Ship!Tags /\ Ship!NoTag \in Ship!Tags
      /\ Ship!Clean(1).dev = 0 /\ Ship!Clean(1).commit = 1
  BY <1>0, CleanFacts
<1> DEFINE context(s) == [Ship!NoContext EXCEPT !.content = Ship!Source(s, 1)]
           x(s) == [tag |-> Ship!Clean(1), context |-> context(s), platform |-> Platform[Base]]
<1>2. ASSUME NEW s \in Services PROVE x(s) \in Pushed /\ x(s).tag = Ship!Clean(1) /\ True(x(s).context, s, x(s).tag)
  <2>1. Ship!Source(s, 1) \in [commit : 0 .. Len(Touches), edit : 0 .. MaxEdits]
    BY <1>0, SourceType
  <2>2. context(s) \in Ship!Contexts /\ context(s).content = Ship!Source(s, 1)
    BY <2>1, NoContextType DEF Ship!Contexts
  <2>3. Platform[Base] \in Platforms
    BY <1>0 DEF Platforms
  <2> HIDE DEF context
  <2> QED
    BY <1>1, <2>2, <2>3 DEF Pushed, True
<1>3. ecr = [s \in Services |-> <<x(s)>>]
  BY Zenon DEF Ship!Init
<1> HIDE DEF x
<1>4. \A s \in Services : /\ ecr[s] = <<x(s)>> /\ DOMAIN ecr[s] = {1} /\ ecr[s][1] = x(s)
                          /\ ecr[s] \in Seq(Pushed)
  BY <1>2, <1>3
<1>5. ecr \in [Services -> Seq(Pushed)]
  BY <1>3, <1>4
<1>6. /\ shipped = [f \in Footprints |-> [s \in Services |-> IF f = Base THEN Ship!Clean(1) ELSE Ship!NoTag]]
      /\ job = [c \in CLIs |-> Ship!Idle] /\ uploads = {} /\ builds = {} /\ lost = {}
      /\ starts = 0 /\ edits = 0 /\ shipFaults = 0
      /\ tree = [c \in CLIs |-> [head |-> Len(Touches), edited |-> [s \in Services |-> 0], toml |-> FALSE]]
  BY DEF Ship!Init
<1>7. shipped \in [Footprints -> [Services -> Ship!Tags]]
  BY <1>1, <1>6
<1>8. job \in [CLIs -> Job] /\ \A c \in CLIs : ~Ship!Active(c)
  BY <1>6, IdleType DEF Ship!Active
<1>9. tree \in [CLIs -> Tree]
  BY <1>0, <1>6 DEF Tree
<1>10. ShipType
  <2>1. uploads \subseteq Tarball /\ builds \subseteq RemoteBuild /\ lost \subseteq Ship!Keys
    BY <1>6
  <2>2. starts \in 0 .. MaxStarts /\ edits \in 0 .. MaxEdits /\ shipFaults \in 0 .. MaxShipFaults
    BY <1>6, TouchesFacts
  <2> QED
    BY <1>5, <1>7, <1>8, <1>9, <2>1, <2>2 DEF ShipType
<1>11. ImagesOK
  BY <1>1, <1>2, <1>4, <1>6 DEF ImagesOK
<1>12. PushedOK
  <2> SUFFICES ASSUME NEW f \in Footprints, NEW s \in Services, shipped[f][s] # Ship!NoTag
               PROVE  Has(ecr[s], shipped[f][s])
    BY DEF PushedOK
  <2>1. shipped[f][s] = Ship!Clean(1)
    BY <1>6
  <2> QED
    BY <1>2, <1>4, <2>1 DEF Has
<1>13. ContextsOK /\ CompanyOK /\ Ship!UploadsAreCleaned
  BY <1>6, <1>8 DEF ContextsOK, CompanyOK, Ship!UploadsAreCleaned
<1> QED
  BY <1>8, <1>10, <1>11, <1>12, <1>13 DEF ShipInv

\* Nothing happens.
LEMMA ShipStutter == ASSUME ShipInv, UNCHANGED Ship!vars PROVE ShipInv'
<1>0. UNCHANGED <<tree, edits, ecr, uploads, builds, shipped, job, lost, starts, shipFaults>>
  BY DEF Ship!vars, Ship!outside, Ship!aws
<1>1. ShipType /\ ImagesOK /\ ContextsOK /\ CompanyOK /\ PushedOK /\ Ship!UploadsAreCleaned /\ starts \in Nat
  BY TouchesFacts DEF ShipInv, ShipType
<1>2. ShipType'
  BY <1>0, <1>1 DEF ShipType
<1>3. ImagesOK' /\ PushedOK'
  BY <1>0, <1>1 DEF ImagesOK, PushedOK
<1>4. ContextsOK'
  BY <1>0, <1>1 DEF ContextsOK
<1>5. CompanyOK'
  BY <1>0, <1>1 DEF CompanyOK, Ship!Active
<1>6. Ship!UploadsAreCleaned'
  BY <1>0, <1>1, SameIsSame, SameUploads
<1>7. \A d \in CLIs : Ship!Active(d)' => CommandOK(d)'
  <2> SUFFICES ASSUME NEW d \in CLIs, Ship!Active(d)' PROVE CommandOK(d)'
    OBVIOUS
  <2>1. Ship!Active(d) /\ Same(job'[d], job[d])
    BY <1>0, SameIsSame DEF Ship!Active
  <2> QED
    BY <1>0, <1>1, <1>2, <2>1, HeardKeeps
<1> QED
  BY <1>2, <1>3, <1>4, <1>5, <1>6, <1>7 DEF ShipInv

\* One lemma for each action
LEMMA ShipNextInv == ASSUME ShipInv, Ship!Next PROVE ShipInv'
<1>1. ASSUME NEW c \in CLIs, Ship!Step(c) PROVE ShipInv'
  BY <1>1, CheckInv, TagInv, SkipInv, BuildInv, ShipPushBuiltInv, PendingInv, UploadInv, StartBuildInv, ShipPollInv,
     DeadlineInv, ShipPublishInv DEF Ship!Step, Ship!BuildStep
<1>2. ASSUME NEW c \in CLIs, Ship!Start(c) PROVE ShipInv'
  BY <1>2, DeployInv, DeployChangedInv, EditDeployInv, RestartInv, RollbackInv, OverrideInv DEF Ship!Start
<1>3. ASSUME Ship!CodeBuild PROVE ShipInv'
  BY <1>3, FetchInv, EndedInv DEF Ship!CodeBuild
<1> QED
  BY <1>1, <1>2, <1>3, ShipFailInv, KillInv, EditInv, CheckoutInv DEF Ship!Next

\* Any number of command lines, commands, builds and faults: ShipInv holds throughout.
THEOREM ShipInvariant == Ship!Spec => []ShipInv
<1>1. ShipInv /\ [Ship!Next]_Ship!vars => ShipInv'
  BY ShipNextInv, ShipStutter
<1> QED
  BY <1>1, ShipInitInv, PTL DEF Ship!Spec

\* The invariant says what ImagesAreSound says.
LEMMA ImagesFollow == ShipInv => Ship!ImagesAreSound
<1> SUFFICES ASSUME ShipInv PROVE Ship!ImagesAreSound
  OBVIOUS
<1>1. ShipType /\ ImagesOK /\ PushedOK
  BY DEF ShipInv
<1>2. Ship!TypeOK
  <2>1. tree \in [CLIs -> [head : Ship!Commits, edited : [Services -> 0 .. MaxEdits], toml : BOOLEAN]]
    BY <1>1 DEF ShipType, Tree
  <2>2. \A s \in Services : \A i, j \in DOMAIN ecr[s] :
          ecr[s][i].tag \in Ship!Tags /\ (i # j => ecr[s][i].tag # ecr[s][j].tag)
    <3> SUFFICES ASSUME NEW s \in Services, NEW i \in DOMAIN ecr[s], NEW j \in DOMAIN ecr[s]
                 PROVE  ecr[s][i].tag \in Ship!Tags /\ (i # j => ecr[s][i].tag # ecr[s][j].tag)
      OBVIOUS
    <3>1. ecr[s] \in Seq(Pushed)
      BY <1>1 DEF ShipType
    <3>2. ecr[s][i] \in Pushed
      BY <3>1
    <3> QED
      BY <1>1, <3>2 DEF Pushed, ImagesOK
  <2>3. /\ \A u \in uploads : u.key \in Ship!Keys /\ u.context \in Ship!Contexts
        /\ \A b \in builds : b.key \in Ship!Keys /\ b.context \in Ship!Contexts
    BY <1>1 DEF ShipType, Tarball, RemoteBuild
  <2>4. \A c \in CLIs : job[c].todo \subseteq Services /\ job[c].context \in Ship!Contexts
    BY <1>1 DEF ShipType, Job
  <2>5. /\ shipped \in [Footprints -> [Services -> Ship!Tags]] /\ lost \subseteq Ship!Keys
        /\ starts \in 0 .. MaxStarts /\ edits \in 0 .. MaxEdits /\ shipFaults \in 0 .. MaxShipFaults
    BY <1>1 DEF ShipType
  <2> QED
    BY <2>1, <2>2, <2>3, <2>4, <2>5 DEF Ship!TypeOK
<1>3. Ship!PublishedIsPushed
  BY <1>1, NamedFacts DEF Ship!PublishedIsPushed, PushedOK
<1>4. Ship!TagsAreTrue
  BY <1>1 DEF Ship!TagsAreTrue, Ship!Images, ImagesOK, True
<1> QED
  BY <1>2, <1>3, <1>4 DEF Ship!ImagesAreSound

\* What runs was pushed to its service's repository and not overwritten since, and an

\* image under a commit's tag is made of that commit, for any commits, services and
\* footprints and any interleaving of commands, builds, edits and faults.
THEOREM ImagesAlwaysSound == ShippingSpec => []ImagesAreSound
BY ShipInvariant, ImagesFollow, PTL DEF ImagesAreSound, ShippingSpec

-----------------------------------------------------------------------------
(* Where a publish brings a footprint                                       *)

\* Another command's step is none of c's.
LEMMA OthersPublish ==
    ASSUME ShipInv, NEW c \in CLIs, Ship!Published(c), NEW d \in CLIs, Ship!Step(d) PROVE Ship!Publish(c)
<1>0. job \in [CLIs -> Job] /\ job[c].stage = "publish" /\ job'[c].stage = "idle"
  BY DEF ShipInv, ShipType, Ship!Published
<1>1. ASSUME d # c, \E r : job' = [job EXCEPT ![d] = r] PROVE FALSE
  BY <1>0, <1>1
<1>2. ASSUME Ship!Stop(d) PROVE \E r : job' = [job EXCEPT ![d] = r]
  BY <1>2, Zenon DEF Ship!Stop
<1>3. ASSUME NEW w, Ship!Onward(d, w) PROVE \E r : job' = [job EXCEPT ![d] = r]
  BY <1>3, Zenon DEF Ship!Onward
<1>4. \E r : job' = [job EXCEPT ![d] = r]
  <2>1. CASE Ship!Check(d)
    <3>1. CASE Ship!OverrideIsThere(d)
      BY <2>1, <3>1, Zenon DEF Ship!Check
    <3>2. CASE ~Ship!OverrideIsThere(d)
      BY <1>2, <2>1, <3>2, Zenon DEF Ship!Check
    <3> QED
      BY <3>1, <3>2
  <2>2. CASE Ship!Tag(d)
    BY <2>2, Zenon DEF Ship!Tag
  <2>3. CASE Ship!Skip(d)
    BY <1>3, <2>3, Zenon DEF Ship!Skip
  <2>4. CASE Ship!Build(d)
    BY <2>4, Zenon DEF Ship!Build
  <2>5. CASE Ship!PushBuilt(d)
    BY <1>2, <1>3, <2>5, Zenon DEF Ship!PushBuilt
  <2>6. CASE Ship!Pending(d)
    BY <2>6, Zenon DEF Ship!Pending
  <2>7. CASE Ship!Upload(d)
    BY <2>7, Zenon DEF Ship!Upload
  <2>8. CASE Ship!StartBuild(d)
    BY <2>8, Zenon DEF Ship!StartBuild
  <2>9. CASE Ship!Poll(d)
    BY <1>2, <1>3, <2>9, Zenon DEF Ship!Poll
  <2>10. CASE Ship!Deadline(d)
    BY <1>2, <2>10, Zenon DEF Ship!Deadline
  <2>11. CASE Ship!Publish(d)
    BY <1>2, <2>11, Zenon DEF Ship!Publish
  <2> QED
    BY <2>1, <2>2, <2>3, <2>4, <2>5, <2>6, <2>7, <2>8, <2>9, <2>10, <2>11 DEF Ship!Step, Ship!BuildStep
<1>5. d = c
  BY <1>1, <1>4
<1> QED
  BY <1>0, <1>5 DEF Ship!Step, Ship!BuildStep, Ship!Check, Ship!Tag, Ship!Skip, Ship!Build, Ship!PushBuilt,
                    Ship!Pending, Ship!Upload, Ship!StartBuild, Ship!Poll, Ship!Deadline

\* A command that begins is none of those that end.
LEMMA StartsPublish ==
    ASSUME NEW c \in CLIs, Ship!Published(c), NEW d \in CLIs, Ship!Start(d), ShipInv PROVE FALSE
<1>0. job \in [CLIs -> Job] /\ job[c].stage = "publish" /\ job'[c].stage = "idle"
  BY DEF ShipInv, ShipType, Ship!Published
<1>1. PICK record : Ship!Begin(d, record)
  BY DEF Ship!Start, Ship!Deploy, Ship!DeployChanged, Ship!EditDeploy, Ship!Restart, Ship!Rollback, Ship!Override
<1>2. d # c
  BY <1>0, <1>1 DEF Ship!Begin, Ship!Active
<1>3. job'[c] = [job[c] EXCEPT !.alone = @ /\ ~Ship!Active(c)]
  BY <1>1, <1>2, Zenon DEF Ship!Begin
<1>4. job'[c].stage = job[c].stage
  BY <1>0, <1>3 DEF Job
<1> QED
  BY <1>0, <1>4

\* Only its own publish ends a command that was to publish, save a fault.
LEMMA PublishedByPublish ==
    ASSUME ShipInv, Ship!Next, NEW c \in CLIs, Ship!Published(c) PROVE Ship!Publish(c)
<1>0. /\ job \in [CLIs -> Job] /\ job[c].stage = "publish" /\ job'[c].stage = "idle" /\ shipFaults' = shipFaults
      /\ shipFaults \in Nat
  BY TouchesFacts DEF ShipInv, ShipType, Ship!Published
<1>1. ASSUME NEW d \in CLIs, Ship!Fail(d) \/ Ship!Kill(d) PROVE FALSE
  <2>1. shipFaults' = shipFaults + 1
    BY <1>1 DEF Ship!Fail, Ship!Kill
  <2> QED
    BY <1>0, <2>1
<1>2. ASSUME NEW d \in CLIs, Ship!Edit(d) \/ Ship!Checkout(d) PROVE FALSE
  <2>1. PICK t : Ship!Change(d, t)
    BY <1>2 DEF Ship!Edit, Ship!Checkout
  <2>2. PICK j : j = [job[d] EXCEPT !.still = @ /\ ~Ship!Active(d)]
    OBVIOUS
  <2>3. job' = [job EXCEPT ![d] = j]
    BY <2>1, <2>2, Zenon DEF Ship!Change
  <2>4. j.stage = job[d].stage
    BY <1>0, <2>2 DEF Job
  <2> QED
    BY <1>0, <2>3, <2>4
<1>3. ASSUME Ship!CodeBuild PROVE FALSE
  BY <1>0, <1>3 DEF Ship!CodeBuild, Ship!Fetch, Ship!Ended
<1> QED
  BY <1>1, <1>2, <1>3, OthersPublish, StartsPublish DEF Ship!Next

\* Forward to the checkout
LEMMA PublishForward ==
    ASSUME ShipInv, NEW c \in CLIs, Ship!Publish(c), job[c].ref # 0, job[c].alone, job[c].still,
           Ship!StillWhenBuilt
    PROVE  \A s \in Services :
             Ship!ImageOf(s, shipped'[job[c].footprint][s]).context.content = Ship!Content(tree[c], s)
<1> DEFINE f == job[c].footprint
           new == [s \in Services |-> IF s \in Ship!Chosen(c) THEN job[c].tags[s] ELSE shipped[f][s]]
<1>0. Ship!Active(c) /\ job[c].stage = "publish"
  BY DEF Ship!Publish, Ship!Active
<1>1. /\ CommandOK(c) /\ f \in Footprints /\ job[c].tags \in [Services -> Ship!Tags]
      /\ ShipType /\ ImagesOK /\ PushedOK
  BY <1>0, JobFacts DEF ShipInv
<1>2. shipped' = [shipped EXCEPT ![f] = new]
  BY Zenon DEF Ship!Publish
<1>3. shipped'[f] = new
  BY <1>1, <1>2 DEF ShipType
<1>4. /\ job[c].kind = "build"
      /\ \A s \in Services :
           /\ Of(ecr[s], shipped[f][s]).context.content = Ship!Source(s, job[c].ref)
           /\ job[c].tags[s] = Ship!NoTag => Ship!Content(tree[c], s) = Ship!Source(s, job[c].ref)
  BY <1>0, <1>1 DEF CommandOK, RefOK
<1> SUFFICES ASSUME NEW s \in Services PROVE Of(ecr[s], new[s]).context.content = Ship!Content(tree[c], s)
  BY <1>3, NamedFacts
<1>5. CASE s \notin Ship!Chosen(c)
  <2>1. new[s] = shipped[f][s] /\ job[c].tags[s] = Ship!NoTag
    BY <1>5 DEF Ship!Chosen
  <2> QED
    BY <1>4, <2>1
<1>6. CASE s \in Ship!Chosen(c)
  <2> DEFINE tag == job[c].tags[s]
  <2>1. new[s] = tag /\ tag # Ship!NoTag
    BY <1>6 DEF Ship!Chosen
  <2>2. /\ tag.dev \in {0, job[c].serial}
        /\ tag.dev = 0 => Ship!Content(tree[c], s) = Ship!Source(s, tag.commit)
    BY <1>0, <1>1, <1>4, <1>6 DEF CommandOK, TagsOK
  <2>3. Has(ecr[s], tag)
    <3>1. job[c].todo = {}
      BY <1>0, <1>1 DEF CommandOK, StandsOK
    <3> QED
      BY <1>0, <1>1, <2>1, <3>1 DEF CommandOK, ReadyOK
  <2> HIDE DEF tag
  <2>4. PICK i \in DOMAIN ecr[s] : ecr[s][i].tag = tag /\ Of(ecr[s], tag) = ecr[s][i]
    BY <1>1, <2>3, RepositoryFacts, ImageFacts
  <2>5. ecr[s][i].context.still
    BY <2>4 DEF Ship!StillWhenBuilt, Ship!Images
  <2>6. CASE tag.dev = 0
    <3>1. True(ecr[s][i].context, s, tag)
      BY <1>1, <2>4 DEF ImagesOK
    <3> QED
      BY <2>1, <2>2, <2>4, <2>5, <2>6, <3>1 DEF True
  <2>7. CASE tag.dev = job[c].serial
    <3>1. Own(c, ecr[s][i].context, s, tag)
      BY <1>1, <2>4 DEF CommandOK, OwnOK
    <3> QED
      BY <2>1, <2>4, <2>7, <3>1 DEF Own
  <2> QED
    BY <2>2, <2>6, <2>7
<1> QED
  BY <1>5, <1>6

\* Back to what was before
LEMMA PublishBack ==
    ASSUME ShipInv, NEW c \in CLIs, Ship!Publish(c), job[c].kind = "rollback", job[c].alone
    PROVE  \E s \in Services :
             /\ shipped'[job[c].footprint][s] # shipped[job[c].footprint][s]
             /\ Ship!PushedAt(s, shipped'[job[c].footprint][s]) < Ship!PushedAt(s, shipped[job[c].footprint][s])
<1> DEFINE f == job[c].footprint
           new == [s \in Services |-> IF s \in Ship!Chosen(c) THEN job[c].tags[s] ELSE shipped[f][s]]
<1>0. Ship!Active(c) /\ job[c].stage = "publish"
  BY DEF Ship!Publish, Ship!Active
<1>1. /\ CommandOK(c) /\ f \in Footprints /\ ShipType /\ ImagesOK
  BY <1>0, JobFacts DEF ShipInv
<1>2. shipped' = [shipped EXCEPT ![f] = new]
  BY Zenon DEF Ship!Publish
<1>3. shipped'[f] = new
  BY <1>1, <1>2 DEF ShipType
<1>4. PICK s \in Services : /\ Before(ecr[s], shipped[f][s]) # Ship!NoTag
                            /\ job[c].tags[s] = Before(ecr[s], shipped[f][s])
  BY <1>1 DEF CommandOK, BackOK
<1>5. new[s] = Before(ecr[s], shipped[f][s])
  BY <1>4 DEF Ship!Chosen
<1>6. new[s] # shipped[f][s] /\ At(ecr[s], new[s]) < At(ecr[s], shipped[f][s])
  BY <1>1, <1>4, <1>5, RepositoryFacts, BeforeFacts
<1> QED
  BY <1>3, <1>6, NamedFacts

\* deploy --changed brings what the footprint runs to what the checkout has, and a

\* rollback takes it to an image pushed earlier, if no other command came between.
THEOREM DeploysAlwaysArrive == ShippingSpec => DeploysArrive
<1> DEFINE Forward == \A c \in CLIs :
             Ship!Published(c) /\ job[c].ref # 0 /\ job[c].alone /\ job[c].still /\ Ship!StillWhenBuilt
             => \A s \in Services :
                  Ship!ImageOf(s, shipped'[job[c].footprint][s]).context.content = Ship!Content(tree[c], s)
           Back == \A c \in CLIs : Ship!Published(c) /\ job[c].kind = "rollback" /\ job[c].alone =>
             \E s \in Services :
               /\ shipped'[job[c].footprint][s] # shipped[job[c].footprint][s]
               /\ Ship!PushedAt(s, shipped'[job[c].footprint][s]) < Ship!PushedAt(s, shipped[job[c].footprint][s])
<1>1. ShipInv /\ [Ship!Next]_Ship!vars => [Forward]_Ship!vars
  BY PublishedByPublish, PublishForward
<1>2. ShipInv /\ [Ship!Next]_Ship!vars => [Back]_Ship!vars
  BY PublishedByPublish, PublishBack
<1>3. Ship!Spec => [][Forward]_Ship!vars
  BY <1>1, ShipInvariant, PTL DEF Ship!Spec
<1>4. Ship!Spec => [][Back]_Ship!vars
  BY <1>2, ShipInvariant, PTL DEF Ship!Spec
<1> QED
  BY <1>3, <1>4 DEF ShippingSpec, DeploysArrive, Ship!DeploysArrive, Ship!ChangedIsEnough, Ship!RollbackGoesBack

\* A tarball is there only for the command that has uploaded it, or because that

\* was killed.
THEOREM UploadsAlwaysCleaned == ShippingSpec => []Ship!UploadsAreCleaned
<1>1. ShipInv => Ship!UploadsAreCleaned
  BY DEF ShipInv
<1> QED
  BY <1>1, ShipInvariant, PTL DEF ShippingSpec
=============================================================================
