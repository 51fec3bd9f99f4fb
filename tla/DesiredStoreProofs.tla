------------------------- MODULE DesiredStoreProofs -------------------------
(***************************************************************************)
(* Proofs about DesiredStore: its types, that however its commands race,   *)
(* fail and retry, they write as AtomicDesired says, and that what they    *)
(* publish is what they planned.  Two more parts are about the secrets     *)
(* that what they publish refers to, and about the policies under which    *)
(* commands, agents and builds call AWS.                                   *)
(***************************************************************************)
EXTENDS DesiredStore, StoreSecrets, Accounts, Sequences, Integers, TLAPS

-----------------------------------------------------------------------------
(* Types.                                                                   *)

(* An idle command is a command: what Finish leaves of any of them.          *)
LEMMA IdleType == Idle \in Job
  <1>1. (CHOOSE p \in Projects : TRUE) \in Projects
    BY StoreAssumption
  <1>2. 0 \in 0 .. MAX_PUBLISH_RETRIES - 1
    BY StoreAssumption
  <1>. QED  BY <1>1, <1>2 DEF Idle, Job, Nowhere

(* Dropping an object that was read, and trying again or giving up, leaves a *)
(* command (a PreconditionFailedError in publishDesired).                    *)
LEMMA RetryType ==
    ASSUME TypeOK, NEW c \in CLIs
    PROVE  Drop(c) \in Job /\ Retry(c) \in Job
  <1>1. job[c] \in Job
    BY DEF TypeOK
  <1>2. Drop(c) \in Job
    BY <1>1 DEF Drop, Job
  <1>3. CASE Again(c)
    <2>1. job[c].tries + 1 \in 0 .. MAX_PUBLISH_RETRIES - 1
      BY <1>1, <1>3, StoreAssumption DEF Again, Job
    <2>2. Drop(c).tries = job[c].tries
      BY <1>1 DEF Drop, Job
    <2>. QED  BY <1>2, <1>3, <2>1, <2>2 DEF Retry, Job
  <1>4. CASE ~Again(c)
    BY <1>2, <1>4, IdleType DEF Retry
  <1>. QED  BY <1>3, <1>4

(* A command that becomes another one leaves the rest as they are.           *)
LEMMA BecomesType ==
    ASSUME TypeOK, NEW c \in CLIs, NEW j \in Job, Becomes(c, j)
    PROVE  job' \in [CLIs -> Job]
  BY DEF TypeOK, Becomes

(* Of a command that gets the node in hand, out of date or not, only fresh   *)
(* changes (the put of another command).                                     *)
LEMMA StaleType ==
    ASSUME NEW j \in Job, NEW b \in BOOLEAN
    PROVE  [j EXCEPT !.fresh = b] \in Job
  BY DEF Job

(* Merging is about services: what a command makes of a desired.json is one. *)
LEMMA MergeType ==
    ASSUME TypeOK, NEW c \in CLIs, NEW n \in Nodes, NEW E \in SUBSET Entry
    PROVE  Merged(c, n, E) \in SUBSET Entry
  <1>1. /\ job[c].project \in Projects
        /\ job[c].want[n] \in SUBSET Services
    BY DEF TypeOK, Job
  <1>2. Incoming(c, n) \in SUBSET Entry
    BY <1>1 DEF Incoming, Of, Entry
  <1>. QED
    BY <1>2 DEF Merged, AfterRemoval, PartialMerge, FullMerge

(* The put of a node keeps the types.                                        *)
LEMMA OverwriteType ==
    ASSUME TypeOK, NEW c \in CLIs, NEW n \in Nodes, NEW mine \in Job,
           Overwrite(c, n, mine)
    PROVE  desired' \in [Nodes -> SUBSET Entry] /\ job' \in [CLIs -> Job]
  <1>1. Merged(c, n, job[c].seen) \in SUBSET Entry
    BY MergeType DEF TypeOK, Job
  <1>2. \A d \in CLIs : job[d] \in Job
    BY DEF TypeOK
  <1>3. \A d \in CLIs :
          [job[d] EXCEPT !.fresh = @ /\ n \notin job[d].node] \in Job
    BY <1>2, StaleType DEF Job
  <1>. QED  BY <1>1, <1>3 DEF Overwrite, TypeOK

(* So does that of a baseline.                                               *)
LEMMA SetLockType ==
    ASSUME TypeOK, NEW c \in CLIs, NEW locked \in SUBSET Services,
           SetLock(c, locked)
    PROVE  baseline' \in [Projects -> SUBSET Services] /\ job' \in [CLIs -> Job]
  <1>1. \A d \in CLIs : job[d] \in Job
    BY DEF TypeOK
  <1>2. \A d \in CLIs :
          [job[d] EXCEPT !.fresh = @ /\ ~(job[d].stage = "baseline" /\
              job[d].holds /\ job[d].project = job[c].project)] \in Job
    BY <1>1, StaleType DEF Job
  <1>. QED  BY <1>2, IdleType DEF SetLock, TypeOK

(* Nothing is read, planned or published at the start.                       *)
LEMMA TypeInit == Init => TypeOK
  BY IdleType, StoreAssumption DEF Init, TypeOK, Live, Has

(* Reading and planning keep the types.                                      *)
LEMMA TypePlan ==
    ASSUME TypeOK, NEW c \in CLIs,
           \/ ReadLock(c) \/ Scan(c) \/ CheckLock(c) \/ Place(c)
           \/ PlanRemoval(c) \/ NextStage(c) \/ ReadBaseline(c)
    PROVE  TypeOK'
<1>j. job[c] \in Job
  BY DEF TypeOK
<1>f. Finish(c) => job' \in [CLIs -> Job]
  BY IdleType, BecomesType DEF Finish
<1>h. \A n \in Nodes, p \in Projects : Has(n, p) \in SUBSET Services
  BY DEF Has
<1>s. \A S \in SUBSET Nodes, st \in {"scan", "remove", "vacate"} :
        [job[c] EXCEPT !.stage = st, !.left = S] \in Job
  BY <1>j DEF Job
<1>t. \A st \in {"lockScan", "baseline"} : [job[c] EXCEPT !.stage = st] \in Job
  BY <1>j DEF Job
<1>c. ASSUME NEW locked, CompareConfig(c, locked) PROVE job' \in [CLIs -> Job]
  <2>1. [job[c] EXCEPT !.stage = "scan", !.left = Nodes, !.prior = Nowhere] \in Job
    BY <1>j DEF Job, Nowhere
  <2>. QED  BY <1>c, <1>f, <2>1, BecomesType DEF CompareConfig
<1>1. CASE ReadLock(c)
  BY <1>1, <1>c, <1>t, BecomesType DEF ReadLock, TypeOK, jobOnly
<1>2. CASE Scan(c)
  <2>1. PICK n \in job[c].left :
          Becomes(c, [job[c] EXCEPT !.left = @ \ {n},
                        !.prior = [@ EXCEPT ![n] = Has(n, job[c].project)]])
    BY <1>2 DEF Scan
  <2>2. n \in Nodes /\ Has(n, job[c].project) \in SUBSET Services
    BY <1>j, <1>h DEF Job
  <2>3. [job[c].prior EXCEPT ![n] = Has(n, job[c].project)]
          \in [Nodes -> SUBSET Services]
    BY <1>j, <2>2 DEF Job
  <2>4. [job[c] EXCEPT !.left = @ \ {n},
            !.prior = [@ EXCEPT ![n] = Has(n, job[c].project)]] \in Job
    BY <1>j, <2>3 DEF Job
  <2>. QED  BY <1>2, <2>1, <2>4, BecomesType DEF Scan, TypeOK, jobOnly
<1>3. CASE CheckLock(c)
  BY <1>3, <1>c, <1>s, BecomesType DEF CheckLock, TypeOK, jobOnly
<1>4. CASE Place(c)
  <2>1. ASSUME NEW w \in [Nodes -> SUBSET job[c].part]
        PROVE  [job[c] EXCEPT !.stage = "publish", !.want = w,
                  !.left = {n \in Nodes : w[n] # {}}] \in Job
    <3>1. w \in [Nodes -> SUBSET Services]
      BY <1>j DEF Job
    <3>. QED  BY <1>j, <3>1 DEF Job
  <2>. QED  BY <1>4, <1>f, <2>1, BecomesType DEF Place, TypeOK, jobOnly
<1>5. CASE PlanRemoval(c)
  BY <1>5, <1>f, <1>s, BecomesType DEF PlanRemoval, TypeOK, jobOnly
<1>6. CASE NextStage(c)
  BY <1>6, <1>s, <1>t, BecomesType DEF NextStage, Vacated, TypeOK, jobOnly
<1>7. CASE ReadBaseline(c)
  <2>1. baseline[job[c].project] \in SUBSET Services
    BY <1>j DEF Job, TypeOK
  <2>2. [job[c] EXCEPT !.holds = TRUE, !.fresh = TRUE,
                       !.lock = baseline[job[c].project]] \in Job
    BY <1>j, <2>1 DEF Job
  <2>. QED  BY <1>7, <1>f, <2>2, BecomesType DEF ReadBaseline, TypeOK, jobOnly
<1>. QED  BY <1>1, <1>2, <1>3, <1>4, <1>5, <1>6, <1>7

(* Every step of a command is well typed.                                    *)
LEMMA TypeStep == TypeOK /\ [Next]_vars => TypeOK'
<1> SUFFICES ASSUME TypeOK, [Next]_vars PROVE TypeOK'
  OBVIOUS
<1>0. 0 \in 0 .. MAX_PUBLISH_RETRIES - 1
  BY StoreAssumption
<1>1. ASSUME NEW c \in CLIs, Start(c) PROVE TypeOK'
  <2>1. PICK k \in Kinds, p \in Projects :
          /\ \E config \in SUBSET Declared[p] : \E part \in SUBSET config :
               Becomes(c, Command(k, p, config, part))
          /\ overlap' = [overlap EXCEPT
               ![p] = @ \/ \E d \in CLIs \ {c} : Running(d, p)]
    BY <1>1 DEF Start
  <2>2. PICK config \in SUBSET Declared[p] : \E part \in SUBSET config :
          Becomes(c, Command(k, p, config, part))
    BY <2>1
  <2>3. PICK part \in SUBSET config : Becomes(c, Command(k, p, config, part))
    BY <2>2
  <2>4. Declared[p] \in SUBSET Services
    BY StoreAssumption
  <2>5. Command(k, p, config, part) \in Job
    BY <2>4, IdleType, StoreAssumption DEF Command, Job
  <2>6. overlap' \in [Projects -> BOOLEAN]
    BY <2>1 DEF TypeOK, Running
  <2>7. starts' \in 0 .. MaxStarts
    BY <1>1, StoreAssumption DEF Start, TypeOK
  <2>. QED  BY <1>1, <2>3, <2>5, <2>6, <2>7, BecomesType DEF Start, TypeOK
<1>2. ASSUME NEW c \in CLIs,
             \/ ReadLock(c) \/ Scan(c) \/ CheckLock(c) \/ Place(c)
             \/ PlanRemoval(c) \/ NextStage(c) \/ ReadBaseline(c)
      PROVE  TypeOK'
  BY <1>2, TypePlan
<1>f. \A c \in CLIs : Finish(c) => job' \in [CLIs -> Job]
  BY IdleType, BecomesType DEF Finish
<1>8. ASSUME NEW c \in CLIs, Read(c) PROVE TypeOK'
  <2>1. broken' \in [Projects -> BOOLEAN]
    BY <1>8 DEF Read, Break, Deploying, TypeOK
  <2>2. PICK n \in job[c].left :
          \/ Becomes(c, [job[c] EXCEPT !.left = @ \ {n}, !.node = {}, !.tries = 0])
          \/ Finish(c)
          \/ Becomes(c, [job[c] EXCEPT !.node = {n}, !.holds = TRUE,
                                       !.fresh = TRUE, !.seen = desired[n]])
    BY <1>8 DEF Read, Break
  <2>3. job[c] \in Job /\ n \in Nodes
    BY DEF TypeOK, Job
  <2>4. [job[c] EXCEPT !.left = @ \ {n}, !.node = {}, !.tries = 0] \in Job
    BY <1>0, <2>3 DEF Job
  <2>5. desired[n] \in SUBSET Entry
    BY <2>3 DEF TypeOK
  <2>6. [job[c] EXCEPT !.node = {n}, !.holds = TRUE, !.fresh = TRUE,
                       !.seen = desired[n]] \in Job
    BY <2>3, <2>5 DEF Job
  <2>7. job' \in [CLIs -> Job]
    BY <1>f, <2>2, <2>4, <2>6, BecomesType
  <2>. QED  BY <1>8, <2>1, <2>7 DEF Read, TypeOK
<1>9. ASSUME NEW c \in CLIs, Put(c) PROVE TypeOK'
  <2>b. \/ broken' = broken
        \/ broken' = [broken EXCEPT
             ![job[c].project] = @ \/ (Deploying(c) /\ ~Again(c))]
    BY <1>9 DEF Put
  <2>1. broken' \in [Projects -> BOOLEAN]
    BY <2>b DEF Deploying, TypeOK
  <2>f. faults' = faults \/ (faults > 0 /\ faults' = faults - 1)
    BY <1>9 DEF Put
  <2>g. faults' \in 0 .. MaxFaults
    BY <2>f, StoreAssumption DEF TypeOK
  <2>2. job[c] \in Job /\ Drop(c) \in Job /\ Retry(c) \in Job
    BY RetryType DEF TypeOK
  <2>3. PICK n \in job[c].node :
          \/ Overwrite(c, n, [Drop(c) EXCEPT !.left = @ \ {n}, !.node = {},
                                             !.tries = 0])
          \/ UNCHANGED desired /\ Becomes(c, Retry(c))
          \/ Overwrite(c, n, Retry(c))
    BY <1>9 DEF Put
  <2>4. n \in Nodes
    BY <2>2 DEF Job
  <2>6. [Drop(c) EXCEPT !.left = @ \ {n}, !.node = {}, !.tries = 0] \in Job
    BY <1>0, <2>2 DEF Job
  <2>7. desired' \in [Nodes -> SUBSET Entry] /\ job' \in [CLIs -> Job]
    BY <2>2, <2>3, <2>4, <2>6, OverwriteType, BecomesType DEF TypeOK
  <2>. QED  BY <1>9, <2>1, <2>g, <2>7 DEF Put, TypeOK
<1>10. ASSUME NEW c \in CLIs, WriteBaseline(c) PROVE TypeOK'
  <2>1. job[c].config \in SUBSET Services
    BY DEF TypeOK, Job
  <2>. QED  BY <1>10, <2>1, SetLockType DEF WriteBaseline, TypeOK
<1>12. ASSUME NEW c \in CLIs, TrimBaseline(c) PROVE TypeOK'
  <2>1. Trimmed(c) \in SUBSET Services
    BY DEF Trimmed, TypeOK, Job
  <2>2. CASE job[c].fresh /\ SetLock(c, Trimmed(c))
    BY <1>12, <2>1, <2>2, SetLockType DEF TrimBaseline, TypeOK
  <2>3. CASE ~(job[c].fresh /\ SetLock(c, Trimmed(c)))
    <3>0. job[c] \in Job
      BY DEF TypeOK
    <3>t. Drop(c).tries = job[c].tries
      BY <3>0 DEF Drop, Job
    <3>1. job[c] \in Job /\ Drop(c) \in Job /\ Drop(c).tries = job[c].tries
      BY <3>0, <3>t, RetryType
    <3>2. Again(c) => Drop(c).tries + 1 \in 0 .. MAX_PUBLISH_RETRIES - 1
      BY <3>1, StoreAssumption DEF Again, Job
    <3>3. Again(c) => [Drop(c) EXCEPT !.tries = @ + 1, !.lock = {}] \in Job
      BY <3>1, <3>2 DEF Job
    <3>. QED  BY <1>12, <2>3, <3>3, IdleType, BecomesType DEF TrimBaseline, TypeOK
  <2>. QED  BY <2>2, <2>3
<1>13. ASSUME NEW c \in CLIs, Fail(c) PROVE TypeOK'
  <2>1. broken' \in [Projects -> BOOLEAN]
    BY <1>13 DEF Fail, Break, Deploying, TypeOK
  <2>2. faults' \in 0 .. MaxFaults
    BY <1>13, StoreAssumption DEF Fail, TypeOK
  <2>. QED  BY <1>13, <1>f, <2>1, <2>2 DEF Fail, Break, TypeOK
<1>14. CASE UNCHANGED vars
  BY <1>14 DEF vars, TypeOK
<1>. QED
  BY <1>1, <1>2, <1>8, <1>9, <1>10, <1>12, <1>13, <1>14 DEF Next, Step

(* The bucket and the commands are well typed.                               *)
THEOREM TypeCorrect == Spec => []TypeOK
  BY TypeInit, TypeStep, PTL DEF Spec

-----------------------------------------------------------------------------
(* A matching ETag means that what was read is still there.                 *)

FreshOK ==
    \A c \in CLIs :
        job[c].stage # "baseline" /\ job[c].holds /\ job[c].fresh =>
            \A n \in job[c].node : job[c].seen = desired[n]

(* No command holds anything at the start.                                   *)
LEMMA FreshInit == Init => FreshOK
  BY DEF Init, FreshOK, Idle

(* What a command becomes counts; nobody else's changes.                     *)
LEMMA FreshKept ==
    ASSUME TypeOK, FreshOK, NEW c \in CLIs, NEW j, Becomes(c, j),
           UNCHANGED desired,
           j.stage # "baseline" /\ j.holds /\ j.fresh =>
               \A n \in j.node : j.seen = desired[n]
    PROVE  FreshOK'
  BY DEF TypeOK, FreshOK, Becomes

(* A command that ends holds nothing.                                        *)
LEMMA FreshFinish ==
    ASSUME TypeOK, FreshOK, NEW c \in CLIs, Finish(c), UNCHANGED desired
    PROVE  FreshOK'
  <1>1. ~Idle.holds
    BY DEF Idle
  <1>. QED  BY <1>1, FreshKept DEF Finish

(* Nor does one that lost a race.                                            *)
LEMMA DropHolds ==
    ASSUME TypeOK, NEW c \in CLIs
    PROVE  ~Drop(c).holds /\ ~Retry(c).holds
  <1>1. job[c] \in Job
    BY DEF TypeOK
  <1>2. ~Idle.holds
    BY DEF Idle
  <1>3. ~Drop(c).holds /\ Drop(c) \in Job
    BY <1>1, RetryType DEF Drop, Job
  <1>4. ~[Drop(c) EXCEPT !.tries = @ + 1].holds
    BY <1>3 DEF Job
  <1>. QED  BY <1>2, <1>3, <1>4 DEF Retry

(* The put of a node ends the validity of what the others hold of it.        *)
LEMMA FreshOverwrite ==
    ASSUME TypeOK, FreshOK, NEW c \in CLIs, NEW n \in Nodes, NEW mine,
           Overwrite(c, n, mine), ~mine.holds
    PROVE  FreshOK'
<1> SUFFICES ASSUME NEW d \in CLIs, job'[d].stage # "baseline",
                    job'[d].holds, job'[d].fresh, NEW m \in job'[d].node
             PROVE  job'[d].seen = desired'[m]
  BY DEF FreshOK
<1>1. d # c
  BY DEF Overwrite
<1>2. job'[d] = [job[d] EXCEPT !.fresh = @ /\ n \notin job[d].node]
  BY <1>1 DEF Overwrite
<1>3. job[d] \in Job
  BY DEF TypeOK
<1>4. /\ job[d].stage # "baseline" /\ job[d].holds /\ m \in job[d].node
      /\ job[d].fresh /\ n \notin job[d].node /\ job'[d].seen = job[d].seen
  BY <1>2, <1>3 DEF Job
<1>5. job[d].seen = desired[m]
  BY <1>4 DEF FreshOK
<1>6. desired'[m] = desired[m]
  BY <1>4 DEF Overwrite, TypeOK
<1>. QED  BY <1>4, <1>5, <1>6

(* Nothing a command holds of a node changes with a baseline.                *)
LEMMA FreshSetLock ==
    ASSUME TypeOK, FreshOK, NEW c \in CLIs, NEW locked, SetLock(c, locked),
           UNCHANGED desired
    PROVE  FreshOK'
<1> SUFFICES ASSUME NEW d \in CLIs, job'[d].stage # "baseline",
                    job'[d].holds, job'[d].fresh, NEW m \in job'[d].node
             PROVE  job'[d].seen = desired'[m]
  BY DEF FreshOK
<1>1. d # c
  BY DEF SetLock, Idle
<1>2. job'[d] = [job[d] EXCEPT !.fresh = @ /\ ~(job[d].stage = "baseline" /\
                   job[d].holds /\ job[d].project = job[c].project)]
  BY <1>1 DEF SetLock
<1>3. job[d] \in Job
  BY DEF TypeOK
<1>4. /\ job[d].stage # "baseline" /\ job[d].holds /\ m \in job[d].node
      /\ job[d].fresh /\ job'[d].seen = job[d].seen
  BY <1>2, <1>3 DEF Job
<1>. QED  BY <1>4 DEF FreshOK

(* What is held and fresh is what is there: a read takes what is there, a    *)
(* put leaves nobody else a fresh copy of that node (putJson with If-Match). *)
LEMMA FreshStep == TypeOK /\ FreshOK /\ [Next]_vars => FreshOK'
<1> SUFFICES ASSUME TypeOK, FreshOK, [Next]_vars PROVE FreshOK'
  OBVIOUS
<1>j. \A c \in CLIs : job[c] \in Job
  BY DEF TypeOK
<1>1. ASSUME NEW c \in CLIs, Start(c) PROVE FreshOK'
  <2>1. PICK k \in Kinds, p \in Projects :
          \E config \in SUBSET Declared[p] : \E part \in SUBSET config :
             Becomes(c, Command(k, p, config, part))
    BY <1>1 DEF Start
  <2>2. PICK config \in SUBSET Declared[p] : \E part \in SUBSET config :
          Becomes(c, Command(k, p, config, part))
    BY <2>1
  <2>3. PICK part \in SUBSET config : Becomes(c, Command(k, p, config, part))
    BY <2>2
  <2>4. ~Command(k, p, config, part).holds
    BY DEF Command, Idle
  <2>. QED  BY <1>1, <2>3, <2>4, FreshKept DEF Start
<1>k. ASSUME NEW c \in CLIs, NEW j, Becomes(c, j), UNCHANGED desired,
             j.stage = "baseline" \/ job[c].stage # "baseline",
             j.holds = job[c].holds, j.fresh = job[c].fresh,
             j.node = job[c].node, j.seen = job[c].seen
      PROVE  FreshOK'
  <2>1. j.stage # "baseline" /\ j.holds /\ j.fresh =>
            \A n \in j.node : j.seen = desired[n]
    BY <1>k DEF FreshOK
  <2>. QED  BY <1>k, <2>1, FreshKept
<1>c. ASSUME NEW c \in CLIs, NEW locked, CompareConfig(c, locked),
             job[c].stage # "baseline", UNCHANGED desired
      PROVE  FreshOK'
  <2> DEFINE j == [job[c] EXCEPT !.stage = "scan", !.left = Nodes, !.prior = Nowhere]
  <2>1. /\ j.holds = job[c].holds /\ j.fresh = job[c].fresh
        /\ j.node = job[c].node /\ j.seen = job[c].seen
    BY <1>j DEF Job
  <2>2. Becomes(c, j) \/ Finish(c)
    BY <1>c DEF CompareConfig
  <2> HIDE DEF j
  <2>. QED  BY <1>c, <1>k, <2>1, <2>2, FreshFinish
<1>s. \A c \in CLIs, S \in SUBSET Nodes, st \in {"scan", "remove", "vacate"} :
        LET j == [job[c] EXCEPT !.stage = st, !.left = S] IN
          /\ j.holds = job[c].holds /\ j.fresh = job[c].fresh
          /\ j.node = job[c].node /\ j.seen = job[c].seen
  BY <1>j DEF Job
<1>t. \A c \in CLIs, st \in {"lockScan", "baseline"} :
        LET j == [job[c] EXCEPT !.stage = st] IN
          /\ j.holds = job[c].holds /\ j.fresh = job[c].fresh
          /\ j.node = job[c].node /\ j.seen = job[c].seen
          /\ j.stage = st
  BY <1>j DEF Job
<1>2. ASSUME NEW c \in CLIs, ReadLock(c) PROVE FreshOK'
  BY <1>2, <1>c, <1>k, <1>t DEF ReadLock, jobOnly
<1>3. ASSUME NEW c \in CLIs, Scan(c) PROVE FreshOK'
  <2>1. PICK n \in job[c].left :
          Becomes(c, [job[c] EXCEPT !.left = @ \ {n},
                        !.prior = [@ EXCEPT ![n] = Has(n, job[c].project)]])
    BY <1>3 DEF Scan
  <2> DEFINE j == [job[c] EXCEPT !.left = @ \ {n},
                      !.prior = [@ EXCEPT ![n] = Has(n, job[c].project)]]
  <2>2. /\ j.holds = job[c].holds /\ j.fresh = job[c].fresh
        /\ j.node = job[c].node /\ j.seen = job[c].seen
    BY <1>j DEF Job
  <2>3. Becomes(c, j) /\ job[c].stage # "baseline" /\ UNCHANGED desired
    BY <1>3, <2>1 DEF Scan, jobOnly
  <2> HIDE DEF j
  <2>. QED  BY <1>k, <2>2, <2>3
<1>4. ASSUME NEW c \in CLIs, CheckLock(c) PROVE FreshOK'
  BY <1>4, <1>c, <1>k, <1>s DEF CheckLock, jobOnly
<1>5. ASSUME NEW c \in CLIs, Place(c) PROVE FreshOK'
  <2>1. \A w : LET j == [job[c] EXCEPT !.stage = "publish", !.want = w,
                             !.left = {n \in Nodes : w[n] # {}}] IN
          /\ j.holds = job[c].holds /\ j.fresh = job[c].fresh
          /\ j.node = job[c].node /\ j.seen = job[c].seen
    BY <1>j DEF Job
  <2>. QED  BY <1>5, <1>k, <2>1, FreshFinish DEF Place, jobOnly
<1>6. ASSUME NEW c \in CLIs, PlanRemoval(c) PROVE FreshOK'
  BY <1>6, <1>k, <1>s, FreshFinish DEF PlanRemoval, jobOnly
<1>7. ASSUME NEW c \in CLIs, NextStage(c) PROVE FreshOK'
  <2>1. job[c].stage # "baseline" /\ UNCHANGED desired
    BY <1>7 DEF NextStage, jobOnly
  <2>2. Vacated(c) \in SUBSET Nodes
    BY DEF Vacated
  <2>3. CASE Becomes(c, [job[c] EXCEPT !.stage = "vacate", !.left = Vacated(c)])
    BY <1>k, <1>s, <2>1, <2>2, <2>3
  <2>4. CASE Becomes(c, [job[c] EXCEPT !.stage = "baseline"])
    BY <1>k, <1>t, <2>1, <2>4
  <2>. QED  BY <1>7, <2>3, <2>4 DEF NextStage
<1>8. ASSUME NEW c \in CLIs, Read(c) PROVE FreshOK'
  <2>1. PICK n \in job[c].left :
          \/ Becomes(c, [job[c] EXCEPT !.left = @ \ {n}, !.node = {}, !.tries = 0])
          \/ Finish(c)
          \/ Becomes(c, [job[c] EXCEPT !.node = {n}, !.holds = TRUE,
                                       !.fresh = TRUE, !.seen = desired[n]])
    BY <1>8 DEF Read, Break
  <2>2. ~[job[c] EXCEPT !.left = @ \ {n}, !.node = {}, !.tries = 0].holds
    BY <1>8, <1>j DEF Read, Job
  <2>3. LET j == [job[c] EXCEPT !.node = {n}, !.holds = TRUE, !.fresh = TRUE,
                                !.seen = desired[n]]
        IN  j.node = {n} /\ j.seen = desired[n]
    BY <1>j DEF Job
  <2>4. UNCHANGED desired
    BY <1>8 DEF Read
  <2>. QED  BY <2>1, <2>2, <2>3, <2>4, FreshKept, FreshFinish
<1>9. ASSUME NEW c \in CLIs, Put(c) PROVE FreshOK'
  <2>1. PICK n \in job[c].node :
          \/ Overwrite(c, n, [Drop(c) EXCEPT !.left = @ \ {n}, !.node = {},
                                             !.tries = 0])
          \/ UNCHANGED desired /\ Becomes(c, Retry(c))
          \/ Overwrite(c, n, Retry(c))
    BY <1>9 DEF Put
  <2>2. n \in Nodes /\ Drop(c) \in Job
    BY <1>j, RetryType DEF Job
  <2>3. ~[Drop(c) EXCEPT !.left = @ \ {n}, !.node = {}, !.tries = 0].holds
    BY <2>2, DropHolds DEF Job
  <2>. QED  BY <2>1, <2>2, <2>3, DropHolds, FreshOverwrite, FreshKept
<1>10. ASSUME NEW c \in CLIs, WriteBaseline(c) PROVE FreshOK'
  BY <1>10, FreshSetLock DEF WriteBaseline
<1>11. ASSUME NEW c \in CLIs, ReadBaseline(c) PROVE FreshOK'
  <2>1. LET j == [job[c] EXCEPT !.holds = TRUE, !.fresh = TRUE,
                                !.lock = baseline[job[c].project]]
        IN  j.stage = job[c].stage
    BY <1>j DEF Job
  <2>. QED  BY <1>11, <2>1, FreshKept, FreshFinish DEF ReadBaseline, jobOnly
<1>12. ASSUME NEW c \in CLIs, TrimBaseline(c) PROVE FreshOK'
  <2>1. Drop(c) \in Job
    BY RetryType
  <2>2. ~[Drop(c) EXCEPT !.tries = @ + 1, !.lock = {}].holds
    BY <2>1, DropHolds DEF Job
  <2>3. ~Idle.holds
    BY DEF Idle
  <2>. QED  BY <1>12, <2>2, <2>3, FreshSetLock, FreshKept DEF TrimBaseline
<1>13. ASSUME NEW c \in CLIs, Fail(c) PROVE FreshOK'
  BY <1>13, FreshFinish DEF Fail, Break
<1>14. CASE UNCHANGED vars
  BY <1>14 DEF vars, FreshOK
<1>. QED
  BY <1>1, <1>2, <1>3, <1>4, <1>5, <1>6, <1>7, <1>8, <1>9, <1>10, <1>11,
     <1>12, <1>13, <1>14 DEF Next, Step

(* What a command holds with a matching ETag is what the node's desired.json *)
(* says (publishDesired puts what it merged only if nobody put in between).  *)
THEOREM FreshCorrect == Spec => [](TypeOK /\ FreshOK)
  BY TypeInit, TypeStep, FreshInit, FreshStep, PTL DEF Spec

-----------------------------------------------------------------------------
(* DesiredStore implements AtomicDesired.                                   *)

(* At the start every command's request is one.                              *)
LEMMA AtomicInit == Init => Atomic!Init
<1> SUFFICES ASSUME Init PROVE Atomic!Init
  OBVIOUS
<1>1. TypeOK
  BY TypeInit
<1>2. ASSUME NEW c \in CLIs PROVE RequestOf(c) \in Atomic!Request
  BY <1>1 DEF TypeOK, Job, RequestOf, Nowhere, Atomic!Request
<1>. QED  BY <1>1, <1>2 DEF TypeOK, Atomic!Init, Atomic!Entry, Entry

(* A step that changes nothing of the other commands but what they hold is   *)
(* no change to what they ask for.                                           *)
LEMMA OthersAsk ==
    ASSUME TypeOK, NEW c \in CLIs,
           \A d \in CLIs \ {c} : \E b \in BOOLEAN :
               job'[d] = [job[d] EXCEPT !.fresh = b]
    PROVE  \A d \in CLIs \ {c} : RequestOf(d)' = RequestOf(d)
<1> TAKE d \in CLIs \ {c}
<1>1. job[d] \in Job
  BY DEF TypeOK
<1>2. PICK b \in BOOLEAN : job'[d] = [job[d] EXCEPT !.fresh = b]
  OBVIOUS
<1>3. /\ job'[d].stage = job[d].stage /\ job'[d].kind = job[d].kind
      /\ job'[d].project = job[d].project /\ job'[d].want = job[d].want
      /\ job'[d].config = job[d].config
  BY <1>1, <1>2 DEF Job
<1>. QED  BY <1>3 DEF RequestOf, Nowhere

(* The same, of a command that becomes another one.                          *)
LEMMA OthersAskBecomes ==
    ASSUME TypeOK, NEW c \in CLIs, NEW j, Becomes(c, j)
    PROVE  \A d \in CLIs \ {c} : RequestOf(d)' = RequestOf(d)
  BY DEF TypeOK, Becomes, RequestOf, Nowhere

(* The store and the requests as AtomicDesired sees them.                    *)
LEMMA AsksOnly ==
    ASSUME NEW c \in CLIs, UNCHANGED desired,
           \A d \in CLIs \ {c} : RequestOf(d)' = RequestOf(d)
    PROVE  Atomic!Next
<1>1. Atomic!OthersKeep(c)
  BY DEF Atomic!OthersKeep
<1>. QED  BY <1>1 DEF Atomic!Next, Atomic!Ask

(* A put with a matching ETag applies its command to what is there: a full   *)
(* deploy replaces, a subset deploy upserts, a destroy removes.              *)
LEMMA PutApplies ==
    ASSUME TypeOK, FreshOK, NEW c \in CLIs, NEW n \in job[c].node, NEW mine,
           job[c].stage \in {"publish", "vacate", "remove"}, job[c].holds,
           Matches(c), Overwrite(c, n, mine)
    PROVE  Atomic!Next
<1>j. job[c] \in Job /\ n \in Nodes
  BY DEF TypeOK, Job
<1>1. desired' = [desired EXCEPT ![n] = Merged(c, n, desired[n])]
  BY DEF FreshOK, Matches, Overwrite
<1>2. \A d \in CLIs \ {c} : RequestOf(d)' = RequestOf(d)
  <2>1. ASSUME NEW d \in CLIs \ {c}
        PROVE  \E b \in BOOLEAN : job'[d] = [job[d] EXCEPT !.fresh = b]
    <3>1. job[d].fresh \in BOOLEAN
      BY DEF TypeOK, Job
    <3>2. job'[d] = [job[d] EXCEPT !.fresh = @ /\ n \notin job[d].node]
      BY DEF Overwrite
    <3>. QED  BY <3>1, <3>2
  <2>. QED  BY <2>1, OthersAsk
<1>3. Atomic!OthersKeep(c)
  BY <1>2 DEF Atomic!OthersKeep
<1> DEFINE r == RequestOf(c)
<1>4. /\ r.project = job[c].project
      /\ r.put[n] = IF job[c].stage = "publish" THEN job[c].want[n] ELSE {}
      /\ job[c].stage = "remove" => r.op = "remove" /\ r.drop = job[c].config
      /\ job[c].stage # "remove" =>
            r.op = IF job[c].kind = "partial" THEN "upsert" ELSE "replace"
  BY <1>j DEF RequestOf, Nowhere
<1>5. Incoming(c, n) = Atomic!Of(r.project, r.put[n])
  BY <1>4 DEF Incoming, Of, Atomic!Of
<1>6. CASE job[c].stage = "remove"
  <2>1. Merged(c, n, desired[n]) = Atomic!Remove(r, desired[n])
    BY <1>4, <1>6 DEF Merged, AfterRemoval, Of, Atomic!Remove, Atomic!Of
  <2>. QED  BY <1>1, <1>3, <1>4, <1>6, <1>j, <2>1 DEF Atomic!Next, Atomic!Apply
<1>7. CASE job[c].stage # "remove" /\ job[c].kind = "partial"
  <2>1. Merged(c, n, desired[n]) = Atomic!Upsert(r, n, desired[n])
    BY <1>5, <1>7 DEF Merged, PartialMerge, Atomic!Upsert
  <2>. QED  BY <1>1, <1>3, <1>4, <1>7, <1>j, <2>1 DEF Atomic!Next, Atomic!Apply
<1>8. CASE job[c].stage # "remove" /\ job[c].kind # "partial"
  <2>1. Merged(c, n, desired[n]) = Atomic!Replace(r, n, desired[n])
    BY <1>4, <1>5, <1>8 DEF Merged, FullMerge, Atomic!Replace
  <2>. QED  BY <1>1, <1>3, <1>4, <1>8, <1>j, <2>1 DEF Atomic!Next, Atomic!Apply
<1>. QED  BY <1>6, <1>7, <1>8

(* Every other step of a command leaves every desired.json alone and changes *)
(* no other command's request.                                               *)
LEMMA OtherSteps ==
    ASSUME TypeOK, NEW c \in CLIs, Step(c), ~Put(c)
    PROVE  /\ UNCHANGED desired
           /\ \A d \in CLIs \ {c} : RequestOf(d)' = RequestOf(d)
<1>f. Finish(c) => \A d \in CLIs \ {c} : RequestOf(d)' = RequestOf(d)
  BY OthersAskBecomes DEF Finish
<1>l. ASSUME NEW locked, SetLock(c, locked)
      PROVE  \A d \in CLIs \ {c} : RequestOf(d)' = RequestOf(d)
  <2>1. ASSUME NEW d \in CLIs \ {c}
        PROVE  \E b \in BOOLEAN : job'[d] = [job[d] EXCEPT !.fresh = b]
    <3>1. job[d].fresh \in BOOLEAN
      BY DEF TypeOK, Job
    <3>2. job'[d] = [job[d] EXCEPT !.fresh = @ /\ ~(job[d].stage = "baseline" /\
                       job[d].holds /\ job[d].project = job[c].project)]
      BY <1>l DEF SetLock
    <3>. QED  BY <3>1, <3>2
  <2>. QED  BY <2>1, OthersAsk
<1>c. \A locked : CompareConfig(c, locked) =>
        \A d \in CLIs \ {c} : RequestOf(d)' = RequestOf(d)
  BY <1>f, OthersAskBecomes DEF CompareConfig
<1>1. CASE Start(c)
  BY <1>1, OthersAskBecomes DEF Start
<1>2. CASE ReadLock(c) \/ CheckLock(c)
  BY <1>2, <1>c, OthersAskBecomes DEF ReadLock, CheckLock, jobOnly
<1>3. CASE Scan(c) \/ Place(c) \/ PlanRemoval(c) \/ NextStage(c)
  BY <1>3, <1>f, OthersAskBecomes DEF Scan, Place, PlanRemoval, NextStage, jobOnly
<1>4. CASE Read(c)
  BY <1>4, <1>f, OthersAskBecomes DEF Read, Break
<1>5. CASE WriteBaseline(c)
  BY <1>5, <1>l DEF WriteBaseline
<1>6. CASE ReadBaseline(c)
  BY <1>6, <1>f, OthersAskBecomes DEF ReadBaseline, jobOnly
<1>7. CASE TrimBaseline(c)
  BY <1>7, <1>l, OthersAskBecomes DEF TrimBaseline
<1>8. CASE Fail(c)
  BY <1>8, <1>f DEF Fail, Break
<1>. QED  BY <1>1, <1>2, <1>3, <1>4, <1>5, <1>6, <1>7, <1>8 DEF Step

(* Every step is one of AtomicDesired or leaves what it sees as it is.       *)
LEMMA AtomicStep ==
    TypeOK /\ FreshOK /\ [Next]_vars =>
        [Atomic!Next]_<<desired, [c \in CLIs |-> RequestOf(c)]>>
<1> SUFFICES ASSUME TypeOK, FreshOK, [Next]_vars
             PROVE  [Atomic!Next]_<<desired, [c \in CLIs |-> RequestOf(c)]>>
  OBVIOUS
<1>1. ASSUME NEW c \in CLIs, Put(c) PROVE Atomic!Next
  <2>1. PICK n \in job[c].node :
          \/ Matches(c) /\ \E mine : Overwrite(c, n, mine)
          \/ UNCHANGED desired /\ Becomes(c, Retry(c))
    BY <1>1 DEF Put
  <2>2. CASE Matches(c) /\ \E mine : Overwrite(c, n, mine)
    BY <1>1, <2>2, PutApplies DEF Put
  <2>3. CASE UNCHANGED desired /\ Becomes(c, Retry(c))
    BY <2>3, OthersAskBecomes, AsksOnly
  <2>. QED  BY <2>1, <2>2, <2>3
<1>2. ASSUME NEW c \in CLIs, Step(c), ~Put(c) PROVE Atomic!Next
  BY <1>2, OtherSteps, AsksOnly
<1>3. CASE UNCHANGED vars
  BY <1>3 DEF vars, RequestOf, Deploying
<1>. QED  BY <1>1, <1>2, <1>3 DEF Next

(* Concurrent commands write as if one after the other: for any nodes,       *)
(* footprints and commands, every put of publishDesired and publishRemoval   *)
(* applies its command to what the node's desired.json holds at that moment. *)
THEOREM CommandsAreAtomic == Spec => WritesAreAtomic
  BY TypeInit, TypeStep, FreshInit, FreshStep, AtomicInit, AtomicStep, PTL
  DEF Spec, WritesAreAtomic, Atomic!Spec

-----------------------------------------------------------------------------
(* What is published is what was planned.                                   *)

\* What a command is about, by the stage it is in: its services, the nodes it
\* still has to do, and the object it holds
ShapeOK(c) ==
    LET j == job[c] IN
    j.stage # "idle" =>
        /\ j.part \subseteq j.config /\ j.config \subseteq Declared[j.project]
        /\ j.kind = "deploy" => j.part = j.config
        /\ j.kind = "destroy" => j.config = Declared[j.project]
        /\ j.stage \in {"lock", "lockScan", "publish", "vacate"} => Deploying(c)
        /\ j.stage = "remove" => ~Deploying(c)
        /\ j.stage = "vacate" => j.kind = "deploy"
        /\ j.stage \in {"lock", "lockScan", "scan"} => ~j.holds /\ j.node = {}
        /\ j.stage = "lock" => j.left = Nodes
        /\ j.stage \in {"publish", "vacate", "remove"} =>
               j.node \subseteq j.left /\ (j.holds => j.node # {})
        /\ j.stage = "publish" => \A n \in j.left : j.want[n] # {}
        /\ j.stage = "vacate"  => \A n \in j.left : j.want[n] = {}
        /\ j.stage = "baseline" => j.left = {} /\ (j.holds => ~Deploying(c))
        /\ j.stage \in {"publish", "vacate", "baseline"} /\ Deploying(c) =>
               UNION {j.want[n] : n \in Nodes} = j.part

\* What the command leaves on n when it has done it, by its stage
Result(c, n) ==
    LET j == job[c] IN
    CASE ~Deploying(c)        -> j.prior[n] \ j.config
      [] j.kind = "partial"   -> j.prior[n] \cup j.want[n]
      [] j.kind = "deploy" /\ j.stage = "publish" /\ j.want[n] = {} -> j.prior[n]
      [] OTHER                -> j.want[n]

\* What the only command of its footprint has read, and what it has done
PlanOK(c) ==
    LET j == job[c] IN
    /\ j.stage \in {"lockScan", "scan"} =>
           \A n \in Nodes \ j.left : Has(n, j.project) = j.prior[n]
    /\ j.stage \in {"publish", "vacate", "remove", "baseline"} =>
           \A n \in Nodes : \/ Has(n, j.project) = Result(c, n)
                            \/ n \in j.left /\ Has(n, j.project) = j.prior[n]

\* What the lock check of a deploy makes sure of
LockedOK(c) ==
    LET j == job[c] IN
    Deploying(c) =>
        /\ j.stage \in {"lock", "lockScan", "scan"} =>
               Live(j.project) \subseteq baseline[j.project]
        /\ j.stage = "scan" => Live(j.project) \subseteq j.config
        /\ j.stage \in {"publish", "vacate", "baseline"} =>
               \A n \in Nodes : j.prior[n] \subseteq j.config

\* The services a footprint has are the ones it can have.
DeclaredOK(p) == \A n \in Nodes : Has(n, p) \subseteq Declared[p]

\* LockCoversLive, of one footprint
CoveredOK(p) ==
    \/ \E c \in CLIs : Running(c, p) /\ Deploying(c)
    \/ Live(p) \subseteq baseline[p]

\* A baseline with a matching ETag is the one that was read.
BaselineOK(c) ==
    job[c].stage = "baseline" /\ job[c].holds /\ job[c].fresh =>
        job[c].lock = baseline[job[c].project]

PlanInv ==
    /\ \A c, d \in CLIs : c # d /\ Running(c, job[d].project) /\ job[d].stage # "idle" =>
           overlap[job[d].project]
    /\ \A p \in Projects : DeclaredOK(p)
    /\ \A p \in Projects : overlap[p] \/ broken[p] \/ CoveredOK(p)
    /\ \A c \in CLIs : ShapeOK(c) /\ BaselineOK(c)
    /\ \A c \in CLIs : job[c].stage = "idle" \/ overlap[job[c].project] \/ PlanOK(c)
    /\ \A c \in CLIs : job[c].stage = "idle" \/ overlap[job[c].project]
                         \/ broken[job[c].project] \/ LockedOK(c)

(* A step of c, whose command is about p: nobody else's command changes but  *)
(* in what it holds, and no other footprint does.                            *)
Frame(c, p) ==
    /\ \A d \in CLIs \ {c} : \E b \in BOOLEAN : job'[d] = [job[d] EXCEPT !.fresh = b]
    /\ \A q \in Projects \ {p} :
           /\ \A n \in Nodes : Has(n, q)' = Has(n, q)
           /\ baseline'[q] = baseline[q] /\ overlap'[q] = overlap[q] /\ broken'[q] = broken[q]
    /\ overlap[p] => overlap'[p]
    /\ job[c].stage # "idle" => job[c].project = p
    /\ job'[c].stage # "idle" => job'[c].project = p
    /\ \A d \in CLIs \ {c} : Running(d, p) => overlap'[p]

(* Of the others nothing changes that matters.                               *)
LEMMA OthersSame ==
    ASSUME TypeOK, NEW c \in CLIs, NEW p \in Projects, Frame(c, p), NEW d \in CLIs \ {c}
    PROVE  /\ job[d] \in Job
           /\ job'[d].kind = job[d].kind /\ job'[d].project = job[d].project
           /\ job'[d].config = job[d].config /\ job'[d].part = job[d].part
           /\ job'[d].stage = job[d].stage /\ job'[d].left = job[d].left
           /\ job'[d].prior = job[d].prior /\ job'[d].want = job[d].want
           /\ job'[d].node = job[d].node /\ job'[d].holds = job[d].holds
<1>1. job[d] \in Job
  BY DEF TypeOK
<1>2. PICK b \in BOOLEAN : job'[d] = [job[d] EXCEPT !.fresh = b]
  BY DEF Frame
<1> QED
  BY <1>1, <1>2 DEF Job

(* Commands of other footprints go on as they were, and one of the same      *)
(* footprint is promised nothing any more.                                   *)
LEMMA OthersOK ==
    ASSUME TypeOK, PlanInv, NEW c \in CLIs, NEW p \in Projects, Frame(c, p),
           NEW d \in CLIs \ {c}
    PROVE  /\ ShapeOK(d)'
           /\ job'[d].stage = "idle" \/ overlap'[job'[d].project] \/ PlanOK(d)'
           /\ job'[d].stage = "idle" \/ overlap'[job'[d].project]
                \/ broken'[job'[d].project] \/ LockedOK(d)'
<1>1. /\ job[d] \in Job
      /\ job'[d].kind = job[d].kind /\ job'[d].project = job[d].project
      /\ job'[d].config = job[d].config /\ job'[d].part = job[d].part
      /\ job'[d].stage = job[d].stage /\ job'[d].left = job[d].left
      /\ job'[d].prior = job[d].prior /\ job'[d].want = job[d].want
      /\ job'[d].node = job[d].node /\ job'[d].holds = job[d].holds
  BY OthersSame
<1>2. ShapeOK(d)'
  <2>1. ShapeOK(d)
    BY DEF PlanInv
  <2> QED
    BY <1>1, <2>1 DEF ShapeOK, Deploying
<1>3. CASE job[d].stage = "idle" \/ job[d].project = p
  BY <1>1, <1>2, <1>3 DEF Frame, Running
<1>4. CASE job[d].stage # "idle" /\ job[d].project # p
  <2>0. PICK q \in Projects \ {p} : q = job[d].project
    BY <1>1, <1>4 DEF Job
  <2>1. /\ \A n \in Nodes : Has(n, q)' = Has(n, q)
        /\ baseline'[q] = baseline[q] /\ overlap'[q] = overlap[q] /\ broken'[q] = broken[q]
    BY DEF Frame
  <2>2. \A n \in Nodes : Has(n, job[d].project)' = Has(n, job[d].project)
    BY <1>1, <2>0, <2>1 DEF Has
  <2>3. Live(job[d].project)' = Live(job[d].project)
    BY <2>2 DEF Live
  <2>4. \A n \in Nodes : Result(d, n)' = Result(d, n)
    BY <1>1 DEF Result, Deploying
  <2>5. PlanOK(d) => PlanOK(d)'
    BY <1>1, <2>2, <2>4 DEF PlanOK
  <2>6. LockedOK(d) => LockedOK(d)'
    BY <1>1, <2>0, <2>1, <2>3 DEF LockedOK, Deploying
  <2>7. /\ job[d].stage = "idle" \/ overlap[job[d].project] \/ PlanOK(d)
        /\ job[d].stage = "idle" \/ overlap[job[d].project]
             \/ broken[job[d].project] \/ LockedOK(d)
    BY DEF PlanInv
  <2>8. overlap'[job'[d].project] = overlap[q] /\ broken'[job'[d].project] = broken[q]
    BY <1>1, <2>0, <2>1
  <2> QED
    BY <1>1, <1>2, <1>4, <2>0, <2>5, <2>6, <2>7, <2>8
<1> QED
  BY <1>3, <1>4

(* So what a step has to show is about its own command and footprint.        *)
LEMMA FromFrame ==
    ASSUME TypeOK, PlanInv, NEW c \in CLIs, NEW p \in Projects, Frame(c, p),
           ShapeOK(c)', \A d \in CLIs : BaselineOK(d)', DeclaredOK(p)',
           job'[c].stage = "idle" \/ overlap'[p] \/ PlanOK(c)',
           job'[c].stage = "idle" \/ overlap'[p] \/ broken'[p] \/ LockedOK(c)',
           overlap'[p] \/ broken'[p] \/ CoveredOK(p)'
    PROVE  PlanInv'
<1>1. ASSUME NEW d \in CLIs, NEW e \in CLIs, d # e, Running(d, job[e].project)',
             job'[e].stage # "idle"
      PROVE  overlap'[job'[e].project]
  <2>1. CASE d = c
    <3>1. job'[e].project = p
      BY <1>1, <2>1 DEF Frame, Running
    <3>2. Running(e, p)
      BY <1>1, <2>1, <3>1, OthersSame DEF Running
    <3> QED
      BY <1>1, <2>1, <3>1, <3>2 DEF Frame
  <2>2. CASE e = c
    <3>1. job'[e].project = p
      BY <1>1, <2>2 DEF Frame
    <3>2. Running(d, p)
      BY <1>1, <2>2, <3>1, OthersSame DEF Running
    <3> QED
      BY <1>1, <2>2, <3>1, <3>2 DEF Frame
  <2>3. CASE d # c /\ e # c
    <3>1. /\ job'[d].stage = job[d].stage /\ job'[d].project = job[d].project
          /\ job'[e].stage = job[e].stage /\ job'[e].project = job[e].project
          /\ job[e].project \in Projects
      BY <2>3, OthersSame DEF Job
    <3>2. overlap[job[e].project]
      BY <1>1, <3>1 DEF PlanInv, Running
    <3> QED
      BY <3>1, <3>2 DEF Frame
  <2> QED
    BY <2>1, <2>2, <2>3
<1>2. ASSUME NEW q \in Projects \ {p}
      PROVE  DeclaredOK(q)' /\ (overlap'[q] \/ broken'[q] \/ CoveredOK(q)')
  <2>1. /\ \A n \in Nodes : Has(n, q)' = Has(n, q)
        /\ baseline'[q] = baseline[q] /\ overlap'[q] = overlap[q] /\ broken'[q] = broken[q]
    BY DEF Frame
  <2>2. Live(q)' = Live(q)
    BY <2>1 DEF Live
  <2>3. DeclaredOK(q)'
    BY <2>1 DEF PlanInv, DeclaredOK
  <2>4. ASSUME NEW d \in CLIs, Running(d, q), Deploying(d)
        PROVE  Running(d, q)' /\ Deploying(d)'
    <3>1. d # c
      BY <2>4 DEF Frame, Running
    <3> QED
      BY <2>4, <3>1, OthersSame DEF Running, Deploying
  <2>5. CoveredOK(q) => CoveredOK(q)'
    BY <2>1, <2>2, <2>4 DEF CoveredOK
  <2>6. overlap[q] \/ broken[q] \/ CoveredOK(q)
    BY DEF PlanInv
  <2> QED
    BY <2>1, <2>3, <2>5, <2>6
<1>3. ASSUME NEW d \in CLIs
      PROVE  /\ ShapeOK(d)'
             /\ job'[d].stage = "idle" \/ overlap'[job'[d].project] \/ PlanOK(d)'
             /\ job'[d].stage = "idle" \/ overlap'[job'[d].project]
                  \/ broken'[job'[d].project] \/ LockedOK(d)'
  <2>1. CASE d = c
    BY <2>1 DEF Frame
  <2>2. CASE d # c
    BY <2>2, OthersOK
  <2> QED
    BY <2>1, <2>2
<1> QED
  BY <1>1, <1>2, <1>3 DEF PlanInv

(* A command that becomes another one of its footprint and writes nothing.   *)
LEMMA FrameBecomes ==
    ASSUME TypeOK, PlanInv, NEW c \in CLIs, NEW p \in Projects, NEW j, Becomes(c, j),
           UNCHANGED <<desired, baseline>>, overlap[p] => overlap'[p],
           \A q \in Projects \ {p} : overlap'[q] = overlap[q] /\ broken'[q] = broken[q],
           job[c].stage # "idle" => job[c].project = p,
           j.stage # "idle" => j.project = p,
           job[c].stage = "idle" => \A d \in CLIs \ {c} : Running(d, p) => overlap'[p]
    PROVE  /\ Frame(c, p) /\ DeclaredOK(p)'
           /\ \A d \in CLIs \ {c} : BaselineOK(d)'
<1>1. job'[c] = j /\ \A d \in CLIs \ {c} : job'[d] = job[d]
  BY DEF TypeOK, Becomes
<1>2. ASSUME NEW d \in CLIs \ {c}
      PROVE  \E b \in BOOLEAN : job'[d] = [job[d] EXCEPT !.fresh = b]
  <2>1. job[d] \in Job
    BY DEF TypeOK
  <2>2. job[d].fresh \in BOOLEAN /\ [job[d] EXCEPT !.fresh = job[d].fresh] = job[d]
    BY <2>1 DEF Job
  <2> QED
    BY <1>1, <2>2
<1>3. \A n \in Nodes, q \in Projects : Has(n, q)' = Has(n, q)
  BY DEF Has
<1>4. ASSUME NEW d \in CLIs \ {c}, Running(d, p) PROVE overlap'[p]
  BY <1>4 DEF PlanInv, Running
<1>5. DeclaredOK(p)'
  BY <1>3 DEF PlanInv, DeclaredOK
<1>6. \A d \in CLIs \ {c} : BaselineOK(d)'
  BY <1>1 DEF PlanInv, BaselineOK
<1> QED
  BY <1>1, <1>2, <1>3, <1>4, <1>5, <1>6 DEF Frame

(* The steps of a command that goes on without writing.                      *)
LEMMA GoesOn ==
    ASSUME TypeOK, PlanInv, NEW c \in CLIs, NEW j \in Job, Becomes(c, j),
           job[c].stage # "idle", j.stage # "idle",
           j.project = job[c].project, j.kind = job[c].kind,
           UNCHANGED <<desired, baseline, overlap, broken>>,
           ShapeOK(c)', BaselineOK(c)',
           overlap[job[c].project] \/ PlanOK(c)',
           overlap[job[c].project] \/ broken[job[c].project] \/ LockedOK(c)'
    PROVE  PlanInv'
<1>0. PICK p \in Projects : p = job[c].project
  BY DEF TypeOK, Job
<1>1. job'[c] = j /\ \A d \in CLIs \ {c} : job'[d] = job[d]
  BY DEF TypeOK, Becomes
<1>2. /\ Frame(c, p) /\ DeclaredOK(p)'
      /\ \A d \in CLIs \ {c} : BaselineOK(d)'
  BY <1>0, FrameBecomes
<1>3. \A n \in Nodes : Has(n, p)' = Has(n, p)
  BY DEF Has
<1>4. CoveredOK(p) => CoveredOK(p)'
  <2>1. ASSUME NEW d \in CLIs, Running(d, p), Deploying(d)
        PROVE  Running(d, p)' /\ Deploying(d)'
    BY <1>0, <1>1, <2>1 DEF Running, Deploying
  <2> QED
    BY <1>3, <2>1 DEF CoveredOK, Live
<1>5. overlap'[p] \/ broken'[p] \/ CoveredOK(p)'
  BY <1>4 DEF PlanInv
<1> QED
  BY <1>0, <1>2, <1>5, FromFrame

(* While the only command of a footprint is no deploy that goes on, what is  *)
(* published is locked.                                                      *)
LEMMA Settled ==
    ASSUME TypeOK, PlanInv, NEW c \in CLIs, job[c].stage # "idle",
           ~overlap[job[c].project], ~broken[job[c].project],
           ~Deploying(c) \/ job[c].stage \in {"lock", "lockScan", "scan"}
    PROVE  Live(job[c].project) \subseteq baseline[job[c].project]
<1>1. job[c].project \in Projects
  BY DEF TypeOK, Job
<1>2. CASE ~Deploying(c)
  <2>1. \A d \in CLIs : d # c => ~Running(d, job[c].project)
    BY DEF PlanInv, Running
  <2>2. CoveredOK(job[c].project)
    BY <1>1 DEF PlanInv
  <2> QED
    BY <1>2, <2>1, <2>2 DEF CoveredOK
<1>3. CASE Deploying(c) /\ job[c].stage \in {"lock", "lockScan", "scan"}
  BY <1>3 DEF PlanInv, LockedOK
<1> QED
  BY <1>2, <1>3

(* The end of a command: a deploy that breaks off says so.                   *)
LEMMA EndOK ==
    ASSUME TypeOK, PlanInv, NEW c \in CLIs, Finish(c), job[c].stage # "idle",
           UNCHANGED <<desired, baseline, overlap>>,
           \/ broken' = broken /\ (~Deploying(c) \/ job[c].stage \in {"lock", "lockScan", "scan"})
           \/ broken' = [broken EXCEPT ![job[c].project] = @ \/ Deploying(c)]
    PROVE  PlanInv'
<1>0. PICK p \in Projects : p = job[c].project
  BY DEF TypeOK, Job
<1>1. job'[c] = Idle /\ Idle.stage = "idle" /\ ~Idle.holds
  BY DEF TypeOK, Finish, Becomes, Idle
<1>2. \A q \in Projects \ {p} : broken'[q] = broken[q]
  BY <1>0 DEF TypeOK
<1>3. /\ Frame(c, p) /\ DeclaredOK(p)'
      /\ \A d \in CLIs \ {c} : BaselineOK(d)'
  BY <1>0, <1>1, <1>2, FrameBecomes DEF Finish
<1>4. ShapeOK(c)' /\ BaselineOK(c)'
  BY <1>1 DEF ShapeOK, BaselineOK
<1>5. \A n \in Nodes : Has(n, p)' = Has(n, p)
  BY DEF Has
<1>6. ASSUME ~overlap'[p], ~broken'[p] PROVE CoveredOK(p)'
  <2>1. ~overlap[p] /\ ~broken[p]
    BY <1>0, <1>6 DEF TypeOK, Deploying
  <2>2. ~Deploying(c) \/ job[c].stage \in {"lock", "lockScan", "scan"}
    BY <1>0, <1>6 DEF TypeOK, Deploying
  <2>3. Live(p) \subseteq baseline[p]
    BY <1>0, <2>1, <2>2, Settled
  <2> QED
    BY <1>5, <2>3 DEF CoveredOK, Live
<1> QED
  BY <1>0, <1>1, <1>3, <1>4, <1>6, FromFrame

(* Without a write, nothing of the footprint changes.                        *)
LEMMA NoWrite ==
    ASSUME TypeOK, NEW c \in CLIs, NEW j, Becomes(c, j), j.project = job[c].project,
           UNCHANGED desired
    PROVE  /\ job'[c] = j
           /\ \A n \in Nodes : Has(n, job[c].project)' = Has(n, job[c].project)
           /\ Live(job[c].project)' = Live(job[c].project)
<1>1. job'[c] = j
  BY DEF TypeOK, Becomes
<1>2. \A n \in Nodes : Has(n, job[c].project)' = Has(n, job[c].project)
  BY <1>1 DEF Has
<1> QED
  BY <1>1, <1>2 DEF Live

(* The start of a command: what is live is locked, unless another is at work. *)
LEMMA StartPlan ==
    ASSUME TypeOK, PlanInv, NEW c \in CLIs, Start(c) PROVE PlanInv'
<1>1. PICK k \in Kinds, p \in Projects :
        \E config \in SUBSET Declared[p] : \E part \in SUBSET config :
          /\ k # "partial" => part = config
          /\ k = "destroy" => config = Declared[p]
          /\ Becomes(c, Command(k, p, config, part))
          /\ overlap' = [overlap EXCEPT ![p] = @ \/ \E d \in CLIs \ {c} : Running(d, p)]
  BY DEF Start
<1>2. PICK config \in SUBSET Declared[p] : \E part \in SUBSET config :
          /\ k # "partial" => part = config
          /\ k = "destroy" => config = Declared[p]
          /\ Becomes(c, Command(k, p, config, part))
          /\ overlap' = [overlap EXCEPT ![p] = @ \/ \E d \in CLIs \ {c} : Running(d, p)]
  BY <1>1
<1>3. PICK part \in SUBSET config :
          /\ k # "partial" => part = config
          /\ k = "destroy" => config = Declared[p]
          /\ Becomes(c, Command(k, p, config, part))
          /\ overlap' = [overlap EXCEPT ![p] = @ \/ \E d \in CLIs \ {c} : Running(d, p)]
  BY <1>2
<1>4. PICK j : j = Command(k, p, config, part)
  OBVIOUS
<1>5. /\ j.kind = k /\ j.project = p /\ j.config = config /\ j.part = part
      /\ j.left = Nodes /\ j.node = {} /\ ~j.holds
      /\ j.stage = IF k \in {"destroy", "undeploy"} THEN "scan" ELSE "lock"
  BY <1>4 DEF Command, Idle
<1>6. job'[c] = j /\ Becomes(c, j) /\ job[c].stage = "idle"
  BY <1>3, <1>4 DEF Start, TypeOK, Becomes
<1>7. k \in {"deploy", "partial", "destroy", "undeploy"}
  BY StoreAssumption
<1>8. /\ UNCHANGED <<desired, baseline, broken>>
      /\ \A q \in Projects \ {p} : overlap'[q] = overlap[q]
      /\ overlap[p] => overlap'[p]
      /\ \A d \in CLIs \ {c} : Running(d, p) => overlap'[p]
  BY <1>3 DEF Start, TypeOK
<1>9. /\ Frame(c, p) /\ DeclaredOK(p)'
      /\ \A d \in CLIs \ {c} : BaselineOK(d)'
  BY <1>5, <1>6, <1>8, FrameBecomes
<1>10. ShapeOK(c)' /\ BaselineOK(c)' /\ PlanOK(c)'
  <2>1. ShapeOK(c)'
    BY <1>3, <1>5, <1>6, <1>7 DEF ShapeOK, Deploying
  <2>2. BaselineOK(c)' /\ PlanOK(c)'
    BY <1>5, <1>6 DEF BaselineOK, PlanOK
  <2> QED
    BY <2>1, <2>2
<1>11. \A n \in Nodes : Has(n, p)' = Has(n, p)
  BY <1>8 DEF Has
<1>12. ASSUME ~overlap'[p], ~broken'[p] PROVE Live(p)' \subseteq baseline'[p]
  <2>1. \A d \in CLIs : ~Running(d, p)
    BY <1>6, <1>8, <1>12 DEF Running
  <2>2. overlap[p] \/ broken[p] \/ CoveredOK(p)
    BY DEF PlanInv
  <2>3. Live(p) \subseteq baseline[p]
    BY <1>8, <1>12, <2>1, <2>2 DEF CoveredOK
  <2> QED
    BY <1>8, <1>11, <2>3 DEF Live
<1>13. ASSUME ~overlap'[p], ~broken'[p] PROVE LockedOK(c)' /\ CoveredOK(p)'
  <2>1. CoveredOK(p)'
    BY <1>12, <1>13 DEF CoveredOK
  <2>2. Deploying(c)' => job'[c].stage = "lock"
    BY <1>5, <1>6, <1>7 DEF Deploying
  <2>3. Live(job[c].project)' \subseteq baseline'[job'[c].project]
    BY <1>5, <1>6, <1>12, <1>13, <1>11 DEF Live, Has
  <2> QED
    BY <2>1, <2>2, <2>3 DEF LockedOK
<1> QED
  BY <1>9, <1>10, <1>13, FromFrame

(* findConfigLockViolations lets a deploy go on only if its configuration    *)
(* has everything that is live.                                              *)
LEMMA ComparePlan ==
    ASSUME TypeOK, PlanInv, NEW c \in CLIs, NEW locked, CompareConfig(c, locked),
           UNCHANGED jobOnly, job[c].stage \in {"lock", "lockScan"},
           \/ overlap[job[c].project] \/ broken[job[c].project]
           \/ Live(job[c].project) \subseteq locked
    PROVE  PlanInv'
<1>0. job[c] \in Job /\ ShapeOK(c) /\ Deploying(c)
  BY DEF TypeOK, PlanInv, ShapeOK
<1>1. CASE Finish(c)
  BY <1>0, <1>1, EndOK DEF jobOnly
<1>2. CASE /\ locked \subseteq job[c].config
           /\ Becomes(c, [job[c] EXCEPT !.stage = "scan", !.left = Nodes, !.prior = Nowhere])
  <2>1. PICK j : j = [job[c] EXCEPT !.stage = "scan", !.left = Nodes, !.prior = Nowhere]
    OBVIOUS
  <2>2. /\ j \in Job /\ j.stage = "scan" /\ j.left = Nodes /\ j.kind = job[c].kind
        /\ j.project = job[c].project /\ j.config = job[c].config /\ j.part = job[c].part
        /\ j.node = job[c].node /\ j.holds = job[c].holds
    BY <1>0, <2>1 DEF Job, Nowhere
  <2>3. /\ job'[c] = j
        /\ \A n \in Nodes : Has(n, job[c].project)' = Has(n, job[c].project)
        /\ Live(job[c].project)' = Live(job[c].project)
    BY <1>2, <2>1, <2>2, NoWrite DEF jobOnly
  <2>4. ShapeOK(c)' /\ BaselineOK(c)'
    BY <1>0, <2>2, <2>3 DEF ShapeOK, BaselineOK, Deploying
  <2>5. PlanOK(c)'
    BY <2>2, <2>3 DEF PlanOK
  <2>6. ASSUME ~overlap[job[c].project], ~broken[job[c].project] PROVE LockedOK(c)'
    <3>1. Live(job[c].project) \subseteq baseline[job[c].project]
      BY <2>6, Settled
    <3>2. Live(job[c].project) \subseteq job[c].config
      BY <1>2, <2>6
    <3> QED
      BY <2>2, <2>3, <3>1, <3>2 DEF LockedOK, jobOnly
  <2> QED
    BY <1>2, <2>1, <2>2, <2>4, <2>5, <2>6, GoesOn DEF jobOnly
<1> QED
  BY <1>1, <1>2 DEF CompareConfig

(* The lock is the baseline, or, without one, what is published.             *)
LEMMA ReadLockPlan ==
    ASSUME TypeOK, PlanInv, NEW c \in CLIs, ReadLock(c) PROVE PlanInv'
<1>0. job[c] \in Job /\ ShapeOK(c) /\ Deploying(c) /\ job[c].stage = "lock"
  BY DEF TypeOK, PlanInv, ShapeOK, ReadLock
<1>1. \/ overlap[job[c].project] \/ broken[job[c].project]
      \/ Live(job[c].project) \subseteq baseline[job[c].project]
  BY <1>0, Settled
<1>2. CASE CompareConfig(c, baseline[job[c].project])
  BY <1>0, <1>1, <1>2, ComparePlan DEF ReadLock
<1>3. CASE Becomes(c, [job[c] EXCEPT !.stage = "lockScan"])
  <2>1. PICK j : j = [job[c] EXCEPT !.stage = "lockScan"]
    OBVIOUS
  <2>2. /\ j \in Job /\ j.stage = "lockScan" /\ j.left = job[c].left /\ j.kind = job[c].kind
        /\ j.project = job[c].project /\ j.config = job[c].config /\ j.part = job[c].part
        /\ j.node = job[c].node /\ j.holds = job[c].holds
    BY <1>0, <2>1 DEF Job
  <2>3. /\ job'[c] = j /\ UNCHANGED <<desired, baseline, overlap, broken>>
        /\ \A n \in Nodes : Has(n, job[c].project)' = Has(n, job[c].project)
        /\ Live(job[c].project)' = Live(job[c].project)
    BY <1>3, <2>1, <2>2, NoWrite DEF ReadLock, jobOnly
  <2>4. ShapeOK(c)' /\ BaselineOK(c)'
    BY <1>0, <2>2, <2>3 DEF ShapeOK, BaselineOK, Deploying
  <2>5. PlanOK(c)'
    BY <1>0, <2>2, <2>3 DEF PlanOK, ShapeOK
  <2>6. \/ overlap[job[c].project] \/ broken[job[c].project] \/ LockedOK(c)'
    BY <1>1, <2>2, <2>3 DEF LockedOK
  <2> QED
    BY <1>0, <1>3, <2>1, <2>2, <2>3, <2>4, <2>5, <2>6, GoesOn
<1> QED
  BY <1>2, <1>3 DEF ReadLock

(* loadNodeDesiredStates: what it has read of a node is still there, unless   *)
(* another command of the footprint is at work.                              *)
LEMMA ScanPlan ==
    ASSUME TypeOK, PlanInv, NEW c \in CLIs, Scan(c) PROVE PlanInv'
<1>0. job[c] \in Job /\ ShapeOK(c) /\ BaselineOK(c) /\ job[c].stage \in {"lockScan", "scan"}
  BY DEF TypeOK, PlanInv, Scan
<1>1. PICK n \in job[c].left :
        Becomes(c, [job[c] EXCEPT !.left = @ \ {n},
                      !.prior = [@ EXCEPT ![n] = Has(n, job[c].project)]])
  BY DEF Scan
<1>2. PICK j : j = [job[c] EXCEPT !.left = @ \ {n},
                      !.prior = [@ EXCEPT ![n] = Has(n, job[c].project)]]
  OBVIOUS
<1>3. Has(n, job[c].project) \in SUBSET Services /\ n \in Nodes
  BY <1>0 DEF Has, Job
<1>4. [job[c].prior EXCEPT ![n] = Has(n, job[c].project)] \in [Nodes -> SUBSET Services]
  BY <1>0, <1>3 DEF Job
<1>5. /\ j \in Job /\ j.stage = job[c].stage /\ j.left = job[c].left \ {n}
      /\ j.kind = job[c].kind /\ j.project = job[c].project /\ j.config = job[c].config
      /\ j.part = job[c].part /\ j.node = job[c].node /\ j.holds = job[c].holds
      /\ j.prior = [job[c].prior EXCEPT ![n] = Has(n, job[c].project)]
  BY <1>0, <1>2, <1>4 DEF Job
<1>6. /\ job'[c] = j /\ UNCHANGED <<desired, baseline, overlap, broken>>
      /\ \A m \in Nodes : Has(m, job[c].project)' = Has(m, job[c].project)
      /\ Live(job[c].project)' = Live(job[c].project)
  BY <1>1, <1>2, <1>5, NoWrite DEF Scan, jobOnly
<1>7. ShapeOK(c)' /\ BaselineOK(c)'
  BY <1>0, <1>5, <1>6 DEF ShapeOK, BaselineOK, Deploying
<1>8. ASSUME PlanOK(c) PROVE PlanOK(c)'
  <2>1. \A m \in Nodes \ job[c].left : Has(m, job[c].project) = job[c].prior[m]
    BY <1>0, <1>8 DEF PlanOK
  <2>2. \A m \in Nodes \ j.left : Has(m, job[c].project) = j.prior[m]
    BY <1>0, <1>3, <1>5, <2>1 DEF Job
  <2> QED
    BY <1>0, <1>5, <1>6, <2>2 DEF PlanOK
<1>9. LockedOK(c) => LockedOK(c)'
  BY <1>0, <1>5, <1>6 DEF LockedOK, Deploying
<1>10. /\ overlap[job[c].project] \/ PlanOK(c)
       /\ overlap[job[c].project] \/ broken[job[c].project] \/ LockedOK(c)
  BY <1>0 DEF PlanInv
<1>11. job[c].stage # "idle"
  BY <1>0
<1> QED
  BY <1>0, <1>1, <1>2, <1>5, <1>6, <1>7, <1>8, <1>9, <1>10, <1>11, GoesOn

(* When the nodes are read, what was found is what is live.                  *)
LEMMA FoundLive ==
    ASSUME TypeOK, PlanInv, NEW c \in CLIs, job[c].stage \in {"lockScan", "scan"},
           job[c].left = {}, ~overlap[job[c].project]
    PROVE  /\ \A n \in Nodes : Has(n, job[c].project) = job[c].prior[n]
           /\ Found(c) = Live(job[c].project)
<1>1. \A n \in Nodes : Has(n, job[c].project) = job[c].prior[n]
  BY DEF PlanInv, PlanOK
<1> QED
  BY <1>1 DEF Found, Live

(* Without a baseline the lock is what loadNodeDesiredStates found.           *)
LEMMA CheckLockPlan ==
    ASSUME TypeOK, PlanInv, NEW c \in CLIs, CheckLock(c) PROVE PlanInv'
<1>0. /\ job[c] \in Job /\ ShapeOK(c) /\ Deploying(c) /\ job[c].stage = "lockScan"
      /\ job[c].left = {}
  BY DEF TypeOK, PlanInv, ShapeOK, CheckLock
<1>1. overlap[job[c].project] \/ Live(job[c].project) = Found(c)
  BY <1>0, FoundLive
<1>2. CASE CompareConfig(c, Found(c))
  BY <1>0, <1>1, <1>2, ComparePlan DEF CheckLock
<1>3. CASE /\ Found(c) = {}
           /\ Becomes(c, [job[c] EXCEPT !.stage = "scan", !.left = Nodes])
  <2>1. PICK j : j = [job[c] EXCEPT !.stage = "scan", !.left = Nodes]
    OBVIOUS
  <2>2. /\ j \in Job /\ j.stage = "scan" /\ j.left = Nodes /\ j.kind = job[c].kind
        /\ j.project = job[c].project /\ j.config = job[c].config /\ j.part = job[c].part
        /\ j.node = job[c].node /\ j.holds = job[c].holds
    BY <1>0, <2>1 DEF Job
  <2>3. /\ job'[c] = j /\ UNCHANGED <<desired, baseline, overlap, broken>>
        /\ \A n \in Nodes : Has(n, job[c].project)' = Has(n, job[c].project)
        /\ Live(job[c].project)' = Live(job[c].project)
    BY <1>3, <2>1, <2>2, NoWrite DEF CheckLock, jobOnly
  <2>4. ShapeOK(c)' /\ BaselineOK(c)'
    BY <1>0, <2>2, <2>3 DEF ShapeOK, BaselineOK, Deploying
  <2>5. PlanOK(c)'
    BY <2>2, <2>3 DEF PlanOK
  <2>6. ASSUME ~overlap[job[c].project], ~broken[job[c].project] PROVE LockedOK(c)'
    <3>1. Live(job[c].project) = {}
      BY <1>1, <1>3, <2>6
    <3> QED
      BY <2>2, <2>3, <3>1 DEF LockedOK
  <2> QED
    BY <1>0, <1>3, <2>1, <2>2, <2>3, <2>4, <2>5, <2>6, GoesOn
<1> QED
  BY <1>2, <1>3 DEF CheckLock

(* The planner publishes all of the part, on the nodes it then goes through; *)
(* the others keep what they have.                                           *)
LEMMA PlacePlan ==
    ASSUME TypeOK, PlanInv, NEW c \in CLIs, Place(c) PROVE PlanInv'
<1>0. /\ job[c] \in Job /\ ShapeOK(c) /\ BaselineOK(c) /\ Deploying(c)
      /\ job[c].stage = "scan" /\ job[c].left = {}
      /\ UNCHANGED <<desired, baseline, overlap, broken>>
  BY DEF TypeOK, PlanInv, Place, jobOnly
<1>1. CASE Finish(c)
  BY <1>0, <1>1, EndOK
<1>2. ASSUME NEW w \in [Nodes -> SUBSET job[c].part],
             UNION {w[n] : n \in Nodes} = job[c].part,
             Becomes(c, [job[c] EXCEPT !.stage = "publish", !.want = w,
                                       !.left = {n \in Nodes : w[n] # {}}])
      PROVE  PlanInv'
  <2>1. PICK j : j = [job[c] EXCEPT !.stage = "publish", !.want = w,
                                    !.left = {n \in Nodes : w[n] # {}}]
    OBVIOUS
  <2>2. w \in [Nodes -> SUBSET Services]
    BY <1>0 DEF Job
  <2>3. /\ j \in Job /\ j.stage = "publish" /\ j.left = {n \in Nodes : w[n] # {}}
        /\ j.want = w /\ j.prior = job[c].prior /\ j.kind = job[c].kind
        /\ j.project = job[c].project /\ j.config = job[c].config /\ j.part = job[c].part
        /\ j.node = job[c].node /\ j.holds = job[c].holds
    BY <1>0, <2>1, <2>2 DEF Job
  <2>4. /\ job'[c] = j
        /\ \A n \in Nodes : Has(n, job[c].project)' = Has(n, job[c].project)
    BY <1>0, <1>2, <2>1, <2>3, NoWrite
  <2>5. ShapeOK(c)' /\ BaselineOK(c)'
    BY <1>0, <1>2, <2>3, <2>4 DEF ShapeOK, BaselineOK, Deploying
  <2>6. ASSUME ~overlap[job[c].project] PROVE PlanOK(c)'
    <3>1. \A n \in Nodes : Has(n, job[c].project) = job[c].prior[n]
      BY <1>0, <2>6, FoundLive
    <3>2. \A n \in Nodes : n \in j.left \/ Result(c, n)' = j.prior[n]
      <4>1. SUFFICES ASSUME NEW n \in Nodes, n \notin j.left PROVE Result(c, n)' = j.prior[n]
        OBVIOUS
      <4>2. w[n] = {}
        BY <2>3, <4>1
      <4>3. Deploying(c)'
        BY <1>0, <2>3, <2>4 DEF Deploying
      <4> QED
        BY <2>3, <2>4, <4>2, <4>3 DEF Result, Deploying
    <3> QED
      BY <2>3, <2>4, <3>1, <3>2 DEF PlanOK
  <2>7. ASSUME ~overlap[job[c].project], ~broken[job[c].project] PROVE LockedOK(c)'
    <3>1. \A n \in Nodes : Has(n, job[c].project) = job[c].prior[n]
      BY <1>0, <2>7, FoundLive
    <3>2. Live(job[c].project) \subseteq job[c].config
      BY <1>0, <2>7 DEF PlanInv, LockedOK
    <3>3. \A n \in Nodes : j.prior[n] \subseteq j.config
      BY <2>3, <3>1, <3>2 DEF Live
    <3> QED
      BY <2>3, <2>4, <3>3 DEF LockedOK
  <2>8. job[c].stage # "idle" /\ j.stage # "idle"
    BY <1>0, <2>3
  <2> QED
    BY <1>0, <1>2, <2>1, <2>3, <2>5, <2>6, <2>7, <2>8, GoesOn
<1> QED
  BY <1>1, <1>2 DEF Place

(* planUndeploy: the nodes that it does not go through have nothing to lose. *)
LEMMA RemovalPlan ==
    ASSUME TypeOK, PlanInv, NEW c \in CLIs, PlanRemoval(c) PROVE PlanInv'
<1>0. /\ job[c] \in Job /\ ShapeOK(c) /\ BaselineOK(c) /\ ~Deploying(c)
      /\ job[c].stage = "scan" /\ job[c].left = {}
      /\ UNCHANGED <<desired, baseline, overlap, broken>>
  BY DEF TypeOK, PlanInv, PlanRemoval, jobOnly
<1>1. CASE Finish(c)
  BY <1>0, <1>1, EndOK
<1> DEFINE hosts == {n \in Nodes : job[c].prior[n] \cap job[c].config # {}}
<1>2. CASE Becomes(c, [job[c] EXCEPT !.stage = "remove", !.left = hosts])
  <2>1. PICK j : j = [job[c] EXCEPT !.stage = "remove", !.left = hosts]
    OBVIOUS
  <2>3. /\ j \in Job /\ j.stage = "remove" /\ j.left = hosts
        /\ j.prior = job[c].prior /\ j.kind = job[c].kind
        /\ j.project = job[c].project /\ j.config = job[c].config /\ j.part = job[c].part
        /\ j.node = job[c].node /\ j.holds = job[c].holds
    BY <1>0, <2>1 DEF Job
  <2>4. /\ job'[c] = j
        /\ \A n \in Nodes : Has(n, job[c].project)' = Has(n, job[c].project)
    BY <1>0, <1>2, <2>1, <2>3, NoWrite
  <2>5. ShapeOK(c)' /\ BaselineOK(c)' /\ LockedOK(c)'
    BY <1>0, <2>3, <2>4 DEF ShapeOK, BaselineOK, LockedOK, Deploying
  <2>6. ASSUME ~overlap[job[c].project] PROVE PlanOK(c)'
    <3>1. \A n \in Nodes : Has(n, job[c].project) = job[c].prior[n]
      BY <1>0, <2>6, FoundLive
    <3>2. \A n \in Nodes : n \in j.left \/ Result(c, n)' = j.prior[n]
      BY <1>0, <2>3, <2>4 DEF Result, Deploying
    <3> QED
      BY <2>3, <2>4, <3>1, <3>2 DEF PlanOK
  <2>8. job[c].stage # "idle" /\ j.stage # "idle"
    BY <1>0, <2>3
  <2> QED
    BY <1>0, <1>2, <2>1, <2>3, <2>5, <2>6, <2>8, GoesOn
<1> QED
  BY <1>1, <1>2 DEF PlanRemoval

(* The cleanup goes through the nodes that the plan left; on the others it    *)
(* has nothing to do.                                                        *)
LEMMA NextStagePlan ==
    ASSUME TypeOK, PlanInv, NEW c \in CLIs, NextStage(c) PROVE PlanInv'
<1>0. /\ job[c] \in Job /\ ShapeOK(c)
      /\ job[c].stage \in {"publish", "vacate", "remove"} /\ job[c].left = {}
      /\ UNCHANGED <<desired, baseline, overlap, broken>>
  BY DEF TypeOK, PlanInv, NextStage, jobOnly
<1>1. ~job[c].holds /\ job[c].node = {}
  BY <1>0 DEF ShapeOK
<1>2. ASSUME ~overlap[job[c].project]
      PROVE  \A n \in Nodes : Has(n, job[c].project) = Result(c, n)
  BY <1>0, <1>2 DEF PlanInv, PlanOK
<1>3. /\ overlap[job[c].project] \/ broken[job[c].project] \/ LockedOK(c)
      /\ job[c].stage # "idle"
  BY <1>0 DEF PlanInv
<1>4. CASE /\ job[c].stage = "publish" /\ job[c].kind = "deploy"
           /\ Becomes(c, [job[c] EXCEPT !.stage = "vacate", !.left = Vacated(c)])
  <2>1. PICK j : j = [job[c] EXCEPT !.stage = "vacate", !.left = Vacated(c)]
    OBVIOUS
  <2>2. Vacated(c) = {n \in Nodes : job[c].prior[n] # {} /\ job[c].want[n] = {}}
    BY DEF Vacated
  <2>3. /\ j \in Job /\ j.stage = "vacate" /\ j.left = Vacated(c)
        /\ j.prior = job[c].prior /\ j.want = job[c].want /\ j.kind = job[c].kind
        /\ j.project = job[c].project /\ j.config = job[c].config /\ j.part = job[c].part
        /\ j.node = job[c].node /\ j.holds = job[c].holds
    BY <1>0, <2>1, <2>2 DEF Job
  <2>4. /\ job'[c] = j
        /\ \A n \in Nodes : Has(n, job[c].project)' = Has(n, job[c].project)
    BY <1>0, <1>4, <2>1, <2>3, NoWrite
  <2>5. ShapeOK(c)' /\ BaselineOK(c)'
    BY <1>0, <1>1, <1>4, <2>2, <2>3, <2>4 DEF ShapeOK, BaselineOK, Deploying
  <2>6. ASSUME ~overlap[job[c].project] PROVE PlanOK(c)'
    <3>1. \A n \in Nodes : Result(c, n) = IF job[c].want[n] = {} THEN job[c].prior[n]
                                          ELSE job[c].want[n]
      BY <1>4 DEF Result, Deploying
    <3>2. \A n \in Nodes : Result(c, n)' = job[c].want[n]
      BY <1>4, <2>3, <2>4 DEF Result, Deploying
    <3>3. ASSUME NEW n \in Nodes
          PROVE  \/ Has(n, job[c].project) = job[c].want[n]
                 \/ n \in j.left /\ Has(n, job[c].project) = job[c].prior[n]
      <4>1. Has(n, job[c].project) = IF job[c].want[n] = {} THEN job[c].prior[n]
                                     ELSE job[c].want[n]
        BY <1>2, <2>6, <3>1
      <4> QED
        BY <2>2, <2>3, <4>1
    <3> QED
      BY <2>3, <2>4, <3>2, <3>3 DEF PlanOK
  <2>7. LockedOK(c) => LockedOK(c)'
    BY <1>4, <2>3, <2>4 DEF LockedOK, Deploying
  <2> QED
    BY <1>0, <1>3, <1>4, <2>1, <2>3, <2>5, <2>6, <2>7, GoesOn
<1>5. CASE /\ job[c].stage # "publish" \/ job[c].kind # "deploy"
           /\ Becomes(c, [job[c] EXCEPT !.stage = "baseline"])
  <2>1. PICK j : j = [job[c] EXCEPT !.stage = "baseline"]
    OBVIOUS
  <2>3. /\ j \in Job /\ j.stage = "baseline" /\ j.left = {}
        /\ j.prior = job[c].prior /\ j.want = job[c].want /\ j.kind = job[c].kind
        /\ j.project = job[c].project /\ j.config = job[c].config /\ j.part = job[c].part
        /\ j.node = job[c].node /\ j.holds = job[c].holds
    BY <1>0, <2>1 DEF Job
  <2>4. /\ job'[c] = j
        /\ \A n \in Nodes : Has(n, job[c].project)' = Has(n, job[c].project)
    BY <1>0, <1>5, <2>1, <2>3, NoWrite
  <2>5. ShapeOK(c)' /\ BaselineOK(c)'
    BY <1>0, <1>1, <2>3, <2>4 DEF ShapeOK, BaselineOK, Deploying
  <2>6. ASSUME ~overlap[job[c].project] PROVE PlanOK(c)'
    <3>1. \A n \in Nodes : Result(c, n)' = Result(c, n)
      BY <1>0, <1>5, <2>3, <2>4 DEF Result, Deploying
    <3> QED
      BY <1>2, <2>3, <2>4, <2>6, <3>1 DEF PlanOK
  <2>7. LockedOK(c) => LockedOK(c)'
    BY <1>0, <2>3, <2>4 DEF LockedOK, Deploying, ShapeOK
  <2> QED
    BY <1>0, <1>3, <1>5, <2>1, <2>3, <2>5, <2>6, <2>7, GoesOn
<1> QED
  BY <1>4, <1>5 DEF NextStage

\* The services of p in a desired.json
Lists(E, p) == {s \in Services : [project |-> p, service |-> s] \in E}

(* Merging touches no other footprint.                                       *)
LEMMA MergedLists ==
    ASSUME TypeOK, NEW c \in CLIs, NEW n \in Nodes, NEW E \in SUBSET Entry,
           NEW add, add = IF job[c].stage = "publish" THEN job[c].want[n] ELSE {}
    PROVE  /\ \A q \in Projects \ {job[c].project} : Lists(Merged(c, n, E), q) = Lists(E, q)
           /\ job[c].stage = "remove" =>
                Lists(Merged(c, n, E), job[c].project) = Lists(E, job[c].project) \ job[c].config
           /\ job[c].stage # "remove" /\ job[c].kind = "partial" =>
                Lists(Merged(c, n, E), job[c].project) = Lists(E, job[c].project) \cup add
           /\ job[c].stage # "remove" /\ job[c].kind # "partial" =>
                Lists(Merged(c, n, E), job[c].project) = add
<1>0. job[c] \in Job
  BY DEF TypeOK
<1> DEFINE e(q, s) == [project |-> q, service |-> s]
<1>1. \A q \in Projects, s \in Services, S \in SUBSET Services :
        e(q, s) \in Of(job[c].project, S) <=> q = job[c].project /\ s \in S
  BY DEF Of
<1>2. add \in SUBSET Services /\ job[c].config \in SUBSET Services
      /\ job[c].project \in Projects
  BY <1>0 DEF Job
<1>3. Incoming(c, n) = IF job[c].stage = "publish" THEN Of(job[c].project, add) ELSE {}
  BY DEF Incoming
<1>4. \A q \in Projects, s \in Services :
        e(q, s) \in Incoming(c, n) <=> q = job[c].project /\ s \in add
  BY <1>1, <1>2, <1>3
<1>5. \A q \in Projects, s \in Services : e(q, s).project = q
  OBVIOUS
<1>6. CASE job[c].stage = "remove"
  <2>1. Merged(c, n, E) = E \ Of(job[c].project, job[c].config)
    BY <1>6 DEF Merged, AfterRemoval
  <2> QED
    BY <1>1, <1>2, <1>6, <2>1 DEF Lists
<1>7. CASE job[c].stage # "remove" /\ job[c].kind = "partial"
  <2>1. Merged(c, n, E) = E \cup Incoming(c, n)
    BY <1>7 DEF Merged, PartialMerge
  <2> QED
    BY <1>2, <1>4, <1>7, <2>1 DEF Lists
<1>8. CASE job[c].stage # "remove" /\ job[c].kind # "partial"
  <2>1. Merged(c, n, E) = {x \in E : x.project # job[c].project} \cup Incoming(c, n)
    BY <1>8 DEF Merged, FullMerge
  <2> QED
    BY <1>2, <1>4, <1>5, <1>8, <2>1 DEF Lists
<1> QED
  BY <1>6, <1>7, <1>8

(* A read takes the node in hand; in a removal that has nothing to remove     *)
(* there, the node is done.                                                  *)
LEMMA ReadPlan ==
    ASSUME TypeOK, PlanInv, NEW c \in CLIs, Read(c) PROVE PlanInv'
<1>0. /\ job[c] \in Job /\ ShapeOK(c) /\ ~job[c].holds
      /\ job[c].stage \in {"publish", "vacate", "remove"} /\ job[c].stage # "idle"
      /\ UNCHANGED <<desired, baseline, overlap>>
  BY DEF TypeOK, PlanInv, Read
<1>1. PICK n \in job[c].left :
        \/ /\ job[c].stage = "remove" /\ Merged(c, n, desired[n]) = desired[n]
           /\ Becomes(c, [job[c] EXCEPT !.left = @ \ {n}, !.node = {}, !.tries = 0])
           /\ UNCHANGED broken
        \/ Break(c)
        \/ /\ Becomes(c, [job[c] EXCEPT !.node = {n}, !.holds = TRUE,
                                        !.fresh = TRUE, !.seen = desired[n]])
           /\ UNCHANGED broken
  BY DEF Read
<1>2. n \in Nodes /\ desired[n] \in SUBSET Entry /\ 0 \in 0 .. MAX_PUBLISH_RETRIES - 1
  BY <1>0, StoreAssumption DEF Job, TypeOK
<1>3. /\ overlap[job[c].project] \/ PlanOK(c)
      /\ overlap[job[c].project] \/ broken[job[c].project] \/ LockedOK(c)
  BY <1>0 DEF PlanInv
<1>4. CASE /\ job[c].stage = "remove" /\ Merged(c, n, desired[n]) = desired[n]
           /\ Becomes(c, [job[c] EXCEPT !.left = @ \ {n}, !.node = {}, !.tries = 0])
           /\ UNCHANGED broken
  <2>1. PICK j : j = [job[c] EXCEPT !.left = @ \ {n}, !.node = {}, !.tries = 0]
    OBVIOUS
  <2>2. /\ j \in Job /\ j.stage = job[c].stage /\ j.left = job[c].left \ {n}
        /\ j.prior = job[c].prior /\ j.want = job[c].want /\ j.kind = job[c].kind
        /\ j.project = job[c].project /\ j.config = job[c].config /\ j.part = job[c].part
        /\ j.node = {} /\ ~j.holds
    BY <1>0, <1>2, <2>1 DEF Job
  <2>3. /\ job'[c] = j
        /\ \A m \in Nodes : Has(m, job[c].project)' = Has(m, job[c].project)
    BY <1>0, <1>4, <2>1, <2>2, NoWrite
  <2>4. ShapeOK(c)' /\ BaselineOK(c)'
    BY <1>0, <1>4, <2>2, <2>3 DEF ShapeOK, BaselineOK, Deploying
  <2>5. ASSUME PlanOK(c) PROVE PlanOK(c)'
    <3>1. ~Deploying(c)
      BY <1>0, <1>4 DEF ShapeOK
    <3>2. PICK add : add = IF job[c].stage = "publish" THEN job[c].want[n] ELSE {}
      OBVIOUS
    <3>3. Lists(Merged(c, n, desired[n]), job[c].project)
            = Lists(desired[n], job[c].project) \ job[c].config
      BY <1>2, <1>4, <3>2, MergedLists
    <3>4. Has(n, job[c].project) = Has(n, job[c].project) \ job[c].config
      BY <1>4, <3>3 DEF Lists, Has
    <3>5. Result(c, n) = job[c].prior[n] \ job[c].config
      BY <3>1 DEF Result, Deploying
    <3>6. Has(n, job[c].project) = Result(c, n)
      BY <1>0, <1>2, <2>5, <3>4, <3>5 DEF PlanOK
    <3>7. \A m \in Nodes : Result(c, m)' = Result(c, m)
      BY <2>2, <2>3 DEF Result, Deploying
    <3> QED
      BY <1>0, <2>2, <2>3, <2>5, <3>6, <3>7 DEF PlanOK
  <2>6. LockedOK(c)'
    BY <1>0, <1>4, <2>2, <2>3 DEF LockedOK, Deploying, ShapeOK
  <2> QED
    BY <1>0, <1>3, <1>4, <2>1, <2>2, <2>4, <2>5, <2>6, GoesOn
<1>5. CASE Break(c)
  BY <1>0, <1>5, EndOK DEF Break
<1>6. CASE /\ Becomes(c, [job[c] EXCEPT !.node = {n}, !.holds = TRUE,
                                        !.fresh = TRUE, !.seen = desired[n]])
           /\ UNCHANGED broken
  <2>1. PICK j : j = [job[c] EXCEPT !.node = {n}, !.holds = TRUE, !.fresh = TRUE,
                                    !.seen = desired[n]]
    OBVIOUS
  <2>2. /\ j \in Job /\ j.stage = job[c].stage /\ j.left = job[c].left
        /\ j.prior = job[c].prior /\ j.want = job[c].want /\ j.kind = job[c].kind
        /\ j.project = job[c].project /\ j.config = job[c].config /\ j.part = job[c].part
        /\ j.node = {n}
    BY <1>0, <1>2, <2>1 DEF Job
  <2>3. /\ job'[c] = j
        /\ \A m \in Nodes : Has(m, job[c].project)' = Has(m, job[c].project)
        /\ Live(job[c].project)' = Live(job[c].project)
    BY <1>0, <1>6, <2>1, <2>2, NoWrite
  <2>4. ShapeOK(c)' /\ BaselineOK(c)'
    BY <1>0, <2>2, <2>3 DEF ShapeOK, BaselineOK, Deploying
  <2>5. PlanOK(c) => PlanOK(c)'
    <3>1. \A m \in Nodes : Result(c, m)' = Result(c, m)
      BY <2>2, <2>3 DEF Result, Deploying
    <3> QED
      BY <2>2, <2>3, <3>1 DEF PlanOK
  <2>6. LockedOK(c) => LockedOK(c)'
    BY <1>0, <2>2, <2>3 DEF LockedOK, Deploying
  <2> QED
    BY <1>0, <1>3, <1>6, <2>1, <2>2, <2>4, <2>5, <2>6, GoesOn
<1> QED
  BY <1>1, <1>4, <1>5, <1>6

(* A put with a matching ETag leaves the node as the command wants it, and    *)
(* everything else alone.                                                    *)
LEMMA PutResult ==
    ASSUME TypeOK, FreshOK, PlanInv, NEW c \in CLIs, NEW n \in job[c].node, NEW mine,
           job[c].stage \in {"publish", "vacate", "remove"}, job[c].holds,
           Matches(c), Overwrite(c, n, mine)
    PROVE  /\ n \in job[c].left /\ n \in Nodes
           /\ \A q \in Projects, m \in Nodes :
                q # job[c].project \/ m # n => Lists(desired'[m], q) = Has(m, q)
           /\ overlap[job[c].project] \/ Lists(desired'[n], job[c].project) = Result(c, n)
           /\ Lists(desired'[n], job[c].project) \subseteq Declared[job[c].project]
           /\ job[c].stage = "remove" =>
                Lists(desired'[n], job[c].project) \subseteq Has(n, job[c].project)
<1>0. /\ job[c] \in Job /\ ShapeOK(c) /\ job[c].stage # "idle"
      /\ \A q \in Projects : DeclaredOK(q)
  BY DEF TypeOK, PlanInv
<1>1. n \in job[c].left /\ n \in Nodes /\ job[c].project \in Projects
  BY <1>0 DEF ShapeOK, Job
<1>2. desired' = [desired EXCEPT ![n] = Merged(c, n, desired[n])]
  BY DEF FreshOK, Matches, Overwrite
<1>3. /\ desired'[n] = Merged(c, n, desired[n])
      /\ \A m \in Nodes \ {n} : desired'[m] = desired[m]
      /\ desired[n] \in SUBSET Entry
  BY <1>1, <1>2 DEF TypeOK
<1>4. PICK add : add = IF job[c].stage = "publish" THEN job[c].want[n] ELSE {}
  OBVIOUS
<1>5. /\ \A q \in Projects \ {job[c].project} : Lists(desired'[n], q) = Has(n, q)
      /\ job[c].stage = "remove" =>
           Lists(desired'[n], job[c].project) = Has(n, job[c].project) \ job[c].config
      /\ job[c].stage # "remove" /\ job[c].kind = "partial" =>
           Lists(desired'[n], job[c].project) = Has(n, job[c].project) \cup add
      /\ job[c].stage # "remove" /\ job[c].kind # "partial" =>
           Lists(desired'[n], job[c].project) = add
  <2>1. \A q \in Projects : Lists(desired[n], q) = Has(n, q)
    BY DEF Lists, Has
  <2>2. /\ \A q \in Projects \ {job[c].project} :
             Lists(Merged(c, n, desired[n]), q) = Lists(desired[n], q)
        /\ job[c].stage = "remove" => Lists(Merged(c, n, desired[n]), job[c].project)
             = Lists(desired[n], job[c].project) \ job[c].config
        /\ job[c].stage # "remove" /\ job[c].kind = "partial" =>
             Lists(Merged(c, n, desired[n]), job[c].project)
               = Lists(desired[n], job[c].project) \cup add
        /\ job[c].stage # "remove" /\ job[c].kind # "partial" =>
             Lists(Merged(c, n, desired[n]), job[c].project) = add
    BY <1>1, <1>3, <1>4, MergedLists
  <2> QED
    BY <1>1, <1>3, <2>1, <2>2
<1>6. \A q \in Projects, m \in Nodes \ {n} : Lists(desired'[m], q) = Has(m, q)
  BY <1>3 DEF Lists, Has
<1>7. add \subseteq Declared[job[c].project]
  <2>1. CASE job[c].stage = "publish"
    <3>1. UNION {job[c].want[m] : m \in Nodes} = job[c].part /\ job[c].part \subseteq job[c].config
          /\ job[c].config \subseteq Declared[job[c].project]
      BY <1>0, <2>1 DEF ShapeOK
    <3> QED
      BY <1>1, <1>4, <2>1, <3>1
  <2> QED
    BY <1>4, <2>1
<1>8. Has(n, job[c].project) \subseteq Declared[job[c].project]
  BY <1>0, <1>1 DEF DeclaredOK
<1>9. Lists(desired'[n], job[c].project) \subseteq Declared[job[c].project]
  BY <1>5, <1>7, <1>8
<1>10. ASSUME ~overlap[job[c].project]
       PROVE  Lists(desired'[n], job[c].project) = Result(c, n)
  <2>1. Has(n, job[c].project) \in {Result(c, n), job[c].prior[n]}
    BY <1>0, <1>1, <1>10 DEF PlanInv, PlanOK
  <2>2. CASE job[c].stage = "remove"
    <3>1. ~Deploying(c)
      BY <1>0, <2>2 DEF ShapeOK
    <3>2. Result(c, n) = job[c].prior[n] \ job[c].config
      BY <3>1 DEF Result, Deploying
    <3> QED
      BY <1>5, <2>1, <2>2, <3>2
  <2>3. CASE job[c].stage # "remove" /\ job[c].kind = "partial"
    <3>1. job[c].stage = "publish"
      BY <1>0, <2>3 DEF ShapeOK
    <3>2. Result(c, n) = job[c].prior[n] \cup job[c].want[n]
      BY <2>3 DEF Result, Deploying
    <3> QED
      BY <1>4, <1>5, <2>1, <2>3, <3>1, <3>2
  <2>4. CASE job[c].stage # "remove" /\ job[c].kind # "partial"
    <3>1. job[c].kind = "deploy" /\ job[c].stage \in {"publish", "vacate"}
      BY <1>0, <2>4 DEF ShapeOK, Deploying
    <3>2. /\ job[c].stage = "publish" => job[c].want[n] # {}
          /\ job[c].stage = "vacate" => job[c].want[n] = {}
      BY <1>0, <1>1 DEF ShapeOK
    <3>3. Result(c, n) = job[c].want[n]
      BY <3>1, <3>2 DEF Result, Deploying
    <3> QED
      BY <1>4, <1>5, <2>4, <3>1, <3>2, <3>3
  <2> QED
    BY <2>2, <2>3, <2>4
<1>11. job[c].stage = "remove" =>
         Lists(desired'[n], job[c].project) \subseteq Has(n, job[c].project)
  BY <1>5
<1> QED
  BY <1>1, <1>5, <1>6, <1>9, <1>10, <1>11

(* What the command is after a put: done with the node, on its way to put it  *)
(* again, or given up.                                                       *)
LEMMA PutPlan ==
    ASSUME TypeOK, FreshOK, PlanInv, NEW c \in CLIs, NEW n \in job[c].node,
           NEW mine \in Job,
           job[c].stage \in {"publish", "vacate", "remove"}, job[c].holds,
           Matches(c), Overwrite(c, n, mine), UNCHANGED <<baseline, overlap>>,
           \A q \in Projects \ {job[c].project} : broken'[q] = broken[q],
           broken[job[c].project] => broken'[job[c].project],
           \/ mine.stage = "idle" /\ ~mine.holds
              /\ (Deploying(c) => broken'[job[c].project])
           \/ /\ mine.stage = job[c].stage /\ ~mine.holds
              /\ mine.left \in {job[c].left, job[c].left \ {n}}
              /\ mine.node \subseteq mine.left
              /\ mine.prior = job[c].prior /\ mine.want = job[c].want
              /\ mine.kind = job[c].kind /\ mine.project = job[c].project
              /\ mine.config = job[c].config /\ mine.part = job[c].part
    PROVE  PlanInv'
<1>0. PICK p \in Projects : p = job[c].project
  BY DEF TypeOK, Job
<1>1. /\ n \in job[c].left /\ n \in Nodes
      /\ \A q \in Projects, m \in Nodes :
           q # p \/ m # n => Has(m, q)' = Has(m, q)
      /\ overlap[p] \/ Has(n, p)' = Result(c, n)
      /\ Has(n, p)' \subseteq Declared[p]
      /\ job[c].stage = "remove" => Has(n, p)' \subseteq Has(n, p)
  <2>1. \A q \in Projects, m \in Nodes : Has(m, q)' = Lists(desired'[m], q)
    BY DEF Has, Lists
  <2> QED
    BY <1>0, <2>1, PutResult
<1>2. /\ job'[c] = mine
      /\ \A d \in CLIs \ {c} :
           job'[d] = [job[d] EXCEPT !.fresh = @ /\ n \notin job[d].node]
  BY DEF Overwrite
<1>3. job[c] \in Job /\ ShapeOK(c) /\ job[c].stage # "idle"
  BY DEF TypeOK, PlanInv
<1>4. ASSUME NEW d \in CLIs \ {c}
      PROVE  /\ \E b \in BOOLEAN : job'[d] = [job[d] EXCEPT !.fresh = b]
             /\ BaselineOK(d)'
             /\ Running(d, p) => overlap'[p]
  <2>1. job[d] \in Job /\ job[d].fresh \in BOOLEAN
    BY DEF TypeOK, Job
  <2>2. PICK b \in BOOLEAN : b = (job[d].fresh /\ n \notin job[d].node)
    OBVIOUS
  <2>3. job'[d] = [job[d] EXCEPT !.fresh = b]
    BY <1>2, <2>2
  <2>4. /\ job'[d].stage = job[d].stage /\ job'[d].holds = job[d].holds
        /\ job'[d].lock = job[d].lock /\ job'[d].project = job[d].project
        /\ job'[d].fresh = b
    BY <2>1, <2>3 DEF Job
  <2>5. job'[d].fresh => job[d].fresh
    BY <2>2, <2>4, Zenon
  <2>6. BaselineOK(d)'
    BY <2>4, <2>5 DEF PlanInv, BaselineOK
  <2>7. Running(d, p) => overlap[p]
    BY <1>0, <1>3 DEF PlanInv, Running
  <2> QED
    BY <2>3, <2>6, <2>7
<1>5. Frame(c, p)
  <2>1. \A d \in CLIs \ {c} : \E b \in BOOLEAN : job'[d] = [job[d] EXCEPT !.fresh = b]
    BY <1>4
  <2>2. \A d \in CLIs \ {c} : Running(d, p) => overlap'[p]
    BY <1>4
  <2>3. job'[c].stage # "idle" => job'[c].project = p
    BY <1>0, <1>2
  <2> QED
    BY <1>0, <1>1, <2>1, <2>2, <2>3 DEF Frame
<1>6. DeclaredOK(p)'
  <2>1. \A m \in Nodes : Has(m, p)' \subseteq Declared[p]
    BY <1>1 DEF PlanInv, DeclaredOK
  <2> QED
    BY <2>1 DEF DeclaredOK
<1>7. \A d \in CLIs : BaselineOK(d)'
  <2>1. BaselineOK(c)'
    BY <1>2 DEF BaselineOK
  <2> QED
    BY <1>4, <2>1
<1>8. ASSUME ~overlap'[p], ~broken'[p], ~Deploying(c) PROVE Live(p)' \subseteq baseline'[p]
  <2>1. Live(p) \subseteq baseline[p]
    BY <1>0, <1>3, <1>8, Settled
  <2>2. job[c].stage = "remove"
    BY <1>3, <1>8 DEF ShapeOK
  <2>3. \A m \in Nodes : Has(m, p)' \subseteq Has(m, p)
    BY <1>1, <2>2
  <2> QED
    BY <2>1, <2>3 DEF Live
<1>9. CASE mine.stage = "idle"
  <2>1. ShapeOK(c)'
    BY <1>2, <1>9 DEF ShapeOK
  <2>2. overlap'[p] \/ broken'[p] \/ CoveredOK(p)'
    BY <1>0, <1>3, <1>8, <1>9 DEF CoveredOK
  <2> QED
    BY <1>2, <1>5, <1>6, <1>7, <1>9, <2>1, <2>2, FromFrame
<1>10. CASE mine.stage # "idle"
  <2>1. /\ mine.stage = job[c].stage /\ ~mine.holds
        /\ mine.left \in {job[c].left, job[c].left \ {n}}
        /\ mine.node \subseteq mine.left
        /\ mine.prior = job[c].prior /\ mine.want = job[c].want
        /\ mine.kind = job[c].kind /\ mine.project = job[c].project
        /\ mine.config = job[c].config /\ mine.part = job[c].part
    BY <1>10
  <2>2. ShapeOK(c)'
    BY <1>2, <1>3, <2>1 DEF ShapeOK, Deploying
  <2>3. \A m \in Nodes : Result(c, m)' = Result(c, m)
    BY <1>2, <2>1 DEF Result, Deploying
  <2>4. ASSUME ~overlap'[p] PROVE PlanOK(c)'
    <3>1. ~overlap[p]
      BY <2>4
    <3>2. \A m \in Nodes : \/ Has(m, p) = Result(c, m)
                           \/ m \in job[c].left /\ Has(m, p) = job[c].prior[m]
      BY <1>0, <1>3, <3>1 DEF PlanInv, PlanOK
    <3>3. \A m \in Nodes : \/ Has(m, p)' = Result(c, m)
                           \/ m \in mine.left /\ Has(m, p)' = mine.prior[m]
      BY <1>1, <2>1, <3>1, <3>2
    <3>4. \A m \in Nodes : Has(m, job[c].project)' = Has(m, p)'
      BY <1>0, <1>2, <2>1 DEF Has
    <3>5. job'[c].stage \notin {"lockScan", "scan"}
      BY <1>2, <2>1
    <3> QED
      BY <1>2, <2>3, <3>3, <3>4, <3>5 DEF PlanOK
  <2>5. ASSUME ~overlap'[p], ~broken'[p] PROVE LockedOK(c)'
    <3>1. LockedOK(c)
      BY <1>0, <1>3, <2>5 DEF PlanInv
    <3> QED
      BY <1>2, <2>1, <3>1 DEF LockedOK, Deploying
  <2>6. ASSUME ~overlap'[p], ~broken'[p] PROVE CoveredOK(p)'
    <3>1. CASE Deploying(c)
      <4>1. Running(c, p)' /\ Deploying(c)'
        BY <1>0, <1>2, <1>3, <2>1, <3>1 DEF Running, Deploying
      <4> QED
        BY <4>1 DEF CoveredOK
    <3>2. CASE ~Deploying(c)
      BY <1>8, <2>6, <3>2 DEF CoveredOK
    <3> QED
      BY <3>1, <3>2
  <2> QED
    BY <1>5, <1>6, <1>7, <2>2, <2>4, <2>5, <2>6, FromFrame
<1> QED
  BY <1>9, <1>10

(* A command that puts again is the same command.                            *)
LEMMA RetrySame ==
    ASSUME TypeOK, NEW c \in CLIs
    PROVE  /\ Drop(c) \in Job /\ Retry(c) \in Job /\ ~Drop(c).holds /\ ~Retry(c).holds
           /\ \A j \in {Drop(c)} \cup (IF Again(c) THEN {Retry(c)} ELSE {}) :
                /\ j.stage = job[c].stage /\ j.left = job[c].left /\ j.node = job[c].node
                /\ j.prior = job[c].prior /\ j.want = job[c].want
                /\ j.kind = job[c].kind /\ j.project = job[c].project
                /\ j.config = job[c].config /\ j.part = job[c].part
           /\ ~Again(c) => Retry(c) = Idle /\ Idle.stage = "idle"
<1>1. job[c] \in Job /\ Drop(c) \in Job /\ Retry(c) \in Job
  BY RetryType DEF TypeOK
<1>2. ~Drop(c).holds /\ ~Retry(c).holds
  BY DropHolds
<1>3. LET j == Drop(c) IN
        /\ j.stage = job[c].stage /\ j.left = job[c].left /\ j.node = job[c].node
        /\ j.prior = job[c].prior /\ j.want = job[c].want
        /\ j.kind = job[c].kind /\ j.project = job[c].project
        /\ j.config = job[c].config /\ j.part = job[c].part
  BY <1>1 DEF Drop, Job
<1>4. ASSUME Again(c)
      PROVE  LET j == Retry(c) IN
        /\ j.stage = job[c].stage /\ j.left = job[c].left /\ j.node = job[c].node
        /\ j.prior = job[c].prior /\ j.want = job[c].want
        /\ j.kind = job[c].kind /\ j.project = job[c].project
        /\ j.config = job[c].config /\ j.part = job[c].part
  <2>1. Retry(c) = [Drop(c) EXCEPT !.tries = @ + 1]
    BY <1>4 DEF Retry
  <2>2. PICK j : j = Drop(c)
    OBVIOUS
  <2>3. /\ j \in Job /\ Retry(c) = [j EXCEPT !.tries = @ + 1]
        /\ j.stage = job[c].stage /\ j.left = job[c].left /\ j.node = job[c].node
        /\ j.prior = job[c].prior /\ j.want = job[c].want
        /\ j.kind = job[c].kind /\ j.project = job[c].project
        /\ j.config = job[c].config /\ j.part = job[c].part
    BY <1>1, <1>3, <2>1, <2>2
  <2> QED
    BY <2>3 DEF Job
<1>5. ~Again(c) => Retry(c) = Idle /\ Idle.stage = "idle"
  BY DEF Retry, Idle
<1> QED
  BY <1>1, <1>2, <1>3, <1>4, <1>5

(* putJson: done, lost against another put, or done with its answer lost.    *)
LEMMA PutStepPlan ==
    ASSUME TypeOK, FreshOK, PlanInv, NEW c \in CLIs, Put(c) PROVE PlanInv'
<1>0. /\ job[c] \in Job /\ ShapeOK(c) /\ job[c].stage \in {"publish", "vacate", "remove"}
      /\ job[c].stage # "idle" /\ job[c].holds /\ UNCHANGED <<baseline, overlap>>
  BY DEF TypeOK, PlanInv, Put
<1>1. PICK n \in job[c].node :
        \/ /\ Matches(c)
           /\ Overwrite(c, n, [Drop(c) EXCEPT !.left = @ \ {n}, !.node = {}, !.tries = 0])
           /\ UNCHANGED broken
        \/ /\ Becomes(c, Retry(c)) /\ UNCHANGED desired
           /\ broken' = [broken EXCEPT
                ![job[c].project] = @ \/ (Deploying(c) /\ ~Again(c))]
        \/ /\ Matches(c) /\ Overwrite(c, n, Retry(c))
           /\ broken' = [broken EXCEPT
                ![job[c].project] = @ \/ (Deploying(c) /\ ~Again(c))]
  BY DEF Put
<1>2. /\ Drop(c) \in Job /\ Retry(c) \in Job /\ ~Drop(c).holds /\ ~Retry(c).holds
      /\ \A j \in {Drop(c)} \cup (IF Again(c) THEN {Retry(c)} ELSE {}) :
           /\ j.stage = job[c].stage /\ j.left = job[c].left /\ j.node = job[c].node
           /\ j.prior = job[c].prior /\ j.want = job[c].want
           /\ j.kind = job[c].kind /\ j.project = job[c].project
           /\ j.config = job[c].config /\ j.part = job[c].part
      /\ ~Again(c) => Retry(c) = Idle /\ Idle.stage = "idle"
  BY RetrySame
<1>3. ASSUME broken' = [broken EXCEPT
               ![job[c].project] = @ \/ (Deploying(c) /\ ~Again(c))]
      PROVE  /\ \A q \in Projects \ {job[c].project} : broken'[q] = broken[q]
             /\ broken[job[c].project] => broken'[job[c].project]
             /\ ~Again(c) /\ Deploying(c) => broken'[job[c].project]
             /\ Again(c) => broken' = broken
  <2>1. job[c].project \in Projects /\ broken[job[c].project] \in BOOLEAN
    BY <1>0 DEF Job, TypeOK
  <2>2. broken \in [Projects -> BOOLEAN]
    BY DEF TypeOK
  <2>3. broken'[job[c].project] = (broken[job[c].project] \/ (Deploying(c) /\ ~Again(c)))
    BY <1>3, <2>1, <2>2
  <2>4. Again(c) => broken'[job[c].project] = broken[job[c].project]
    BY <2>1, <2>3, Zenon
  <2>5. \A q \in Projects \ {job[c].project} : broken'[q] = broken[q]
    BY <1>3, <2>2
  <2>6. broken' \in [Projects -> BOOLEAN]
    BY <1>3, <2>1, <2>2 DEF Deploying
  <2>7. Again(c) => broken' = broken
    BY <2>2, <2>4, <2>5, <2>6
  <2> QED
    BY <2>3, <2>5, <2>7
<1>4. CASE /\ Matches(c)
           /\ Overwrite(c, n, [Drop(c) EXCEPT !.left = @ \ {n}, !.node = {}, !.tries = 0])
           /\ UNCHANGED broken
  <2>1. PICK j : j = Drop(c)
    OBVIOUS
  <2>2. /\ j \in Job /\ ~j.holds
        /\ j.stage = job[c].stage /\ j.left = job[c].left
        /\ j.prior = job[c].prior /\ j.want = job[c].want
        /\ j.kind = job[c].kind /\ j.project = job[c].project
        /\ j.config = job[c].config /\ j.part = job[c].part
    BY <1>2, <2>1
  <2>3. PICK mine : mine = [j EXCEPT !.left = @ \ {n}, !.node = {}, !.tries = 0]
    OBVIOUS
  <2>4. 0 \in 0 .. MAX_PUBLISH_RETRIES - 1
    BY StoreAssumption
  <2>5. /\ mine \in Job /\ ~mine.holds /\ mine.node = {}
        /\ mine.stage = job[c].stage /\ mine.left = job[c].left \ {n}
        /\ mine.prior = job[c].prior /\ mine.want = job[c].want
        /\ mine.kind = job[c].kind /\ mine.project = job[c].project
        /\ mine.config = job[c].config /\ mine.part = job[c].part
    BY <2>2, <2>3, <2>4 DEF Job
  <2>6. Overwrite(c, n, mine)
    BY <1>4, <2>1, <2>3
  <2>7. mine.node \subseteq mine.left
    BY <2>5
  <2> QED
    BY <1>0, <1>4, <2>5, <2>6, <2>7, PutPlan
<1>5. CASE /\ Becomes(c, Retry(c)) /\ UNCHANGED desired
           /\ broken' = [broken EXCEPT
                ![job[c].project] = @ \/ (Deploying(c) /\ ~Again(c))]
  <2>1. CASE Again(c)
    <3>1. PICK j : j = Retry(c)
      OBVIOUS
    <3>2. /\ j \in Job /\ ~j.holds
          /\ j.stage = job[c].stage /\ j.left = job[c].left /\ j.node = job[c].node
          /\ j.prior = job[c].prior /\ j.want = job[c].want
          /\ j.kind = job[c].kind /\ j.project = job[c].project
          /\ j.config = job[c].config /\ j.part = job[c].part
      BY <1>2, <2>1, <3>1
    <3>3. broken' = broken
      BY <1>3, <1>5, <2>1
    <3>4. /\ job'[c] = j
          /\ \A m \in Nodes : Has(m, job[c].project)' = Has(m, job[c].project)
      BY <1>5, <3>1, <3>2, NoWrite
    <3>5. ShapeOK(c)' /\ BaselineOK(c)'
      BY <1>0, <3>2, <3>4 DEF ShapeOK, BaselineOK, Deploying
    <3>6. PlanOK(c) => PlanOK(c)'
      <4>1. \A m \in Nodes : Result(c, m)' = Result(c, m)
        BY <3>2, <3>4 DEF Result, Deploying
      <4> QED
        BY <1>0, <3>2, <3>4, <4>1 DEF PlanOK
    <3>7. LockedOK(c) => LockedOK(c)'
      BY <1>0, <3>2, <3>4 DEF LockedOK, Deploying
    <3>8. /\ overlap[job[c].project] \/ PlanOK(c)
          /\ overlap[job[c].project] \/ broken[job[c].project] \/ LockedOK(c)
      BY <1>0 DEF PlanInv
    <3>9. j.stage # "idle" /\ Becomes(c, j)
      BY <1>0, <1>5, <3>1, <3>2
    <3> QED
      BY <1>0, <1>5, <3>2, <3>3, <3>5, <3>6, <3>7, <3>8, <3>9, GoesOn
  <2>2. CASE ~Again(c)
    <3>1. Finish(c)
      BY <1>2, <1>5, <2>2 DEF Finish
    <3>2. broken' = [broken EXCEPT ![job[c].project] = @ \/ Deploying(c)]
      BY <1>5, <2>2
    <3> QED
      BY <1>0, <1>5, <3>1, <3>2, EndOK
  <2> QED
    BY <2>1, <2>2
<1>6. CASE /\ Matches(c) /\ Overwrite(c, n, Retry(c))
           /\ broken' = [broken EXCEPT
                ![job[c].project] = @ \/ (Deploying(c) /\ ~Again(c))]
  <2>0. PICK mine : mine = Retry(c)
    OBVIOUS
  <2>1. mine \in Job /\ ~mine.holds /\ Overwrite(c, n, mine)
    BY <1>2, <1>6, <2>0
  <2>2. CASE Again(c)
    <3>1. /\ mine.stage = job[c].stage /\ mine.left = job[c].left
          /\ mine.node = job[c].node
          /\ mine.prior = job[c].prior /\ mine.want = job[c].want
          /\ mine.kind = job[c].kind /\ mine.project = job[c].project
          /\ mine.config = job[c].config /\ mine.part = job[c].part
      BY <1>2, <2>0, <2>2
    <3>2. mine.node \subseteq mine.left
      BY <1>0, <3>1 DEF ShapeOK
    <3> QED
      BY <1>0, <1>3, <1>6, <2>1, <3>1, <3>2, PutPlan
  <2>3. CASE ~Again(c)
    <3>1. mine.stage = "idle"
      BY <1>2, <2>0, <2>3
    <3> QED
      BY <1>0, <1>3, <1>6, <2>1, <2>3, <3>1, PutPlan
  <2> QED
    BY <2>2, <2>3
<1> QED
  BY <1>1, <1>4, <1>5, <1>6

(* The end of a command that writes the baseline: it has what is live.       *)
LEMMA SetLockPlan ==
    ASSUME TypeOK, PlanInv, NEW c \in CLIs, NEW locked, SetLock(c, locked),
           job[c].stage = "baseline", UNCHANGED <<desired, overlap, broken>>,
           \/ overlap[job[c].project] \/ broken[job[c].project]
           \/ Live(job[c].project) \subseteq locked
    PROVE  PlanInv'
<1>0. PICK p \in Projects : p = job[c].project
  BY DEF TypeOK, Job
<1>1. /\ job'[c] = Idle /\ Idle.stage = "idle" /\ ~Idle.holds
      /\ baseline'[p] = locked
      /\ \A q \in Projects \ {p} : baseline'[q] = baseline[q]
      /\ \A d \in CLIs \ {c} :
           job'[d] = [job[d] EXCEPT !.fresh = @ /\ ~(job[d].stage = "baseline" /\
                        job[d].holds /\ job[d].project = p)]
  BY <1>0 DEF SetLock, TypeOK, Idle
<1>2. ASSUME NEW d \in CLIs \ {c}
      PROVE  /\ \E b \in BOOLEAN : job'[d] = [job[d] EXCEPT !.fresh = b]
             /\ BaselineOK(d)'
             /\ Running(d, p) => overlap'[p]
  <2>1. job[d] \in Job /\ job[d].project \in Projects
    BY DEF TypeOK, Job
  <2>2. PICK b \in BOOLEAN : b = (job[d].fresh /\ ~(job[d].stage = "baseline" /\
                                    job[d].holds /\ job[d].project = p))
    OBVIOUS
  <2>3. job'[d] = [job[d] EXCEPT !.fresh = b]
    BY <1>1, <2>2
  <2>4. /\ job'[d].stage = job[d].stage /\ job'[d].holds = job[d].holds
        /\ job'[d].lock = job[d].lock /\ job'[d].project = job[d].project
        /\ job'[d].fresh = b
    BY <2>1, <2>3 DEF Job
  <2>5. job'[d].fresh /\ job[d].stage = "baseline" /\ job[d].holds =>
          job[d].fresh /\ job[d].project # p
    BY <2>2, <2>4, Zenon
  <2>6. BaselineOK(d)'
    <3> SUFFICES ASSUME job'[d].stage = "baseline", job'[d].holds, job'[d].fresh
                 PROVE  job'[d].lock = baseline'[job'[d].project]
      BY DEF BaselineOK
    <3>1. job[d].stage = "baseline" /\ job[d].holds
      BY <2>4
    <3>2. job[d].fresh /\ job[d].project # p
      BY <2>5, <3>1, Zenon
    <3>3. job[d].lock = baseline[job[d].project]
      BY <3>1, <3>2 DEF PlanInv, BaselineOK
    <3> QED
      BY <1>1, <2>1, <2>4, <3>2, <3>3
  <2>7. Running(d, p) => overlap[p]
    BY <1>0 DEF PlanInv, Running
  <2> QED
    BY <2>3, <2>6, <2>7
<1>3. \A n \in Nodes, q \in Projects : Has(n, q)' = Has(n, q)
  BY DEF Has
<1>4. Frame(c, p)
  <2>1. \A d \in CLIs \ {c} : \E b \in BOOLEAN : job'[d] = [job[d] EXCEPT !.fresh = b]
    BY <1>2
  <2>2. \A d \in CLIs \ {c} : Running(d, p) => overlap'[p]
    BY <1>2
  <2> QED
    BY <1>0, <1>1, <1>3, <2>1, <2>2 DEF Frame
<1>5. ShapeOK(c)' /\ BaselineOK(c)'
  BY <1>1 DEF ShapeOK, BaselineOK
<1>6. DeclaredOK(p)'
  BY <1>3 DEF PlanInv, DeclaredOK
<1>7. overlap'[p] \/ broken'[p] \/ CoveredOK(p)'
  <2>1. Live(p)' = Live(p)
    BY <1>3 DEF Live
  <2> QED
    BY <1>0, <1>1, <2>1 DEF CoveredOK
<1> QED
  BY <1>1, <1>2, <1>4, <1>5, <1>6, <1>7, FromFrame

(* The baseline stage of a command: writeConfigBaseline, and the two ways of  *)
(* updateBaseline.  What is live is among what it leaves locked.             *)
LEMMA BaselinePlan ==
    ASSUME TypeOK, PlanInv, NEW c \in CLIs,
           WriteBaseline(c) \/ ReadBaseline(c) \/ TrimBaseline(c)
    PROVE  PlanInv'
<1>0. /\ job[c] \in Job /\ ShapeOK(c) /\ job[c].stage = "baseline" /\ job[c].stage # "idle"
      /\ UNCHANGED <<desired, overlap, broken>>
  BY DEF TypeOK, PlanInv, WriteBaseline, ReadBaseline, TrimBaseline, jobOnly
<1>1. ASSUME ~overlap[job[c].project]
      PROVE  \A n \in Nodes : Has(n, job[c].project) = Result(c, n)
  BY <1>0, <1>1 DEF PlanInv, PlanOK, ShapeOK
<1>2. overlap[job[c].project] \/ broken[job[c].project] \/ LockedOK(c)
  BY <1>0 DEF PlanInv
<1>3. CASE WriteBaseline(c)
  <2>1. Deploying(c)
    BY <1>3 DEF WriteBaseline
  <2>2. ASSUME ~overlap[job[c].project], ~broken[job[c].project]
        PROVE  Live(job[c].project) \subseteq job[c].config
    <3>1. /\ UNION {job[c].want[n] : n \in Nodes} = job[c].part
          /\ job[c].part \subseteq job[c].config
      BY <1>0, <2>1 DEF ShapeOK
    <3>2. \A n \in Nodes : job[c].prior[n] \subseteq job[c].config
      BY <1>0, <1>2, <2>1, <2>2 DEF LockedOK
    <3>3. \A n \in Nodes : Result(c, n) \subseteq job[c].prior[n] \cup job[c].want[n]
      BY <2>1 DEF Result, Deploying
    <3> QED
      BY <1>1, <2>2, <3>1, <3>2, <3>3 DEF Live
  <2> QED
    BY <1>0, <1>3, <2>2, SetLockPlan DEF WriteBaseline
<1>4. CASE ReadBaseline(c)
  <2>1. ~Deploying(c) /\ UNCHANGED <<desired, baseline, overlap, broken>>
    BY <1>4 DEF ReadBaseline, jobOnly
  <2>2. CASE Finish(c)
    BY <1>0, <2>1, <2>2, EndOK
  <2>3. CASE Becomes(c, [job[c] EXCEPT !.holds = TRUE, !.fresh = TRUE,
                                       !.lock = baseline[job[c].project]])
    <3>1. PICK j : j = [job[c] EXCEPT !.holds = TRUE, !.fresh = TRUE,
                                      !.lock = baseline[job[c].project]]
      OBVIOUS
    <3>2. baseline[job[c].project] \in SUBSET Services
      BY <1>0 DEF TypeOK, Job
    <3>3. /\ j \in Job /\ j.stage = job[c].stage /\ j.left = job[c].left
          /\ j.prior = job[c].prior /\ j.want = job[c].want /\ j.kind = job[c].kind
          /\ j.project = job[c].project /\ j.config = job[c].config /\ j.part = job[c].part
          /\ j.node = job[c].node /\ j.lock = baseline[job[c].project]
      BY <1>0, <3>1, <3>2 DEF Job
    <3>4. /\ job'[c] = j
          /\ \A n \in Nodes : Has(n, job[c].project)' = Has(n, job[c].project)
      BY <1>0, <2>3, <3>1, <3>3, NoWrite
    <3>5. ShapeOK(c)' /\ BaselineOK(c)'
      BY <1>0, <2>1, <3>3, <3>4 DEF ShapeOK, BaselineOK, Deploying
    <3>6. ASSUME ~overlap[job[c].project] PROVE PlanOK(c)'
      <4>1. \A n \in Nodes : Result(c, n)' = Result(c, n)
        BY <3>3, <3>4 DEF Result, Deploying
      <4> QED
        BY <1>0, <1>1, <3>3, <3>4, <3>6, <4>1 DEF PlanOK
    <3>7. LockedOK(c)'
      BY <2>1, <3>3, <3>4 DEF LockedOK, Deploying
    <3> QED
      BY <1>0, <2>1, <2>3, <3>1, <3>3, <3>5, <3>6, <3>7, GoesOn
  <2> QED
    BY <1>4, <2>2, <2>3 DEF ReadBaseline
<1>5. CASE TrimBaseline(c)
  <2>0. ~Deploying(c) /\ job[c].kind \in {"destroy", "undeploy"} /\ job[c].holds
    BY <1>0, <1>5 DEF ShapeOK, TrimBaseline, Deploying, Job
  <2>1. CASE job[c].fresh /\ SetLock(c, Trimmed(c))
    <3>1. ASSUME ~overlap[job[c].project], ~broken[job[c].project]
          PROVE  Live(job[c].project) \subseteq Trimmed(c)
      <4>1. Live(job[c].project) \subseteq baseline[job[c].project]
        BY <1>0, <2>0, <3>1, Settled
      <4>2. job[c].lock = baseline[job[c].project]
        BY <1>0, <2>0, <2>1 DEF PlanInv, BaselineOK
      <4>3. \A n \in Nodes : Has(n, job[c].project) = job[c].prior[n] \ job[c].config
        BY <1>1, <2>0, <3>1 DEF Result, Deploying
      <4>4. Live(job[c].project) \cap job[c].config = {}
        BY <4>3 DEF Live
      <4>5. CASE job[c].kind = "undeploy"
        BY <4>1, <4>2, <4>4, <4>5 DEF Trimmed
      <4>6. CASE job[c].kind = "destroy"
        <5>1. Live(job[c].project) \subseteq job[c].config
          BY <1>0, <4>6 DEF PlanInv, DeclaredOK, ShapeOK, Live, Job
        <5> QED
          BY <4>4, <5>1
      <4> QED
        BY <2>0, <4>5, <4>6
    <3> QED
      BY <1>0, <2>1, <3>1, SetLockPlan
  <2>2. CASE Finish(c) /\ UNCHANGED baseline
    BY <1>0, <2>0, <2>2, EndOK
  <2>3. CASE /\ Again(c) /\ UNCHANGED baseline
             /\ Becomes(c, [Drop(c) EXCEPT !.tries = @ + 1, !.lock = {}])
    <3>1. PICK r : r = Retry(c)
      OBVIOUS
    <3>2. /\ r \in Job /\ ~r.holds
          /\ r.stage = job[c].stage /\ r.left = job[c].left /\ r.node = job[c].node
          /\ r.prior = job[c].prior /\ r.want = job[c].want
          /\ r.kind = job[c].kind /\ r.project = job[c].project
          /\ r.config = job[c].config /\ r.part = job[c].part
      BY <2>3, <3>1, RetrySame
    <3>3. PICK j : j = [r EXCEPT !.lock = {}]
      OBVIOUS
    <3>4. PICK d : d = Drop(c) /\ d \in Job
      BY RetrySame
    <3>5. r = [d EXCEPT !.tries = @ + 1]
      BY <2>3, <3>1, <3>4 DEF Retry
    <3>6. j = [d EXCEPT !.tries = @ + 1, !.lock = {}]
      BY <3>3, <3>4, <3>5 DEF Job
    <3>7. Becomes(c, j)
      BY <2>3, <3>4, <3>6
    <3>8. /\ j \in Job /\ ~j.holds
          /\ j.stage = job[c].stage /\ j.left = job[c].left /\ j.node = job[c].node
          /\ j.prior = job[c].prior /\ j.want = job[c].want
          /\ j.kind = job[c].kind /\ j.project = job[c].project
          /\ j.config = job[c].config /\ j.part = job[c].part
      BY <3>2, <3>3 DEF Job
    <3>9. /\ job'[c] = j
          /\ \A n \in Nodes : Has(n, job[c].project)' = Has(n, job[c].project)
      BY <1>0, <3>7, <3>8, NoWrite
    <3>10. ShapeOK(c)' /\ BaselineOK(c)'
      BY <1>0, <2>0, <3>8, <3>9 DEF ShapeOK, BaselineOK, Deploying
    <3>11. ASSUME ~overlap[job[c].project] PROVE PlanOK(c)'
      <4>1. \A n \in Nodes : Result(c, n)' = Result(c, n)
        BY <3>8, <3>9 DEF Result, Deploying
      <4> QED
        BY <1>0, <1>1, <3>8, <3>9, <3>11, <4>1 DEF PlanOK
    <3>12. LockedOK(c)'
      BY <2>0, <3>8, <3>9 DEF LockedOK, Deploying
    <3> QED
      BY <1>0, <2>3, <3>7, <3>8, <3>10, <3>11, <3>12, GoesOn
  <2> QED
    BY <1>5, <2>1, <2>2, <2>3 DEF TrimBaseline, Finish
<1> QED
  BY <1>3, <1>4, <1>5

(* What finished deploys leave is locked, and no command runs.               *)
LEMMA PlanInit == Init => PlanInv
<1> SUFFICES ASSUME Init PROVE PlanInv
  OBVIOUS
<1>1. \A c \in CLIs : job[c] = Idle /\ Idle.stage = "idle" /\ ~Idle.holds
  BY DEF Init, Idle
<1>2. \A c \in CLIs : job[c].stage = "idle" /\ ShapeOK(c) /\ BaselineOK(c)
  BY <1>1 DEF ShapeOK, BaselineOK
<1>3. ASSUME NEW p \in Projects PROVE DeclaredOK(p)
  <2> SUFFICES ASSUME NEW n \in Nodes, NEW s \in Has(n, p) PROVE s \in Declared[p]
    BY DEF DeclaredOK
  <2>1. PICK e : e = [project |-> p, service |-> s]
    OBVIOUS
  <2>2. e \in desired[n] /\ e.service = s /\ e.project = p
    BY <2>1 DEF Has
  <2>3. \A x \in desired[n] : x.service \in Declared[x.project]
    BY DEF Init
  <2> QED
    BY <2>2, <2>3
<1>4. \A p \in Projects : CoveredOK(p)
  BY DEF Init, CoveredOK
<1> QED
  BY <1>2, <1>3, <1>4 DEF PlanInv, Running

(* Every step of a command keeps to its plan.                                *)
LEMMA PlanStep == TypeOK /\ FreshOK /\ PlanInv /\ [Next]_vars => PlanInv'
<1> SUFFICES ASSUME TypeOK, FreshOK, PlanInv, [Next]_vars PROVE PlanInv'
  OBVIOUS
<1>1. ASSUME NEW c \in CLIs, Fail(c) PROVE PlanInv'
  BY <1>1, EndOK DEF Fail, Break
<1>2. CASE UNCHANGED vars
  BY <1>2 DEF vars, PlanInv, Running, DeclaredOK, CoveredOK, ShapeOK, BaselineOK, PlanOK,
     LockedOK, Result, Deploying, Has, Live
<1> QED
  BY <1>1, <1>2, StartPlan, ReadLockPlan, ScanPlan, CheckLockPlan, PlacePlan, RemovalPlan,
     NextStagePlan, ReadPlan, PutStepPlan, BaselinePlan DEF Next, Step

(* For any footprints, nodes, racing commands and faults: a deploy adds       *)
(* before cleanupVacatedNodes removes, a command that reached its baseline    *)
(* has published what it planned and nothing else, and the next deploy is     *)
(* compared with everything that is live.                                    *)
THEOREM PlansAreKept == Spec => []PublishedAsPlanned
<1>1. TypeOK /\ PlanInv => AdditionsFirst
  <2> SUFFICES ASSUME TypeOK, PlanInv, NEW c \in CLIs, job[c].stage = "vacate",
                      ~overlap[job[c].project], NEW s \in job[c].config
               PROVE  s \in Live(job[c].project)
    BY DEF AdditionsFirst
  <2>1. ShapeOK(c) /\ PlanOK(c)
    BY DEF PlanInv
  <2>2. UNION {job[c].want[n] : n \in Nodes} = job[c].config
    BY <2>1 DEF ShapeOK
  <2>3. PICK n \in Nodes : s \in job[c].want[n]
    BY <2>2
  <2>4. n \notin job[c].left
    BY <2>1, <2>3 DEF ShapeOK
  <2>5. Result(c, n) = job[c].want[n]
    BY <2>1 DEF ShapeOK, Result, Deploying
  <2>6. Has(n, job[c].project) = job[c].want[n]
    BY <2>1, <2>4, <2>5 DEF PlanOK
  <2> QED
    BY <2>3, <2>6 DEF Live
<1>2. TypeOK /\ PlanInv => DoneMeansDone
  <2> SUFFICES ASSUME TypeOK, PlanInv, NEW c \in CLIs, job[c].stage = "baseline",
                      ~overlap[job[c].project], NEW n \in Nodes
               PROVE  CASE job[c].kind = "deploy"  -> Has(n, job[c].project) = job[c].want[n]
                        [] job[c].kind = "partial" ->
                              Has(n, job[c].project) = job[c].prior[n] \cup job[c].want[n]
                        [] OTHER -> Has(n, job[c].project) = job[c].prior[n] \ job[c].config
    BY DEF DoneMeansDone
  <2>1. Has(n, job[c].project) = Result(c, n)
    BY DEF PlanInv, PlanOK, ShapeOK
  <2>2. Result(c, n) = CASE job[c].kind = "deploy" -> job[c].want[n]
                         [] job[c].kind = "partial" -> job[c].prior[n] \cup job[c].want[n]
                         [] OTHER -> job[c].prior[n] \ job[c].config
    BY DEF Result, Deploying
  <2> QED
    BY <2>1, <2>2
<1>3. TypeOK /\ PlanInv => LockCoversLive
  BY DEF PlanInv, CoveredOK, LockCoversLive
<1>4. TypeOK /\ PlanInv => PublishedAsPlanned
  BY <1>1, <1>2, <1>3 DEF PublishedAsPlanned
<1> QED
  BY <1>4, TypeInit, TypeStep, FreshInit, FreshStep, PlanInit, PlanStep, PTL DEF Spec

-----------------------------------------------------------------------------
(* The secrets, whose references a deploy publishes: for any environments,   *)
(* keys, processes and numbers of commands.                                  *)

(* The inductive invariant of the secrets.  What a command, a publish and a  *)
(* container look like, and that what has a number was numbered before: the  *)
(* values by the puts, the restarts by their publishes.                      *)
SecretCommand == [op : {"set", "rm", "deploy"}, env : SecretEnvs, keys : SUBSET SecretKeys,
                  left : SUBSET SecretKeys, state : {"first", "unregister"},
                  restart : BOOLEAN, gone : SUBSET SecretKeys]

PublishOK(p) ==
    p.up => p.refs \subseteq SecretKeys /\ p.restartAt \in 0 .. restarts

BoxOK(b) ==
    b.up => /\ b.stamp[2] \in 0 .. restarts
            /\ \A k \in b.stamp[1] : b.env[k] \in 0 .. puts

SecretType ==
    /\ puts \in Nat /\ restarts \in Nat
    /\ landed \subseteq SecretKeys
    /\ ssm \in [SecretEnvs -> [SecretKeys -> 0 .. puts]]
    /\ atRestart \in [SecretEnvs -> [SecretKeys -> 0 .. puts]]
    /\ removed \in [SecretEnvs -> SUBSET SecretKeys]
    /\ DOMAIN published = SecretEnvs /\ DOMAIN box = SecretEnvs
    /\ \A e \in SecretEnvs : PublishOK(published[e]) /\ BoxOK(box[e])
    /\ cmd \in [SecretCLIs -> {Secret!Idle} \cup SecretCommand]

(* What a set has done has landed; what a deploy has looked up is there, or  *)
(* was removed since it began.                                               *)
CommandOK(j) ==
    /\ j.op = "set" => j.keys \ j.left \subseteq landed
    /\ j.op = "deploy" =>
          \A k \in j.keys \ j.left : ssm[j.env][k] # 0 \/ k \in j.gone

(* Since a restart was published no value it referred to has become older,   *)
(* and a container that was started for it has one of them.                  *)
RotatedOK(e) ==
    /\ \A k \in SecretKeys : ssm[e][k] = 0 \/ ssm[e][k] >= atRestart[e][k]
    /\ published[e].up /\ box[e].up /\ published[e].restartAt # 0
         /\ box[e].stamp = Secret!ConfigStamp(published[e])
       => \A k \in published[e].refs : box[e].env[k] >= atRestart[e][k]

SecretInv ==
    /\ SecretType
    /\ Secret!ReferencesResolve
    /\ \A c \in SecretCLIs : CommandOK(cmd[c])
    /\ \A e \in SecretEnvs : RotatedOK(e)

(* Before any command there is nothing.                                      *)
LEMMA SecretInitInv == Secret!Init => SecretInv
<1> SUFFICES ASSUME Secret!Init PROVE SecretInv
  OBVIOUS
<1>1. SecretType
  BY DEF Secret!Init, SecretType, Secret!None, PublishOK, BoxOK, Secret!Idle
<1>2. Secret!ReferencesResolve
  BY DEF Secret!Init, Secret!ReferencesResolve, Secret!None
<1>3. \A c \in SecretCLIs : CommandOK(cmd[c])
  BY DEF Secret!Init, CommandOK, Secret!Idle
<1>4. \A e \in SecretEnvs : RotatedOK(e)
  BY DEF Secret!Init, RotatedOK, Secret!None
<1> QED
  BY <1>1, <1>2, <1>3, <1>4 DEF SecretInv

(* A step that is one command's own: what it writes is the list of keys in   *)
(* launch-pad.toml, at most.                                                 *)
LEMMA SecretTurn ==
    ASSUME SecretInv, NEW c \in SecretCLIs, NEW j \in {Secret!Idle} \cup SecretCommand,
           CommandOK(j), cmd' = [cmd EXCEPT ![c] = j], toml' \subseteq landed,
           UNCHANGED <<ssm, published, box, landed, removed, atRestart, restarts, puts>>
    PROVE  SecretInv'
<1>1. SecretType'
  BY DEF SecretInv, SecretType, PublishOK, BoxOK
<1>2. Secret!ReferencesResolve'
  BY DEF SecretInv, Secret!ReferencesResolve, Secret!Present
<1>3. \A d \in SecretCLIs : CommandOK(cmd[d])'
  <2>1. ASSUME NEW d \in SecretCLIs PROVE cmd'[d] = IF d = c THEN j ELSE cmd[d]
    BY DEF SecretInv, SecretType
  <2> QED
    BY <2>1 DEF SecretInv, CommandOK
<1>4. \A e \in SecretEnvs : RotatedOK(e)'
  BY DEF SecretInv, RotatedOK, Secret!ConfigStamp
<1> QED
  BY <1>1, <1>2, <1>3, <1>4 DEF SecretInv

(* A command that ends, however it does, leaves what it did.                 *)
LEMMA SecretEnd ==
    ASSUME SecretInv, NEW c \in SecretCLIs, cmd' = [cmd EXCEPT ![c] = Secret!Idle],
           toml' \subseteq landed,
           UNCHANGED <<ssm, published, box, landed, removed, atRestart, restarts, puts>>
    PROVE  SecretInv'
<1>1. CommandOK(Secret!Idle)
  BY DEF CommandOK, Secret!Idle
<1> QED
  BY <1>1, SecretTurn

(* A command starts with all of its keys to do.                              *)
LEMMA SecretStartInv ==
    ASSUME SecretInv, NEW c \in SecretCLIs, NEW j \in SecretCommand, j.left = j.keys,
           Secret!Start(c, j)
    PROVE  SecretInv'
<1>1. CommandOK(j)
  BY DEF CommandOK
<1>2. cmd' = [cmd EXCEPT ![c] = j] /\ toml' \subseteq landed
  BY DEF Secret!Start, SecretInv, Secret!ReferencesResolve
<1> QED
  BY <1>1, <1>2, SecretTurn DEF Secret!Start

(* A new value is newer than any.                                            *)
LEMMA SecretPutInv ==
    ASSUME SecretInv, NEW c \in SecretCLIs, NEW k \in SecretKeys, Secret!Put(c, k)
    PROVE  SecretInv'
<1> DEFINE e == cmd[c].env
           j == [cmd[c] EXCEPT !.left = @ \ {k}]
<1>0. cmd[c].op = "set" /\ cmd[c] \in SecretCommand /\ e \in SecretEnvs
  BY DEF Secret!Put, SecretInv, SecretType, SecretCommand, Secret!Idle
<1>1. /\ puts \in Nat /\ puts' = puts + 1
      /\ j \in SecretCommand /\ j.op = "set" /\ j.keys = cmd[c].keys /\ j.left = cmd[c].left \ {k}
  BY <1>0 DEF Secret!Put, SecretInv, SecretType, SecretCommand
<1>2. \A d \in SecretCLIs : cmd'[d] = IF d = c THEN j ELSE cmd[d]
  BY DEF Secret!Put, SecretInv, SecretType
<1>3. \A f \in SecretEnvs, l \in SecretKeys :
        ssm'[f][l] = IF f = e /\ l = k THEN puts + 1 ELSE ssm[f][l]
  BY <1>0 DEF Secret!Put, SecretInv, SecretType
<1>4. SecretType'
  <2>1. cmd' \in [SecretCLIs -> {Secret!Idle} \cup SecretCommand]
    BY <1>1 DEF Secret!Put, SecretInv, SecretType
  <2>2. 0 .. puts \subseteq 0 .. puts' /\ puts' \in 0 .. puts' /\ puts' \in Nat
    BY <1>1
  <2>3. ssm \in [SecretEnvs -> [SecretKeys -> 0 .. puts']]
    <3>1. ssm \in [SecretEnvs -> [SecretKeys -> 0 .. puts]]
      BY DEF SecretInv, SecretType
    <3>2. [SecretKeys -> 0 .. puts] \subseteq [SecretKeys -> 0 .. puts']
      BY <2>2
    <3> QED
      BY <3>1, <3>2
  <2>4. ssm' \in [SecretEnvs -> [SecretKeys -> 0 .. puts']]
    BY <2>2, <2>3, <1>0, <1>1 DEF Secret!Put
  <2>5. atRestart' \in [SecretEnvs -> [SecretKeys -> 0 .. puts']]
    BY <2>2 DEF Secret!Put, SecretInv, SecretType
  <2>6. \A f \in SecretEnvs : PublishOK(published[f])' /\ BoxOK(box[f])'
    BY <2>2 DEF Secret!Put, SecretInv, SecretType, PublishOK, BoxOK
  <2> QED
    BY <2>1, <2>2, <2>4, <2>5, <2>6 DEF Secret!Put, SecretInv, SecretType
<1>5. \A f \in SecretEnvs : Secret!Present(f) \subseteq Secret!Present(f)'
  BY <1>1, <1>3 DEF Secret!Present
<1>6. Secret!ReferencesResolve'
  BY <1>5 DEF Secret!Put, SecretInv, Secret!ReferencesResolve
<1>7. \A d \in SecretCLIs : CommandOK(cmd[d])'
  <2>1. \A d \in SecretCLIs : cmd[d].op = "deploy" => cmd[d].env \in SecretEnvs
    BY DEF SecretInv, SecretType, SecretCommand, Secret!Idle
  <2>2. CommandOK(cmd[c])'
    BY <1>1, <1>2 DEF Secret!Put, SecretInv, CommandOK
  <2>3. ASSUME NEW d \in SecretCLIs, d # c PROVE CommandOK(cmd[d])'
    <3>1. cmd'[d] = cmd[d] /\ CommandOK(cmd[d]) /\ landed \subseteq landed'
      BY <1>2, <2>3 DEF Secret!Put, SecretInv
    <3>2. \A l \in SecretKeys : cmd[d].op = "deploy" /\ ssm[cmd[d].env][l] # 0
                                 => ssm'[cmd[d].env][l] # 0
      BY <1>1, <1>3, <2>1
    <3>3. cmd[d].op = "deploy" => cmd[d].keys \subseteq SecretKeys
      BY DEF SecretInv, SecretType, SecretCommand, Secret!Idle
    <3> QED
      BY <3>1, <3>2, <3>3 DEF CommandOK
  <2> QED
    BY <2>2, <2>3
<1>8. \A f \in SecretEnvs : RotatedOK(f)'
  <2> SUFFICES ASSUME NEW f \in SecretEnvs PROVE RotatedOK(f)'
    OBVIOUS
  <2>1. RotatedOK(f) /\ atRestart' = atRestart /\ published' = published /\ box' = box
    BY DEF SecretInv, Secret!Put
  <2>2. \A l \in SecretKeys : atRestart[f][l] \in 0 .. puts
    BY DEF SecretInv, SecretType
  <2>3. \A l \in SecretKeys : ssm'[f][l] = 0 \/ ssm'[f][l] >= atRestart[f][l]
    BY <1>1, <1>3, <2>1, <2>2 DEF RotatedOK
  <2> QED
    BY <2>1, <2>3 DEF RotatedOK, Secret!ConfigStamp
<1> QED
  BY <1>4, <1>6, <1>7, <1>8 DEF SecretInv

(* A value is deleted: the deploys under way in its environment are told, so *)
(* to say, and so is what is published.                                      *)
LEMMA SecretDeleteInv ==
    ASSUME SecretInv, NEW c \in SecretCLIs, Secret!Delete(c) PROVE SecretInv'
<1>0. cmd[c].op = "rm" /\ cmd[c] \in SecretCommand /\ cmd[c].env \in SecretEnvs
  BY DEF Secret!Delete, SecretInv, SecretType, SecretCommand, Secret!Idle
<1>1. PICK k \in cmd[c].keys, e \in {cmd[c].env} :
        IF ssm[e][k] = 0
        THEN cmd' = [cmd EXCEPT ![c] = Secret!Idle] /\ UNCHANGED <<ssm, removed>>
        ELSE /\ ssm' = [ssm EXCEPT ![e][k] = 0]
             /\ removed' = [removed EXCEPT ![e] = @ \cup {k}]
             /\ cmd' = [d \in SecretCLIs |->
                          IF d = c THEN [cmd[c] EXCEPT !.state = "unregister"]
                          ELSE IF cmd[d].op = "deploy" /\ cmd[d].env = e
                               THEN [cmd[d] EXCEPT !.gone = @ \cup {k}] ELSE cmd[d]]
  BY Zenon DEF Secret!Delete
<1>2. toml' \subseteq landed /\ UNCHANGED <<toml, published, box, landed, atRestart, restarts, puts>>
  BY DEF Secret!Delete, SecretInv, Secret!ReferencesResolve
<1>3. CASE ssm[e][k] = 0
  BY <1>1, <1>2, <1>3, SecretEnd
<1>4. CASE ssm[e][k] # 0
  <2>0. k \in SecretKeys /\ e \in SecretEnvs
    BY <1>0, <1>1 DEF SecretCommand
  <2>1. \A f \in SecretEnvs, l \in SecretKeys :
          ssm'[f][l] = IF f = e /\ l = k THEN 0 ELSE ssm[f][l]
    BY <1>1, <1>4, <2>0 DEF SecretInv, SecretType
  <2>2. \A f \in SecretEnvs : removed'[f] = IF f = e THEN removed[f] \cup {k} ELSE removed[f]
    BY <1>1, <1>4, <2>0 DEF SecretInv, SecretType
  <2>3. \A f \in SecretEnvs :
          Secret!Present(f) \subseteq Secret!Present(f)' \cup (IF f = e THEN {k} ELSE {})
    BY <2>1 DEF Secret!Present
  <2>4. ASSUME NEW d \in SecretCLIs
        PROVE  cmd'[d] \in {Secret!Idle} \cup SecretCommand /\ CommandOK(cmd[d])'
    <3>1. cmd[d] \in {Secret!Idle} \cup SecretCommand /\ CommandOK(cmd[d])
      BY DEF SecretInv, SecretType
    <3>2. CASE d = c
      <4>1. cmd'[d] = [cmd[c] EXCEPT !.state = "unregister"]
        BY <1>1, <1>4, <3>2
      <4>2. cmd'[d] \in SecretCommand /\ cmd'[d].op = "rm"
        BY <1>0, <4>1 DEF SecretCommand
      <4> QED
        BY <4>2 DEF CommandOK
    <3>3. CASE d # c /\ cmd[d].op = "deploy" /\ cmd[d].env = e
      <4>0. cmd[d] \in SecretCommand
        BY <3>1, <3>3 DEF Secret!Idle
      <4>1. cmd'[d] = [cmd[d] EXCEPT !.gone = @ \cup {k}]
        BY <1>1, <1>4, <3>3
      <4>2. /\ cmd'[d] \in SecretCommand /\ cmd'[d].op = "deploy" /\ cmd'[d].env = e
            /\ cmd'[d].keys = cmd[d].keys /\ cmd'[d].left = cmd[d].left
            /\ cmd'[d].gone = cmd[d].gone \cup {k} /\ cmd[d].keys \subseteq SecretKeys
        BY <3>3, <4>0, <4>1, <2>0 DEF SecretCommand
      <4>3. \A l \in cmd[d].keys \ cmd[d].left : ssm[e][l] # 0 \/ l \in cmd[d].gone
        BY <3>1, <3>3 DEF CommandOK
      <4> QED
        BY <2>0, <2>1, <4>2, <4>3 DEF CommandOK
    <3>4. CASE d # c /\ ~(cmd[d].op = "deploy" /\ cmd[d].env = e)
      <4>1. cmd'[d] = cmd[d]
        BY <1>1, <1>4, <3>4
      <4>2. cmd[d].op = "deploy" =>
              cmd[d].env \in SecretEnvs /\ cmd[d].env # e /\ cmd[d].keys \subseteq SecretKeys
        BY <3>1, <3>4 DEF SecretCommand, Secret!Idle
      <4> QED
        BY <1>2, <2>1, <3>1, <4>1, <4>2 DEF CommandOK
    <3> QED
      BY <3>2, <3>3, <3>4
  <2>5. SecretType'
    <3>1. ssm' \in [SecretEnvs -> [SecretKeys -> 0 .. puts]]
      <4>1. puts \in Nat /\ ssm \in [SecretEnvs -> [SecretKeys -> 0 .. puts]]
        BY DEF SecretInv, SecretType
      <4>2. 0 \in 0 .. puts
        BY <4>1
      <4> QED
        BY <1>1, <1>4, <2>0, <4>1, <4>2
    <3>2. removed' \in [SecretEnvs -> SUBSET SecretKeys]
      BY <1>1, <1>4, <2>0 DEF SecretInv, SecretType
    <3>3. cmd' \in [SecretCLIs -> {Secret!Idle} \cup SecretCommand]
      BY <1>1, <1>4, <2>4
    <3> QED
      BY <1>2, <3>1, <3>2, <3>3 DEF SecretInv, SecretType, PublishOK, BoxOK
  <2>6. Secret!ReferencesResolve'
    <3>1. \A f \in SecretEnvs : published[f].up
            => published[f].refs \subseteq Secret!Present(f) \cup removed[f]
      BY DEF SecretInv, Secret!ReferencesResolve
    <3> QED
      BY <1>2, <2>2, <2>3, <3>1 DEF Secret!ReferencesResolve
  <2>7. \A f \in SecretEnvs : RotatedOK(f)'
    BY <1>2, <2>1 DEF SecretInv, RotatedOK, Secret!ConfigStamp
  <2> QED
    BY <2>4, <2>5, <2>6, <2>7 DEF SecretInv
<1> QED
  BY <1>3, <1>4

(* A publish: every key was looked up.  A restart is one no container was    *)
(* started for, and the values are those it is measured by.                  *)
LEMMA SecretPublishInv ==
    ASSUME SecretInv, NEW c \in SecretCLIs, Secret!Publish(c) PROVE SecretInv'
<1> PICK e \in SecretEnvs, p \in {Secret!ServiceConfig(c)} : e = cmd[c].env
  BY DEF Secret!Publish, SecretInv, SecretType, SecretCommand, Secret!Idle
<1>0. /\ cmd[c] \in SecretCommand /\ cmd[c].op = "deploy" /\ cmd[c].left = {}
      /\ cmd[c].keys \subseteq SecretKeys /\ cmd[c].gone \subseteq SecretKeys
  BY DEF Secret!Publish, SecretInv, SecretType, SecretCommand, Secret!Idle
<1>1. cmd[c].keys \subseteq Secret!Present(e) \cup cmd[c].gone
  BY <1>0 DEF SecretInv, CommandOK, Secret!Present
<1>2. /\ p.up /\ p.refs = cmd[c].keys
      /\ p.restartAt = IF cmd[c].restart THEN restarts + 1 ELSE 0
  BY DEF Secret!ServiceConfig
<1>3. /\ puts \in Nat /\ restarts \in Nat
      /\ restarts' = IF cmd[c].restart THEN restarts + 1 ELSE restarts
      /\ UNCHANGED <<ssm, toml, box, landed, puts>>
  BY DEF Secret!Publish, SecretInv, SecretType
<1>4. /\ DOMAIN published' = SecretEnvs
      /\ \A f \in SecretEnvs : published'[f] = IF f = e THEN p ELSE published[f]
  BY DEF Secret!Publish, SecretInv, SecretType
<1>5. /\ removed' \in [SecretEnvs -> SUBSET SecretKeys]
      /\ \A f \in SecretEnvs : removed'[f] = IF f = e THEN cmd[c].gone ELSE removed[f]
  BY <1>0 DEF Secret!Publish, SecretInv, SecretType
<1>6. /\ atRestart' \in [SecretEnvs -> [SecretKeys -> 0 .. puts]]
      /\ \A f \in SecretEnvs :
           atRestart'[f] = IF f = e /\ cmd[c].restart THEN ssm[e] ELSE atRestart[f]
  BY DEF Secret!Publish, SecretInv, SecretType
<1>7. /\ cmd' \in [SecretCLIs -> {Secret!Idle} \cup SecretCommand]
      /\ \A d \in SecretCLIs : cmd'[d] = IF d = c THEN Secret!Idle ELSE cmd[d]
  BY DEF Secret!Publish, SecretInv, SecretType
<1>8. restarts' \in Nat /\ p.restartAt \in 0 .. restarts' /\ 0 .. restarts \subseteq 0 .. restarts'
  <2>1. CASE cmd[c].restart
    BY <1>2, <1>3, <2>1
  <2>2. CASE ~cmd[c].restart
    BY <1>2, <1>3, <2>2
  <2> QED
    BY <2>1, <2>2
<1>9. SecretType'
  <2>1. \A f \in SecretEnvs : PublishOK(published[f])'
    <3>1. \A f \in SecretEnvs : PublishOK(published[f])
      BY DEF SecretInv, SecretType
    <3> QED
      BY <1>0, <1>2, <1>4, <1>8, <3>1 DEF PublishOK
  <2>2. \A f \in SecretEnvs : BoxOK(box[f])'
    <3>1. \A f \in SecretEnvs : BoxOK(box[f])
      BY DEF SecretInv, SecretType
    <3> QED
      BY <1>3, <1>8, <3>1 DEF BoxOK
  <2>3. DOMAIN box' = SecretEnvs /\ ssm' \in [SecretEnvs -> [SecretKeys -> 0 .. puts']]
    BY <1>3 DEF SecretInv, SecretType
  <2> QED
    BY <1>3, <1>4, <1>5, <1>6, <1>7, <1>8, <2>1, <2>2, <2>3 DEF SecretType, SecretInv
<1>10. Secret!ReferencesResolve'
  <2>1. \A f \in SecretEnvs : published[f].up
          => published[f].refs \subseteq Secret!Present(f) \cup removed[f]
    BY DEF SecretInv, Secret!ReferencesResolve
  <2>2. toml' \subseteq landed'
    BY <1>3 DEF SecretInv, Secret!ReferencesResolve
  <2> QED
    BY <1>1, <1>2, <1>3, <1>4, <1>5, <2>1, <2>2 DEF Secret!ReferencesResolve, Secret!Present
<1>11. \A d \in SecretCLIs : CommandOK(cmd[d])'
  BY <1>3, <1>7 DEF SecretInv, CommandOK, Secret!Idle
<1>12. ASSUME NEW f \in SecretEnvs PROVE RotatedOK(f)'
  <2>0. RotatedOK(f) /\ \A k \in SecretKeys : ssm[f][k] \in 0 .. puts
    BY DEF SecretInv, SecretType
  <2>1. \A k \in SecretKeys : ssm'[f][k] = 0 \/ ssm'[f][k] >= atRestart'[f][k]
    BY <1>3, <1>6, <2>0 DEF RotatedOK
  <2>2. CASE f # e
    <3>1. published'[f] = published[f] /\ atRestart'[f] = atRestart[f] /\ box'[f] = box[f]
      BY <1>3, <1>4, <1>6, <2>2
    <3> QED
      BY <2>0, <2>1, <3>1 DEF RotatedOK, Secret!ConfigStamp
  <2>3. CASE f = e /\ ~cmd[c].restart
    <3>1. published'[f].restartAt = 0
      BY <1>2, <1>4, <2>3
    <3> QED
      BY <2>1, <3>1 DEF RotatedOK
  <2>4. CASE f = e /\ cmd[c].restart
    <3>1. published'[f].restartAt = restarts + 1
      BY <1>2, <1>4, <2>4
    <3>2. box[f].up => box[f].stamp[2] # restarts + 1
      BY <1>3 DEF SecretInv, SecretType, BoxOK
    <3>3. ~(box'[f].up /\ box'[f].stamp = <<published'[f].refs, published'[f].restartAt>>)
      BY <1>3, <3>1, <3>2
    <3> QED
      BY <2>1, <3>3 DEF RotatedOK, Secret!ConfigStamp
  <2> QED
    BY <2>2, <2>3, <2>4
<1> QED
  BY <1>9, <1>10, <1>11, <1>12 DEF SecretInv

(* A container starts with the values there are, none of them older than at  *)
(* the restart it is started for.                                            *)
LEMMA SecretContainerInv ==
    ASSUME SecretInv, NEW e \in SecretEnvs, Secret!StartContainer(e) PROVE SecretInv'
<1> DEFINE b == [up |-> TRUE, stamp |-> Secret!ConfigStamp(published[e]),
                 env |-> [k \in published[e].refs |-> ssm[e][k]]]
<1>1. /\ box' = [box EXCEPT ![e] = b] /\ published[e].up
      /\ UNCHANGED <<ssm, toml, published, cmd, landed, removed, atRestart, restarts, puts>>
  BY DEF Secret!StartContainer
<1>2. \A f \in SecretEnvs : box'[f] = IF f = e THEN b ELSE box[f]
  BY <1>1 DEF SecretInv, SecretType
<1>3. published[e].refs \subseteq SecretKeys /\ published[e].restartAt \in 0 .. restarts
  BY <1>1 DEF SecretInv, SecretType, PublishOK
<1>4. /\ b.up /\ b.stamp[1] = published[e].refs /\ b.stamp[2] = published[e].restartAt
      /\ \A k \in published[e].refs : b.env[k] = ssm[e][k]
  BY DEF Secret!ConfigStamp
<1>5. \A k \in published[e].refs : ssm[e][k] # 0
  BY DEF Secret!StartContainer, Secret!Resolves, Secret!Present
<1> HIDE DEF b
<1>6. SecretType'
  <2>1. ASSUME NEW f \in SecretEnvs PROVE BoxOK(box[f])'
    <3>1. CASE f = e
      <4>1. \A k \in SecretKeys : ssm[e][k] \in 0 .. puts
        BY DEF SecretInv, SecretType
      <4> QED
        BY <1>1, <1>2, <1>3, <1>4, <3>1, <4>1 DEF BoxOK
    <3>2. CASE f # e
      BY <1>1, <1>2, <3>2 DEF SecretInv, SecretType, BoxOK
    <3> QED
      BY <3>1, <3>2
  <2>2. DOMAIN box' = SecretEnvs
    BY <1>1 DEF SecretInv, SecretType
  <2> QED
    BY <1>1, <2>1, <2>2 DEF SecretInv, SecretType, PublishOK
<1>7. Secret!ReferencesResolve'
  BY <1>1 DEF SecretInv, Secret!ReferencesResolve, Secret!Present
<1>8. \A d \in SecretCLIs : CommandOK(cmd[d])'
  BY <1>1 DEF SecretInv, CommandOK
<1>9. ASSUME NEW f \in SecretEnvs PROVE RotatedOK(f)'
  <2>0. RotatedOK(f)
    BY DEF SecretInv
  <2>1. CASE f = e
    <3>1. \A k \in published[e].refs : ssm[e][k] >= atRestart[e][k]
      BY <1>3, <1>5, <2>0, <2>1 DEF RotatedOK
    <3>2. \A k \in published[e].refs : box'[e].env[k] >= atRestart[e][k]
      BY <1>2, <1>4, <3>1
    <3> QED
      BY <1>1, <2>0, <2>1, <3>2 DEF RotatedOK
  <2>2. CASE f # e
    BY <1>1, <1>2, <2>0, <2>2 DEF RotatedOK, Secret!ConfigStamp
  <2> QED
    BY <2>1, <2>2
<1> QED
  BY <1>6, <1>7, <1>8, <1>9 DEF SecretInv

(* A container that is lost has nothing.                                     *)
LEMMA SecretLossInv ==
    ASSUME SecretInv, NEW e \in SecretEnvs, Secret!LoseContainer(e) PROVE SecretInv'
<1>1. /\ box' = [box EXCEPT ![e] = Secret!None]
      /\ UNCHANGED <<ssm, toml, published, cmd, landed, removed, atRestart, restarts, puts>>
  BY DEF Secret!LoseContainer
<1>2. \A f \in SecretEnvs : box'[f] = IF f = e THEN Secret!None ELSE box[f]
  BY <1>1 DEF SecretInv, SecretType
<1>3. ~Secret!None.up
  BY DEF Secret!None
<1>4. SecretType'
  BY <1>1, <1>2, <1>3 DEF SecretInv, SecretType, PublishOK, BoxOK
<1>5. Secret!ReferencesResolve'
  BY <1>1 DEF SecretInv, Secret!ReferencesResolve, Secret!Present
<1>6. \A d \in SecretCLIs : CommandOK(cmd[d])'
  BY <1>1 DEF SecretInv, CommandOK
<1>7. \A f \in SecretEnvs : RotatedOK(f)'
  BY <1>1, <1>2, <1>3 DEF SecretInv, RotatedOK, Secret!ConfigStamp
<1> QED
  BY <1>4, <1>5, <1>6, <1>7 DEF SecretInv

(* Every step keeps the invariant.                                           *)
LEMMA SecretStepInv == SecretInv /\ [Secret!Next]_(Secret!vars) => SecretInv'
<1> SUFFICES ASSUME SecretInv, [Secret!Next]_(Secret!vars) PROVE SecretInv'
  OBVIOUS
<1>1. CASE UNCHANGED Secret!vars
  <2>1. UNCHANGED <<ssm, toml, published, box, cmd, landed, removed, atRestart, restarts, puts>>
    BY <1>1 DEF Secret!vars
  <2> QED
    BY <2>1 DEF SecretInv, SecretType, PublishOK, BoxOK, Secret!ReferencesResolve, Secret!Present,
       CommandOK, RotatedOK, Secret!ConfigStamp
<1>2. ASSUME NEW c \in SecretCLIs, NEW e \in SecretEnvs, NEW k \in SecretKeys,
             Secret!RunSet(c, e, k) \/ Secret!RunRm(c, e, k)
      PROVE  SecretInv'
  <2>1. ASSUME NEW op \in {"set", "rm"}, Secret!Start(c, Secret!Command(op, e, {k}))
        PROVE  SecretInv'
    <3>1. /\ Secret!Command(op, e, {k}) \in SecretCommand
          /\ Secret!Command(op, e, {k}).left = Secret!Command(op, e, {k}).keys
      BY DEF Secret!Command, SecretCommand
    <3> QED
      BY <2>1, <3>1, SecretStartInv
  <2> QED
    BY <1>2, <2>1 DEF Secret!RunSet, Secret!RunRm
<1>3. ASSUME NEW c \in SecretCLIs, NEW e \in SecretEnvs, NEW ks \in SUBSET SecretKeys,
             Secret!RunImport(c, e, ks)
      PROVE  SecretInv'
  <2>1. /\ Secret!Command("set", e, ks) \in SecretCommand
        /\ Secret!Command("set", e, ks).left = Secret!Command("set", e, ks).keys
    BY DEF Secret!Command, SecretCommand
  <2> QED
    BY <1>3, <2>1, SecretStartInv DEF Secret!RunImport
<1>4. ASSUME NEW c \in SecretCLIs, NEW e \in SecretEnvs, NEW restart \in BOOLEAN,
             Secret!RunDeploy(c, e, restart)
      PROVE  SecretInv'
  <2> DEFINE j == [Secret!Command("deploy", e, toml) EXCEPT !.restart = restart]
  <2>1. toml \subseteq SecretKeys
    BY DEF SecretInv, SecretType, Secret!ReferencesResolve
  <2>2. j \in SecretCommand /\ j.left = j.keys
    BY <2>1 DEF Secret!Command, SecretCommand
  <2> QED
    BY <1>4, <2>2, SecretStartInv DEF Secret!RunDeploy
<1>5. ASSUME NEW c \in SecretCLIs, Secret!Register(c) \/ Secret!Unregister(c) PROVE SecretInv'
  <2>1. CommandOK(cmd[c]) /\ toml \subseteq landed
    BY DEF SecretInv, Secret!ReferencesResolve
  <2>2. CASE Secret!Register(c)
    <3>1. toml' \subseteq landed
      BY <2>1, <2>2 DEF Secret!Register, CommandOK
    <3> QED
      BY <2>2, <3>1, SecretEnd DEF Secret!Register
  <2>3. CASE Secret!Unregister(c)
    <3>1. toml' \subseteq landed
      BY <2>1, <2>3 DEF Secret!Unregister
    <3> QED
      BY <2>3, <3>1, SecretEnd DEF Secret!Unregister
  <2> QED
    BY <1>5, <2>2, <2>3
<1>6. ASSUME NEW c \in SecretCLIs, Secret!AssertSecretsPresent(c) PROVE SecretInv'
  <2>0. toml' \subseteq landed
    BY <1>6 DEF Secret!AssertSecretsPresent, SecretInv, Secret!ReferencesResolve
  <2>1. PICK batch \in Secret!Batches(cmd[c].left) :
          cmd' = [cmd EXCEPT ![c] = IF batch \subseteq Secret!Present(cmd[c].env)
                                    THEN [cmd[c] EXCEPT !.left = @ \ batch] ELSE Secret!Idle]
    BY <1>6, Zenon DEF Secret!AssertSecretsPresent
  <2>2. CASE ~(batch \subseteq Secret!Present(cmd[c].env))
    BY <1>6, <2>0, <2>1, <2>2, SecretEnd DEF Secret!AssertSecretsPresent
  <2>3. CASE batch \subseteq Secret!Present(cmd[c].env)
    <3> PICK j : j = [cmd[c] EXCEPT !.left = cmd[c].left \ batch]
      OBVIOUS
    <3>1. cmd[c].op = "deploy" /\ cmd[c] \in SecretCommand
      BY <1>6 DEF Secret!AssertSecretsPresent, SecretInv, SecretType, SecretCommand, Secret!Idle
    <3>2. /\ j \in SecretCommand /\ j.op = "deploy" /\ j.keys = cmd[c].keys /\ j.env = cmd[c].env
          /\ j.gone = cmd[c].gone /\ j.left = cmd[c].left \ batch
      BY <3>1 DEF SecretCommand
    <3>3. CommandOK(cmd[c])
      BY DEF SecretInv
    <3>4. cmd' = [cmd EXCEPT ![c] = j]
      BY <2>1, <2>3
    <3>5. CommandOK(j)
      BY <2>3, <3>1, <3>2, <3>3 DEF CommandOK, Secret!Present
    <3> QED
      BY <1>6, <2>0, <3>2, <3>4, <3>5, SecretTurn DEF Secret!AssertSecretsPresent
  <2> QED
    BY <2>2, <2>3
<1>7. ASSUME NEW c \in SecretCLIs, Secret!Fail(c) PROVE SecretInv'
  BY <1>7, SecretEnd DEF Secret!Fail, SecretInv, Secret!ReferencesResolve
<1> QED
  BY <1>1, <1>2, <1>3, <1>4, <1>5, <1>6, <1>7, SecretPutInv, SecretDeleteInv, SecretPublishInv,
     SecretContainerInv, SecretLossInv DEF Secret!Next

(* Whatever set, rm, import and deploy interleave with, and whichever of     *)
(* them breaks off: launch-pad.toml lists no key that was never stored; a    *)
(* reference that a deploy published has its value unless that was deleted   *)
(* after the deploy began; and a container started for a restart has values  *)
(* no older than those there were at its publish (secret/index.ts,           *)
(* deploy.ts:330-356, secrets.rs).                                           *)
THEOREM SecretsAlwaysArrive == Secret!Spec => []SecretsArrive
<1>1. SecretInv => SecretsArrive
  BY DEF SecretInv, RotatedOK, SecretsArrive, Secret!RestartRotates
<1> QED
  BY <1>1, SecretInitInv, SecretStepInv, PTL DEF Secret!Spec

-----------------------------------------------------------------------------
(* The account: that the policies of IAM allow the calls made under them.    *)

(* A set of calls that a policy allows, and the steps that it does not stop. *)
Allowed(policy, calls) == \A call \in calls : Iam!Granted(policy, call[1], call[2])

Passes(policy, s) == s.soft \/ Allowed(policy, s.needs)

(* A policy allows what it does not deny.                                    *)
LEMMA AllowedIsUndenied ==
    ASSUME NEW policy, NEW calls
    PROVE  Iam!Denied(policy, calls) = {} <=> Allowed(policy, calls)
BY DEF Iam!Denied, Allowed

(* A policy that grants each act on each resource allows them all.           *)
LEMMA AllowedProduct ==
    ASSUME NEW policy, NEW acts, NEW on,
           \A a \in acts, r \in on : Iam!Granted(policy, a, r)
    PROVE  Allowed(policy, acts \X on)
BY DEF Allowed

(* What a policy allows, it allows together.                                 *)
LEMMA AllowedUnion ==
    ASSUME NEW policy, NEW A, NEW B, Allowed(policy, A), Allowed(policy, B)
    PROVE  Allowed(policy, A \cup B)
BY DEF Allowed

(* What is in a statement is granted.                                        *)
LEMMA GrantGrants ==
    ASSUME NEW policy, NEW acts, NEW on, Iam!Grant(acts, on) \in policy,
           NEW a \in acts, NEW r \in on
    PROVE  Iam!Granted(policy, a, r)
<1>1. Iam!Grant(acts, on).acts = acts /\ Iam!Grant(acts, on).on = on
  BY DEF Iam!Grant
<1> QED
  BY <1>1 DEF Iam!Granted

\* what each kind of resource is granted
AccountActs == {"sts:GetCallerIdentity", "ecr:GetAuthorizationToken"}
BucketActs == {"s3:CreateBucket", "s3:ListBucket", "s3:PutBucketVersioning",
               "s3:PutEncryptionConfiguration", "s3:PutBucketPublicAccessBlock",
               "s3:PutBucketTagging"}
NodeActs == {"ec2:RunInstances", "ec2:StartInstances", "ec2:StopInstances",
             "ec2:TerminateInstances", "ec2:ModifyInstanceAttribute", "ec2:DescribeInstances",
             "ec2:DescribeInstanceTypes", "ec2:DescribeImages", "ec2:DescribeVpcs",
             "ec2:DescribeAddresses", "ec2:AllocateAddress", "ec2:AssociateAddress",
             "ec2:DisassociateAddress", "ec2:ReleaseAddress", "ec2:DescribeSecurityGroups",
             "ec2:CreateSecurityGroup", "ec2:DeleteSecurityGroup",
             "ec2:AuthorizeSecurityGroupIngress", "ec2:CreateTags"}
RoleActs == Iam!ManageRole \cup {"iam:PassRole", "iam:AttachRolePolicy", "iam:DetachRolePolicy",
             "iam:CreateInstanceProfile", "iam:DeleteInstanceProfile", "iam:GetInstanceProfile",
             "iam:TagInstanceProfile", "iam:AddRoleToInstanceProfile",
             "iam:RemoveRoleFromInstanceProfile"}
BuilderActs == {"codebuild:CreateProject", "codebuild:UpdateProject", "codebuild:DeleteProject",
             "codebuild:StartBuild", "codebuild:BatchGetBuilds", "logs:GetLogEvents",
             "logs:DeleteLogGroup"}
SecretActs == Iam!ReadSecret \cup {"ssm:GetParametersByPath", "ssm:PutParameter",
    "ssm:DeleteParameter"}
AmiActs == {"ssm:GetPublicParameter"}
ScriptActs == {"ssm:SendCommand", "ssm:GetCommandInvocation"}
TopicActs == {"sns:CreateTopic", "sns:SetTopicAttributes", "sns:Subscribe", "sns:Publish"}
QueueActs == {"sqs:CreateQueue", "sqs:GetQueueAttributes", "sqs:SetQueueAttributes"}

(* The operator's acts on the account as a whole.                            *)
LEMMA OperatorAccount ==
    ASSUME NEW a \in AccountActs \cup NodeActs \cup AmiActs
    PROVE  Iam!Granted(Iam!OperatorPolicy, a, Iam!Account)
<1>1. Iam!Grant(AccountActs, {Iam!Account}) \in Iam!OperatorPolicy
  BY DEF Iam!OperatorPolicy, Iam!OperatorState, AccountActs
<1>2. Iam!Grant(NodeActs, {Iam!Account}) \in Iam!OperatorPolicy
  BY DEF Iam!OperatorPolicy, Iam!OperatorNodes, NodeActs
<1>3. Iam!Grant(AmiActs, {Iam!Account}) \in Iam!OperatorPolicy
  BY DEF Iam!OperatorPolicy, Iam!OperatorServices, AmiActs
<1> QED
  BY <1>1, <1>2, <1>3, GrantGrants

(* Any of them together is allowed.                                          *)
LEMMA OperatorOnAccount ==
    ASSUME NEW acts \in SUBSET (AccountActs \cup NodeActs \cup AmiActs)
    PROVE  Allowed(Iam!OperatorPolicy, acts \X {Iam!Account})
<1>1. \A a \in acts, r \in {Iam!Account} : Iam!Granted(Iam!OperatorPolicy, a, r)
  BY OperatorAccount
<1> QED
  BY <1>1, AllowedProduct

(* The operator makes, hardens and lists the state bucket.                   *)
LEMMA OperatorBucket ==
    ASSUME NEW a \in BucketActs, NEW r \in {Iam!Bucket} \cup Iam!AllObjects
    PROVE  Iam!Granted(Iam!OperatorPolicy, a, r)
<1>1. Iam!Grant(BucketActs, {Iam!Bucket} \cup Iam!AllObjects) \in Iam!OperatorPolicy
  BY DEF Iam!OperatorPolicy, Iam!OperatorState, BucketActs
<1> QED
  BY <1>1, GrantGrants

(* The operator reads and writes every object of the state bucket.           *)
LEMMA OperatorObjects ==
    ASSUME NEW a \in Iam!ReadWrite, NEW r \in Iam!AllObjects
    PROVE  Iam!Granted(Iam!OperatorPolicy, a, r)
<1>1. Iam!Grant(Iam!ReadWrite, Iam!AllObjects) \in Iam!OperatorPolicy
  BY DEF Iam!OperatorPolicy, Iam!OperatorState
<1> QED
  BY <1>1, GrantGrants

(* The operator manages the repository of every project.                     *)
LEMMA OperatorRepo ==
    ASSUME NEW a \in Iam!ManageRepo, NEW p \in Repositories
    PROVE  Iam!Granted(Iam!OperatorPolicy, a, Iam!Repo(p))
<1>1. Iam!Grant(Iam!ManageRepo, {Iam!Repo(x) : x \in Repositories}) \in Iam!OperatorPolicy
  BY DEF Iam!OperatorPolicy, Iam!OperatorState
<1> QED
  BY <1>1, GrantGrants

(* The operator makes, passes and deletes the role of every node.            *)
LEMMA OperatorRoles ==
    ASSUME NEW a \in RoleActs, NEW c \in Clusters, NEW n \in Iam!NodeIds
    PROVE  Iam!Granted(Iam!OperatorPolicy, a, Iam!NodeRole(c, n))
<1>1. Iam!Grant(RoleActs, Iam!EachNode(Iam!NodeRole)) \in Iam!OperatorPolicy
  BY DEF Iam!OperatorPolicy, Iam!OperatorNodes, RoleActs
<1>2. Iam!NodeRole(c, n) \in Iam!EachNode(Iam!NodeRole)
  BY DEF Iam!EachNode
<1> QED
  BY <1>1, <1>2, GrantGrants

(* The operator's acts on builders, build roles, secrets and log groups.     *)
LEMMA OperatorServices ==
    ASSUME NEW c \in Clusters
    PROVE  /\ \A a \in BuilderActs : Iam!Granted(Iam!OperatorPolicy, a, Iam!Builder(c))
           /\ \A a \in Iam!ManageRole \cup {"iam:PassRole"} :
                 Iam!Granted(Iam!OperatorPolicy, a, Iam!BuildRole(c))
           /\ \A a \in SecretActs, o \in Iam!Owners :
                 Iam!Granted(Iam!OperatorPolicy, a, Iam!Secret(c, o))
           /\ Iam!Granted(Iam!OperatorPolicy, "logs:FilterLogEvents", Iam!Logs(c))
           /\ \A a \in TopicActs : Iam!Granted(Iam!OperatorPolicy, a, Iam!Topic(c))
           /\ \A a \in QueueActs, n \in Iam!NodeIds :
                 Iam!Granted(Iam!OperatorPolicy, a, Iam!Queue(c, n))
           /\ \A n \in Iam!NodeIds : \A a \in ScriptActs, r \in {Iam!ShellScript, Iam!Instance(c, n)} :
                 Iam!Granted(Iam!OperatorPolicy, a, r)
<1>1. Iam!Grant(BuilderActs, Iam!EachOne(Iam!Builder)) \in Iam!OperatorPolicy
  BY DEF Iam!OperatorPolicy, Iam!OperatorServices, BuilderActs
<1>2. Iam!Grant(Iam!ManageRole \cup {"iam:PassRole"}, Iam!EachOne(Iam!BuildRole))
          \in Iam!OperatorPolicy
  BY DEF Iam!OperatorPolicy, Iam!OperatorServices
<1>3. Iam!Grant(SecretActs, {Iam!Secret(x, o) : x \in Clusters, o \in Iam!Owners})
          \in Iam!OperatorPolicy
  BY DEF Iam!OperatorPolicy, Iam!OperatorServices, SecretActs
<1>4. Iam!Grant({"logs:FilterLogEvents"}, Iam!EachOne(Iam!Logs)) \in Iam!OperatorPolicy
  BY DEF Iam!OperatorPolicy, Iam!OperatorServices
<1>5. /\ Iam!Builder(c) \in Iam!EachOne(Iam!Builder)
      /\ Iam!BuildRole(c) \in Iam!EachOne(Iam!BuildRole)
      /\ Iam!Logs(c) \in Iam!EachOne(Iam!Logs)
  BY DEF Iam!EachOne
<1>6. \A a \in BuilderActs : Iam!Granted(Iam!OperatorPolicy, a, Iam!Builder(c))
  BY <1>1, <1>5, GrantGrants
<1>7. \A a \in Iam!ManageRole \cup {"iam:PassRole"} :
         Iam!Granted(Iam!OperatorPolicy, a, Iam!BuildRole(c))
  BY <1>2, <1>5, GrantGrants
<1>8. \A a \in SecretActs, o \in Iam!Owners :
         Iam!Granted(Iam!OperatorPolicy, a, Iam!Secret(c, o))
  BY <1>3, GrantGrants
<1>9. Iam!Granted(Iam!OperatorPolicy, "logs:FilterLogEvents", Iam!Logs(c))
  BY <1>4, <1>5, GrantGrants
<1>10. \A a \in TopicActs : Iam!Granted(Iam!OperatorPolicy, a, Iam!Topic(c))
  <2>1. Iam!Grant(TopicActs, Iam!EachOne(Iam!Topic)) \in Iam!OperatorPolicy
    BY DEF Iam!OperatorPolicy, Iam!OperatorServices, TopicActs
  <2>2. Iam!Topic(c) \in Iam!EachOne(Iam!Topic)
    BY DEF Iam!EachOne
  <2> QED
    BY <2>1, <2>2, GrantGrants
<1>11. \A a \in QueueActs, n \in Iam!NodeIds : Iam!Granted(Iam!OperatorPolicy, a, Iam!Queue(c, n))
  <2>1. Iam!Grant(QueueActs, Iam!EachNode(Iam!Queue)) \in Iam!OperatorPolicy
    BY DEF Iam!OperatorPolicy, Iam!OperatorServices, QueueActs
  <2>2. \A n \in Iam!NodeIds : Iam!Queue(c, n) \in Iam!EachNode(Iam!Queue)
    BY DEF Iam!EachNode
  <2> QED
    BY <2>1, <2>2, GrantGrants
<1>12. \A n \in Iam!NodeIds : \A a \in ScriptActs, r \in {Iam!ShellScript, Iam!Instance(c, n)} :
          Iam!Granted(Iam!OperatorPolicy, a, r)
  <2>1. Iam!Grant(ScriptActs, {Iam!ShellScript} \cup Iam!EachNode(Iam!Instance))
            \in Iam!OperatorPolicy
    BY DEF Iam!OperatorPolicy, Iam!OperatorServices, ScriptActs
  <2>2. \A n \in Iam!NodeIds : Iam!Instance(c, n) \in Iam!EachNode(Iam!Instance)
    BY DEF Iam!EachNode
  <2> QED
    BY <2>1, <2>2, GrantGrants
<1> QED
  BY <1>6, <1>7, <1>8, <1>9, <1>10, <1>11, <1>12

(* What `setup ci-deploy` grants a project on the account as a whole.        *)
LEMMA CiAccount ==
    ASSUME NEW c, NEW p, NEW a \in AccountActs \cup {"ec2:DescribeInstances"}
    PROVE  Iam!Granted(Iam!ProjectDeployPolicy(c, p), a, Iam!Account)
<1>1. Iam!Grant({"sts:GetCallerIdentity", "ecr:GetAuthorizationToken", "ec2:DescribeInstances",
                 "ssm:GetPublicParameter"}, {Iam!Account}) \in Iam!ProjectDeployPolicy(c, p)
  BY DEF Iam!ProjectDeployPolicy
<1> QED
  BY <1>1, GrantGrants DEF AccountActs

(* A project's CI lists and tags the bucket it finds.                        *)
LEMMA CiBucket ==
    ASSUME NEW c, NEW p, NEW a \in {"s3:ListBucket", "s3:PutBucketTagging"},
           NEW r \in {Iam!Bucket} \cup Iam!AllObjects
    PROVE  Iam!Granted(Iam!ProjectDeployPolicy(c, p), a, r)
<1>1. Iam!Grant({"s3:ListBucket", "s3:PutBucketTagging"}, {Iam!Bucket} \cup Iam!AllObjects)
        \in Iam!ProjectDeployPolicy(c, p)
  BY DEF Iam!ProjectDeployPolicy
<1> QED
  BY <1>1, GrantGrants

(* A project's CI reads and writes the objects of its cluster.               *)
LEMMA CiObjects ==
    ASSUME NEW c, NEW p, NEW a \in Iam!ReadWrite, NEW r \in Iam!Objects(c)
    PROVE  Iam!Granted(Iam!ProjectDeployPolicy(c, p), a, r)
<1>1. Iam!Grant(Iam!ReadWrite, Iam!Objects(c)) \in Iam!ProjectDeployPolicy(c, p)
  BY DEF Iam!ProjectDeployPolicy
<1> QED
  BY <1>1, GrantGrants

(* A project's CI manages the project's repository.                          *)
LEMMA CiRepo ==
    ASSUME NEW c, NEW p, NEW a \in Iam!ManageRepo
    PROVE  Iam!Granted(Iam!ProjectDeployPolicy(c, p), a, Iam!Repo(p))
<1>1. Iam!Grant(Iam!ManageRepo, {Iam!Repo(p)}) \in Iam!ProjectDeployPolicy(c, p)
  BY DEF Iam!ProjectDeployPolicy
<1> QED
  BY <1>1, GrantGrants

(* A project's CI reads the secrets of the project itself.                   *)
LEMMA CiSecret ==
    ASSUME NEW c, NEW p
    PROVE  Iam!Granted(Iam!ProjectDeployPolicy(c, p), "ssm:GetParameters",
               Iam!Secret(c, <<p, "itself">>))
<1>1. Iam!Grant(Iam!ReadSecret \cup {"ssm:GetParametersByPath"}, {Iam!Secret(c, <<p, "itself">>)})
        \in Iam!ProjectDeployPolicy(c, p)
  BY DEF Iam!ProjectDeployPolicy
<1> QED
  BY <1>1, GrantGrants DEF Iam!ReadSecret

(* What a resource is.                                                       *)
ResourceKind(r) == r[1]

(* What kind each resource outside the state bucket is of.                   *)
LEMMA KindsOfResources ==
    ASSUME NEW c, NEW n
    PROVE  /\ ResourceKind(Iam!Instance(c, n)) = "running instance"
           /\ ResourceKind(Iam!NodeRole(c, n)) = "node role"
           /\ ResourceKind(Iam!NodeUser(c, n)) = "node user"
           /\ ResourceKind(Iam!Queue(c, n)) = "SQS queue"
           /\ ResourceKind(Iam!Bucket) = "bucket"
           /\ ResourceKind(Iam!Backups) = "backups bucket"
           /\ ResourceKind(Iam!Topic(c)) = "SNS topic"
           /\ ResourceKind(Iam!TopicArn(c)) = "the topic's ARN in cluster.json"
           /\ ResourceKind(Iam!Repo(c)) = "ECR repository"
           /\ ResourceKind(Iam!BuildRole(c)) = "build role"
           /\ ResourceKind(Iam!Builder(c)) = "CodeBuild project"
           /\ ResourceKind(Iam!Build(c)) = "running build"
BY DEF ResourceKind, Iam!Instance, Iam!NodeRole, Iam!NodeUser, Iam!Queue, Iam!Bucket, Iam!Backups,
       Iam!Topic, Iam!TopicArn, Iam!Repo, Iam!BuildRole, Iam!Builder, Iam!Build

ObjectKinds == {"desired.json", "status.json", "node.json", "upstream shard", "cluster.json",
                "index", "project state", "build context"}

(* What kind each object of the state bucket is of.                          *)
LEMMA NamesOfObjects ==
    ASSUME NEW c, NEW n
    PROVE  /\ ResourceKind(Iam!Desired(c, n)) = "desired.json"
           /\ ResourceKind(Iam!Status(c, n)) = "status.json"
           /\ ResourceKind(Iam!Registry(c, n)) = "node.json"
           /\ ResourceKind(Iam!Shard(c, n)) = "upstream shard"
           /\ ResourceKind(Iam!Config(c)) = "cluster.json"
           /\ ResourceKind(Iam!Index(c, n)) = "index"
           /\ ResourceKind(Iam!Project(c, n)) = "project state"
           /\ ResourceKind(Iam!Context(c, n)) = "build context"
BY DEF ResourceKind, Iam!Desired, Iam!Status, Iam!Registry, Iam!Shard, Iam!Config, Iam!Index,
       Iam!Project, Iam!Context

(* The objects of a cluster are of those kinds.                              *)
LEMMA ObjectsHaveKinds ==
    ASSUME NEW c, NEW x \in Iam!Objects(c)
    PROVE  ResourceKind(x) \in ObjectKinds
<1>1. CASE x \in Iam!NodeObjects(c)
  <2>1. CASE x \in {Iam!Registry(c, n) : n \in Iam!NodeIds \cup {Iam!Host}}
    BY <2>1, NamesOfObjects DEF ObjectKinds
  <2>2. CASE x \in {Iam!Desired(c, n) : n \in Iam!NodeIds}
    BY <2>2, NamesOfObjects DEF ObjectKinds
  <2>3. CASE x \in {Iam!Status(c, n) : n \in Iam!NodeIds}
    BY <2>3, NamesOfObjects DEF ObjectKinds
  <2>4. CASE x \in {Iam!Shard(c, n) : n \in Iam!NodeIds}
    BY <2>4, NamesOfObjects DEF ObjectKinds
  <2> QED
    BY <1>1, <2>1, <2>2, <2>3, <2>4 DEF Iam!NodeObjects
<1>2. CASE x = Iam!Config(c)
  BY <1>2, NamesOfObjects DEF ObjectKinds
<1>5. CASE x \in {Iam!Index(c, p) : p \in Repositories}
  BY <1>5, NamesOfObjects DEF ObjectKinds
<1>3. CASE x \in {Iam!Project(c, o) : o \in Iam!Owners}
  BY <1>3, NamesOfObjects DEF ObjectKinds
<1>4. CASE x \in {Iam!Context(c, o) : o \in Iam!Owners}
  BY <1>4, NamesOfObjects DEF ObjectKinds
<1> QED
  BY <1>1, <1>2, <1>3, <1>4, <1>5 DEF Iam!Objects

(* The objects of a cluster are in the state bucket.                         *)
LEMMA ObjectsOfAll ==
    ASSUME NEW c \in Clusters
    PROVE  Iam!Objects(c) \subseteq Iam!AllObjects
BY DEF Iam!AllObjects

(* The step makes no instance and takes away neither a node's role nor the   *)
(* state bucket.                                                             *)
Harmless(s) ==
    /\ \A c \in Clusters, n \in Iam!NodeIds :
          Iam!Instance(c, n) \notin s.makes /\ Iam!NodeRole(c, n) \notin s.gone
    /\ Iam!Bucket \notin s.gone

(* A step is harmless by the kinds of what it makes and takes away.          *)
LEMMA HarmlessByKind ==
    ASSUME NEW s, \A x \in s.makes : ResourceKind(x) # "running instance",
           \A x \in s.gone : ResourceKind(x) \notin {"node role", "bucket"}
    PROVE  Harmless(s)
BY KindsOfResources DEF Harmless

GetList == {"s3:GetObject", "s3:ListBucket"}
GetListPut == {"s3:GetObject", "s3:ListBucket", "s3:PutObject"}

(* What reading objects calls, makes and takes away.                         *)
LEMMA ReadingIs ==
    ASSUME NEW objects
    PROVE  /\ Iam!Reading(objects).needs \subseteq GetList \X objects
           /\ Iam!Reading(objects).makes = {}
           /\ Iam!Reading(objects).gone = {}
BY DEF Iam!Reading, Iam!Step, Iam!Calling, GetList

(* What writing objects calls, makes and takes away.                         *)
LEMMA WritingIs ==
    ASSUME NEW objects
    PROVE  /\ Iam!Writing(objects).needs = {"s3:PutObject"} \X objects
           /\ Iam!Writing(objects).makes = objects
           /\ Iam!Writing(objects).gone = {}
BY DEF Iam!Writing, Iam!Step, Iam!Making

(* What a read and a write of objects call, make and take away.              *)
LEMMA UpdatingIs ==
    ASSUME NEW objects
    PROVE  /\ Iam!Updating(objects).needs \subseteq GetListPut \X objects
           /\ Iam!Updating(objects).makes = objects
           /\ Iam!Updating(objects).gone = {}
BY DEF Iam!Updating, Iam!After, Iam!Writing, Iam!Reading, Iam!Step, Iam!Calling, Iam!Making,
       GetListPut

(* What prepareAws does: a bucket that is there is only listed and tagged.   *)
LEMMA PrepareIs ==
    /\ Iam!PrepareAws.needs \subseteq ({"sts:GetCallerIdentity"} \X {Iam!Account})
           \cup (BucketActs \X {Iam!Bucket})
    /\ Iam!Bucket \in have =>
          Iam!PrepareAws.needs = ({"s3:ListBucket", "s3:PutBucketTagging"} \X {Iam!Bucket})
                                   \cup ({"sts:GetCallerIdentity"} \X {Iam!Account})
    /\ Iam!PrepareAws.makes = {Iam!Bucket}
    /\ Iam!PrepareAws.gone = {}
BY DEF Iam!PrepareAws, Iam!After, Iam!Identity, Iam!EnsureHardenedBucket, Iam!Step, Iam!Making,
       BucketActs

(* A topic that cannot be made costs a warning.                              *)
LEMMA TopicIs ==
    ASSUME NEW c
    PROVE  /\ Iam!EnsureTopic(c).needs \subseteq
                 (TopicActs \X {Iam!Topic(c)}) \cup ({"s3:PutObject"} \X {Iam!Config(c)})
           /\ Iam!EnsureTopic(c).soft \/ Iam!EnsureTopic(c).needs = {}
           /\ Iam!EnsureTopic(c).makes \subseteq {Iam!Topic(c), Iam!TopicArn(c)}
           /\ Iam!EnsureTopic(c).gone = {}
BY DEF Iam!EnsureTopic, Iam!Step, Iam!Making, Iam!Calling, Iam!BestEffort, TopicActs

(* Queues that cannot be made, and a notification that cannot be sent, cost  *)
(* one.                                                                      *)
LEMMA QueueIs ==
    ASSUME NEW c
    PROVE  /\ Iam!EnsureNodeQueue(c).needs \subseteq
                 (TopicActs \X {Iam!Topic(c)})
                     \cup (QueueActs \X {Iam!Queue(c, n) : n \in Iam!NodeIds})
           /\ Iam!PublishDeployNotification(c).needs \subseteq TopicActs \X {Iam!Topic(c)}
           /\ Iam!EnsureNodeQueue(c).soft
           /\ Iam!EnsureNodeQueue(c).makes = {Iam!Queue(c, n) : n \in Iam!NodeIds}
           /\ Iam!EnsureNodeQueue(c).gone = {}
           /\ Iam!PublishDeployNotification(c).soft
           /\ Iam!PublishDeployNotification(c).makes = {}
           /\ Iam!PublishDeployNotification(c).gone = {}
BY DEF Iam!EnsureNodeQueue, Iam!PublishDeployNotification, Iam!Step, Iam!Making, Iam!Calling,
       Iam!BestEffort, TopicActs, QueueActs

(* What is allowed is allowed in part.                                       *)
LEMMA AllowedSubset ==
    ASSUME NEW policy, NEW A, NEW B, A \subseteq B, Allowed(policy, B)
    PROVE  Allowed(policy, A)
BY DEF Allowed

(* Calls of two kinds are allowed when both kinds are.                       *)
LEMMA AllowedWithin ==
    ASSUME NEW policy, NEW A, NEW B, NEW C, C \subseteq A \cup B,
           Allowed(policy, A), Allowed(policy, B)
    PROVE  Allowed(policy, C)
BY DEF Allowed

(* No call needs no policy.                                                  *)
LEMMA AllowedNothing == ASSUME NEW policy PROVE Allowed(policy, {})
BY DEF Allowed

(* A larger policy allows no less.                                           *)
LEMMA AllowedMore ==
    ASSUME NEW policy, NEW more, policy \subseteq more, NEW calls, Allowed(policy, calls)
    PROVE  Allowed(more, calls)
BY DEF Allowed, Iam!Granted

(* A best-effort step goes without no call of the operator's that the        *)
(* property does not name.                                                   *)
Spares(s) == s.soft => Iam!Denied(Iam!OperatorPolicy, s.needs) \subseteq Iam!OperatorGoesWithout

OperatorMay(s) == Passes(Iam!OperatorPolicy, s) /\ Harmless(s) /\ Spares(s)

(* A step that is allowed goes without none.                                 *)
LEMMA AllowedSpares ==
    ASSUME NEW s, Allowed(Iam!OperatorPolicy, s.needs)
    PROVE  Passes(Iam!OperatorPolicy, s) /\ Spares(s)
<1>1. Iam!Denied(Iam!OperatorPolicy, s.needs) = {}
  BY AllowedIsUndenied
<1> QED
  BY <1>1 DEF Passes, Spares

(* And is one of the operator's, if it is harmless.                          *)
LEMMA AllowedMay ==
    ASSUME NEW s, Allowed(Iam!OperatorPolicy, s.needs), Harmless(s)
    PROVE  OperatorMay(s)
BY AllowedSpares DEF OperatorMay

(* A best-effort step that goes without named calls alone.                   *)
LEMMA SparesWithin ==
    ASSUME NEW s, s.soft, Harmless(s), NEW A, NEW B, s.needs \subseteq A \cup B,
           Allowed(Iam!OperatorPolicy, A), B \subseteq Iam!OperatorGoesWithout
    PROVE  OperatorMay(s)
<1>1. \A x \in A : Iam!Granted(Iam!OperatorPolicy, x[1], x[2])
  BY DEF Allowed
<1>2. Iam!Denied(Iam!OperatorPolicy, s.needs) \subseteq Iam!OperatorGoesWithout
  BY <1>1 DEF Iam!Denied
<1> QED
  BY <1>2 DEF OperatorMay, Passes, Spares

(* The operator is allowed to read and write objects, and to see one         *)
(* missing.                                                                  *)
LEMMA OperatorReads ==
    ASSUME NEW objects \in SUBSET Iam!AllObjects
    PROVE  Allowed(Iam!OperatorPolicy, GetListPut \X objects)
               /\ Allowed(Iam!OperatorPolicy, GetList \X objects)
<1>1. \A a \in GetListPut, r \in objects : Iam!Granted(Iam!OperatorPolicy, a, r)
  BY OperatorObjects, OperatorBucket DEF GetListPut, BucketActs, Iam!ReadWrite
<1>2. \A a \in GetList, r \in objects : Iam!Granted(Iam!OperatorPolicy, a, r)
  BY <1>1 DEF GetListPut, GetList
<1> QED
  BY <1>1, <1>2, AllowedProduct

(* Objects of the state bucket are neither nodes nor roles nor the bucket.   *)
LEMMA ObjectsAreHarmless ==
    ASSUME NEW objects \in SUBSET Iam!AllObjects
    PROVE  \A x \in objects : ResourceKind(x) \in ObjectKinds
BY ObjectsHaveKinds DEF Iam!AllObjects

(* prepareAws goes through for the operator.                                 *)
LEMMA OperatorPrepare == OperatorMay(Iam!PrepareAws)
<1>1. Allowed(Iam!OperatorPolicy, {"sts:GetCallerIdentity"} \X {Iam!Account})
  BY OperatorOnAccount DEF AccountActs
<1>2. Allowed(Iam!OperatorPolicy, BucketActs \X {Iam!Bucket})
  BY OperatorBucket, AllowedProduct
<1>3. Allowed(Iam!OperatorPolicy, Iam!PrepareAws.needs)
  BY <1>1, <1>2, AllowedWithin, PrepareIs
<1>4. Harmless(Iam!PrepareAws)
  BY PrepareIs, HarmlessByKind, KindsOfResources
<1> QED
  BY <1>3, <1>4, AllowedMay

(* So do the topic, the queues and the notification.                         *)
LEMMA OperatorTopic ==
    ASSUME NEW c \in Clusters
    PROVE  OperatorMay(Iam!EnsureTopic(c)) /\ OperatorMay(Iam!EnsureNodeQueue(c))
           /\ OperatorMay(Iam!PublishDeployNotification(c))
<1>1. Harmless(Iam!EnsureTopic(c))
  <2>1. \A x \in {Iam!Topic(c), Iam!TopicArn(c)} : ResourceKind(x) # "running instance"
    BY KindsOfResources
  <2>2. \A x \in Iam!EnsureTopic(c).makes : ResourceKind(x) # "running instance"
    BY <2>1, TopicIs
  <2>3. \A x \in Iam!EnsureTopic(c).gone : ResourceKind(x) \notin {"node role", "bucket"}
    BY TopicIs
  <2> QED
    BY <2>2, <2>3, HarmlessByKind
<1>2. Harmless(Iam!EnsureNodeQueue(c))
  <2>1. \A x \in Iam!EnsureNodeQueue(c).makes : ResourceKind(x) = "SQS queue"
    <3> TAKE x \in Iam!EnsureNodeQueue(c).makes
    <3>1. PICK n \in Iam!NodeIds : x = Iam!Queue(c, n)
      BY QueueIs
    <3> QED
      BY <3>1, KindsOfResources
  <2> QED
    BY <2>1, QueueIs, HarmlessByKind
<1>3. Harmless(Iam!PublishDeployNotification(c))
  BY QueueIs, HarmlessByKind
<1>4. Allowed(Iam!OperatorPolicy, TopicActs \X {Iam!Topic(c)})
  <2>1. \A a \in TopicActs, r \in {Iam!Topic(c)} : Iam!Granted(Iam!OperatorPolicy, a, r)
    BY OperatorServices
  <2> QED
    BY <2>1, AllowedProduct
<1>5. Allowed(Iam!OperatorPolicy, QueueActs \X {Iam!Queue(c, n) : n \in Iam!NodeIds})
  <2>1. \A a \in QueueActs, r \in {Iam!Queue(c, n) : n \in Iam!NodeIds} :
            Iam!Granted(Iam!OperatorPolicy, a, r)
    BY OperatorServices
  <2> QED
    BY <2>1, AllowedProduct
<1>6. Allowed(Iam!OperatorPolicy, {"s3:PutObject"} \X {Iam!Config(c)})
  <2>1. Iam!Config(c) \in Iam!AllObjects
    BY DEF Iam!AllObjects, Iam!Objects
  <2>2. \A a \in {"s3:PutObject"}, r \in {Iam!Config(c)} : Iam!Granted(Iam!OperatorPolicy, a, r)
    BY <2>1, OperatorObjects DEF Iam!ReadWrite
  <2> QED
    BY <2>2, AllowedProduct
<1>7. Allowed(Iam!OperatorPolicy, Iam!EnsureTopic(c).needs)
  BY <1>4, <1>6, TopicIs, AllowedWithin
<1>8. Allowed(Iam!OperatorPolicy, Iam!EnsureNodeQueue(c).needs)
  BY <1>4, <1>5, QueueIs, AllowedWithin
<1>9. Allowed(Iam!OperatorPolicy, Iam!PublishDeployNotification(c).needs)
  BY <1>4, QueueIs, AllowedSubset
<1> QED
  BY <1>1, <1>2, <1>3, <1>7, <1>8, <1>9, AllowedMay

(* So do updates and writes of objects.                                      *)
LEMMA OperatorUpdates ==
    ASSUME NEW objects \in SUBSET Iam!AllObjects
    PROVE  OperatorMay(Iam!Updating(objects)) /\ OperatorMay(Iam!Writing(objects))
<1>1. Allowed(Iam!OperatorPolicy, Iam!Updating(objects).needs)
  <2>1. Iam!Updating(objects).needs \subseteq GetListPut \X objects
    BY UpdatingIs
  <2>2. Allowed(Iam!OperatorPolicy, GetListPut \X objects)
    BY OperatorReads
  <2> QED
    BY <2>1, <2>2, AllowedSubset
<1>2. {"s3:PutObject"} \X objects \subseteq GetListPut \X objects
  BY DEF GetListPut
<1>3. Allowed(Iam!OperatorPolicy, Iam!Writing(objects).needs)
  <2>1. Iam!Writing(objects).needs \subseteq GetListPut \X objects
    BY <1>2, WritingIs
  <2>2. Allowed(Iam!OperatorPolicy, GetListPut \X objects)
    BY OperatorReads
  <2> QED
    BY <2>1, <2>2, AllowedSubset
<1>4. Harmless(Iam!Updating(objects)) /\ Harmless(Iam!Writing(objects))
  BY UpdatingIs, WritingIs, ObjectsAreHarmless, HarmlessByKind DEF ObjectKinds
<1> QED
  BY <1>1, <1>3, <1>4, AllowedMay

(* What a deploy's reads call.                                               *)
LEMMA DeployReadIs ==
    ASSUME NEW objects
    PROVE  LET s == Iam!After(Iam!Reading(objects),
               Iam!Step({"ec2:DescribeInstances"}, {Iam!Account})) IN
           /\ s.needs \subseteq (GetList \X objects)
                  \cup ({"ec2:DescribeInstances"} \X {Iam!Account})
           /\ s.makes = {} /\ s.gone = {}
BY DEF Iam!After, Iam!Reading, Iam!Step, Iam!Calling, GetList

(* The operator is allowed them.                                             *)
LEMMA OperatorDeployReads ==
    ASSUME NEW objects \in SUBSET Iam!AllObjects
    PROVE  OperatorMay(Iam!After(Iam!Reading(objects),
               Iam!Step({"ec2:DescribeInstances"}, {Iam!Account})))
<1> DEFINE s == Iam!After(Iam!Reading(objects), Iam!Step({"ec2:DescribeInstances"}, {Iam!Account}))
<1>1. Allowed(Iam!OperatorPolicy, {"ec2:DescribeInstances"} \X {Iam!Account})
  BY OperatorOnAccount DEF NodeActs
<1>2. /\ s.needs \subseteq (GetList \X objects) \cup ({"ec2:DescribeInstances"} \X {Iam!Account})
      /\ s.makes = {} /\ s.gone = {}
  BY DeployReadIs
<1> HIDE DEF s
<1>3. Allowed(Iam!OperatorPolicy, s.needs)
  <2>1. Allowed(Iam!OperatorPolicy, GetList \X objects)
    BY OperatorReads
  <2> QED
    BY <1>1, <1>2, <2>1, AllowedWithin
<1>4. Harmless(s)
  BY <1>2, HarmlessByKind
<1>5. OperatorMay(s)
  BY <1>3, <1>4, AllowedMay
<1> QED
  BY <1>5 DEF s

(* What the helpers of a deploy call, make and take away.                    *)
LEMMA LaunchIs ==
    ASSUME NEW c, NEW n
    PROVE  LET s == Iam!After(Iam!ResolveNodeAmi,
               Iam!After(Iam!PrepareLaunch, Iam!EnsureNodeIam(c, n))) IN
           /\ s.needs \subseteq (RoleActs \X {Iam!NodeRole(c, n)})
                  \cup ((NodeActs \cup AmiActs) \X {Iam!Account})
           /\ s.makes = {Iam!NodeRole(c, n)} /\ s.gone = {}
BY DEF Iam!After, Iam!ResolveNodeAmi, Iam!PrepareLaunch, Iam!EnsureNodeIam, Iam!Step, Iam!Making,
       RoleActs, NodeActs, AmiActs, Iam!ManageRole

(* What launching an instance calls and makes.                               *)
LEMMA RunNodeIs ==
    ASSUME NEW c, NEW n
    PROVE  /\ Iam!RunNode(c, n).needs \subseteq (RoleActs \X {Iam!NodeRole(c, n)})
               \cup (NodeActs \X {Iam!Account})
           /\ Iam!RunNode(c, n).makes = {Iam!Instance(c, n)} /\ Iam!RunNode(c, n).gone = {}
BY DEF Iam!RunNode, Iam!Step, Iam!Making, Iam!Calling, RoleActs, NodeActs

(* What registering a node with its address calls and makes.                 *)
LEMMA RegisterIs ==
    ASSUME NEW objects
    PROVE  LET s == Iam!After(Iam!EnsureEip, Iam!Writing(objects)) IN
           /\ s.needs \subseteq (GetListPut \X objects) \cup (NodeActs \X {Iam!Account})
           /\ s.makes = objects /\ s.gone = {}
BY DEF Iam!After, Iam!EnsureEip, Iam!Writing, Iam!Step, Iam!Making, NodeActs, GetListPut

(* What checking that the secrets are present calls.                         *)
LEMMA SecretReadIs ==
    ASSUME NEW c, NEW o
    PROVE  LET s == Iam!Step({"ssm:GetParameters"}, {Iam!Secret(c, o)}) IN
           s.needs = {"ssm:GetParameters"} \X {Iam!Secret(c, o)} /\ s.makes = {} /\ s.gone = {}
BY DEF Iam!Step

(* What looking for an image and its repository calls and makes.             *)
LEMMA RepositoryIs ==
    ASSUME NEW p
    PROVE  LET s == Iam!After(Iam!ImageExists(p), Iam!EnsureRepository(p)) IN
           s.needs \subseteq Iam!ManageRepo \X {Iam!Repo(p)} /\ s.makes = {Iam!Repo(p)}
               /\ s.gone = {}
BY DEF Iam!After, Iam!ImageExists, Iam!EnsureRepository, Iam!Step, Iam!Making, Iam!ManageRepo

(* What pushing an image calls.                                              *)
LEMMA DockerPushIs ==
    ASSUME NEW p
    PROVE  /\ Iam!DockerPush(p).needs \subseteq (Iam!ManageRepo \X {Iam!Repo(p)})
               \cup (AccountActs \X {Iam!Account})
           /\ Iam!DockerPush(p).makes = {} /\ Iam!DockerPush(p).gone = {}
BY DEF Iam!DockerPush, Iam!Step, Iam!Calling, Iam!ManageRepo, AccountActs

(* What preparing CodeBuild calls and makes.                                 *)
LEMMA RemoteBuildIs ==
    ASSUME NEW c
    PROVE  /\ Iam!EnsureRemoteBuildInfra(c).needs \subseteq
                 ((Iam!ManageRole \cup {"iam:PassRole"}) \X {Iam!BuildRole(c)})
                     \cup (BuilderActs \X {Iam!Builder(c)})
           /\ Iam!EnsureRemoteBuildInfra(c).makes = {Iam!BuildRole(c), Iam!Builder(c)}
           /\ Iam!EnsureRemoteBuildInfra(c).gone = {}
BY DEF Iam!EnsureRemoteBuildInfra, Iam!Step, Iam!Calling, Iam!Making, Iam!ManageRole, BuilderActs

(* What starting a build calls and makes.                                    *)
LEMMA StartBuildIs ==
    ASSUME NEW c
    PROVE  /\ Iam!StartBuild(c).needs \subseteq BuilderActs \X {Iam!Builder(c)}
           /\ Iam!StartBuild(c).makes = {Iam!Build(c)} /\ Iam!StartBuild(c).gone = {}
BY DEF Iam!StartBuild, Iam!Step, Iam!Making, BuilderActs

(* What follows a build, or the end of a cluster's builds, costs at most a   *)
(* warning.                                                                  *)
LEMMA CleanUpIs ==
    ASSUME NEW c, NEW o
    PROVE  /\ Iam!BuildLogTail(c).needs \subseteq BuilderActs \X {Iam!Builder(c)}
           /\ Iam!DeleteBuildContext(c, o).needs = {"s3:DeleteObject"} \X {Iam!Context(c, o)}
           /\ Iam!DeleteRemoteBuildInfra(c).needs \subseteq
                 ((Iam!ManageRole \cup {"iam:PassRole"}) \X {Iam!BuildRole(c)})
                     \cup (BuilderActs \X {Iam!Builder(c)})
           /\ Iam!BuildLogTail(c).soft /\ Iam!BuildLogTail(c).makes = {}
               /\ Iam!BuildLogTail(c).gone = {}
           /\ Iam!DeleteBuildContext(c, o).soft /\ Iam!DeleteBuildContext(c, o).makes = {}
           /\ Iam!DeleteBuildContext(c, o).gone = {Iam!Context(c, o)}
           /\ Iam!DeleteRemoteBuildInfra(c).soft /\ Iam!DeleteRemoteBuildInfra(c).makes = {}
           /\ Iam!DeleteRemoteBuildInfra(c).gone = {Iam!Builder(c), Iam!BuildRole(c)}
BY DEF Iam!BuildLogTail, Iam!DeleteBuildContext, Iam!DeleteRemoteBuildInfra, Iam!BestEffort,
       Iam!Step, Iam!Removing, Iam!Calling, BuilderActs, Iam!ManageRole

(* What a database with backups makes.                                       *)
LEMMA BackupsIs ==
    /\ Iam!EnsureHardenedBucket(Iam!Backups).makes = {Iam!Backups}
    /\ Iam!EnsureHardenedBucket(Iam!Backups).gone = {}
    /\ ~Iam!EnsureHardenedBucket(Iam!Backups).soft
BY DEF Iam!EnsureHardenedBucket, Iam!Step, Iam!Making

(* What those of the other commands do.                                      *)
LEMMA SecretsIs ==
    ASSUME NEW c, NEW o
    PROVE  LET s == Iam!After(Iam!Identity, Iam!Step(Iam!ReadSecret \cup {"ssm:PutParameter",
                        "ssm:GetParametersByPath", "ssm:DeleteParameter"}, {Iam!Secret(c, o)})) IN
           /\ s.needs \subseteq (SecretActs \X {Iam!Secret(c, o)})
                  \cup (AccountActs \X {Iam!Account})
           /\ s.makes = {} /\ s.gone = {}
BY DEF Iam!After, Iam!Identity, Iam!Step, SecretActs, AccountActs

(* What the commands that destroy or change nodes read first.                *)
LEMMA LookUpIs ==
    ASSUME NEW objects
    PROVE  LET s == Iam!After(Iam!Identity, Iam!Reading(objects)) IN
           /\ s.needs \subseteq (GetListPut \X objects) \cup (AccountActs \X {Iam!Account})
           /\ s.makes = {} /\ s.gone = {}
BY DEF Iam!After, Iam!Identity, Iam!Reading, Iam!Step, Iam!Calling, GetListPut, AccountActs

(* What ending a node and deleting its role take away.                       *)
LEMMA TearDownIs ==
    ASSUME NEW c, NEW n
    PROVE  /\ Iam!TearDownNode(c, n).needs \subseteq NodeActs \X {Iam!Account}
           /\ Iam!TearDownNode(c, n).makes = {}
                  /\ Iam!TearDownNode(c, n).gone = {Iam!Instance(c, n)}
           /\ Iam!TearDownNode(c, n).soft
           /\ Iam!DeleteNodeIam(c, n).needs \subseteq RoleActs \X {Iam!NodeRole(c, n)}
           /\ Iam!DeleteNodeIam(c, n).makes = {}
                  /\ Iam!DeleteNodeIam(c, n).gone = {Iam!NodeRole(c, n)}
           /\ Iam!DeleteNodeIam(c, n).soft
BY DEF Iam!TearDownNode, Iam!DeleteNodeIam, Iam!BestEffort, Iam!Step, Iam!Removing, NodeActs,
       RoleActs, Iam!ManageRole

\* what may be done to the user of an external node
UserActs == {"iam:ListAccessKeys", "iam:DeleteAccessKey", "iam:DeleteUserPolicy", "iam:DeleteUser"}

(* What deleting the user of an external node calls and takes away.          *)
LEMMA DeleteUserIs ==
    ASSUME NEW c, NEW n
    PROVE  LET s == Iam!DeleteExternalNodeIam(c, n) IN
           /\ s.needs \subseteq ({"s3:PutObject"} \X {Iam!Registry(c, n)})
                  \cup (UserActs \X {Iam!NodeUser(c, n)})
           /\ s.makes = {} /\ s.gone \subseteq {Iam!NodeUser(c, n)}
           /\ s.soft \/ s.needs = {}
BY DEF Iam!DeleteExternalNodeIam, Iam!BestEffort, Iam!Step, Iam!Removing, Iam!Calling, UserActs

(* What rotating its keys calls.                                             *)
LEMMA RotateIs ==
    ASSUME NEW c, NEW n
    PROVE  /\ ~Iam!CreateExternalNodeAccessKey(c, n).soft
           /\ Iam!CreateExternalNodeAccessKey(c, n).makes = {}
                  /\ Iam!CreateExternalNodeAccessKey(c, n).gone = {}
           /\ Iam!DeleteExternalNodeAccessKeysExcept(c, n).needs \subseteq
                 UserActs \X {Iam!NodeUser(c, n)}
           /\ Iam!DeleteExternalNodeAccessKeysExcept(c, n).soft
           /\ Iam!DeleteExternalNodeAccessKeysExcept(c, n).makes = {}
                  /\ Iam!DeleteExternalNodeAccessKeysExcept(c, n).gone = {}
BY DEF Iam!CreateExternalNodeAccessKey, Iam!DeleteExternalNodeAccessKeysExcept, Iam!BestEffort,
       Iam!Step, UserActs

(* What deleting the objects under a prefix takes away.                      *)
LEMMA DeletePrefixIs ==
    ASSUME NEW objects
    PROVE  /\ Iam!DeletePrefix(objects).soft /\ Iam!DeletePrefix(objects).makes = {}
           /\ Iam!DeletePrefix(objects).gone = objects
           /\ Iam!DeletePrefix(objects).needs = {"s3:ListBucket", "s3:DeleteObject"} \X objects
           /\ \A more : LET s == Iam!Removing(Iam!DeletePrefix(objects), more) IN
                 s.needs = Iam!DeletePrefix(objects).needs /\ s.makes = {} /\ s.gone = more
BY DEF Iam!DeletePrefix, Iam!BestEffort, Iam!Step, Iam!Removing

(* What resizing, pausing and resuming call and make.                        *)
LEMMA ModifyIs ==
    ASSUME NEW objects
    PROVE  LET s == Iam!After(Iam!ModifyInstance, Iam!Writing(objects)) IN
           /\ s.needs \subseteq (GetListPut \X objects) \cup (NodeActs \X {Iam!Account})
           /\ s.makes = objects /\ s.gone = {}
BY DEF Iam!After, Iam!ModifyInstance, Iam!Writing, Iam!Step, Iam!Making, NodeActs, GetListPut

(* What upgrading an agent calls and makes.                                  *)
LEMMA UpgradeIs ==
    ASSUME NEW c, NEW n
    PROVE  /\ Iam!BestEffort(Iam!EnsureNodeIam(c, n)).soft
           /\ Iam!BestEffort(Iam!EnsureNodeIam(c, n)).makes = {Iam!NodeRole(c, n)}
           /\ Iam!BestEffort(Iam!EnsureNodeIam(c, n)).gone = {}
           /\ Iam!BestEffort(Iam!EnsureNodeIam(c, n)).needs \subseteq RoleActs \X {Iam!NodeRole(c, n)}
           /\ Iam!FilterLogEvents(c).needs = {"logs:FilterLogEvents"} \X {Iam!Logs(c)}
           /\ Iam!FilterLogEvents(c).makes = {} /\ Iam!FilterLogEvents(c).gone = {}
BY DEF Iam!BestEffort, Iam!EnsureNodeIam, Iam!FilterLogEvents, Iam!Step, Iam!Making, RoleActs,
       Iam!ManageRole

(* What running the script and registering the version call and make.        *)
LEMMA ScriptIs ==
    ASSUME NEW c, NEW n, NEW objects
    PROVE  LET s == Iam!BestEffort(Iam!After(Iam!RunShellScript(c, n), Iam!Writing(objects))) IN
           /\ s.needs = ({"ssm:SendCommand"} \X {Iam!ShellScript, Iam!Instance(c, n)})
                  \cup ({"ssm:GetCommandInvocation"} \X {Iam!Account})
                  \cup ({"s3:PutObject"} \X objects)
           /\ s.soft /\ s.makes = objects /\ s.gone = {}
BY DEF Iam!BestEffort, Iam!After, Iam!RunShellScript, Iam!Writing, Iam!Step, Iam!Making, Iam!Calling

(* What enrolling an external node makes.                                    *)
LEMMA EnrollIs ==
    ASSUME NEW c, NEW n, NEW objects
    PROVE  LET s == Iam!After(Iam!Reading(objects), Iam!EnsureExternalNodeIam(c, n)) IN
           s.makes = {Iam!NodeUser(c, n)} /\ s.gone = {} /\ ~s.soft
BY DEF Iam!After, Iam!Reading, Iam!EnsureExternalNodeIam, Iam!Step, Iam!Making, Iam!Calling

(* A step that needs two kinds of calls, both allowed.                       *)
LEMMA MayWithin ==
    ASSUME NEW s, NEW A, NEW B, s.needs \subseteq A \cup B,
           Allowed(Iam!OperatorPolicy, A), Allowed(Iam!OperatorPolicy, B), Harmless(s)
    PROVE  OperatorMay(s)
<1>1. Allowed(Iam!OperatorPolicy, s.needs)
  BY AllowedWithin
<1> QED
  BY <1>1, AllowedMay

(* The same for one resource.                                                *)
LEMMA AllowedOn ==
    ASSUME NEW policy, NEW acts, NEW r, \A a \in acts : Iam!Granted(policy, a, r)
    PROVE  Allowed(policy, acts \X {r})
BY AllowedProduct

(* What the steps of the operator's commands call is allowed.                *)
LEMMA OperatorProducts ==
    ASSUME NEW c \in Clusters, NEW n \in Iam!NodeIds, NEW p \in Repositories, NEW o \in Iam!Owners
    PROVE  /\ Allowed(Iam!OperatorPolicy, RoleActs \X {Iam!NodeRole(c, n)})
           /\ Allowed(Iam!OperatorPolicy, (NodeActs \cup AmiActs) \X {Iam!Account})
           /\ Allowed(Iam!OperatorPolicy, NodeActs \X {Iam!Account})
           /\ Allowed(Iam!OperatorPolicy, AmiActs \X {Iam!Account})
           /\ Allowed(Iam!OperatorPolicy, AccountActs \X {Iam!Account})
           /\ Allowed(Iam!OperatorPolicy, Iam!ManageRepo \X {Iam!Repo(p)})
           /\ Allowed(Iam!OperatorPolicy, (Iam!ManageRole \cup {"iam:PassRole"})
                  \X {Iam!BuildRole(c)})
           /\ Allowed(Iam!OperatorPolicy, BuilderActs \X {Iam!Builder(c)})
           /\ Allowed(Iam!OperatorPolicy, SecretActs \X {Iam!Secret(c, o)})
           /\ Allowed(Iam!OperatorPolicy, {"ssm:GetParameters"} \X {Iam!Secret(c, o)})
           /\ Allowed(Iam!OperatorPolicy, {"logs:FilterLogEvents"} \X {Iam!Logs(c)})
<1>1. Allowed(Iam!OperatorPolicy, RoleActs \X {Iam!NodeRole(c, n)})
  <2>1. \A a \in RoleActs : Iam!Granted(Iam!OperatorPolicy, a, Iam!NodeRole(c, n))
    BY OperatorRoles
  <2> QED
    BY <2>1, AllowedOn
<1>2. Allowed(Iam!OperatorPolicy, (NodeActs \cup AmiActs) \X {Iam!Account})
  BY OperatorOnAccount
<1>3. /\ Allowed(Iam!OperatorPolicy, NodeActs \X {Iam!Account})
      /\ Allowed(Iam!OperatorPolicy, AmiActs \X {Iam!Account})
      /\ Allowed(Iam!OperatorPolicy, AccountActs \X {Iam!Account})
  BY OperatorOnAccount
<1>4. Allowed(Iam!OperatorPolicy, Iam!ManageRepo \X {Iam!Repo(p)})
  <2>1. \A a \in Iam!ManageRepo : Iam!Granted(Iam!OperatorPolicy, a, Iam!Repo(p))
    BY OperatorRepo
  <2> QED
    BY <2>1, AllowedOn
<1>5. Allowed(Iam!OperatorPolicy, (Iam!ManageRole \cup {"iam:PassRole"}) \X {Iam!BuildRole(c)})
  <2>1. \A a \in Iam!ManageRole \cup {"iam:PassRole"} :
          Iam!Granted(Iam!OperatorPolicy, a, Iam!BuildRole(c))
    BY OperatorServices
  <2> QED
    BY <2>1, AllowedOn
<1>6. Allowed(Iam!OperatorPolicy, BuilderActs \X {Iam!Builder(c)})
  <2>1. \A a \in BuilderActs : Iam!Granted(Iam!OperatorPolicy, a, Iam!Builder(c))
    BY OperatorServices
  <2> QED
    BY <2>1, AllowedOn
<1>7. Allowed(Iam!OperatorPolicy, SecretActs \X {Iam!Secret(c, o)})
  <2>1. \A a \in SecretActs : Iam!Granted(Iam!OperatorPolicy, a, Iam!Secret(c, o))
    BY OperatorServices
  <2> QED
    BY <2>1, AllowedOn
<1>8. Allowed(Iam!OperatorPolicy, {"ssm:GetParameters"} \X {Iam!Secret(c, o)})
  BY <1>7, AllowedSubset DEF SecretActs, Iam!ReadSecret
<1>9. Allowed(Iam!OperatorPolicy, {"logs:FilterLogEvents"} \X {Iam!Logs(c)})
  BY OperatorServices, AllowedProduct
<1> QED
  BY <1>1, <1>2, <1>3, <1>4, <1>5, <1>6, <1>7, <1>8, <1>9

(* The steps of an operator's commands that are neither node init's nor the  *)
(* bucket of a database, and that neither launch a node nor delete its role. *)
LEMMA OperatorLaunches ==
    ASSUME NEW c \in Clusters, NEW n \in Iam!NodeIds
    PROVE  /\ OperatorMay(Iam!After(Iam!ResolveNodeAmi,
               Iam!After(Iam!PrepareLaunch, Iam!EnsureNodeIam(c, n))))
           /\ Passes(Iam!OperatorPolicy, Iam!RunNode(c, n)) /\ Spares(Iam!RunNode(c, n))
           /\ OperatorMay(Iam!After(Iam!EnsureEip, Iam!Writing({Iam!Registry(c, n)})))
<1>0. {Iam!Registry(c, n)} \in SUBSET Iam!AllObjects
  BY DEF Iam!AllObjects, Iam!Objects, Iam!NodeObjects
<1>4. /\ Allowed(Iam!OperatorPolicy, RoleActs \X {Iam!NodeRole(c, n)})
      /\ Allowed(Iam!OperatorPolicy, (NodeActs \cup AmiActs) \X {Iam!Account})
      /\ Allowed(Iam!OperatorPolicy, NodeActs \X {Iam!Account})
  <2>1. \A a \in RoleActs : Iam!Granted(Iam!OperatorPolicy, a, Iam!NodeRole(c, n))
    BY OperatorRoles
  <2>2. \A a \in NodeActs \cup AmiActs : Iam!Granted(Iam!OperatorPolicy, a, Iam!Account)
    BY OperatorAccount
  <2> QED
    BY <2>1, <2>2, AllowedOn
<1> DEFINE launch == Iam!After(Iam!ResolveNodeAmi,
    Iam!After(Iam!PrepareLaunch, Iam!EnsureNodeIam(c, n)))
<1> DEFINE register == Iam!After(Iam!EnsureEip, Iam!Writing({Iam!Registry(c, n)}))
<1>1. OperatorMay(launch)
  <2>1. /\ launch.needs \subseteq (RoleActs \X {Iam!NodeRole(c, n)})
            \cup ((NodeActs \cup AmiActs) \X {Iam!Account})
        /\ launch.makes = {Iam!NodeRole(c, n)} /\ launch.gone = {}
    BY LaunchIs
  <2> HIDE DEF launch
  <2>2. Harmless(launch)
    BY <2>1, HarmlessByKind, KindsOfResources
  <2> QED
    BY <1>4, <2>1, <2>2, MayWithin
<1>2. Passes(Iam!OperatorPolicy, Iam!RunNode(c, n)) /\ Spares(Iam!RunNode(c, n))
  <2>1. Allowed(Iam!OperatorPolicy, Iam!RunNode(c, n).needs)
    BY <1>4, RunNodeIs, AllowedWithin
  <2> QED
    BY <2>1, AllowedSpares
<1>3. OperatorMay(register)
  <2>1. /\ register.needs \subseteq (GetListPut \X {Iam!Registry(c, n)})
            \cup (NodeActs \X {Iam!Account})
        /\ register.makes = {Iam!Registry(c, n)} /\ register.gone = {}
    BY RegisterIs
  <2> HIDE DEF register
  <2>2. Harmless(register)
    BY <2>1, HarmlessByKind, NamesOfObjects
  <2>3. Allowed(Iam!OperatorPolicy, GetListPut \X {Iam!Registry(c, n)})
    BY <1>0, OperatorReads
  <2> QED
    BY <1>4, <2>1, <2>2, <2>3, MayWithin
<1> QED
  BY <1>1, <1>2, <1>3

(* The steps of the operator's deploys that build images go through.         *)
LEMMA OperatorImages ==
    ASSUME NEW c \in Clusters, NEW p \in Repositories, NEW o \in Iam!Owners
    PROVE  /\ OperatorMay(Iam!After(Iam!ImageExists(p), Iam!EnsureRepository(p)))
           /\ OperatorMay(Iam!DockerPush(p))
           /\ OperatorMay(Iam!EnsureRemoteBuildInfra(c))
           /\ OperatorMay(Iam!StartBuild(c))
           /\ OperatorMay(Iam!BuildLogTail(c))
           /\ OperatorMay(Iam!DeleteBuildContext(c, o))
           /\ OperatorMay(Iam!DeleteRemoteBuildInfra(c))
           /\ OperatorMay(Iam!Step({"ssm:GetParameters"}, {Iam!Secret(c, o)}))
<1>n. "app" \in Iam!NodeIds
  BY DEF Iam!NodeIds
<1>p. /\ Allowed(Iam!OperatorPolicy, Iam!ManageRepo \X {Iam!Repo(p)})
      /\ Allowed(Iam!OperatorPolicy, BuilderActs \X {Iam!Builder(c)})
      /\ Allowed(Iam!OperatorPolicy, (Iam!ManageRole \cup {"iam:PassRole"}) \X {Iam!BuildRole(c)})
      /\ Allowed(Iam!OperatorPolicy, {"ssm:GetParameters"} \X {Iam!Secret(c, o)})
  BY <1>n, OperatorProducts
<1> DEFINE repo == Iam!After(Iam!ImageExists(p), Iam!EnsureRepository(p))
<1> DEFINE read == Iam!Step({"ssm:GetParameters"}, {Iam!Secret(c, o)})
<1>1. OperatorMay(repo)
  <2>1. repo.needs \subseteq Iam!ManageRepo \X {Iam!Repo(p)} /\ repo.makes = {Iam!Repo(p)}
            /\ repo.gone = {}
    BY RepositoryIs
  <2> HIDE DEF repo
  <2>2. Harmless(repo)
    BY <2>1, HarmlessByKind, KindsOfResources
  <2> QED
    BY <2>1, <2>2, <1>p, AllowedSubset, AllowedMay
<1>2. OperatorMay(Iam!DockerPush(p))
  <2>1. Harmless(Iam!DockerPush(p))
    BY DockerPushIs, HarmlessByKind
  <2> QED
    BY <2>1, <1>n, DockerPushIs, OperatorProducts, MayWithin
<1>3. OperatorMay(Iam!EnsureRemoteBuildInfra(c))
  <2>1. Harmless(Iam!EnsureRemoteBuildInfra(c))
    <3>1. \A x \in {Iam!BuildRole(c), Iam!Builder(c)} : ResourceKind(x) # "running instance"
      BY KindsOfResources
    <3> QED
      BY <3>1, RemoteBuildIs, HarmlessByKind
  <2> QED
    BY <2>1, <1>n, RemoteBuildIs, OperatorProducts, MayWithin
<1>4. OperatorMay(Iam!StartBuild(c))
  <2>1. Harmless(Iam!StartBuild(c))
    <3>1. ResourceKind(Iam!Build(c)) # "running instance"
      BY KindsOfResources
    <3> QED
      BY <3>1, StartBuildIs, HarmlessByKind
  <2> QED
    BY <2>1, <1>p, StartBuildIs, AllowedSubset, AllowedMay
<1>5. OperatorMay(Iam!BuildLogTail(c))
  <2>1. Harmless(Iam!BuildLogTail(c))
    BY CleanUpIs, HarmlessByKind
  <2> QED
    BY <2>1, <1>p, CleanUpIs, AllowedSubset, AllowedMay
<1>6. OperatorMay(Iam!DeleteBuildContext(c, o))
  <2>1. ResourceKind(Iam!Context(c, o)) = "build context"
    BY NamesOfObjects
  <2>2. Harmless(Iam!DeleteBuildContext(c, o))
    <3>1. Iam!DeleteBuildContext(c, o).gone = {Iam!Context(c, o)}
              /\ Iam!DeleteBuildContext(c, o).makes = {}
      BY CleanUpIs
    <3> QED
      BY <2>1, <3>1, HarmlessByKind
  <2>3. Iam!Context(c, o) \in Iam!AllObjects
    BY DEF Iam!AllObjects, Iam!Objects
  <2>4. \A a \in {"s3:DeleteObject"} : Iam!Granted(Iam!OperatorPolicy, a, Iam!Context(c, o))
    BY <2>3, OperatorObjects DEF Iam!ReadWrite
  <2>5. Allowed(Iam!OperatorPolicy, {"s3:DeleteObject"} \X {Iam!Context(c, o)})
    BY <2>4, AllowedOn
  <2>6. Iam!DeleteBuildContext(c, o).needs = {"s3:DeleteObject"} \X {Iam!Context(c, o)}
    BY CleanUpIs
  <2>7. Allowed(Iam!OperatorPolicy, Iam!DeleteBuildContext(c, o).needs)
    BY <2>5, <2>6
  <2> QED
    BY <2>2, <2>7, AllowedMay
<1>7. OperatorMay(Iam!DeleteRemoteBuildInfra(c))
  <2>1. \A x \in {Iam!Builder(c), Iam!BuildRole(c)} : ResourceKind(x) \notin {"node role", "bucket"}
    BY KindsOfResources
  <2>2. /\ Iam!DeleteRemoteBuildInfra(c).soft /\ Iam!DeleteRemoteBuildInfra(c).makes = {}
        /\ Iam!DeleteRemoteBuildInfra(c).gone = {Iam!Builder(c), Iam!BuildRole(c)}
    BY CleanUpIs
  <2>3. Harmless(Iam!DeleteRemoteBuildInfra(c))
    BY <2>1, <2>2, HarmlessByKind
  <2> QED
    BY <2>3, <1>p, CleanUpIs, MayWithin
<1>8. OperatorMay(read)
  <2>1. read.needs = {"ssm:GetParameters"} \X {Iam!Secret(c, o)} /\ read.makes = {}
            /\ read.gone = {}
    BY SecretReadIs
  <2> HIDE DEF read
  <2>2. Harmless(read)
    BY <2>1, HarmlessByKind
  <2> QED
    BY <2>1, <2>2, <1>p, AllowedMay
<1> QED
  BY <1>1, <1>2, <1>3, <1>4, <1>5, <1>6, <1>7, <1>8

(* The steps of the operator's commands on nodes go through.                 *)
LEMMA OperatorNodeSteps ==
    ASSUME NEW c \in Clusters, NEW n \in Iam!NodeIds, NEW o \in Iam!Owners,
           NEW objects \in SUBSET Iam!AllObjects
    PROVE  /\ OperatorMay(Iam!After(Iam!Identity, Iam!Reading(objects)))
           /\ OperatorMay(Iam!TearDownNode(c, n))
           /\ Allowed(Iam!OperatorPolicy, Iam!TearDownNode(c, n).needs)
           /\ Passes(Iam!OperatorPolicy, Iam!DeleteNodeIam(c, n)) /\ Spares(Iam!DeleteNodeIam(c, n))
           /\ OperatorMay(Iam!After(Iam!ModifyInstance, Iam!Writing(objects)))
           /\ OperatorMay(Iam!BestEffort(Iam!EnsureNodeIam(c, n)))
           /\ OperatorMay(Iam!BestEffort(Iam!After(Iam!RunShellScript(c, n), Iam!Writing(objects))))
           /\ OperatorMay(Iam!FilterLogEvents(c))
           /\ OperatorMay(Iam!Removing(Iam!DeletePrefix(objects), objects \cup {Iam!TopicArn(c)}))
           /\ OperatorMay(Iam!DeletePrefix(objects))
<1>r. Allowed(Iam!OperatorPolicy, RoleActs \X {Iam!NodeRole(c, n)})
  BY OperatorRoles, AllowedOn
<1>p. /\ Allowed(Iam!OperatorPolicy, NodeActs \X {Iam!Account})
      /\ Allowed(Iam!OperatorPolicy, AccountActs \X {Iam!Account})
  BY OperatorOnAccount
<1>o. Allowed(Iam!OperatorPolicy, GetListPut \X objects)
  BY OperatorReads
<1>k. \A x \in objects : ResourceKind(x) \in ObjectKinds
  BY ObjectsAreHarmless
<1> DEFINE look == Iam!After(Iam!Identity, Iam!Reading(objects))
<1> DEFINE modify == Iam!After(Iam!ModifyInstance, Iam!Writing(objects))
<1> DEFINE script == Iam!BestEffort(Iam!After(Iam!RunShellScript(c, n), Iam!Writing(objects)))
<1> DEFINE prefix == Iam!Removing(Iam!DeletePrefix(objects), objects \cup {Iam!TopicArn(c)})
<1> DEFINE refresh == Iam!BestEffort(Iam!EnsureNodeIam(c, n))
<1>1. OperatorMay(look)
  <2>1. /\ look.needs \subseteq (GetListPut \X objects) \cup (AccountActs \X {Iam!Account})
        /\ look.makes = {} /\ look.gone = {}
    BY LookUpIs
  <2> HIDE DEF look
  <2> QED
    BY <2>1, <1>p, <1>o, MayWithin, HarmlessByKind
<1>2. Allowed(Iam!OperatorPolicy, Iam!TearDownNode(c, n).needs)
  BY <1>p, TearDownIs, AllowedSubset
<1>3. OperatorMay(Iam!TearDownNode(c, n))
  <2>1. Harmless(Iam!TearDownNode(c, n))
    <3>1. ResourceKind(Iam!Instance(c, n)) = "running instance"
      BY KindsOfResources
    <3>2. Iam!TearDownNode(c, n).gone = {Iam!Instance(c, n)} /\ Iam!TearDownNode(c, n).makes = {}
      BY TearDownIs
    <3> QED
      BY <3>1, <3>2, HarmlessByKind
  <2> QED
    BY <1>2, <2>1, AllowedMay
<1>4. Passes(Iam!OperatorPolicy, Iam!DeleteNodeIam(c, n)) /\ Spares(Iam!DeleteNodeIam(c, n))
  <2>1. Allowed(Iam!OperatorPolicy, Iam!DeleteNodeIam(c, n).needs)
    BY <1>r, TearDownIs, AllowedSubset
  <2> QED
    BY <2>1, AllowedSpares
<1>5. OperatorMay(modify)
  <2>1. /\ modify.needs \subseteq (GetListPut \X objects) \cup (NodeActs \X {Iam!Account})
        /\ modify.makes = objects /\ modify.gone = {}
    BY ModifyIs
  <2> HIDE DEF modify
  <2>2. Harmless(modify)
    BY <2>1, <1>k, HarmlessByKind DEF ObjectKinds
  <2> QED
    BY <2>1, <2>2, <1>p, <1>o, MayWithin
<1>6. OperatorMay(refresh)
  <2>1. /\ refresh.needs \subseteq RoleActs \X {Iam!NodeRole(c, n)}
        /\ refresh.makes = {Iam!NodeRole(c, n)} /\ refresh.gone = {}
    BY UpgradeIs
  <2> HIDE DEF refresh
  <2>2. Harmless(refresh)
    BY <2>1, HarmlessByKind, KindsOfResources
  <2>3. Allowed(Iam!OperatorPolicy, refresh.needs)
    BY <2>1, <1>r, AllowedSubset
  <2> QED
    BY <2>2, <2>3, AllowedMay
<1>7. OperatorMay(script)
  <2> DEFINE A == ({"ssm:SendCommand"} \X {Iam!ShellScript, Iam!Instance(c, n)})
                      \cup ({"s3:PutObject"} \X objects)
  <2> DEFINE B == {"ssm:GetCommandInvocation"} \X {Iam!Account}
  <2>1. script.needs \subseteq A \cup B /\ script.soft /\ script.makes = objects /\ script.gone = {}
    BY ScriptIs
  <2>2. Allowed(Iam!OperatorPolicy, A)
    <3>1. \A a \in {"ssm:SendCommand"}, r \in {Iam!ShellScript, Iam!Instance(c, n)} :
             Iam!Granted(Iam!OperatorPolicy, a, r)
      BY OperatorServices DEF ScriptActs
    <3>2. Allowed(Iam!OperatorPolicy, {"ssm:SendCommand"} \X {Iam!ShellScript, Iam!Instance(c, n)})
      BY <3>1, AllowedProduct
    <3>3. {"s3:PutObject"} \X objects \subseteq GetListPut \X objects
      BY DEF GetListPut
    <3>4. Allowed(Iam!OperatorPolicy, {"s3:PutObject"} \X objects)
      BY <3>3, <1>o, AllowedSubset
    <3> QED
      BY <3>2, <3>4, AllowedUnion
  <2>3. B \subseteq Iam!OperatorGoesWithout
    BY DEF Iam!OperatorGoesWithout
  <2> HIDE DEF script, A, B
  <2>4. Harmless(script)
    BY <2>1, <1>k, HarmlessByKind DEF ObjectKinds
  <2> QED
    BY <2>1, <2>2, <2>3, <2>4, SparesWithin
<1>8. OperatorMay(Iam!FilterLogEvents(c))
  <2>1. Harmless(Iam!FilterLogEvents(c))
    BY UpgradeIs, HarmlessByKind
  <2>2. Allowed(Iam!OperatorPolicy, {"logs:FilterLogEvents"} \X {Iam!Logs(c)})
    BY OperatorServices, AllowedProduct
  <2> QED
    BY <2>1, <2>2, UpgradeIs, AllowedMay
<1>d. Allowed(Iam!OperatorPolicy, {"s3:ListBucket", "s3:DeleteObject"} \X objects)
  <2>1. \A a \in {"s3:ListBucket", "s3:DeleteObject"}, r \in objects :
           Iam!Granted(Iam!OperatorPolicy, a, r)
    BY OperatorObjects, OperatorBucket DEF BucketActs, Iam!ReadWrite
  <2> QED
    BY <2>1, AllowedProduct
<1>9. OperatorMay(prefix)
  <2>1. \A x \in objects \cup {Iam!TopicArn(c)} : ResourceKind(x) \notin {"node role", "bucket"}
    BY <1>k, KindsOfResources DEF ObjectKinds
  <2>2. /\ prefix.needs = {"s3:ListBucket", "s3:DeleteObject"} \X objects
        /\ prefix.makes = {} /\ prefix.gone = objects \cup {Iam!TopicArn(c)}
    BY DeletePrefixIs
  <2> HIDE DEF prefix
  <2>3. Harmless(prefix)
    BY <2>1, <2>2, HarmlessByKind
  <2> QED
    BY <2>2, <2>3, <1>d, AllowedMay
<1>10. OperatorMay(Iam!DeletePrefix(objects))
  <2>1. \A x \in objects : ResourceKind(x) \notin {"node role", "bucket"}
    BY <1>k DEF ObjectKinds
  <2>2. Harmless(Iam!DeletePrefix(objects))
    BY <2>1, DeletePrefixIs, HarmlessByKind
  <2> QED
    BY <2>2, <1>d, DeletePrefixIs, AllowedMay
<1> QED
  BY <1>1, <1>2, <1>3, <1>4, <1>5, <1>6, <1>7, <1>8, <1>9, <1>10

(* What it does to an external node's user costs at most a warning.          *)
LEMMA OperatorHosts ==
    ASSUME NEW c \in Clusters
    PROVE  OperatorMay(Iam!DeleteExternalNodeIam(c, Iam!Host))
           /\ OperatorMay(Iam!DeleteExternalNodeAccessKeysExcept(c, Iam!Host))
<1> DEFINE user == Iam!DeleteExternalNodeIam(c, Iam!Host)
<1> DEFINE keys == Iam!DeleteExternalNodeAccessKeysExcept(c, Iam!Host)
<1> DEFINE put == {"s3:PutObject"} \X {Iam!Registry(c, Iam!Host)}
<1> DEFINE mine == UserActs \X {Iam!NodeUser(c, Iam!Host)}
<1>1. Allowed(Iam!OperatorPolicy, put)
  <2>1. Iam!Registry(c, Iam!Host) \in Iam!AllObjects
    BY DEF Iam!AllObjects, Iam!Objects, Iam!NodeObjects
  <2>2. \A a \in {"s3:PutObject"} : Iam!Granted(Iam!OperatorPolicy, a, Iam!Registry(c, Iam!Host))
    BY <2>1, OperatorObjects DEF Iam!ReadWrite
  <2> QED
    BY <2>2, AllowedOn
<1>2. mine \subseteq Iam!OperatorGoesWithout
  BY DEF Iam!OperatorGoesWithout, UserActs
<1>3. ResourceKind(Iam!NodeUser(c, Iam!Host)) = "node user"
  BY KindsOfResources
<1>4. /\ user.needs \subseteq put \cup mine
      /\ user.makes = {} /\ user.gone \subseteq {Iam!NodeUser(c, Iam!Host)}
      /\ user.soft \/ user.needs = {}
  BY DeleteUserIs
<1>5. keys.needs \subseteq mine /\ keys.soft /\ keys.makes = {} /\ keys.gone = {}
  BY RotateIs
<1> HIDE DEF user, keys, put, mine
<1>6. Harmless(user) /\ Harmless(keys)
  BY <1>3, <1>4, <1>5, HarmlessByKind
<1>7. OperatorMay(user)
  <2>1. CASE user.soft
    BY <2>1, <1>1, <1>2, <1>4, <1>6, SparesWithin
  <2>2. CASE user.needs = {}
    BY <2>2, <1>6, AllowedNothing, AllowedMay
  <2> QED
    BY <2>1, <2>2, <1>4
<1>8. OperatorMay(keys)
  BY <1>2, <1>5, <1>6, AllowedNothing, SparesWithin
<1> QED
  BY <1>7, <1>8 DEF user, keys

(* The operator's secret commands go through.                                *)
LEMMA OperatorSecrets ==
    ASSUME NEW c \in Clusters, NEW o \in Iam!Owners
    PROVE  OperatorMay(Iam!After(Iam!Identity, Iam!Step(Iam!ReadSecret \cup {"ssm:PutParameter",
                         "ssm:GetParametersByPath", "ssm:DeleteParameter"}, {Iam!Secret(c, o)})))
<1> DEFINE s == Iam!After(Iam!Identity, Iam!Step(Iam!ReadSecret \cup {"ssm:PutParameter",
                         "ssm:GetParametersByPath", "ssm:DeleteParameter"}, {Iam!Secret(c, o)}))
<1>1. /\ s.needs \subseteq (SecretActs \X {Iam!Secret(c, o)}) \cup (AccountActs \X {Iam!Account})
      /\ s.makes = {} /\ s.gone = {}
  BY SecretsIs
<1> HIDE DEF s
<1>2. /\ Allowed(Iam!OperatorPolicy, AccountActs \X {Iam!Account})
      /\ Allowed(Iam!OperatorPolicy, SecretActs \X {Iam!Secret(c, o)})
  <2>1. \A a \in SecretActs : Iam!Granted(Iam!OperatorPolicy, a, Iam!Secret(c, o))
    BY OperatorServices
  <2> QED
    BY <2>1, OperatorAccount, AllowedOn, AllowedProduct
<1>3. OperatorMay(s)
  BY <1>1, <1>2, MayWithin, HarmlessByKind
<1> QED
  BY <1>3 DEF s

(* A CI step that needs two kinds of calls, both allowed.                    *)
LEMMA CiWithin ==
    ASSUME NEW c, NEW p, NEW s, NEW A, NEW B, s.needs \subseteq A \cup B,
           Allowed(Iam!ProjectDeployPolicy(c, p), A), Allowed(Iam!ProjectDeployPolicy(c, p), B)
    PROVE  Passes(Iam!ProjectDeployPolicy(c, p), s)
BY DEF Passes, Allowed

(* Reads and updates of its cluster's objects go through for a project's CI. *)
LEMMA CiObjectSteps ==
    ASSUME NEW c \in Clusters, NEW p \in Repositories, NEW objects \in SUBSET Iam!Objects(c)
    PROVE  /\ Passes(Iam!ProjectDeployPolicy(c, p), Iam!Updating(objects))
           /\ Passes(Iam!ProjectDeployPolicy(c, p),
                     Iam!After(Iam!Reading(objects),
                         Iam!Step({"ec2:DescribeInstances"}, {Iam!Account})))
<1>1. objects \subseteq Iam!AllObjects
  BY ObjectsOfAll
<1>2. \A a \in GetListPut, r \in objects : Iam!Granted(Iam!ProjectDeployPolicy(c, p), a, r)
  BY <1>1, CiObjects, CiBucket DEF GetListPut, Iam!ReadWrite
<1>3. Allowed(Iam!ProjectDeployPolicy(c, p), GetListPut \X objects)
  BY <1>2, AllowedProduct
<1>4. Allowed(Iam!ProjectDeployPolicy(c, p), GetList \X objects)
  BY <1>3, AllowedSubset DEF GetList, GetListPut
<1>5. Passes(Iam!ProjectDeployPolicy(c, p), Iam!Updating(objects))
  BY <1>3, UpdatingIs, AllowedSubset DEF Passes
<1> DEFINE s == Iam!After(Iam!Reading(objects), Iam!Step({"ec2:DescribeInstances"}, {Iam!Account}))
<1>6. s.needs \subseteq (GetList \X objects) \cup ({"ec2:DescribeInstances"} \X {Iam!Account})
  BY DeployReadIs
<1> HIDE DEF s
<1>7. Allowed(Iam!ProjectDeployPolicy(c, p), {"ec2:DescribeInstances"} \X {Iam!Account})
  BY CiAccount, AllowedOn
<1>8. Passes(Iam!ProjectDeployPolicy(c, p), s)
  BY <1>4, <1>6, <1>7, CiWithin
<1> QED
  BY <1>5, <1>8 DEF s

(* prepareAws goes through for CI once an operator has made the bucket.      *)
LEMMA CiPrepare ==
    ASSUME NEW c, NEW p, Iam!Bucket \in have
    PROVE  Passes(Iam!ProjectDeployPolicy(c, p), Iam!PrepareAws)
<1>1. Allowed(Iam!ProjectDeployPolicy(c, p), {"sts:GetCallerIdentity"} \X {Iam!Account})
  BY CiAccount, AllowedOn DEF AccountActs
<1>2. Allowed(Iam!ProjectDeployPolicy(c, p), {"s3:ListBucket", "s3:PutBucketTagging"}
          \X {Iam!Bucket})
  <2>1. \A a \in {"s3:ListBucket", "s3:PutBucketTagging"} :
           Iam!Granted(Iam!ProjectDeployPolicy(c, p), a, Iam!Bucket)
    BY CiBucket
  <2> QED
    BY <2>1, AllowedOn
<1>3. Iam!PrepareAws.needs \subseteq ({"s3:ListBucket", "s3:PutBucketTagging"} \X {Iam!Bucket})
                                   \cup ({"sts:GetCallerIdentity"} \X {Iam!Account})
  BY PrepareIs
<1> QED
  BY <1>1, <1>2, <1>3, CiWithin

(* CI is not granted topics and queues, which cost it a warning at most.     *)
LEMMA CiTopic ==
    ASSUME NEW c, NEW p, NEW d
    PROVE  /\ Passes(Iam!ProjectDeployPolicy(c, p), Iam!EnsureTopic(d))
           /\ Passes(Iam!ProjectDeployPolicy(c, p), Iam!EnsureNodeQueue(d))
           /\ Passes(Iam!ProjectDeployPolicy(c, p), Iam!PublishDeployNotification(d))
BY TopicIs, QueueIs, AllowedNothing DEF Passes

(* CI finds and pushes its project's image, and checks the project's own     *)
(* secrets.                                                                  *)
LEMMA CiImages ==
    ASSUME NEW c, NEW p
    PROVE  /\ Passes(Iam!ProjectDeployPolicy(c, p),
               Iam!After(Iam!ImageExists(p), Iam!EnsureRepository(p)))
           /\ Passes(Iam!ProjectDeployPolicy(c, p), Iam!DockerPush(p))
           /\ Passes(Iam!ProjectDeployPolicy(c, p),
                     Iam!Step({"ssm:GetParameters"}, {Iam!Secret(c, <<p, "itself">>)}))
<1>1. \A a \in Iam!ManageRepo : Iam!Granted(Iam!ProjectDeployPolicy(c, p), a, Iam!Repo(p))
  BY CiRepo
<1>2. Allowed(Iam!ProjectDeployPolicy(c, p), Iam!ManageRepo \X {Iam!Repo(p)})
  BY <1>1, AllowedOn
<1>3. Allowed(Iam!ProjectDeployPolicy(c, p), AccountActs \X {Iam!Account})
  BY CiAccount, AllowedOn
<1>4. Passes(Iam!ProjectDeployPolicy(c, p), Iam!After(Iam!ImageExists(p), Iam!EnsureRepository(p)))
  BY <1>2, RepositoryIs, AllowedSubset DEF Passes
<1>5. Passes(Iam!ProjectDeployPolicy(c, p), Iam!DockerPush(p))
  BY <1>2, <1>3, DockerPushIs, CiWithin
<1> DEFINE read == Iam!Step({"ssm:GetParameters"}, {Iam!Secret(c, <<p, "itself">>)})
<1>6. read.needs = {"ssm:GetParameters"} \X {Iam!Secret(c, <<p, "itself">>)}
  BY SecretReadIs
<1> HIDE DEF read
<1>7. Allowed(Iam!ProjectDeployPolicy(c, p), {"ssm:GetParameters"}
          \X {Iam!Secret(c, <<p, "itself">>)})
  <2>1. \A a \in {"ssm:GetParameters"} :
           Iam!Granted(Iam!ProjectDeployPolicy(c, p), a, Iam!Secret(c, <<p, "itself">>))
    BY CiSecret
  <2> HIDE DEF read
  <2> QED
    BY <2>1, AllowedOn
<1>8. Passes(Iam!ProjectDeployPolicy(c, p), read)
  BY <1>6, <1>7 DEF Passes
<1> QED
  BY <1>4, <1>5, <1>8 DEF read

(* What a deploy reads before it plans.                                      *)
DeployReads(r) ==
    {Iam!Project(r.cluster, r.owner), Iam!Index(r.cluster, r.owner[1]), Iam!Config(r.cluster)}
      \cup Iam!NodeObjects(r.cluster)

(* The steps of a deploy.                                                    *)
LEMMA DeploysPlain ==
    ASSUME NEW r, r.kind = "plain"
    PROVE  LET q == Iam!Deploy(r)  c == r.cluster  p == r.owner[1] IN
           /\ Len(q) = 9
           /\ q[1] = Iam!PrepareAws
           /\ q[2] = Iam!EnsureTopic(c)
           /\ q[3] = Iam!After(Iam!Reading(DeployReads(r)),
                  Iam!Step({"ec2:DescribeInstances"}, {Iam!Account}))
           /\ q[4] = Iam!After(Iam!ImageExists(p), Iam!EnsureRepository(p))
           /\ q[5] = Iam!DockerPush(p)
           /\ q[6] = Iam!Updating({Iam!Desired(c, "app")})
           /\ q[7] = Iam!EnsureNodeQueue(c)
           /\ q[8] = Iam!PublishDeployNotification(c)
           /\ q[9] = Iam!Updating({Iam!Project(c, r.owner), Iam!Index(c, r.owner[1])})
BY DEF Iam!Deploy, Iam!Images, Iam!Publish, DeployReads

(* The steps of a deploy with secrets.                                       *)
LEMMA DeploysSecrets ==
    ASSUME NEW r, r.kind = "secrets"
    PROVE  LET q == Iam!Deploy(r)  c == r.cluster  p == r.owner[1] IN
           /\ Len(q) = 10
           /\ q[1] = Iam!PrepareAws
           /\ q[2] = Iam!EnsureTopic(c)
           /\ q[3] = Iam!After(Iam!Reading(DeployReads(r)),
                  Iam!Step({"ec2:DescribeInstances"}, {Iam!Account}))
           /\ q[4] = Iam!Step({"ssm:GetParameters"}, {Iam!Secret(c, r.owner)})
           /\ q[5] = Iam!After(Iam!ImageExists(p), Iam!EnsureRepository(p))
           /\ q[6] = Iam!DockerPush(p)
           /\ q[7] = Iam!Updating({Iam!Desired(c, "app")})
           /\ q[8] = Iam!EnsureNodeQueue(c)
           /\ q[9] = Iam!PublishDeployNotification(c)
           /\ q[10] = Iam!Updating({Iam!Project(c, r.owner), Iam!Index(c, r.owner[1])})
BY DEF Iam!Deploy, Iam!Images, Iam!Publish, DeployReads

(* The steps of a deploy of a database with backups.                         *)
LEMMA DeploysDatabase ==
    ASSUME NEW r, r.kind = "database"
    PROVE  LET q == Iam!Deploy(r)  c == r.cluster  p == r.owner[1] IN
           /\ Len(q) = 10
           /\ q[1] = Iam!PrepareAws
           /\ q[2] = Iam!EnsureTopic(c)
           /\ q[3] = Iam!After(Iam!Reading(DeployReads(r)),
                  Iam!Step({"ec2:DescribeInstances"}, {Iam!Account}))
           /\ q[4] = Iam!After(Iam!ImageExists(p), Iam!EnsureRepository(p))
           /\ q[5] = Iam!DockerPush(p)
           /\ q[6] = Iam!EnsureHardenedBucket(Iam!Backups)
           /\ q[7] = Iam!Updating({Iam!Desired(c, "app")})
           /\ q[8] = Iam!EnsureNodeQueue(c)
           /\ q[9] = Iam!PublishDeployNotification(c)
           /\ q[10] = Iam!Updating({Iam!Project(c, r.owner), Iam!Index(c, r.owner[1])})
BY DEF Iam!Deploy, Iam!Images, Iam!Publish, DeployReads

(* The steps of a deploy that builds on CodeBuild.                           *)
LEMMA DeploysRemote ==
    ASSUME NEW r, r.kind = "remote"
    PROVE  LET q == Iam!Deploy(r)  c == r.cluster  p == r.owner[1] IN
           /\ Len(q) = 13
           /\ q[1] = Iam!PrepareAws
           /\ q[2] = Iam!EnsureTopic(c)
           /\ q[3] = Iam!After(Iam!Reading(DeployReads(r)),
                  Iam!Step({"ec2:DescribeInstances"}, {Iam!Account}))
           /\ q[4] = Iam!After(Iam!ImageExists(p), Iam!EnsureRepository(p))
           /\ q[5] = Iam!EnsureRemoteBuildInfra(c)
           /\ q[6] = Iam!Writing({Iam!Context(c, r.owner)})
           /\ q[7] = Iam!StartBuild(c)
           /\ q[8] = Iam!BuildLogTail(c)
           /\ q[9] = Iam!DeleteBuildContext(c, r.owner)
           /\ q[10] = Iam!Updating({Iam!Desired(c, "app")})
           /\ q[11] = Iam!EnsureNodeQueue(c)
           /\ q[12] = Iam!PublishDeployNotification(c)
           /\ q[13] = Iam!Updating({Iam!Project(c, r.owner), Iam!Index(c, r.owner[1])})
BY DEF Iam!Deploy, Iam!Images, Iam!Publish, DeployReads

(* The steps of a deploy that creates its nodes.                             *)
LEMMA DeploysCreate ==
    ASSUME NEW r, r.kind = "create"
    PROVE  LET q == Iam!Deploy(r)  c == r.cluster  p == r.owner[1] IN
           /\ Len(q) = 16
           /\ q[1] = Iam!PrepareAws
           /\ q[2] = Iam!EnsureTopic(c)
           /\ q[3] = Iam!After(Iam!Reading(DeployReads(r)),
                  Iam!Step({"ec2:DescribeInstances"}, {Iam!Account}))
           /\ q[4] = Iam!After(Iam!ResolveNodeAmi,
                  Iam!After(Iam!PrepareLaunch, Iam!EnsureNodeIam(c, "edge")))
           /\ q[5] = Iam!RunNode(c, "edge")
           /\ q[6] = Iam!After(Iam!EnsureEip, Iam!Writing({Iam!Registry(c, "edge")}))
           /\ q[7] = Iam!After(Iam!ResolveNodeAmi,
                  Iam!After(Iam!PrepareLaunch, Iam!EnsureNodeIam(c, "app")))
           /\ q[8] = Iam!RunNode(c, "app")
           /\ q[9] = Iam!After(Iam!EnsureEip, Iam!Writing({Iam!Registry(c, "app")}))
           /\ q[10] = Iam!Updating({Iam!Config(c)})
           /\ q[11] = Iam!After(Iam!ImageExists(p), Iam!EnsureRepository(p))
           /\ q[12] = Iam!DockerPush(p)
           /\ q[13] = Iam!Updating({Iam!Desired(c, "app")})
           /\ q[14] = Iam!EnsureNodeQueue(c)
           /\ q[15] = Iam!PublishDeployNotification(c)
           /\ q[16] = Iam!Updating({Iam!Project(c, r.owner), Iam!Index(c, r.owner[1])})
BY DEF Iam!Deploy, Iam!Images, Iam!Publish, Iam!ProvisionNode, DeployReads

(* The commands that were run.                                               *)
RanCommands == {r \in [name : Iam!Names, state : {"running", "done", "denied"}, at : Nat,
                owner : Iam!Owners, cluster : Clusters, role : Roles \cup {Iam!None},
                kind : {"plain", "create", "secrets", "remote", "database"}] :
           /\ r.kind = "plain" \/ r.name = "deploy"
           /\ r.owner[2] = "itself" \/ r.kind = "secrets" \/ r.name = "secret"}

(* What a command is of.                                                     *)
LEMMA RanIs ==
    ASSUME NEW r \in RanCommands
    PROVE  /\ r.cluster \in Clusters /\ r.owner \in Iam!Owners /\ r.owner[1] \in Repositories
           /\ r.owner = <<r.owner[1], r.owner[2]>>
BY DEF RanCommands, Iam!Owners

(* The objects that a command names are in the state bucket.                 *)
LEMMA ObjectsOfRun ==
    ASSUME NEW r \in RanCommands
    PROVE  LET c == r.cluster IN
           /\ \A objects \in {DeployReads(r), Iam!NodeObjects(c), {Iam!Desired(c, "app")},
                  {Iam!Config(c)},
                               {Iam!Project(c, r.owner), Iam!Index(c, r.owner[1])},
                               {Iam!Context(c, r.owner)}, {Iam!Registry(c, "app")},
                               {Iam!Registry(c, Iam!Host)}, Iam!Objects(c)} :
                 objects \in SUBSET Iam!Objects(c) /\ objects \in SUBSET Iam!AllObjects
<1> DEFINE c == r.cluster
<1>0. "app" \in Iam!NodeIds
  BY DEF Iam!NodeIds
<1>1. c \in Clusters /\ r.owner \in Iam!Owners /\ r.owner[1] \in Repositories
  BY RanIs
<1>2. Iam!NodeObjects(c) \subseteq Iam!Objects(c)
  BY DEF Iam!Objects
<1>3. /\ Iam!Config(c) \in Iam!Objects(c)
      /\ Iam!Index(c, r.owner[1]) \in Iam!Objects(c)
      /\ Iam!Project(c, r.owner) \in Iam!Objects(c)
      /\ Iam!Context(c, r.owner) \in Iam!Objects(c)
  BY <1>1 DEF Iam!Objects
<1>4. /\ Iam!Desired(c, "app") \in Iam!Objects(c) /\ Iam!Registry(c, "app") \in Iam!Objects(c)
      /\ Iam!Registry(c, Iam!Host) \in Iam!Objects(c)
  <2>1. /\ Iam!Desired(c, "app") \in Iam!NodeObjects(c)
        /\ Iam!Registry(c, "app") \in Iam!NodeObjects(c)
        /\ Iam!Registry(c, Iam!Host) \in Iam!NodeObjects(c)
    BY <1>0 DEF Iam!NodeObjects
  <2> QED
    BY <2>1, <1>2
<1>5. Iam!Objects(c) \subseteq Iam!AllObjects
  BY <1>1, ObjectsOfAll
<1>6. DeployReads(r) \subseteq Iam!Objects(c)
  BY <1>2, <1>3 DEF DeployReads
<1> HIDE DEF c
<1>7. ASSUME NEW objects \in {DeployReads(r), Iam!NodeObjects(c), {Iam!Desired(c, "app")},
          {Iam!Config(c)},
                               {Iam!Project(c, r.owner), Iam!Index(c, r.owner[1])},
                               {Iam!Context(c, r.owner)}, {Iam!Registry(c, "app")},
                               {Iam!Registry(c, Iam!Host)}, Iam!Objects(c)}
      PROVE  objects \subseteq Iam!Objects(c)
  BY <1>2, <1>3, <1>4, <1>6, <1>7
<1> QED
  BY <1>5, <1>7 DEF c

(* The steps that every deploy has.                                          *)
Everywhere(r) ==
    {Iam!PrepareAws, Iam!EnsureTopic(r.cluster),
     Iam!After(Iam!Reading(DeployReads(r)), Iam!Step({"ec2:DescribeInstances"}, {Iam!Account})),
     Iam!After(Iam!ImageExists(r.owner[1]), Iam!EnsureRepository(r.owner[1])),
     Iam!DockerPush(r.owner[1]),
     Iam!Updating({Iam!Desired(r.cluster, "app")}), Iam!EnsureNodeQueue(r.cluster),
     Iam!PublishDeployNotification(r.cluster),
     Iam!Updating({Iam!Project(r.cluster, r.owner), Iam!Index(r.cluster, r.owner[1])})}

(* Those go through, for the operator and for CI.                            *)
LEMMA DeploySteps ==
    ASSUME NEW r \in RanCommands,
           NEW s \in Everywhere(r)
    PROVE  /\ OperatorMay(s)
           /\ Iam!Bucket \in have => Passes(Iam!ProjectDeployPolicy(r.cluster, r.owner[1]), s)
<1>1. r.cluster \in Clusters /\ r.owner \in Iam!Owners /\ r.owner[1] \in Repositories
  BY RanIs
<1>2. \A objects \in {DeployReads(r), {Iam!Desired(r.cluster, "app")},
                       {Iam!Project(r.cluster, r.owner), Iam!Index(r.cluster, r.owner[1])}} :
         objects \in SUBSET Iam!Objects(r.cluster) /\ objects \in SUBSET Iam!AllObjects
  BY ObjectsOfRun
<1>3. CASE s = Iam!PrepareAws
  BY <1>3, OperatorPrepare, CiPrepare
<1>4. CASE s \in {Iam!EnsureTopic(r.cluster), Iam!EnsureNodeQueue(r.cluster),
          Iam!PublishDeployNotification(r.cluster)}
  BY <1>1, <1>4, OperatorTopic, CiTopic
<1>5. CASE s \in {Iam!After(Iam!ImageExists(r.owner[1]), Iam!EnsureRepository(r.owner[1])),
          Iam!DockerPush(r.owner[1])}
  BY <1>1, <1>5, OperatorImages, CiImages
<1>6. CASE s \in {Iam!Updating({Iam!Desired(r.cluster, "app")}),
                  Iam!Updating({Iam!Project(r.cluster, r.owner), Iam!Index(r.cluster, r.owner[1])})}
  BY <1>1, <1>2, <1>6, OperatorUpdates, CiObjectSteps
<1>7. CASE s = Iam!After(Iam!Reading(DeployReads(r)),
          Iam!Step({"ec2:DescribeInstances"}, {Iam!Account}))
  BY <1>1, <1>2, <1>7, OperatorDeployReads, CiObjectSteps
<1> QED
  BY <1>3, <1>4, <1>5, <1>6, <1>7 DEF Everywhere

(* A deploy goes through, for the operator and for CI.                       *)
LEMMA PlainMay ==
    ASSUME NEW r \in RanCommands, r.kind = "plain", NEW i \in 1 .. 9
    PROVE  LET s == Iam!Deploy(r)[i] IN
           /\ OperatorMay(s)
           /\ Iam!Bucket \in have => Passes(Iam!ProjectDeployPolicy(r.cluster, r.owner[1]), s)
<1>1. Iam!Deploy(r)[i] \in Everywhere(r)
  <2>1. i = 1 \/ i = 2 \/ i = 3 \/ i = 4 \/ i = 5 \/ i = 6 \/ i = 7 \/ i = 8 \/ i = 9
    OBVIOUS
  <2> QED
    BY <2>1, DeploysPlain DEF Everywhere
<1> QED
  BY <1>1, DeploySteps

(* So does one with secrets; for CI, those of the project itself.            *)
LEMMA SecretsMay ==
    ASSUME NEW r \in RanCommands, r.kind = "secrets", NEW i \in 1 .. 10
    PROVE  LET s == Iam!Deploy(r)[i] IN
           /\ OperatorMay(s)
           /\ Iam!Bucket \in have /\ r.owner[2] = "itself"
                 => Passes(Iam!ProjectDeployPolicy(r.cluster, r.owner[1]), s)
<1>0. r.cluster \in Clusters /\ r.owner \in Iam!Owners /\ r.owner[1] \in Repositories
      /\ r.owner = <<r.owner[1], r.owner[2]>>
  BY RanIs
<1>1. \/ i = 4
      \/ Iam!Deploy(r)[i] \in Everywhere(r)
  <2>1. i = 1 \/ i = 2 \/ i = 3 \/ i = 4 \/ i = 5 \/ i = 6 \/ i = 7 \/ i = 8 \/ i = 9 \/ i = 10
    OBVIOUS
  <2> QED
    BY <2>1, DeploysSecrets DEF Everywhere
<1>2. CASE i = 4
  <2>1. Iam!Deploy(r)[4] = Iam!Step({"ssm:GetParameters"}, {Iam!Secret(r.cluster, r.owner)})
    BY DeploysSecrets
  <2>2. OperatorMay(Iam!Step({"ssm:GetParameters"}, {Iam!Secret(r.cluster, r.owner)}))
    BY <1>0, OperatorImages
  <2>3. r.owner[2] = "itself" => Passes(Iam!ProjectDeployPolicy(r.cluster, r.owner[1]),
                                        Iam!Step({"ssm:GetParameters"},
                                            {Iam!Secret(r.cluster, r.owner)}))
    <3> SUFFICES ASSUME r.owner[2] = "itself"
                 PROVE  Passes(Iam!ProjectDeployPolicy(r.cluster, r.owner[1]),
                               Iam!Step({"ssm:GetParameters"}, {Iam!Secret(r.cluster, r.owner)}))
      OBVIOUS
    <3>1. r.owner = <<r.owner[1], "itself">>
      BY <1>0
    <3> QED
      BY <3>1, CiImages
  <2> QED
    BY <1>2, <2>1, <2>2, <2>3
<1>3. CASE i # 4
  BY <1>1, <1>3, DeploySteps
<1> QED
  BY <1>2, <1>3

(* The bucket of the backups is no node.                                     *)
LEMMA BackupsAreHarmless == Harmless(Iam!EnsureHardenedBucket(Iam!Backups))
                                /\ Spares(Iam!EnsureHardenedBucket(Iam!Backups))
<1>1. \A x \in {Iam!Backups} : ResourceKind(x) # "running instance"
  BY KindsOfResources
<1> QED
  BY <1>1, BackupsIs, HarmlessByKind DEF Spares

(* A deploy of a database is harmless; it is not allowed to everybody.       *)
LEMMA DatabaseMay ==
    ASSUME NEW r \in RanCommands, r.kind = "database", NEW i \in 1 .. 10
    PROVE  Harmless(Iam!Deploy(r)[i]) /\ Spares(Iam!Deploy(r)[i])
<1>1. \/ Iam!Deploy(r)[i] = Iam!EnsureHardenedBucket(Iam!Backups)
      \/ Iam!Deploy(r)[i] \in Everywhere(r)
  <2>1. i = 1 \/ i = 2 \/ i = 3 \/ i = 4 \/ i = 5 \/ i = 6 \/ i = 7 \/ i = 8 \/ i = 9 \/ i = 10
    OBVIOUS
  <2> QED
    BY <2>1, DeploysDatabase DEF Everywhere
<1> QED
  BY <1>1, DeploySteps, BackupsAreHarmless DEF OperatorMay

(* A deploy that builds on CodeBuild goes through for the operator.          *)
LEMMA RemoteMay ==
    ASSUME NEW r \in RanCommands, r.kind = "remote", NEW i \in 1 .. 13
    PROVE  OperatorMay(Iam!Deploy(r)[i])
<1>0. r.cluster \in Clusters /\ r.owner \in Iam!Owners /\ r.owner[1] \in Repositories
  BY RanIs
<1>1. \/ Iam!Deploy(r)[i] \in {Iam!EnsureRemoteBuildInfra(r.cluster), Iam!StartBuild(r.cluster),
                               Iam!BuildLogTail(r.cluster),
                                   Iam!DeleteBuildContext(r.cluster, r.owner)}
      \/ Iam!Deploy(r)[i] = Iam!Writing({Iam!Context(r.cluster, r.owner)})
      \/ Iam!Deploy(r)[i] \in Everywhere(r)
  <2>1. \/ i = 1 \/ i = 2 \/ i = 3 \/ i = 4 \/ i = 5 \/ i = 6 \/ i = 7 \/ i = 8 \/ i = 9 \/ i = 10
        \/ i = 11 \/ i = 12 \/ i = 13
    OBVIOUS
  <2> QED
    BY <2>1, DeploysRemote DEF Everywhere
<1>2. \A x \in {Iam!EnsureRemoteBuildInfra(r.cluster), Iam!StartBuild(r.cluster),
                Iam!BuildLogTail(r.cluster), Iam!DeleteBuildContext(r.cluster, r.owner)} :
                    OperatorMay(x)
  BY <1>0, OperatorImages
<1>3. OperatorMay(Iam!Writing({Iam!Context(r.cluster, r.owner)}))
  <2>1. {Iam!Context(r.cluster, r.owner)} \in SUBSET Iam!AllObjects
    BY ObjectsOfRun
  <2> QED
    BY <2>1, OperatorUpdates
<1> QED
  BY <1>1, <1>2, <1>3, DeploySteps

(* So does one that creates nodes, and only two of its steps launch one.     *)
LEMMA CreateMay ==
    ASSUME NEW r \in RanCommands, r.kind = "create", NEW i \in 1 .. 16
    PROVE  /\ Passes(Iam!OperatorPolicy, Iam!Deploy(r)[i]) /\ Spares(Iam!Deploy(r)[i])
           /\ i \notin {5, 8} => Harmless(Iam!Deploy(r)[i])
<1>0. /\ r.cluster \in Clusters /\ r.owner \in Iam!Owners /\ r.owner[1] \in Repositories
      /\ "app" \in Iam!NodeIds /\ "edge" \in Iam!NodeIds
  BY RanIs DEF Iam!NodeIds
<1>1. CASE i \in {4, 5, 6}
  <2>1. /\ Iam!Deploy(r)[4] = Iam!After(Iam!ResolveNodeAmi,
            Iam!After(Iam!PrepareLaunch, Iam!EnsureNodeIam(r.cluster, "edge")))
        /\ Iam!Deploy(r)[5] = Iam!RunNode(r.cluster, "edge")
        /\ Iam!Deploy(r)[6] = Iam!After(Iam!EnsureEip,
               Iam!Writing({Iam!Registry(r.cluster, "edge")}))
    BY DeploysCreate
  <2> QED
    BY <1>0, <1>1, <2>1, OperatorLaunches DEF OperatorMay
<1>2. CASE i \in {7, 8, 9}
  <2>1. /\ Iam!Deploy(r)[7] = Iam!After(Iam!ResolveNodeAmi,
            Iam!After(Iam!PrepareLaunch, Iam!EnsureNodeIam(r.cluster, "app")))
        /\ Iam!Deploy(r)[8] = Iam!RunNode(r.cluster, "app")
        /\ Iam!Deploy(r)[9] = Iam!After(Iam!EnsureEip,
               Iam!Writing({Iam!Registry(r.cluster, "app")}))
    BY DeploysCreate
  <2> QED
    BY <1>0, <1>2, <2>1, OperatorLaunches DEF OperatorMay
<1>3. CASE i = 10
  <2>1. Iam!Deploy(r)[10] = Iam!Updating({Iam!Config(r.cluster)})
    BY DeploysCreate
  <2>2. {Iam!Config(r.cluster)} \in SUBSET Iam!AllObjects
    BY ObjectsOfRun
  <2> QED
    BY <1>3, <2>1, <2>2, OperatorUpdates DEF OperatorMay
<1>4. CASE i \in 1 .. 3 \cup 11 .. 16
  <2>1. Iam!Deploy(r)[i] \in Everywhere(r)
    <3>1. \/ i = 1 \/ i = 2 \/ i = 3 \/ i = 11 \/ i = 12 \/ i = 13 \/ i = 14 \/ i = 15 \/ i = 16
      BY <1>4
    <3> QED
      BY <3>1, DeploysCreate DEF Everywhere
  <2> QED
    BY <2>1, DeploySteps DEF OperatorMay
<1> QED
  BY <1>1, <1>2, <1>3, <1>4

(* The nodes that a step launches, and those whose role it deletes.          *)
Launches(r, n) ==
    /\ r.name = "deploy" /\ r.kind = "create"
    /\ \/ n = "edge" /\ r.at = 5
       \/ n = "app" /\ r.at = 8

Disowns(r, n) ==
    \/ r.name = "node destroy" /\ ((n = "app" /\ r.at = 3) \/ (n = "edge" /\ r.at = 5))
    \/ r.name = "cluster destroy" /\ ((n = "app" /\ r.at = 4) \/ (n = "edge" /\ r.at = 5))

(* A step before a launch makes the role, one before a deletion ends the     *)
(* node.                                                                     *)
Prepares(r, n) ==
    /\ r.name = "deploy" /\ r.kind = "create"
    /\ \/ n = "edge" /\ r.at = 4
       \/ n = "app" /\ r.at = 7

Ends(r, n) ==
    \/ r.name = "node destroy" /\ ((n = "app" /\ r.at = 2) \/ (n = "edge" /\ r.at = 4))
    \/ r.name = "cluster destroy" /\ ((n = "app" /\ r.at = 2) \/ (n = "edge" /\ r.at = 3))

(* What a step does to instances and to the roles of nodes.                  *)
StepIs(r, s) ==
    LET c == r.cluster IN
    /\ \/ Harmless(s)
       \/ \E n \in Iam!NodeIds : Launches(r, n) /\ s = Iam!RunNode(c, n)
       \/ \E n \in Iam!NodeIds : Disowns(r, n) /\ s = Iam!DeleteNodeIam(c, n)
    /\ \A n \in Iam!NodeIds : Launches(r, n) => s = Iam!RunNode(c, n)
    /\ \A n \in Iam!NodeIds : Disowns(r, n) => s = Iam!DeleteNodeIam(c, n)
    /\ \A n \in Iam!NodeIds : Prepares(r, n) =>
          s = Iam!After(Iam!ResolveNodeAmi, Iam!After(Iam!PrepareLaunch, Iam!EnsureNodeIam(c, n)))
    /\ \A n \in Iam!NodeIds : Ends(r, n) => s = Iam!TearDownNode(c, n)

(* A deploy's steps.                                                         *)
LEMMA DeployIs ==
    ASSUME NEW r \in RanCommands, r.name = "deploy", r.at \in 1 .. Len(Iam!Program(r)),
           NEW s, s = Iam!Program(r)[r.at]
    PROVE  /\ StepIs(r, s) /\ Spares(s)
           /\ r.kind # "database" => Passes(Iam!OperatorPolicy, s)
           /\ /\ Iam!Bucket \in have
              /\ r.kind = "plain" \/ (r.kind = "secrets" /\ r.owner[2] = "itself")
              => Passes(Iam!ProjectDeployPolicy(r.cluster, r.owner[1]), s)
<1>1. Iam!Program(r) = Iam!Deploy(r)
  BY DEF Iam!Program
<1>2. r.at \in 1 .. Len(Iam!Deploy(r)) /\ s = Iam!Deploy(r)[r.at]
  BY <1>1
<1>3. CASE r.kind = "plain"
  <2>1. Len(Iam!Deploy(r)) = 9
    BY <1>3, DeploysPlain
  <2>2. /\ OperatorMay(s)
        /\ Iam!Bucket \in have => Passes(Iam!ProjectDeployPolicy(r.cluster, r.owner[1]), s)
    BY <1>2, <1>3, <2>1, PlainMay
  <2> QED
    BY <1>3, <2>2 DEF StepIs, OperatorMay, Launches, Disowns, Prepares, Ends
<1>4. CASE r.kind = "secrets"
  <2>1. Len(Iam!Deploy(r)) = 10
    BY <1>4, DeploysSecrets
  <2>2. /\ OperatorMay(s)
        /\ Iam!Bucket \in have /\ r.owner[2] = "itself" =>
               Passes(Iam!ProjectDeployPolicy(r.cluster, r.owner[1]), s)
    BY <1>2, <1>4, <2>1, SecretsMay
  <2> QED
    BY <1>4, <2>2 DEF StepIs, OperatorMay, Launches, Disowns, Prepares, Ends
<1>5. CASE r.kind = "database"
  <2>1. Len(Iam!Deploy(r)) = 10
    BY <1>5, DeploysDatabase
  <2>2. Harmless(s) /\ Spares(s)
    BY <1>2, <1>5, <2>1, DatabaseMay
  <2> QED
    BY <1>5, <2>2 DEF StepIs, Launches, Disowns, Prepares, Ends
<1>6. CASE r.kind = "remote"
  <2>1. Len(Iam!Deploy(r)) = 13
    BY <1>6, DeploysRemote
  <2>2. OperatorMay(s)
    BY <1>2, <1>6, <2>1, RemoteMay
  <2> QED
    BY <1>6, <2>2 DEF StepIs, OperatorMay, Launches, Disowns, Prepares, Ends
<1>7. CASE r.kind = "create"
  <2>1. Len(Iam!Deploy(r)) = 16
    BY <1>7, DeploysCreate
  <2>2. /\ Passes(Iam!OperatorPolicy, s) /\ Spares(s)
        /\ r.at \notin {5, 8} => Harmless(s)
    BY <1>2, <1>7, <2>1, CreateMay
  <2>3. /\ Iam!Deploy(r)[4] = Iam!After(Iam!ResolveNodeAmi,
            Iam!After(Iam!PrepareLaunch, Iam!EnsureNodeIam(r.cluster, "edge")))
        /\ Iam!Deploy(r)[5] = Iam!RunNode(r.cluster, "edge")
        /\ Iam!Deploy(r)[7] = Iam!After(Iam!ResolveNodeAmi,
               Iam!After(Iam!PrepareLaunch, Iam!EnsureNodeIam(r.cluster, "app")))
        /\ Iam!Deploy(r)[8] = Iam!RunNode(r.cluster, "app")
    BY <1>7, DeploysCreate
  <2>4. /\ r.at = 4 => s = Iam!After(Iam!ResolveNodeAmi,
            Iam!After(Iam!PrepareLaunch, Iam!EnsureNodeIam(r.cluster, "edge")))
        /\ r.at = 5 => s = Iam!RunNode(r.cluster, "edge")
        /\ r.at = 7 => s = Iam!After(Iam!ResolveNodeAmi,
               Iam!After(Iam!PrepareLaunch, Iam!EnsureNodeIam(r.cluster, "app")))
        /\ r.at = 8 => s = Iam!RunNode(r.cluster, "app")
    BY <1>2, <2>3
  <2>5. Harmless(s) \/ \E n \in Iam!NodeIds : Launches(r, n) /\ s = Iam!RunNode(r.cluster, n)
    BY <1>7, <2>2, <2>4 DEF Launches, Iam!NodeIds
  <2>6. StepIs(r, s)
    BY <1>7, <2>4, <2>5 DEF StepIs, Launches, Disowns, Prepares, Ends
  <2> QED
    BY <1>7, <2>2, <2>6
<1> QED
  BY <1>3, <1>4, <1>5, <1>6, <1>7 DEF RanCommands

(* The steps of node destroy.                                                *)
LEMMA NodeDestroyIs ==
    ASSUME NEW r, r.name = "node destroy"
    PROVE  LET q == Iam!Program(r)  c == r.cluster IN
           /\ Len(q) = 7
           /\ q[1] = Iam!After(Iam!Identity, Iam!Reading(Iam!NodeObjects(c)))
           /\ q[2] = Iam!TearDownNode(c, "app")
           /\ q[3] = Iam!DeleteNodeIam(c, "app")
           /\ q[4] = Iam!TearDownNode(c, "edge")
           /\ q[5] = Iam!DeleteNodeIam(c, "edge")
           /\ q[6] = Iam!DeleteExternalNodeIam(c, Iam!Host)
           /\ q[7] = Iam!DeletePrefix(Iam!NodeObjects(c))
BY DEF Iam!Program, Iam!DestroyNodes

(* The steps of cluster destroy.                                             *)
LEMMA ClusterDestroyIs ==
    ASSUME NEW r, r.name = "cluster destroy"
    PROVE  LET q == Iam!Program(r)  c == r.cluster IN
           /\ Len(q) = 8
           /\ q[1] = Iam!After(Iam!Identity, Iam!Reading(Iam!NodeObjects(c)))
           /\ q[2] = Iam!TearDownNode(c, "app")
           /\ q[3] = Iam!TearDownNode(c, "edge")
           /\ q[4] = Iam!DeleteNodeIam(c, "app")
           /\ q[5] = Iam!DeleteNodeIam(c, "edge")
           /\ q[6] = Iam!DeleteExternalNodeIam(c, Iam!Host)
           /\ q[7] = Iam!DeleteRemoteBuildInfra(c)
           /\ q[8] = Iam!Removing(Iam!DeletePrefix(Iam!Objects(c)),
                          Iam!Objects(c) \cup {Iam!TopicArn(c)})
BY DEF Iam!Program, Iam!DestroyCluster

(* The step of the secret commands.                                          *)
LEMMA SecretIs ==
    ASSUME NEW r, r.name = "secret"
    PROVE  LET q == Iam!Program(r)  c == r.cluster IN
           /\ Len(q) = 1
           /\ q[1] = Iam!After(Iam!Identity, Iam!Step(Iam!ReadSecret \cup {"ssm:PutParameter",
                        "ssm:GetParametersByPath", "ssm:DeleteParameter"},
                            {Iam!Secret(c, r.owner)}))
BY DEF Iam!Program, Iam!Secrets

(* The steps of node resize, pause and resume.                               *)
LEMMA ResizeIs ==
    ASSUME NEW r, r.name = "node resize"
    PROVE  LET q == Iam!Program(r)  c == r.cluster IN
           /\ Len(q) = 2
           /\ q[1] = Iam!After(Iam!Identity, Iam!Reading({Iam!Registry(c, "app")}))
           /\ q[2] = Iam!After(Iam!ModifyInstance, Iam!Writing({Iam!Registry(c, "app")}))
BY DEF Iam!Program, Iam!Resize

(* The steps of node upgrade-agent.                                          *)
LEMMA UpgradeProgramIs ==
    ASSUME NEW r, r.name = "node upgrade-agent"
    PROVE  LET q == Iam!Program(r)  c == r.cluster IN
           /\ Len(q) = 4
           /\ q[1] = Iam!After(Iam!Identity, Iam!Reading({Iam!Registry(c, "app")}))
           /\ q[2] = Iam!BestEffort(Iam!EnsureNodeIam(c, "app"))
           /\ q[3] = Iam!BestEffort(Iam!After(Iam!RunShellScript(c, "app"),
                          Iam!Writing({Iam!Registry(c, "app")})))
           /\ q[4] = Iam!FilterLogEvents(c)
BY DEF Iam!Program, Iam!Upgrade

(* The steps of cluster create.                                              *)
LEMMA ClusterCreateIs ==
    ASSUME NEW r, r.name = "cluster create"
    PROVE  LET q == Iam!Program(r)  c == r.cluster IN
           /\ Len(q) = 2
           /\ q[1] = Iam!PrepareAws
           /\ q[2] = Iam!Updating({Iam!Config(c)})
BY DEF Iam!Program, Iam!CreateCluster

(* The steps of node init.                                                   *)
LEMMA NodeInitIs ==
    ASSUME NEW r, r.name = "node init"
    PROVE  LET q == Iam!Program(r)  c == r.cluster IN
           /\ Len(q) = 3
           /\ q[1] = Iam!PrepareAws
           /\ q[2] = Iam!After(Iam!Reading({Iam!Registry(c, Iam!Host)}),
                  Iam!EnsureExternalNodeIam(c, Iam!Host))
           /\ q[3] = Iam!Writing({Iam!Registry(c, Iam!Host)})
BY DEF Iam!Program, Iam!Enroll

(* The steps of node rotate-creds.                                           *)
LEMMA RotateProgramIs ==
    ASSUME NEW r, r.name = "node rotate-creds"
    PROVE  LET q == Iam!Program(r)  c == r.cluster IN
           /\ Len(q) = 3
           /\ q[1] = Iam!After(Iam!Identity, Iam!Reading({Iam!Registry(c, Iam!Host)}))
           /\ q[2] = Iam!CreateExternalNodeAccessKey(c, Iam!Host)
           /\ q[3] = Iam!DeleteExternalNodeAccessKeysExcept(c, Iam!Host)
BY DEF Iam!Program, Iam!RotateCreds

(* Enrolling an external node launches none, and goes without no call.       *)
LEMMA EnrollIsHarmless ==
    ASSUME NEW c \in Clusters
    PROVE  LET s == Iam!After(Iam!Reading({Iam!Registry(c, Iam!Host)}),
                        Iam!EnsureExternalNodeIam(c, Iam!Host)) IN
           Harmless(s) /\ Spares(s)
<1> DEFINE s == Iam!After(Iam!Reading({Iam!Registry(c, Iam!Host)}),
    Iam!EnsureExternalNodeIam(c, Iam!Host))
<1>1. s.makes = {Iam!NodeUser(c, Iam!Host)} /\ s.gone = {} /\ ~s.soft
  BY EnrollIs
<1> HIDE DEF s
<1>2. \A x \in {Iam!NodeUser(c, Iam!Host)} : ResourceKind(x) # "running instance"
  BY KindsOfResources
<1>3. Harmless(s) /\ Spares(s)
  BY <1>1, <1>2, HarmlessByKind DEF Spares
<1> QED
  BY <1>3 DEF s

(* The numbers up to a small one.                                            *)
LEMMA Counting ==
    ASSUME NEW i
    PROVE  /\ i \in 1 .. 1 => i = 1
           /\ i \in 1 .. 2 => i = 1 \/ i = 2
           /\ i \in 1 .. 3 => i = 1 \/ i = 2 \/ i = 3
           /\ i \in 1 .. 4 => i = 1 \/ i = 2 \/ i = 3 \/ i = 4
           /\ i \in 1 .. 7 => i = 1 \/ i = 2 \/ i = 3 \/ i = 4 \/ i = 5 \/ i = 6 \/ i = 7
           /\ i \in 1 .. 8 => \/ i = 1 \/ i = 2 \/ i = 3 \/ i = 4
                              \/ i = 5 \/ i = 6 \/ i = 7 \/ i = 8
OBVIOUS

(* node destroy goes through, and only two of its steps delete a role.       *)
LEMMA NodeDestroyMay ==
    ASSUME NEW r \in RanCommands, r.name = "node destroy", NEW i \in 1 .. 7
    PROVE  Passes(Iam!OperatorPolicy, Iam!Program(r)[i]) /\ Spares(Iam!Program(r)[i])
               /\ (i \notin {3, 5} => Harmless(Iam!Program(r)[i]))
<1>0. /\ r.cluster \in Clusters /\ r.owner \in Iam!Owners /\ r.owner[1] \in Repositories
      /\ "app" \in Iam!NodeIds /\ "edge" \in Iam!NodeIds
  BY RanIs DEF Iam!NodeIds
<1>1. /\ Iam!NodeObjects(r.cluster) \in SUBSET Iam!AllObjects
      /\ Iam!Objects(r.cluster) \in SUBSET Iam!AllObjects
      /\ {Iam!Registry(r.cluster, "app")} \in SUBSET Iam!AllObjects
      /\ {Iam!Registry(r.cluster, Iam!Host)} \in SUBSET Iam!AllObjects
      /\ {Iam!Config(r.cluster)} \in SUBSET Iam!AllObjects
  BY ObjectsOfRun
<1>2. i = 1 \/ i = 2 \/ i = 3 \/ i = 4 \/ i = 5 \/ i = 6 \/ i = 7
  BY Counting
<1>3. CASE i \in {1, 7}
  BY <1>0, <1>1, <1>3, NodeDestroyIs, OperatorNodeSteps DEF OperatorMay
<1>4. CASE i \in {2, 4}
  BY <1>0, <1>1, <1>4, NodeDestroyIs, OperatorNodeSteps DEF OperatorMay
<1>5. CASE i \in {3, 5}
  BY <1>0, <1>1, <1>5, NodeDestroyIs, OperatorNodeSteps
<1>6. CASE i = 6
  BY <1>0, <1>6, NodeDestroyIs, OperatorHosts DEF OperatorMay
<1> QED
  BY <1>2, <1>3, <1>4, <1>5, <1>6

(* So does cluster destroy.                                                  *)
LEMMA ClusterDestroyMay ==
    ASSUME NEW r \in RanCommands, r.name = "cluster destroy", NEW i \in 1 .. 8
    PROVE  Passes(Iam!OperatorPolicy, Iam!Program(r)[i]) /\ Spares(Iam!Program(r)[i])
               /\ (i \notin {4, 5} => Harmless(Iam!Program(r)[i]))
<1>0. /\ r.cluster \in Clusters /\ r.owner \in Iam!Owners /\ r.owner[1] \in Repositories
      /\ "app" \in Iam!NodeIds /\ "edge" \in Iam!NodeIds
  BY RanIs DEF Iam!NodeIds
<1>1. /\ Iam!NodeObjects(r.cluster) \in SUBSET Iam!AllObjects
      /\ Iam!Objects(r.cluster) \in SUBSET Iam!AllObjects
      /\ {Iam!Registry(r.cluster, "app")} \in SUBSET Iam!AllObjects
      /\ {Iam!Registry(r.cluster, Iam!Host)} \in SUBSET Iam!AllObjects
      /\ {Iam!Config(r.cluster)} \in SUBSET Iam!AllObjects
  BY ObjectsOfRun
<1>2. i = 1 \/ i = 2 \/ i = 3 \/ i = 4 \/ i = 5 \/ i = 6 \/ i = 7 \/ i = 8
  BY Counting
<1>3. CASE i = 1
  BY <1>0, <1>1, <1>3, ClusterDestroyIs, OperatorNodeSteps DEF OperatorMay
<1>4. CASE i \in {2, 3}
  BY <1>0, <1>1, <1>4, ClusterDestroyIs, OperatorNodeSteps DEF OperatorMay
<1>5. CASE i \in {4, 5}
  BY <1>0, <1>1, <1>5, ClusterDestroyIs, OperatorNodeSteps
<1>6. CASE i = 6
  BY <1>0, <1>6, ClusterDestroyIs, OperatorHosts DEF OperatorMay
<1>7. CASE i = 7
  BY <1>0, <1>1, <1>7, ClusterDestroyIs, OperatorImages DEF OperatorMay
<1>8. CASE i = 8
  BY <1>0, <1>1, <1>8, ClusterDestroyIs, OperatorNodeSteps DEF OperatorMay
<1> QED
  BY <1>2, <1>3, <1>4, <1>5, <1>6, <1>7, <1>8

(* The other commands go through and are harmless.                           *)
LEMMA SecretMay ==
    ASSUME NEW r \in RanCommands, r.name = "secret", NEW i \in 1 .. 1
    PROVE  OperatorMay(Iam!Program(r)[i])
<1>0. /\ r.cluster \in Clusters /\ r.owner \in Iam!Owners /\ r.owner[1] \in Repositories
      /\ "app" \in Iam!NodeIds /\ "edge" \in Iam!NodeIds
  BY RanIs DEF Iam!NodeIds
<1>1. /\ Iam!NodeObjects(r.cluster) \in SUBSET Iam!AllObjects
      /\ Iam!Objects(r.cluster) \in SUBSET Iam!AllObjects
      /\ {Iam!Registry(r.cluster, "app")} \in SUBSET Iam!AllObjects
      /\ {Iam!Registry(r.cluster, Iam!Host)} \in SUBSET Iam!AllObjects
      /\ {Iam!Config(r.cluster)} \in SUBSET Iam!AllObjects
  BY ObjectsOfRun
<1>2. i = 1
  BY Counting
<1> QED
  BY <1>0, <1>1, <1>2, SecretIs, OperatorSecrets

(* The same for node resize.                                                 *)
LEMMA ResizeMay ==
    ASSUME NEW r \in RanCommands, r.name = "node resize", NEW i \in 1 .. 2
    PROVE  OperatorMay(Iam!Program(r)[i])
<1>0. /\ r.cluster \in Clusters /\ r.owner \in Iam!Owners /\ r.owner[1] \in Repositories
      /\ "app" \in Iam!NodeIds /\ "edge" \in Iam!NodeIds
  BY RanIs DEF Iam!NodeIds
<1>1. /\ Iam!NodeObjects(r.cluster) \in SUBSET Iam!AllObjects
      /\ Iam!Objects(r.cluster) \in SUBSET Iam!AllObjects
      /\ {Iam!Registry(r.cluster, "app")} \in SUBSET Iam!AllObjects
      /\ {Iam!Registry(r.cluster, Iam!Host)} \in SUBSET Iam!AllObjects
      /\ {Iam!Config(r.cluster)} \in SUBSET Iam!AllObjects
  BY ObjectsOfRun
<1>2. i = 1 \/ i = 2
  BY Counting
<1> QED
  BY <1>0, <1>1, <1>2, ResizeIs, OperatorNodeSteps

(* The same for node upgrade-agent.                                          *)
LEMMA UpgradeMay ==
    ASSUME NEW r \in RanCommands, r.name = "node upgrade-agent", NEW i \in 1 .. 4
    PROVE  OperatorMay(Iam!Program(r)[i])
<1>0. /\ r.cluster \in Clusters /\ r.owner \in Iam!Owners /\ r.owner[1] \in Repositories
      /\ "app" \in Iam!NodeIds /\ "edge" \in Iam!NodeIds
  BY RanIs DEF Iam!NodeIds
<1>1. /\ Iam!NodeObjects(r.cluster) \in SUBSET Iam!AllObjects
      /\ Iam!Objects(r.cluster) \in SUBSET Iam!AllObjects
      /\ {Iam!Registry(r.cluster, "app")} \in SUBSET Iam!AllObjects
      /\ {Iam!Registry(r.cluster, Iam!Host)} \in SUBSET Iam!AllObjects
      /\ {Iam!Config(r.cluster)} \in SUBSET Iam!AllObjects
  BY ObjectsOfRun
<1>2. i = 1 \/ i = 2 \/ i = 3 \/ i = 4
  BY Counting
<1> QED
  BY <1>0, <1>1, <1>2, UpgradeProgramIs, OperatorNodeSteps

(* The same for cluster create.                                              *)
LEMMA ClusterCreateMay ==
    ASSUME NEW r \in RanCommands, r.name = "cluster create", NEW i \in 1 .. 2
    PROVE  OperatorMay(Iam!Program(r)[i])
<1>0. /\ r.cluster \in Clusters /\ r.owner \in Iam!Owners /\ r.owner[1] \in Repositories
      /\ "app" \in Iam!NodeIds /\ "edge" \in Iam!NodeIds
  BY RanIs DEF Iam!NodeIds
<1>1. /\ Iam!NodeObjects(r.cluster) \in SUBSET Iam!AllObjects
      /\ Iam!Objects(r.cluster) \in SUBSET Iam!AllObjects
      /\ {Iam!Registry(r.cluster, "app")} \in SUBSET Iam!AllObjects
      /\ {Iam!Registry(r.cluster, Iam!Host)} \in SUBSET Iam!AllObjects
      /\ {Iam!Config(r.cluster)} \in SUBSET Iam!AllObjects
  BY ObjectsOfRun
<1>2. i = 1 \/ i = 2
  BY Counting
<1> QED
  BY <1>0, <1>1, <1>2, ClusterCreateIs, OperatorPrepare, OperatorUpdates

(* node init is harmless; the operator policy lacks calls that it makes.     *)
LEMMA NodeInitMay ==
    ASSUME NEW r \in RanCommands, r.name = "node init", NEW i \in 1 .. 3
    PROVE  Harmless(Iam!Program(r)[i]) /\ Spares(Iam!Program(r)[i])
<1>0. /\ r.cluster \in Clusters /\ r.owner \in Iam!Owners /\ r.owner[1] \in Repositories
      /\ "app" \in Iam!NodeIds /\ "edge" \in Iam!NodeIds
  BY RanIs DEF Iam!NodeIds
<1>1. /\ Iam!NodeObjects(r.cluster) \in SUBSET Iam!AllObjects
      /\ Iam!Objects(r.cluster) \in SUBSET Iam!AllObjects
      /\ {Iam!Registry(r.cluster, "app")} \in SUBSET Iam!AllObjects
      /\ {Iam!Registry(r.cluster, Iam!Host)} \in SUBSET Iam!AllObjects
      /\ {Iam!Config(r.cluster)} \in SUBSET Iam!AllObjects
  BY ObjectsOfRun
<1>2. i = 1 \/ i = 2 \/ i = 3
  BY Counting
<1> QED
  BY <1>0, <1>1, <1>2, NodeInitIs, OperatorPrepare, OperatorUpdates,
         EnrollIsHarmless DEF OperatorMay

(* So is node rotate-creds, for the same reason.                             *)
LEMMA RotateMay ==
    ASSUME NEW r \in RanCommands, r.name = "node rotate-creds", NEW i \in 1 .. 3
    PROVE  Harmless(Iam!Program(r)[i]) /\ Spares(Iam!Program(r)[i])
<1>0. /\ r.cluster \in Clusters /\ r.owner \in Iam!Owners /\ r.owner[1] \in Repositories
      /\ "app" \in Iam!NodeIds /\ "edge" \in Iam!NodeIds
  BY RanIs DEF Iam!NodeIds
<1>1. /\ Iam!NodeObjects(r.cluster) \in SUBSET Iam!AllObjects
      /\ Iam!Objects(r.cluster) \in SUBSET Iam!AllObjects
      /\ {Iam!Registry(r.cluster, "app")} \in SUBSET Iam!AllObjects
      /\ {Iam!Registry(r.cluster, Iam!Host)} \in SUBSET Iam!AllObjects
      /\ {Iam!Config(r.cluster)} \in SUBSET Iam!AllObjects
  BY ObjectsOfRun
<1>2. i = 1 \/ i = 2 \/ i = 3
  BY Counting
<1>3. CASE i = 1
  BY <1>0, <1>1, <1>3, RotateProgramIs, OperatorNodeSteps DEF OperatorMay
<1>4. CASE i = 2
  <2> DEFINE s == Iam!CreateExternalNodeAccessKey(r.cluster, Iam!Host)
  <2>1. Iam!Program(r)[i] = s
    BY <1>4, RotateProgramIs
  <2>2. ~s.soft /\ s.makes = {} /\ s.gone = {}
    BY RotateIs
  <2> HIDE DEF s
  <2>3. Harmless(s) /\ Spares(s)
    BY <2>2, HarmlessByKind DEF Spares
  <2> QED
    BY <2>1, <2>3
<1>5. CASE i = 3
  BY <1>0, <1>5, RotateProgramIs, OperatorHosts DEF OperatorMay
<1> QED
  BY <1>2, <1>3, <1>4, <1>5

(* How many steps a command has.                                             *)
StepCount(r) == CASE r.name = "deploy" /\ r.kind = "plain" -> 9
              [] r.name = "deploy" /\ r.kind \in {"secrets", "database"} -> 10
              [] r.name = "deploy" /\ r.kind = "remote" -> 13
              [] r.name = "deploy" /\ r.kind = "create" -> 16
              [] r.name = "secret" -> 1
              [] r.name \in {"node resize", "cluster create"} -> 2
              [] r.name \in {"node init", "node rotate-creds"} -> 3
              [] r.name = "node upgrade-agent" -> 4
              [] r.name = "node destroy" -> 7
              [] r.name = "cluster destroy" -> 8

(* How many, command by command.                                             *)
LEMMA StepCounts ==
    ASSUME NEW r
    PROVE  /\ r.name = "deploy" /\ r.kind = "plain" => StepCount(r) = 9
           /\ r.name = "deploy" /\ r.kind = "secrets" => StepCount(r) = 10
           /\ r.name = "deploy" /\ r.kind = "database" => StepCount(r) = 10
           /\ r.name = "deploy" /\ r.kind = "remote" => StepCount(r) = 13
           /\ r.name = "deploy" /\ r.kind = "create" => StepCount(r) = 16
           /\ r.name = "secret" => StepCount(r) = 1
           /\ r.name = "node resize" => StepCount(r) = 2
           /\ r.name = "cluster create" => StepCount(r) = 2
           /\ r.name = "node init" => StepCount(r) = 3
           /\ r.name = "node upgrade-agent" => StepCount(r) = 4
           /\ r.name = "node rotate-creds" => StepCount(r) = 3
           /\ r.name = "node destroy" => StepCount(r) = 7
           /\ r.name = "cluster destroy" => StepCount(r) = 8
BY DEF StepCount

(* A command has as many steps as that, whatever exists.                     *)
LEMMA StepCountIs ==
    ASSUME NEW r \in RanCommands
    PROVE  Len(Iam!Program(r)) = StepCount(r) /\ StepCount(r) \in 1 .. 16
<1>1. r.name \in Iam!Names /\ r.kind \in {"plain", "create", "secrets", "remote", "database"}
  BY DEF RanCommands
<1>2. CASE r.name = "deploy"
  <2>1. Iam!Program(r) = Iam!Deploy(r)
    BY <1>2 DEF Iam!Program
  <2>2. CASE r.kind = "plain"
    <3>1. Len(Iam!Deploy(r)) = 9
      BY <2>2, DeploysPlain
    <3>2. StepCount(r) = 9
      BY <1>2, <2>1, <2>2, StepCounts
    <3>3. Len(Iam!Program(r)) = 9
      BY <2>1, <3>1
    <3> QED
      BY <3>2, <3>3
  <2>3. CASE r.kind = "secrets"
    <3>1. Len(Iam!Deploy(r)) = 10
      BY <2>3, DeploysSecrets
    <3>2. StepCount(r) = 10
      BY <1>2, <2>1, <2>3, StepCounts
    <3>3. Len(Iam!Program(r)) = 10
      BY <2>1, <3>1
    <3> QED
      BY <3>2, <3>3
  <2>4. CASE r.kind = "database"
    <3>1. Len(Iam!Deploy(r)) = 10
      BY <2>4, DeploysDatabase
    <3>2. StepCount(r) = 10
      BY <1>2, <2>1, <2>4, StepCounts
    <3>3. Len(Iam!Program(r)) = 10
      BY <2>1, <3>1
    <3> QED
      BY <3>2, <3>3
  <2>5. CASE r.kind = "remote"
    <3>1. Len(Iam!Deploy(r)) = 13
      BY <2>5, DeploysRemote
    <3>2. StepCount(r) = 13
      BY <1>2, <2>1, <2>5, StepCounts
    <3>3. Len(Iam!Program(r)) = 13
      BY <2>1, <3>1
    <3> QED
      BY <3>2, <3>3
  <2>6. CASE r.kind = "create"
    <3>1. Len(Iam!Deploy(r)) = 16
      BY <2>6, DeploysCreate
    <3>2. StepCount(r) = 16
      BY <1>2, <2>1, <2>6, StepCounts
    <3>3. Len(Iam!Program(r)) = 16
      BY <2>1, <3>1
    <3> QED
      BY <3>2, <3>3
  <2> QED
    BY <1>1, <2>2, <2>3, <2>4, <2>5, <2>6
<1>3. CASE r.name = "secret"
  <2>1. Len(Iam!Program(r)) = 1
    BY <1>3, SecretIs
  <2>2. StepCount(r) = 1
    BY <1>3, StepCounts
  <2> QED
    BY <2>1, <2>2
<1>4. CASE r.name = "node resize"
  <2>1. Len(Iam!Program(r)) = 2
    BY <1>4, ResizeIs
  <2>2. StepCount(r) = 2
    BY <1>4, StepCounts
  <2> QED
    BY <2>1, <2>2
<1>5. CASE r.name = "cluster create"
  <2>1. Len(Iam!Program(r)) = 2
    BY <1>5, ClusterCreateIs
  <2>2. StepCount(r) = 2
    BY <1>5, StepCounts
  <2> QED
    BY <2>1, <2>2
<1>6. CASE r.name = "node init"
  <2>1. Len(Iam!Program(r)) = 3
    BY <1>6, NodeInitIs
  <2>2. StepCount(r) = 3
    BY <1>6, StepCounts
  <2> QED
    BY <2>1, <2>2
<1>7. CASE r.name = "node upgrade-agent"
  <2>1. Len(Iam!Program(r)) = 4
    BY <1>7, UpgradeProgramIs
  <2>2. StepCount(r) = 4
    BY <1>7, StepCounts
  <2> QED
    BY <2>1, <2>2
<1>8. CASE r.name = "node destroy"
  <2>1. Len(Iam!Program(r)) = 7
    BY <1>8, NodeDestroyIs
  <2>2. StepCount(r) = 7
    BY <1>8, StepCounts
  <2> QED
    BY <2>1, <2>2
<1>9. CASE r.name = "cluster destroy"
  <2>1. Len(Iam!Program(r)) = 8
    BY <1>9, ClusterDestroyIs
  <2>2. StepCount(r) = 8
    BY <1>9, StepCounts
  <2> QED
    BY <2>1, <2>2
<1>10. CASE r.name = "node rotate-creds"
  <2>1. Len(Iam!Program(r)) = 3
    BY <1>10, RotateProgramIs
  <2>2. StepCount(r) = 3
    BY <1>10, StepCounts
  <2> QED
    BY <2>1, <2>2
<1> QED
  BY <1>1, <1>2, <1>3, <1>4, <1>5, <1>6, <1>7, <1>8, <1>9, <1>10 DEF Iam!Names

(* A cluster has an app node and an edge.                                    *)
LEMMA TwoNodes == /\ "app" \in Iam!NodeIds /\ "edge" \in Iam!NodeIds
                  /\ \A n \in Iam!NodeIds : n = "app" \/ n = "edge"
BY DEF Iam!NodeIds

(* The steps that delete a role.                                             *)
LEMMA DisownsAre ==
    ASSUME NEW r
    PROVE  /\ r.name = "node destroy" /\ r.at = 3 => Disowns(r, "app")
           /\ r.name = "node destroy" /\ r.at = 5 => Disowns(r, "edge")
           /\ r.name = "cluster destroy" /\ r.at = 4 => Disowns(r, "app")
           /\ r.name = "cluster destroy" /\ r.at = 5 => Disowns(r, "edge")
BY DEF Disowns

\* The commands that make or change the user of an external node.
OnUsers == {"node init", "node rotate-creds"}

(* What any step does, and who may take it.                                  *)
LEMMA ProgramIs ==
    ASSUME NEW r \in RanCommands, r.at \in 1 .. StepCount(r)
    PROVE  LET s == Iam!Program(r)[r.at] IN
           /\ StepIs(r, s) /\ Spares(s)
           /\ r.kind # "database" /\ r.name \notin OnUsers => Passes(Iam!OperatorPolicy, s)
           /\ /\ Iam!Bucket \in have /\ r.name = "deploy"
              /\ r.kind = "plain" \/ (r.kind = "secrets" /\ r.owner[2] = "itself")
              => Passes(Iam!ProjectDeployPolicy(r.cluster, r.owner[1]), s)
<1> DEFINE s == Iam!Program(r)[r.at]
<1>0. r.name \in Iam!Names
  BY DEF RanCommands
<1>1. CASE r.name = "deploy"
  <2>1. r.at \in 1 .. Len(Iam!Program(r))
    BY StepCountIs
  <2> QED
    BY <1>1, <2>1, DeployIs
<1>2. CASE r.name = "node destroy"
  <2>1. r.at \in 1 .. 7
    BY <1>2, StepCounts
  <2>2. Passes(Iam!OperatorPolicy, s) /\ Spares(s) /\ (r.at \notin {3, 5} => Harmless(s))
    BY <1>2, <2>1, NodeDestroyMay
  <2>3. /\ r.at = 2 => s = Iam!TearDownNode(r.cluster, "app")
        /\ r.at = 3 => s = Iam!DeleteNodeIam(r.cluster, "app")
        /\ r.at = 4 => s = Iam!TearDownNode(r.cluster, "edge")
        /\ r.at = 5 => s = Iam!DeleteNodeIam(r.cluster, "edge")
    BY <1>2, NodeDestroyIs
  <2> HIDE DEF s
  <2>4. Harmless(s) \/ \E n \in Iam!NodeIds : Disowns(r, n) /\ s = Iam!DeleteNodeIam(r.cluster, n)
    <3>1. CASE r.at = 3
      <4>1. Disowns(r, "app")
        BY <1>2, <3>1, DisownsAre
      <4> QED
        BY <2>3, <3>1, <4>1, TwoNodes
    <3>2. CASE r.at = 5
      <4>1. Disowns(r, "edge")
        BY <1>2, <3>2, DisownsAre
      <4> QED
        BY <2>3, <3>2, <4>1, TwoNodes
    <3> QED
      BY <2>2, <3>1, <3>2
  <2>5. StepIs(r, s)
    BY <1>2, <2>3, <2>4 DEF StepIs, Launches, Disowns, Prepares, Ends
  <2> QED
    BY <1>2, <2>2, <2>5 DEF s
<1>3. CASE r.name = "cluster destroy"
  <2>1. r.at \in 1 .. 8
    BY <1>3, StepCounts
  <2>2. Passes(Iam!OperatorPolicy, s) /\ Spares(s) /\ (r.at \notin {4, 5} => Harmless(s))
    BY <1>3, <2>1, ClusterDestroyMay
  <2>3. /\ r.at = 2 => s = Iam!TearDownNode(r.cluster, "app")
        /\ r.at = 3 => s = Iam!TearDownNode(r.cluster, "edge")
        /\ r.at = 4 => s = Iam!DeleteNodeIam(r.cluster, "app")
        /\ r.at = 5 => s = Iam!DeleteNodeIam(r.cluster, "edge")
    BY <1>3, ClusterDestroyIs
  <2> HIDE DEF s
  <2>4. Harmless(s) \/ \E n \in Iam!NodeIds : Disowns(r, n) /\ s = Iam!DeleteNodeIam(r.cluster, n)
    <3>1. CASE r.at = 4
      <4>1. Disowns(r, "app")
        BY <1>3, <3>1, DisownsAre
      <4> QED
        BY <2>3, <3>1, <4>1, TwoNodes
    <3>2. CASE r.at = 5
      <4>1. Disowns(r, "edge")
        BY <1>3, <3>2, DisownsAre
      <4> QED
        BY <2>3, <3>2, <4>1, TwoNodes
    <3> QED
      BY <2>2, <3>1, <3>2
  <2>5. StepIs(r, s)
    BY <1>3, <2>3, <2>4 DEF StepIs, Launches, Disowns, Prepares, Ends
  <2> QED
    BY <1>3, <2>2, <2>5 DEF s
<1>4. CASE r.name \notin {"deploy", "node destroy", "cluster destroy"}
  <2>1. Harmless(s) /\ Spares(s) /\ (r.name \notin OnUsers => Passes(Iam!OperatorPolicy, s))
    <3>1. CASE r.name = "secret"
      BY <3>1, SecretMay, StepCounts DEF OperatorMay
    <3>2. CASE r.name = "node resize"
      BY <3>2, ResizeMay, StepCounts DEF OperatorMay
    <3>3. CASE r.name = "node upgrade-agent"
      BY <3>3, UpgradeMay, StepCounts DEF OperatorMay
    <3>4. CASE r.name = "cluster create"
      BY <3>4, ClusterCreateMay, StepCounts DEF OperatorMay
    <3>5. CASE r.name = "node init"
      BY <3>5, NodeInitMay, StepCounts DEF OnUsers
    <3>6. CASE r.name = "node rotate-creds"
      BY <3>6, RotateMay, StepCounts DEF OnUsers
    <3> QED
      BY <1>0, <1>4, <3>1, <3>2, <3>3, <3>4, <3>5, <3>6 DEF Iam!Names
  <2> HIDE DEF s
  <2>2. StepIs(r, s)
    BY <1>4, <2>1 DEF StepIs, Launches, Disowns, Prepares, Ends
  <2> QED
    BY <1>4, <2>1, <2>2 DEF s
<1> QED
  BY <1>1, <1>2, <1>3, <1>4

(***************************************************************************)
(* The invariant                                                             *)
(***************************************************************************)
RoleRecords == [there : BOOLEAN, trust : (Repositories \cup {Iam!None})
    \X (Clusters \cup {Iam!None}),
                inline : [Repositories -> Clusters \cup {Iam!None}]]

Targeted == [project : Repositories, cluster : Clusters, role : Roles]

SettingUp == [name : {"ci-deploy"}, state : {"role", "policy", "workflow"},
              project : Repositories, cluster : Clusters, role : Roles]

CiTypes ==
    /\ ciRole \in [Roles -> RoleRecords]
    /\ workflow \subseteq Targeted
    /\ setup = Iam!Idle \/ setup \in SettingUp

\* A role that was never set up for two targets is its one target's.
TrustIsOfTarget(role, p, c) == ciRole[role].there /\ ciRole[role].trust = <<p, c>>

CiRoleHolds(role) ==
    /\ ~ciRole[role].there => \A p \in Repositories : ciRole[role].inline[p] = Iam!None
    /\ \A p \in Repositories : ciRole[role].inline[p] # Iam!None
          => ciRole[role].trust = <<p, ciRole[role].inline[p]>>
    /\ \A w \in workflow : w.role = role
          => TrustIsOfTarget(role, w.project, w.cluster)
              /\ ciRole[role].inline[w.project] = w.cluster

SetupHolds ==
    setup # Iam!Idle /\ setup.role \notin contested =>
       /\ ciRole[setup.role].there => ciRole[setup.role].trust = <<setup.project, setup.cluster>>
       /\ setup.state \in {"policy", "workflow"} => ciRole[setup.role].there
       /\ setup.state = "workflow" => ciRole[setup.role].inline[setup.project] = setup.cluster

CiRunHolds ==
    run.state = "running" /\ run.role # Iam!None /\ run.role \notin contested =>
       /\ TrustIsOfTarget(run.role, run.owner[1], run.cluster)
       /\ ciRole[run.role].inline[run.owner[1]] = run.cluster

CiInvariant == (\A role \in Roles \ contested : CiRoleHolds(role)) /\ SetupHolds /\ CiRunHolds

RunTypes ==
    \/ run = Iam!Idle
    \/ /\ run \in RanCommands
       /\ run.at \in 1 .. StepCount(run)
       /\ run.role # Iam!None => run.name = "deploy" /\ run.kind # "create" /\ Iam!Bucket \in have

\* The nodes that a command has ended and whose roles it has yet to delete.
Ended(r, n) ==
    \/ r.name = "node destroy" /\ ((n = "app" /\ r.at = 3) \/ (n = "edge" /\ r.at = 5))
    \/ r.name = "cluster destroy" /\ ((n = "app" /\ r.at \in {3, 4})
           \/ (n = "edge" /\ r.at \in {4, 5}))

NodesHold ==
    /\ \A c \in Clusters, n \in Iam!NodeIds :
          Iam!Instance(c, n) \in have => Iam!NodeRole(c, n) \in have
    /\ run.state = "running" =>
          \A n \in Iam!NodeIds :
             /\ Launches(run, n) => Iam!NodeRole(run.cluster, n) \in have
             /\ Ended(run, n) => Iam!Instance(run.cluster, n) \notin have

AccessInvariant == CiTypes /\ RunTypes /\ CiInvariant /\ NodesHold /\ CallsAreAllowed

(* An app agent reads every secret of its cluster.                           *)
LEMMA AgentSecrets ==
    ASSUME NEW c
    PROVE  Allowed(Iam!SsmReads(c), {"ssm:GetParameters"} \X {Iam!Secret(c, o) : o \in Iam!Owners})
<1>1. Iam!Grant(Iam!ReadSecret, {Iam!Secret(c, o) : o \in Iam!Owners}) \in Iam!SsmReads(c)
  BY DEF Iam!SsmReads
<1>2. \A a \in {"ssm:GetParameters"}, r \in {Iam!Secret(c, o) : o \in Iam!Owners} :
          Iam!Granted(Iam!SsmReads(c), a, r)
  BY <1>1, GrantGrants DEF Iam!ReadSecret
<1> QED
  BY <1>2, AllowedProduct

(* What the shared parts of the agents' policies allow.                      *)
LEMMA AgentPieces ==
    ASSUME NEW c, NEW n \in Iam!NodeIds
    PROVE  /\ Allowed(Iam!Notifications(c, n), Iam!QueueCalls(c, n))
           /\ Allowed(Iam!CloudWatchLogs(c), {"logs:CreateLogGroup", "logs:CreateLogStream",
                  "logs:PutLogEvents"} \X {Iam!Logs(c)})
           /\ Allowed(Iam!Ecr, {"ecr:GetAuthorizationToken"} \X {Iam!Account})
           /\ Allowed(Iam!Ecr, Iam!PullImage \X (have \cap {Iam!Repo(p) : p \in Repositories}))
           /\ Allowed(Iam!SsmReads(c), {"ssm:GetParameters"}
                  \X {Iam!Secret(c, o) : o \in Iam!Owners})
           /\ Allowed(Iam!BackupWrites(c), {"s3:PutObject", "s3:ListBucket", "s3:DeleteObject"}
                  \X {Iam!Dump(c)})
<1>1. Allowed(Iam!Notifications(c, n), Iam!QueueCalls(c, n))
  <2>1. Iam!Grant({"sqs:ReceiveMessage", "sqs:DeleteMessage", "sqs:GetQueueUrl"}, {Iam!Queue(c, n)})
          \in Iam!Notifications(c, n)
    BY DEF Iam!Notifications
  <2>2. \A a \in {"sqs:GetQueueUrl", "sqs:ReceiveMessage", "sqs:DeleteMessage"} :
           Iam!Granted(Iam!Notifications(c, n), a, Iam!Queue(c, n))
    BY <2>1, GrantGrants
  <2> QED
    BY <2>2, AllowedOn DEF Iam!QueueCalls
<1>2. Allowed(Iam!CloudWatchLogs(c), {"logs:CreateLogGroup", "logs:CreateLogStream",
          "logs:PutLogEvents"} \X {Iam!Logs(c)})
  <2>1. Iam!Grant({"logs:CreateLogGroup", "logs:CreateLogStream", "logs:PutLogEvents",
                   "logs:PutRetentionPolicy"}, {Iam!Logs(c)}) \in Iam!CloudWatchLogs(c)
    BY DEF Iam!CloudWatchLogs
  <2>2. \A a \in {"logs:CreateLogGroup", "logs:CreateLogStream", "logs:PutLogEvents"} :
           Iam!Granted(Iam!CloudWatchLogs(c), a, Iam!Logs(c))
    BY <2>1, GrantGrants
  <2> QED
    BY <2>2, AllowedOn
<1>3. Allowed(Iam!Ecr, {"ecr:GetAuthorizationToken"} \X {Iam!Account})
  <2>1. Iam!Grant({"ecr:GetAuthorizationToken"}, {Iam!Account}) \in Iam!Ecr
    BY DEF Iam!Ecr
  <2>2. \A a \in {"ecr:GetAuthorizationToken"} : Iam!Granted(Iam!Ecr, a, Iam!Account)
    BY <2>1, GrantGrants
  <2> QED
    BY <2>2, AllowedOn
<1>4. Allowed(Iam!Ecr, Iam!PullImage \X (have \cap {Iam!Repo(p) : p \in Repositories}))
  <2>1. Iam!Grant(Iam!PullImage, {Iam!Repo(p) : p \in Repositories}) \in Iam!Ecr
    BY DEF Iam!Ecr
  <2>2. \A a \in Iam!PullImage, r \in have \cap {Iam!Repo(p) : p \in Repositories} :
            Iam!Granted(Iam!Ecr, a, r)
    BY <2>1, GrantGrants
  <2> QED
    BY <2>2, AllowedProduct
<1>5. Allowed(Iam!SsmReads(c), {"ssm:GetParameters"} \X {Iam!Secret(c, o) : o \in Iam!Owners})
  BY AgentSecrets
<1>6. Allowed(Iam!BackupWrites(c), {"s3:PutObject", "s3:ListBucket", "s3:DeleteObject"}
          \X {Iam!Dump(c)})
  <2>1. Iam!Grant({"s3:PutObject", "s3:DeleteObject", "s3:ListBucket"}, {Iam!Dump(c)})
            \in Iam!BackupWrites(c)
    BY DEF Iam!BackupWrites
  <2>2. \A a \in {"s3:PutObject", "s3:ListBucket", "s3:DeleteObject"} :
           Iam!Granted(Iam!BackupWrites(c), a, Iam!Dump(c))
    BY <2>1, GrantGrants
  <2> QED
    BY <2>2, AllowedOn
<1> QED
  BY <1>1, <1>2, <1>3, <1>4, <1>5, <1>6

(* An app agent reads its desired state and writes its status and its shard. *)
LEMMA AppObjects ==
    ASSUME NEW c, NEW n \in Iam!NodeIds
    PROVE  /\ Allowed(Iam!AppPolicy(c, n), Iam!Reading({Iam!Desired(c, n)}).needs)
           /\ Allowed(Iam!AppPolicy(c, n), {"s3:PutObject"} \X {Iam!Status(c, n), Iam!Shard(c, n)})
<1>1. Iam!Grant({"s3:GetObject"}, {Iam!Desired(c, n)}) \in Iam!AppPolicy(c, n)
  BY DEF Iam!AppPolicy
<1>2. Iam!Grant({"s3:PutObject"}, {Iam!Status(c, n), Iam!Shard(c, n)}) \in Iam!AppPolicy(c, n)
  BY DEF Iam!AppPolicy
<1>3. Iam!Grant({"s3:ListBucket"}, {Iam!Desired(c, n), Iam!Status(c, n), Iam!Registry(c, n)})
          \in Iam!AppPolicy(c, n)
  BY DEF Iam!AppPolicy
<1>4. \A a \in GetList : Iam!Granted(Iam!AppPolicy(c, n), a, Iam!Desired(c, n))
  BY <1>1, <1>3, GrantGrants DEF GetList
<1>5. Allowed(Iam!AppPolicy(c, n), GetList \X {Iam!Desired(c, n)})
  BY <1>4, AllowedOn
<1>6. Allowed(Iam!AppPolicy(c, n), Iam!Reading({Iam!Desired(c, n)}).needs)
  BY <1>5, ReadingIs, AllowedSubset
<1>7. \A a \in {"s3:PutObject"}, r \in {Iam!Status(c, n), Iam!Shard(c, n)} :
          Iam!Granted(Iam!AppPolicy(c, n), a, r)
  BY <1>2, GrantGrants
<1> QED
  BY <1>6, <1>7, AllowedProduct

(* Its policy allows an app agent all that it calls.                         *)
LEMMA AppIsServed ==
    ASSUME NEW c
    PROVE  Allowed(Iam!AppPolicy(c, "app"), Iam!AgentCalls(c, "app"))
<1> DEFINE P == Iam!AppPolicy(c, "app")
<1>0. /\ Iam!Notifications(c, "app") \subseteq P /\ Iam!CloudWatchLogs(c) \subseteq P
          /\ Iam!Ecr \subseteq P
      /\ Iam!SsmReads(c) \subseteq P /\ Iam!BackupWrites(c) \subseteq P
  BY DEF Iam!AppPolicy
<1> HIDE DEF P
<1>1. /\ Allowed(P, Iam!QueueCalls(c, "app"))
      /\ Allowed(P, {"logs:CreateLogGroup", "logs:CreateLogStream", "logs:PutLogEvents"}
             \X {Iam!Logs(c)})
      /\ Allowed(P, {"ecr:GetAuthorizationToken"} \X {Iam!Account})
      /\ Allowed(P, Iam!PullImage \X (have \cap {Iam!Repo(p) : p \in Repositories}))
      /\ Allowed(P, {"ssm:GetParameters"} \X {Iam!Secret(c, o) : o \in Iam!Owners})
      /\ Allowed(P, {"s3:PutObject", "s3:ListBucket", "s3:DeleteObject"} \X {Iam!Dump(c)})
  <2>0. "app" \in Iam!NodeIds
    BY TwoNodes
  <2>1. Allowed(P, Iam!QueueCalls(c, "app"))
    <3>1. Allowed(Iam!Notifications(c, "app"), Iam!QueueCalls(c, "app"))
      BY <2>0, AgentPieces
    <3> QED
      BY <1>0, <3>1, AllowedMore
  <2>2. Allowed(P, {"logs:CreateLogGroup", "logs:CreateLogStream", "logs:PutLogEvents"}
            \X {Iam!Logs(c)})
    <3>1. Allowed(Iam!CloudWatchLogs(c), {"logs:CreateLogGroup", "logs:CreateLogStream",
              "logs:PutLogEvents"} \X {Iam!Logs(c)})
      BY <2>0, AgentPieces
    <3> QED
      BY <1>0, <3>1, AllowedMore
  <2>3. Allowed(P, {"ecr:GetAuthorizationToken"} \X {Iam!Account})
    <3>1. Allowed(Iam!Ecr, {"ecr:GetAuthorizationToken"} \X {Iam!Account})
      BY <2>0, AgentPieces
    <3> QED
      BY <1>0, <3>1, AllowedMore
  <2>4. Allowed(P, Iam!PullImage \X (have \cap {Iam!Repo(p) : p \in Repositories}))
    <3>1. Allowed(Iam!Ecr, Iam!PullImage \X (have \cap {Iam!Repo(p) : p \in Repositories}))
      BY <2>0, AgentPieces
    <3> QED
      BY <1>0, <3>1, AllowedMore
  <2>5. Allowed(P, {"ssm:GetParameters"} \X {Iam!Secret(c, o) : o \in Iam!Owners})
    <3>1. Allowed(Iam!SsmReads(c), {"ssm:GetParameters"} \X {Iam!Secret(c, o) : o \in Iam!Owners})
      BY AgentSecrets
    <3> QED
      BY <1>0, <3>1, AllowedMore
  <2>6. Allowed(P, {"s3:PutObject", "s3:ListBucket", "s3:DeleteObject"} \X {Iam!Dump(c)})
    <3>1. Allowed(Iam!BackupWrites(c), {"s3:PutObject", "s3:ListBucket", "s3:DeleteObject"}
              \X {Iam!Dump(c)})
      BY <2>0, AgentPieces
    <3> QED
      BY <1>0, <3>1, AllowedMore
  <2> QED
    BY <2>1, <2>2, <2>3, <2>4, <2>5, <2>6
<1>2. /\ Allowed(P, Iam!Reading({Iam!Desired(c, "app")}).needs)
      /\ Allowed(P, {"s3:PutObject"} \X {Iam!Status(c, "app"), Iam!Shard(c, "app")})
  BY TwoNodes, AppObjects DEF P
<1>3. Allowed(P, Iam!AppCalls(c, "app"))
  BY <1>1, <1>2 DEF Iam!AppCalls, Allowed
<1>4. Allowed(P, Iam!AgentCalls(c, "app"))
  <2>1. Iam!AgentCalls(c, "app") = Iam!QueueCalls(c, "app") \cup Iam!AppCalls(c, "app")
    BY DEF Iam!AgentCalls
  <2> QED
    BY <1>1, <1>3, <2>1, AllowedUnion
<1> QED
  BY <1>4 DEF P

(* Its policy allows an edge agent all that it calls.                        *)
LEMMA EdgeIsServed ==
    ASSUME NEW c
    PROVE  Allowed(Iam!EdgePolicy(c, "edge"), Iam!AgentCalls(c, "edge"))
<1> DEFINE P == Iam!EdgePolicy(c, "edge")
<1>0. /\ Iam!Notifications(c, "edge") \subseteq P /\ Iam!CloudWatchLogs(c) \subseteq P
      /\ Iam!Grant({"s3:GetObject", "s3:ListBucket"}, {Iam!Shard(c, m) : m \in Iam!NodeIds}) \in P
      /\ Iam!Grant({"s3:PutObject"}, {Iam!Status(c, "edge")}) \in P
  BY DEF Iam!EdgePolicy
<1> HIDE DEF P
<1>1. /\ Allowed(P, Iam!QueueCalls(c, "edge"))
      /\ Allowed(P, {"logs:CreateLogGroup", "logs:CreateLogStream", "logs:PutLogEvents"}
             \X {Iam!Logs(c)})
  <2>0. "edge" \in Iam!NodeIds
    BY TwoNodes
  <2>1. Allowed(P, Iam!QueueCalls(c, "edge"))
    <3>1. Allowed(Iam!Notifications(c, "edge"), Iam!QueueCalls(c, "edge"))
      BY <2>0, AgentPieces
    <3> QED
      BY <1>0, <3>1, AllowedMore
  <2>2. Allowed(P, {"logs:CreateLogGroup", "logs:CreateLogStream", "logs:PutLogEvents"}
            \X {Iam!Logs(c)})
    <3>1. Allowed(Iam!CloudWatchLogs(c), {"logs:CreateLogGroup", "logs:CreateLogStream",
              "logs:PutLogEvents"} \X {Iam!Logs(c)})
      BY <2>0, AgentPieces
    <3> QED
      BY <1>0, <3>1, AllowedMore
  <2> QED
    BY <2>1, <2>2
<1>2. \A a \in {"s3:GetObject", "s3:ListBucket"}, r \in {Iam!Shard(c, m) : m \in Iam!NodeIds} :
          Iam!Granted(P, a, r)
  BY <1>0, GrantGrants
<1>3. /\ Allowed(P, {"s3:ListBucket"} \X {Iam!Shard(c, m) : m \in Iam!NodeIds})
      /\ Allowed(P, {"s3:GetObject"} \X {Iam!Shard(c, m) : m \in Iam!NodeIds})
  <2> DEFINE shards == {Iam!Shard(c, m) : m \in Iam!NodeIds}
  <2>1. /\ \A a \in {"s3:ListBucket"}, r \in shards : Iam!Granted(P, a, r)
        /\ \A a \in {"s3:GetObject"}, r \in shards : Iam!Granted(P, a, r)
    BY <1>2
  <2> HIDE DEF shards
  <2>2. Allowed(P, {"s3:ListBucket"} \X shards)
    BY <2>1, AllowedProduct
  <2>3. Allowed(P, {"s3:GetObject"} \X shards)
    BY <2>1, AllowedProduct
  <2> QED
    BY <2>2, <2>3 DEF shards
<1>4. Iam!Granted(P, "s3:PutObject", Iam!Status(c, "edge"))
  BY <1>0, GrantGrants
<1>5. Allowed(P, {<<"s3:PutObject", Iam!Status(c, "edge")>>})
  BY <1>4 DEF Allowed
<1>6. Allowed(P, Iam!EdgeCalls(c, "edge"))
  BY <1>1, <1>3, <1>5 DEF Iam!EdgeCalls, Allowed
<1>7. Allowed(P, Iam!AgentCalls(c, "edge"))
  <2>1. Iam!AgentCalls(c, "edge") = Iam!QueueCalls(c, "edge") \cup Iam!EdgeCalls(c, "edge")
    BY DEF Iam!AgentCalls
  <2> QED
    BY <1>1, <1>6, <2>1, AllowedUnion
<1> QED
  BY <1>7 DEF P

(* Both together.                                                            *)
LEMMA AgentsAreAllowed ==
    ASSUME NEW c, NEW n \in Iam!NodeIds
    PROVE  Allowed(Iam!NodePolicy(c, n), Iam!AgentCalls(c, n))
<1>1. CASE n = "app"
  BY <1>1, AppIsServed DEF Iam!NodePolicy
<1>2. CASE n = "edge"
  BY <1>2, EdgeIsServed DEF Iam!NodePolicy
<1> QED
  BY <1>1, <1>2, TwoNodes

(* The build role's policy allows what the buildspec calls.                  *)
LEMMA BuildsAreAllowed ==
    ASSUME NEW c
    PROVE  Allowed(Iam!BuildPolicy(c), Iam!BuildCalls(c))
<1> DEFINE P == Iam!BuildPolicy(c)
<1>0. /\ Iam!Grant({"ecr:GetAuthorizationToken"}, {Iam!Account}) \in P
      /\ Iam!Grant(Iam!PushImage, {Iam!Repo(p) : p \in Repositories}) \in P
      /\ Iam!Grant({"s3:GetObject"}, {Iam!Context(c, o) : o \in Iam!Owners}) \in P
      /\ Iam!Grant({"logs:CreateLogGroup", "logs:CreateLogStream", "logs:PutLogEvents"},
             {Iam!Builder(c)}) \in P
  BY DEF Iam!BuildPolicy
<1> HIDE DEF P
<1>1. Iam!Granted(P, "ecr:GetAuthorizationToken", Iam!Account)
  BY <1>0, GrantGrants
<1>2. \A a \in Iam!PushImage, r \in have \cap {Iam!Repo(p) : p \in Repositories} :
          Iam!Granted(P, a, r)
  BY <1>0, GrantGrants
<1>3. \A a \in {"s3:GetObject"}, r \in have \cap {Iam!Context(c, o) : o \in Iam!Owners} :
          Iam!Granted(P, a, r)
  BY <1>0, GrantGrants
<1>4. \A a \in {"logs:CreateLogGroup", "logs:CreateLogStream", "logs:PutLogEvents"}, r
          \in {Iam!Builder(c)} : Iam!Granted(P, a, r)
  BY <1>0, GrantGrants
<1>5. /\ Allowed(P, {<<"ecr:GetAuthorizationToken", Iam!Account>>})
      /\ Allowed(P, Iam!PushImage \X (have \cap {Iam!Repo(p) : p \in Repositories}))
      /\ Allowed(P, {"s3:GetObject"} \X (have \cap {Iam!Context(c, o) : o \in Iam!Owners}))
      /\ Allowed(P, {"logs:CreateLogGroup", "logs:CreateLogStream", "logs:PutLogEvents"}
             \X {Iam!Builder(c)})
  BY <1>1, <1>2, <1>3, <1>4, AllowedProduct DEF Allowed
<1>6. Allowed(P, Iam!BuildCalls(c))
  BY <1>5 DEF Iam!BuildCalls, Allowed
<1> QED
  BY <1>6 DEF P

(* The parts about commands hold as long as command and resources stay.      *)
LEMMA RunStays ==
    ASSUME RunTypes, NodesHold, UNCHANGED <<run, have>>
    PROVE  RunTypes' /\ NodesHold'
<1>1. RunTypes'
  BY DEF RunTypes, RanCommands, StepCount
<1>2. NodesHold'
  BY DEF NodesHold, Launches, Ended
<1> QED
  BY <1>1, <1>2

(* What best-effort steps may go without is the same in every state.         *)
LEMMA GoesWithoutStays == Iam!OperatorGoesWithout' = Iam!OperatorGoesWithout
BY DEF Iam!OperatorGoesWithout, Iam!Account, Iam!NodeUser, Iam!Host

(* The property holds as long as the command stays and nothing is refused.   *)
LEMMA CallsStay ==
    ASSUME CallsAreAllowed, UNCHANGED <<run, refused, skipped>>, contested \subseteq contested'
    PROVE  CallsAreAllowed'
BY GoesWithoutStays DEF CallsAreAllowed, Iam!PoliciesAreEnough, Iam!CiIsEnough, Iam!OperatorIsEnough,
       Iam!AgentsAreServed

(* The parts about CI hold as long as nothing of it changes.                 *)
LEMMA CiStays ==
    ASSUME CiTypes, CiInvariant, UNCHANGED <<run, ciRole, workflow, setup, contested>>
    PROVE  CiTypes' /\ CiInvariant'
BY DEF CiTypes, CiInvariant, CiRoleHolds, SetupHolds, CiRunHolds, TrustIsOfTarget

(* No setup is not a setup, and no command is in no state of one.            *)
LEMMA IdleSetup ==
    /\ Iam!Idle.state \notin {"role", "policy", "workflow", "running", "denied", "done"}
    /\ \A s \in SettingUp : s # Iam!Idle /\ s.state \in {"role", "policy", "workflow"}
           /\ s.project \in Repositories
                              /\ s.cluster \in Clusters /\ s.role \in Roles
BY DEF Iam!Idle, Iam!None, SettingUp

(* A setup for another target than its role's contests the role.             *)
LEMMA BeginSetupHolds ==
    ASSUME AccessInvariant, NEW p \in Repositories, NEW c \in Clusters, NEW role \in Roles,
           Iam!BeginSetup(p, c, role)
    PROVE  AccessInvariant'
<1>0. AccessInvariant
  OBVIOUS
<1>1. /\ setup' = [name |-> "ci-deploy", state |-> "role", project |-> p, cluster |-> c,
          role |-> role]
      /\ contested' = IF ciRole[role].there /\ ciRole[role].trust # <<p, c>>
                      THEN contested \cup {role} ELSE contested
      /\ UNCHANGED <<have, ciRole, workflow, run, refused, skipped>>
  BY DEF Iam!BeginSetup
<1>2. contested \subseteq contested'
  BY <1>1
<1>3. CiTypes'
  BY <1>0, <1>1 DEF AccessInvariant, CiTypes, SettingUp, Iam!Idle
<1>4. ASSUME NEW x \in Roles \ contested' PROVE CiRoleHolds(x)'
  BY <1>0, <1>1, <1>2, <1>4 DEF AccessInvariant, CiInvariant, CiRoleHolds, TrustIsOfTarget
<1>5. SetupHolds'
  BY <1>1 DEF SetupHolds
<1>6. CiRunHolds'
  BY <1>0, <1>1, <1>2 DEF AccessInvariant, CiInvariant, CiRunHolds, TrustIsOfTarget
<1>7. CiInvariant'
  BY <1>4, <1>5, <1>6 DEF CiInvariant
<1> QED
  BY <1>0, <1>1, <1>2, <1>3, <1>7, RunStays, CallsStay DEF AccessInvariant

(* A setup that trusts its repository finds an uncontested role without      *)
(* other targets.                                                            *)
LEMMA TrustHolds ==
    ASSUME AccessInvariant, Iam!TrustRepository
    PROVE  AccessInvariant'
<1>0. AccessInvariant
  OBVIOUS
<1> DEFINE role == setup.role
<1>1. /\ setup.state = "role"
      /\ ciRole' = [ciRole EXCEPT ![setup.role].there = TRUE,
                                  ![setup.role].trust = <<setup.project, setup.cluster>>]
      /\ setup' = [setup EXCEPT !.state = "policy"]
      /\ UNCHANGED <<have, workflow, run, refused, skipped, contested>>
  BY DEF Iam!TrustRepository
<1>2. setup \in SettingUp /\ ciRole \in [Roles -> RoleRecords] /\ workflow \subseteq Targeted
  BY <1>0, <1>1, IdleSetup DEF AccessInvariant, CiTypes
<1>3. setup.project \in Repositories /\ setup.cluster \in Clusters /\ setup.role \in Roles
          /\ setup # Iam!Idle
  BY <1>2, IdleSetup
<1>4. /\ \A x \in Roles : x # setup.role => ciRole'[x] = ciRole[x]
      /\ ciRole'[setup.role].there
      /\ ciRole'[setup.role].trust = <<setup.project, setup.cluster>>
      /\ ciRole'[setup.role].inline = ciRole[setup.role].inline
  BY <1>1, <1>2, <1>3 DEF RoleRecords
<1>5. /\ setup'.project = setup.project /\ setup'.cluster = setup.cluster
          /\ setup'.role = setup.role
      /\ setup'.state = "policy" /\ setup' \in SettingUp
  BY <1>1, <1>2 DEF SettingUp
<1>6. CiTypes'
  <2>1. ciRole' \in [Roles -> RoleRecords]
    <3> DEFINE trust == <<setup.project, setup.cluster>>
               made == [ciRole[setup.role] EXCEPT !.there = TRUE, !.trust = trust]
    <3>1. trust \in (Repositories \cup {Iam!None}) \X (Clusters \cup {Iam!None})
      BY <1>3
    <3>2. ciRole[setup.role] \in RoleRecords
      BY <1>2, <1>3
    <3>3. ciRole' = [ciRole EXCEPT ![setup.role] = made]
      BY <1>1, <1>2, <1>3
    <3> HIDE DEF trust
    <3>4. made \in RoleRecords
      BY <3>1, <3>2 DEF RoleRecords
    <3> HIDE DEF made
    <3> QED
      BY <1>2, <3>3, <3>4
  <2> QED
    BY <1>1, <1>2, <1>5, <2>1 DEF CiTypes
<1>7. setup.role \notin contested /\ ciRole[setup.role].there
         => ciRole[setup.role].trust = <<setup.project, setup.cluster>>
  BY <1>0, <1>3 DEF AccessInvariant, CiInvariant, SetupHolds
<1>8. ASSUME NEW x \in Roles \ contested PROVE CiRoleHolds(x)'
  <2>1. CiRoleHolds(x)
    BY <1>0, <1>8 DEF AccessInvariant, CiInvariant
  <2>2. CASE x # setup.role
    BY <1>1, <1>4, <2>1, <2>2 DEF CiRoleHolds, TrustIsOfTarget
  <2>3. CASE x = setup.role /\ ciRole[x].there
    <3>1. ciRole'[x].trust = ciRole[x].trust /\ ciRole'[x].inline = ciRole[x].inline
      BY <1>4, <1>7, <1>8, <2>3
    <3>2. ciRole'[x].there
      BY <1>4, <2>3
    <3>3. /\ \A p \in Repositories : ciRole'[x].inline[p] # Iam!None
               => ciRole'[x].trust = <<p, ciRole'[x].inline[p]>>
          /\ \A w \in workflow : w.role = x
               => ciRole'[x].trust = <<w.project, w.cluster>>
                   /\ ciRole'[x].inline[w.project] = w.cluster
      BY <2>1, <3>1 DEF CiRoleHolds, TrustIsOfTarget
    <3> QED
      BY <1>1, <3>2, <3>3 DEF CiRoleHolds, TrustIsOfTarget
  <2>4. CASE x = setup.role /\ ~ciRole[x].there
    <3>1. /\ \A p \in Repositories : ciRole'[x].inline[p] = Iam!None
          /\ \A w \in workflow : w.role # x
      BY <1>4, <2>1, <2>4 DEF CiRoleHolds, TrustIsOfTarget
    <3> QED
      BY <1>1, <1>4, <2>4, <3>1 DEF CiRoleHolds, TrustIsOfTarget
  <2> QED
    BY <2>2, <2>3, <2>4
<1>9. SetupHolds'
  BY <1>4, <1>5 DEF SetupHolds
<1>10. CiRunHolds'
  <2> SUFFICES ASSUME run.state = "running", run.role # Iam!None, run.role \notin contested
               PROVE  /\ ciRole'[run.role].there
                          /\ ciRole'[run.role].trust = <<run.owner[1], run.cluster>>
                      /\ ciRole'[run.role].inline[run.owner[1]] = run.cluster
    BY <1>1 DEF CiRunHolds, TrustIsOfTarget
  <2>1. /\ ciRole[run.role].there /\ ciRole[run.role].trust = <<run.owner[1], run.cluster>>
        /\ ciRole[run.role].inline[run.owner[1]] = run.cluster
    BY <1>0 DEF AccessInvariant, CiInvariant, CiRunHolds, TrustIsOfTarget
  <2>2. run.role \in Roles
    BY <1>0, IdleSetup DEF AccessInvariant, RunTypes, RanCommands
  <2> QED
    BY <1>4, <1>7, <2>1, <2>2
<1>11. CiInvariant'
  BY <1>1, <1>8, <1>9, <1>10 DEF CiInvariant
<1> QED
  BY <1>0, <1>1, <1>6, <1>11, RunStays, CallsStay DEF AccessInvariant

(* A setup's policy is that of its target.                                   *)
LEMMA PolicyHolds ==
    ASSUME AccessInvariant, Iam!PutInlinePolicy
    PROVE  AccessInvariant'
<1>0. AccessInvariant
  OBVIOUS
<1>1. /\ setup.state = "policy"
      /\ ciRole' = [ciRole EXCEPT ![setup.role].inline[setup.project] = setup.cluster]
      /\ setup' = [setup EXCEPT !.state = "workflow"]
      /\ UNCHANGED <<have, workflow, run, refused, skipped, contested>>
  BY DEF Iam!PutInlinePolicy
<1>2. setup \in SettingUp /\ ciRole \in [Roles -> RoleRecords] /\ workflow \subseteq Targeted
  BY <1>0, <1>1, IdleSetup DEF AccessInvariant, CiTypes
<1>3. setup.project \in Repositories /\ setup.cluster \in Clusters /\ setup.role \in Roles
          /\ setup # Iam!Idle
  BY <1>2, IdleSetup
<1>4. /\ \A x \in Roles : x # setup.role => ciRole'[x] = ciRole[x]
      /\ ciRole'[setup.role].there = ciRole[setup.role].there
      /\ ciRole'[setup.role].trust = ciRole[setup.role].trust
      /\ \A p \in Repositories : ciRole'[setup.role].inline[p]
            = IF p = setup.project THEN setup.cluster ELSE ciRole[setup.role].inline[p]
  BY <1>1, <1>2, <1>3 DEF RoleRecords
<1>5. /\ setup'.project = setup.project /\ setup'.cluster = setup.cluster
          /\ setup'.role = setup.role
      /\ setup'.state = "workflow" /\ setup' \in SettingUp
  BY <1>1, <1>2 DEF SettingUp
<1>6. CiTypes'
  <2>1. ciRole' \in [Roles -> RoleRecords]
    BY <1>1, <1>2, <1>3 DEF RoleRecords
  <2> QED
    BY <1>1, <1>2, <1>5, <2>1 DEF CiTypes
<1>7. setup.role \notin contested
         => ciRole[setup.role].there /\ ciRole[setup.role].trust = <<setup.project, setup.cluster>>
  BY <1>0, <1>1, <1>3 DEF AccessInvariant, CiInvariant, SetupHolds
<1>8. ASSUME NEW x \in Roles \ contested PROVE CiRoleHolds(x)'
  <2>1. CiRoleHolds(x)
    BY <1>0, <1>8 DEF AccessInvariant, CiInvariant
  <2>2. CASE x # setup.role
    BY <1>1, <1>4, <2>1, <2>2 DEF CiRoleHolds, TrustIsOfTarget
  <2>3. CASE x = setup.role
    <3>1. ASSUME NEW p \in Repositories, ciRole'[x].inline[p] # Iam!None
          PROVE  ciRole'[x].trust = <<p, ciRole'[x].inline[p]>>
      BY <1>4, <1>7, <1>8, <2>1, <2>3, <3>1 DEF CiRoleHolds
    <3>2. ASSUME NEW w \in workflow, w.role = x
          PROVE  /\ ciRole'[x].there /\ ciRole'[x].trust = <<w.project, w.cluster>>
                 /\ ciRole'[x].inline[w.project] = w.cluster
      <4>1. /\ ciRole[x].there /\ ciRole[x].trust = <<w.project, w.cluster>>
            /\ ciRole[x].inline[w.project] = w.cluster /\ w.project \in Repositories
        BY <1>2, <2>1, <3>2 DEF CiRoleHolds, TrustIsOfTarget, Targeted
      <4>2. w.project = setup.project /\ w.cluster = setup.cluster
        BY <1>7, <1>8, <2>3, <4>1
      <4> QED
        BY <1>4, <2>3, <4>1, <4>2
    <3>3. ciRole'[x].there
      BY <1>4, <1>7, <1>8, <2>3
    <3> QED
      BY <1>1, <3>1, <3>2, <3>3 DEF CiRoleHolds, TrustIsOfTarget
  <2> QED
    BY <2>2, <2>3
<1>9. SetupHolds'
  BY <1>1, <1>3, <1>4, <1>5, <1>7 DEF SetupHolds
<1>10. CiRunHolds'
  <2> SUFFICES ASSUME run.state = "running", run.role # Iam!None, run.role \notin contested
               PROVE  /\ ciRole'[run.role].there
                          /\ ciRole'[run.role].trust = <<run.owner[1], run.cluster>>
                      /\ ciRole'[run.role].inline[run.owner[1]] = run.cluster
    BY <1>1 DEF CiRunHolds, TrustIsOfTarget
  <2>1. /\ ciRole[run.role].there /\ ciRole[run.role].trust = <<run.owner[1], run.cluster>>
        /\ ciRole[run.role].inline[run.owner[1]] = run.cluster
    BY <1>0 DEF AccessInvariant, CiInvariant, CiRunHolds, TrustIsOfTarget
  <2>2. run.role \in Roles /\ run.owner[1] \in Repositories
    BY <1>0, IdleSetup, RanIs DEF AccessInvariant, RunTypes, RanCommands
  <2> QED
    BY <1>4, <1>7, <2>1, <2>2
<1>11. CiInvariant'
  BY <1>1, <1>8, <1>9, <1>10 DEF CiInvariant
<1> QED
  BY <1>0, <1>1, <1>6, <1>11, RunStays, CallsStay DEF AccessInvariant

(* A workflow is written for a role that is its target's.                    *)
LEMMA WorkflowHolds ==
    ASSUME AccessInvariant, Iam!WriteWorkflow
    PROVE  AccessInvariant'
<1>0. AccessInvariant
  OBVIOUS
<1>1. /\ setup.state = "workflow"
      /\ workflow' = {w \in workflow : <<w.project, w.cluster>> # <<setup.project, setup.cluster>>}
                     \cup {[project |-> setup.project, cluster |-> setup.cluster,
                         role |-> setup.role]}
      /\ setup' = Iam!Idle
      /\ UNCHANGED <<have, ciRole, run, refused, skipped, contested>>
  BY DEF Iam!WriteWorkflow
<1>2. setup \in SettingUp /\ ciRole \in [Roles -> RoleRecords] /\ workflow \subseteq Targeted
  BY <1>0, <1>1, IdleSetup DEF AccessInvariant, CiTypes
<1>3. setup.project \in Repositories /\ setup.cluster \in Clusters /\ setup.role \in Roles
          /\ setup # Iam!Idle
  BY <1>2, IdleSetup
<1>4. \A w \in workflow' : \/ w \in workflow
                           \/ w.project = setup.project /\ w.cluster = setup.cluster
                                  /\ w.role = setup.role
  BY <1>1
<1>5. CiTypes'
  BY <1>1, <1>2, <1>3 DEF CiTypes, Targeted
<1>6. setup.role \notin contested
         => /\ TrustIsOfTarget(setup.role, setup.project, setup.cluster)
            /\ ciRole[setup.role].inline[setup.project] = setup.cluster
  BY <1>0, <1>1, <1>3 DEF AccessInvariant, CiInvariant, SetupHolds, TrustIsOfTarget
<1>7. ASSUME NEW x \in Roles \ contested PROVE CiRoleHolds(x)'
  <2>1. CiRoleHolds(x)
    BY <1>0, <1>7 DEF AccessInvariant, CiInvariant
  <2> QED
    BY <1>1, <1>4, <1>6, <1>7, <2>1 DEF CiRoleHolds, TrustIsOfTarget
<1>8. SetupHolds'
  BY <1>1 DEF SetupHolds
<1>9. CiRunHolds'
  BY <1>0, <1>1 DEF AccessInvariant, CiInvariant, CiRunHolds, TrustIsOfTarget
<1>10. CiInvariant'
  BY <1>1, <1>7, <1>8, <1>9 DEF CiInvariant
<1> QED
  BY <1>0, <1>1, <1>5, <1>10, RunStays, CallsStay DEF AccessInvariant

(* An administrator's external node is neither an instance nor a role of     *)
(* launch-pad's.                                                             *)
LEMMA AdministratorEnrollsHolds ==
    ASSUME AccessInvariant, NEW c \in Clusters, Iam!AdministratorEnrolls(c)
    PROVE  AccessInvariant'
<1>0. AccessInvariant
  OBVIOUS
<1>1. /\ have' = have \cup {Iam!Bucket, Iam!Registry(c, Iam!Host), Iam!NodeUser(c, Iam!Host)}
      /\ UNCHANGED <<ciRole, workflow, setup, run, refused, skipped, contested>>
  BY DEF Iam!AdministratorEnrolls
<1>2. \A d \in Clusters, n \in Iam!NodeIds : Iam!Instance(d, n) \in have' => Iam!Instance(d, n) \in have
  <2> TAKE d \in Clusters, n \in Iam!NodeIds
  <2>1. /\ ResourceKind(Iam!Instance(d, n)) = "running instance"
        /\ ResourceKind(Iam!Bucket) = "bucket"
        /\ ResourceKind(Iam!Registry(c, Iam!Host)) = "node.json"
        /\ ResourceKind(Iam!NodeUser(c, Iam!Host)) = "node user"
    BY KindsOfResources, NamesOfObjects
  <2>2. Iam!Instance(d, n) \notin {Iam!Bucket, Iam!Registry(c, Iam!Host), Iam!NodeUser(c, Iam!Host)}
    BY <2>1
  <2> QED
    BY <1>1, <2>2
<1>3. have \subseteq have'
  BY <1>1
<1>4. RunTypes'
  BY <1>0, <1>1, <1>3 DEF AccessInvariant, RunTypes, RanCommands, StepCount
<1>5. NodesHold'
  <2>1. /\ \A d \in Clusters, n \in Iam!NodeIds :
              Iam!Instance(d, n) \in have => Iam!NodeRole(d, n) \in have
        /\ run.state = "running" =>
              \A n \in Iam!NodeIds :
                 /\ Launches(run, n) => Iam!NodeRole(run.cluster, n) \in have
                 /\ Ended(run, n) => Iam!Instance(run.cluster, n) \notin have
    BY <1>0 DEF AccessInvariant, NodesHold
  <2>2. \A d \in Clusters, n \in Iam!NodeIds :
           Iam!Instance(d, n) \in have' => Iam!NodeRole(d, n) \in have'
    BY <1>2, <1>3, <2>1
  <2>3. run # Iam!Idle => run.cluster \in Clusters
    BY <1>0, RanIs DEF AccessInvariant, RunTypes
  <2>4. run.state = "running" => run # Iam!Idle
    BY IdleSetup
  <2>5. run.state = "running" =>
           \A n \in Iam!NodeIds :
              /\ Launches(run, n) => Iam!NodeRole(run.cluster, n) \in have'
              /\ Ended(run, n) => Iam!Instance(run.cluster, n) \notin have'
    BY <1>2, <1>3, <2>1, <2>3, <2>4
  <2>6. run' = run
    BY <1>1
  <2> QED
    BY <2>2, <2>5, <2>6 DEF NodesHold, Launches, Ended
<1> QED
  BY <1>0, <1>1, <1>4, <1>5, CallsStay, CiStays DEF AccessInvariant

(* No command starts with a launch or after an end.                          *)
LEMMA AtTheStart ==
    ASSUME NEW r, r.at = 1, NEW n
    PROVE  ~Launches(r, n) /\ ~Ended(r, n)
BY DEF Launches, Ended

(* The commands that begin.                                                  *)
LEMMA CommandsAreRan ==
    ASSUME NEW r \in Iam!Commands
    PROVE  r \in RanCommands /\ r.at = 1 /\ r.state = "running" /\ 1 \in 1 .. StepCount(r)
               /\ r # Iam!Idle
<1>1. r \in RanCommands /\ r.at = 1 /\ r.state = "running"
  BY DEF Iam!Commands, RanCommands
<1>2. 1 \in 1 .. StepCount(r)
  BY <1>1, StepCountIs
<1>3. r # Iam!Idle
  BY <1>1, IdleSetup
<1> QED
  BY <1>1, <1>2, <1>3

(* The operator's command begins.                                            *)
LEMMA BeginOperatorHolds ==
    ASSUME AccessInvariant, NEW r \in Iam!Commands, Iam!BeginOperator(r)
    PROVE  AccessInvariant'
<1>0. AccessInvariant
  OBVIOUS
<1>1. /\ r.role = Iam!None /\ run' = r
      /\ UNCHANGED <<have, ciRole, workflow, setup, refused, skipped, contested>>
  BY DEF Iam!BeginOperator, Iam!Begin
<1>2. r \in RanCommands /\ r.at = 1 /\ r.state = "running" /\ 1 \in 1 .. StepCount(r)
  BY CommandsAreRan
<1>3. RunTypes'
  <2>1. run' \in RanCommands /\ run'.at = 1 /\ run'.role = Iam!None
    BY <1>1, <1>2
  <2>2. 1 \in 1 .. StepCount(run')
    BY <1>1, <1>2
  <2> QED
    BY <2>1, <2>2 DEF RunTypes, RanCommands, StepCount
<1>4. NodesHold'
  <2>1. \A n \in Iam!NodeIds : ~Launches(run', n) /\ ~Ended(run', n)
    BY <1>1, <1>2, AtTheStart
  <2> QED
    BY <1>0, <1>1, <2>1 DEF AccessInvariant, NodesHold, Launches, Ended
<1>5. CiTypes' /\ CiInvariant'
  BY <1>0, <1>1 DEF AccessInvariant, CiTypes, CiInvariant, CiRoleHolds, SetupHolds, CiRunHolds,
         TrustIsOfTarget
<1>6. CallsAreAllowed'
  BY <1>0, <1>1, <1>2 DEF AccessInvariant, CallsAreAllowed, Iam!PoliciesAreEnough, Iam!CiIsEnough,
     Iam!OperatorIsEnough, Iam!AgentsAreServed
<1> QED
  BY <1>3, <1>4, <1>5, <1>6 DEF AccessInvariant

(* A workflow's deploy begins: its role trusts it unless it is contested.    *)
LEMMA BeginCiHolds ==
    ASSUME AccessInvariant, NEW r \in Iam!Commands, NEW w \in workflow, Iam!BeginCi(r, w)
    PROVE  AccessInvariant'
<1>0. AccessInvariant
  OBVIOUS
<1>1. /\ w.role = r.role /\ w.project = r.owner[1] /\ w.cluster = r.cluster
      /\ r.name = "deploy" /\ r.kind # "create"
      /\ Iam!Bucket \in have
      /\ run' = [r EXCEPT !.state = IF ciRole[w.role].trust = <<w.project, w.cluster>>
                                     THEN "running" ELSE "denied"]
      /\ UNCHANGED <<have, ciRole, workflow, setup, refused, skipped, contested>>
  BY DEF Iam!BeginCi, Iam!Begin
<1>2. r \in RanCommands /\ r.at = 1 /\ r.state = "running" /\ 1 \in 1 .. StepCount(r)
  BY CommandsAreRan
<1>3. /\ run' \in RanCommands /\ run'.at = 1 /\ run'.name = "deploy" /\ run'.kind # "create"
      /\ run'.owner = r.owner /\ run'.cluster = r.cluster /\ run'.role = w.role
      /\ run'.state = IF ciRole[w.role].trust =
             <<w.project, w.cluster>> THEN "running" ELSE "denied"
  BY <1>1, <1>2 DEF RanCommands
<1>4. w.role \in Roles
  BY <1>0 DEF AccessInvariant, CiTypes, Targeted
<1>5. w.role \notin contested
         => TrustIsOfTarget(w.role, w.project, w.cluster)
             /\ ciRole[w.role].inline[w.project] = w.cluster
  BY <1>0, <1>4 DEF AccessInvariant, CiInvariant, CiRoleHolds
<1>6. RunTypes'
  <2>1. 1 \in 1 .. StepCount(run')
    BY <1>3, StepCountIs
  <2> QED
    BY <1>1, <1>3, <2>1 DEF RunTypes, RanCommands, StepCount
<1>7. NodesHold'
  <2>1. \A n \in Iam!NodeIds : ~Launches(run', n) /\ ~Ended(run', n)
    BY <1>3, AtTheStart
  <2> QED
    BY <1>0, <1>1, <2>1 DEF AccessInvariant, NodesHold, Launches, Ended
<1>8. CiTypes' /\ CiInvariant'
  <2>1. CiTypes' /\ SetupHolds' /\ (\A role \in Roles \ contested' : CiRoleHolds(role)')
    BY <1>0, <1>1 DEF AccessInvariant, CiTypes, CiInvariant, CiRoleHolds, SetupHolds,
           TrustIsOfTarget
  <2>2. CiRunHolds'
    BY <1>1, <1>3, <1>5 DEF CiRunHolds, TrustIsOfTarget
  <2> QED
    BY <2>1, <2>2 DEF CiInvariant
<1>9. CallsAreAllowed'
  <2>1. run'.state = "denied" => run'.role \in contested /\ run'.role # Iam!None
    BY <1>3, <1>4, <1>5, NamesAssumption DEF TrustIsOfTarget
  <2> QED
    BY <1>0, <1>1, <2>1 DEF AccessInvariant, CallsAreAllowed, Iam!PoliciesAreEnough, Iam!CiIsEnough,
       Iam!OperatorIsEnough, Iam!AgentsAreServed
<1> QED
  BY <1>6, <1>7, <1>8, <1>9 DEF AccessInvariant

(* An interrupted command leaves roles without nodes and no node without a   *)
(* role.                                                                     *)
LEMMA InterruptHolds ==
    ASSUME AccessInvariant, Iam!Interrupt
    PROVE  AccessInvariant'
<1>0. AccessInvariant
  OBVIOUS
<1>1. UNCHANGED <<have, ciRole, workflow, refused, skipped, contested>>
  BY DEF Iam!Interrupt
<1>2. CASE run' = Iam!Idle /\ UNCHANGED setup
  <2>1. run'.state \notin {"running", "denied"}
    BY <1>2, IdleSetup
  <2>2. RunTypes' /\ NodesHold'
    BY <1>0, <1>1, <1>2, <2>1 DEF AccessInvariant, RunTypes, NodesHold
  <2>3. CiTypes' /\ CiInvariant'
    BY <1>0, <1>1, <1>2, <2>1 DEF AccessInvariant, CiTypes, CiInvariant, CiRoleHolds, SetupHolds,
           CiRunHolds,
       TrustIsOfTarget
  <2>4. CallsAreAllowed'
    BY <1>0, <1>1, <2>1 DEF AccessInvariant, CallsAreAllowed, Iam!PoliciesAreEnough, Iam!CiIsEnough,
       Iam!OperatorIsEnough, Iam!AgentsAreServed
  <2> QED
    BY <2>2, <2>3, <2>4 DEF AccessInvariant
<1>3. CASE setup' = Iam!Idle /\ UNCHANGED run
  <2>1. CiTypes' /\ CiInvariant'
    BY <1>0, <1>1, <1>3 DEF AccessInvariant, CiTypes, CiInvariant, CiRoleHolds, SetupHolds,
           CiRunHolds,
       TrustIsOfTarget
  <2> QED
    BY <1>0, <1>1, <1>3, <2>1, RunStays, CallsStay DEF AccessInvariant
<1> QED
  BY <1>2, <1>3 DEF Iam!Interrupt

(* An agent is refused nothing, for its node has its role.                   *)
LEMMA AgentTickHolds ==
    ASSUME AccessInvariant, NEW c \in Clusters, NEW n \in Iam!NodeIds, Iam!AgentTick(c, n)
    PROVE  AccessInvariant'
<1>0. AccessInvariant
  OBVIOUS
<1>1. /\ Iam!Instance(c, n) \in have
      /\ refused' = refused \cup Iam!Denied(Iam!RolePolicy(Iam!NodeRole(c, n),
             Iam!NodePolicy(c, n)), Iam!AgentCalls(c, n))
      /\ UNCHANGED <<have, ciRole, workflow, setup, run, skipped, contested>>
  BY DEF Iam!AgentTick
<1>2. Iam!NodeRole(c, n) \in have
  BY <1>0, <1>1 DEF AccessInvariant, NodesHold
<1>3. Iam!RolePolicy(Iam!NodeRole(c, n), Iam!NodePolicy(c, n)) = Iam!NodePolicy(c, n)
  BY <1>2 DEF Iam!RolePolicy
<1>4. Iam!Denied(Iam!NodePolicy(c, n), Iam!AgentCalls(c, n)) = {}
  BY AgentsAreAllowed, AllowedIsUndenied
<1>5. refused' = refused
  BY <1>1, <1>3, <1>4
<1> QED
  BY <1>0, <1>1, <1>5, RunStays, CallsStay, CiStays DEF AccessInvariant

(* A build is refused nothing, and takes away only itself.                   *)
LEMMA BuildRunsHolds ==
    ASSUME AccessInvariant, NEW c \in Clusters, Iam!BuildRuns(c)
    PROVE  AccessInvariant'
<1>0. AccessInvariant
  OBVIOUS
<1>1. /\ have' = have \ {Iam!Build(c)}
      /\ refused' = IF Iam!BuildRole(c) \in have
                    THEN refused \cup Iam!Denied(Iam!BuildPolicy(c), Iam!BuildCalls(c)) ELSE refused
      /\ UNCHANGED <<ciRole, workflow, setup, run, skipped, contested>>
  BY DEF Iam!BuildRuns
<1>2. Iam!Denied(Iam!BuildPolicy(c), Iam!BuildCalls(c)) = {}
  BY BuildsAreAllowed, AllowedIsUndenied
<1>3. refused' = refused
  BY <1>1, <1>2
<1>4. /\ Iam!Bucket # Iam!Build(c)
      /\ \A d, n : Iam!Instance(d, n) # Iam!Build(c) /\ Iam!NodeRole(d, n) # Iam!Build(c)
  <2>1. ResourceKind(Iam!Build(c)) = "running build" /\ ResourceKind(Iam!Bucket) = "bucket"
    BY KindsOfResources
  <2>2. \A d, n : ResourceKind(Iam!Instance(d, n)) = "running instance"
            /\ ResourceKind(Iam!NodeRole(d, n)) = "node role"
    BY KindsOfResources
  <2> QED
    BY <2>1, <2>2
<1>5. RunTypes'
  BY <1>0, <1>1, <1>4 DEF AccessInvariant, RunTypes, RanCommands, StepCount
<1>6. NodesHold'
  BY <1>0, <1>1, <1>4 DEF AccessInvariant, NodesHold, Launches, Ended
<1> QED
  BY <1>0, <1>1, <1>3, <1>5, <1>6, CallsStay, CiStays DEF AccessInvariant

(* A node that a command is past ending was ended by this step or an earlier *)
(* one.                                                                      *)
LEMMA EndedNext ==
    ASSUME NEW r, NEW q, NEW n, r.at \in Nat, q.at = r.at + 1, q.name = r.name, Ended(q, n)
    PROVE  Ends(r, n) \/ Ended(r, n)
<1>1. /\ q.at = 3 => r.at = 2
      /\ q.at = 4 => r.at = 3
      /\ q.at = 5 => r.at = 4
  OBVIOUS
<1> QED
  BY <1>1 DEF Ended, Ends

(* From one step to the next.                                                *)
LEMMA FromStepToStep ==
    ASSUME NEW r \in RanCommands, NEW q, q = [r EXCEPT !.at = @ + 1], NEW n \in Iam!NodeIds
    PROVE  /\ q \in RanCommands /\ q.at = r.at + 1 /\ q.state = r.state /\ q.role = r.role
               /\ q.name = r.name
           /\ q.kind = r.kind /\ q.owner = r.owner /\ q.cluster = r.cluster
           /\ Launches(q, n) => Prepares(r, n)
           /\ Ended(q, n) => Ends(r, n) \/ Ended(r, n)
<1>1. /\ q \in RanCommands /\ q.at = r.at + 1 /\ q.state = r.state /\ q.role = r.role
          /\ q.name = r.name
      /\ q.kind = r.kind /\ q.owner = r.owner /\ q.cluster = r.cluster /\ r.at \in Nat
  BY DEF RanCommands
<1>2. Launches(q, n) => Prepares(r, n)
  BY <1>1 DEF Launches, Prepares
<1>3. Ended(q, n) => Ends(r, n) \/ Ended(r, n)
  BY <1>1, EndedNext
<1> QED
  BY <1>1, <1>2, <1>3

(* A role is deleted when its node has ended.                                *)
LEMMA DisownedHasEnded ==
    ASSUME NEW r, NEW n, Disowns(r, n)
    PROVE  Ended(r, n)
BY DEF Disowns, Ended

(* Only a deploy that creates nodes launches them.                           *)
LEMMA LaunchersAreDeploys ==
    ASSUME NEW r, NEW n, Launches(r, n) \/ Prepares(r, n)
    PROVE  r.name = "deploy" /\ r.kind = "create"
BY DEF Launches, Prepares

(* Only the commands that destroy nodes end them.                            *)
LEMMA EndersAreNot ==
    ASSUME NEW r, NEW n, Ends(r, n) \/ Ended(r, n)
    PROVE  r.name \in {"node destroy", "cluster destroy"}
BY DEF Ends, Ended

(* Instances and roles are told apart by their cluster and node.             *)
LEMMA NamesOfNodes ==
    ASSUME NEW c, NEW n, NEW d, NEW m
    PROVE  /\ Iam!Instance(c, n) = Iam!Instance(d, m) => c = d /\ n = m
           /\ Iam!NodeRole(c, n) = Iam!NodeRole(d, m) => c = d /\ n = m
           /\ Iam!Instance(c, n) # Iam!NodeRole(d, m)
           /\ Iam!Instance(c, n) # Iam!Bucket
           /\ Iam!NodeRole(c, n) # Iam!Bucket
<1>1. /\ Iam!Instance(c, n) = Iam!Instance(d, m) => c = d /\ n = m
      /\ Iam!NodeRole(c, n) = Iam!NodeRole(d, m) => c = d /\ n = m
  BY DEF Iam!Instance, Iam!NodeRole
<1>2. /\ ResourceKind(Iam!Instance(c, n)) = "running instance"
          /\ ResourceKind(Iam!NodeRole(c, n)) = "node role"
      /\ ResourceKind(Iam!NodeRole(d, m)) = "node role" /\ ResourceKind(Iam!Bucket) = "bucket"
  BY KindsOfResources
<1> QED
  BY <1>1, <1>2

(* What a step of a command leaves of instances, roles and bucket.           *)
LEMMA StepKeepsNodes ==
    ASSUME NEW r \in RanCommands, NEW s, StepIs(r, s), NEW after,
           after = (have \ s.gone) \cup s.makes,
           \A c \in Clusters, n \in Iam!NodeIds : Iam!Instance(c, n) \in have =>
               Iam!NodeRole(c, n) \in have,
           \A n \in Iam!NodeIds : Launches(r, n) => Iam!NodeRole(r.cluster, n) \in have,
           \A n \in Iam!NodeIds : Ended(r, n) => Iam!Instance(r.cluster, n) \notin have
    PROVE  /\ \A c \in Clusters, n \in Iam!NodeIds : Iam!Instance(c, n) \in after =>
               Iam!NodeRole(c, n) \in after
           /\ \A n \in Iam!NodeIds : Ended(r, n) => Iam!Instance(r.cluster, n) \notin after
           /\ Iam!Bucket \in have => Iam!Bucket \in after
<1>0. r.cluster \in Clusters
  BY RanIs
<1>1. CASE Harmless(s)
  BY <1>0, <1>1 DEF Harmless
<1>2. ASSUME NEW m \in Iam!NodeIds, Launches(r, m), s = Iam!RunNode(r.cluster, m)
      PROVE  /\ \A c \in Clusters, n \in Iam!NodeIds : Iam!Instance(c, n) \in after =>
                 Iam!NodeRole(c, n) \in after
             /\ \A n \in Iam!NodeIds : Ended(r, n) => Iam!Instance(r.cluster, n) \notin after
             /\ Iam!Bucket \in have => Iam!Bucket \in after
  <2>1. s.makes = {Iam!Instance(r.cluster, m)} /\ s.gone = {}
    BY <1>2, RunNodeIs
  <2>2. after = have \cup {Iam!Instance(r.cluster, m)}
    BY <2>1
  <2>3. \A c \in Clusters, n \in Iam!NodeIds : Iam!Instance(c, n) \in after =>
            Iam!NodeRole(c, n) \in after
    BY <1>2, <2>2, NamesOfNodes
  <2>4. \A n \in Iam!NodeIds : ~Ended(r, n)
    BY <1>2, LaunchersAreDeploys, EndersAreNot
  <2> QED
    BY <2>2, <2>3, <2>4
<1>3. ASSUME NEW m \in Iam!NodeIds, Disowns(r, m), s = Iam!DeleteNodeIam(r.cluster, m)
      PROVE  /\ \A c \in Clusters, n \in Iam!NodeIds : Iam!Instance(c, n) \in after =>
                 Iam!NodeRole(c, n) \in after
             /\ \A n \in Iam!NodeIds : Ended(r, n) => Iam!Instance(r.cluster, n) \notin after
             /\ Iam!Bucket \in have => Iam!Bucket \in after
  <2>1. s.makes = {} /\ s.gone = {Iam!NodeRole(r.cluster, m)}
    BY <1>3, TearDownIs
  <2>2. after = have \ {Iam!NodeRole(r.cluster, m)}
    BY <2>1
  <2>3. Iam!Instance(r.cluster, m) \notin have
    BY <1>3, DisownedHasEnded
  <2>4. \A c \in Clusters, n \in Iam!NodeIds : Iam!Instance(c, n) \in after =>
            Iam!NodeRole(c, n) \in after
    BY <2>2, <2>3, NamesOfNodes
  <2> QED
    BY <2>2, <2>4, NamesOfNodes
<1> QED
  BY <1>1, <1>2, <1>3 DEF StepIs

(* A role that cannot be made ends the command.                              *)
LEMMA LaunchIsHard ==
    ASSUME NEW c, NEW n
    PROVE  Iam!After(Iam!ResolveNodeAmi, Iam!After(Iam!PrepareLaunch,
               Iam!EnsureNodeIam(c, n))).soft = FALSE
BY DEF Iam!After, Iam!ResolveNodeAmi, Iam!PrepareLaunch, Iam!EnsureNodeIam, Iam!Step, Iam!Making

(* What proceeding does.                                                     *)
LEMMA ProceedIs ==
    ASSUME Iam!Proceed
    PROVE  LET s == Iam!Program(run)[run.at]
               ok == Allowed(Iam!Policy(run), s.needs) IN
           /\ run.state = "running"
           /\ have' = IF ok THEN (have \ s.gone) \cup s.makes ELSE have
           /\ \/ ~ok /\ ~s.soft /\ run' = [run EXCEPT !.state = "denied"]
              \/ (ok \/ s.soft) /\ run.at = Len(Iam!Program(run))
                     /\ run' = [run EXCEPT !.state = "done"]
              \/ (ok \/ s.soft) /\ run.at # Len(Iam!Program(run))
                     /\ run' = [run EXCEPT !.at = @ + 1]
           /\ skipped' = IF s.soft /\ run.role = Iam!None THEN skipped \cup Iam!Denied(Iam!Policy(run), s.needs)
                        ELSE skipped
           /\ UNCHANGED <<ciRole, workflow, setup, refused, contested>>
<1> DEFINE s == Iam!Program(run)[run.at]
<1>1. run.state = "running" /\ UNCHANGED <<ciRole, workflow, setup, refused, contested>>
  BY DEF Iam!Proceed
<1>5. skipped' = IF s.soft /\ run.role = Iam!None THEN skipped \cup Iam!Denied(Iam!Policy(run), s.needs)
                 ELSE skipped
  BY DEF Iam!Proceed
<1>2. Iam!Denied(Iam!Policy(run), s.needs) = {} <=> Allowed(Iam!Policy(run), s.needs)
  BY AllowedIsUndenied
<1>3. /\ have' = IF Iam!Denied(Iam!Policy(run), s.needs) = {} THEN (have \ s.gone)
          \cup s.makes ELSE have
      /\ run' = IF Iam!Denied(Iam!Policy(run), s.needs) # {}
             /\ ~s.soft THEN [run EXCEPT !.state = "denied"]
                ELSE IF run.at = Len(Iam!Program(run)) THEN [run EXCEPT !.state = "done"]
                ELSE [run EXCEPT !.at = @ + 1]
  BY DEF Iam!Proceed
<1> HIDE DEF s
<1>4. LET ok == Allowed(Iam!Policy(run), s.needs) IN
      /\ have' = IF ok THEN (have \ s.gone) \cup s.makes ELSE have
      /\ \/ ~ok /\ ~s.soft /\ run' = [run EXCEPT !.state = "denied"]
         \/ (ok \/ s.soft) /\ run.at = Len(Iam!Program(run)) /\ run' = [run EXCEPT !.state = "done"]
         \/ (ok \/ s.soft) /\ run.at # Len(Iam!Program(run)) /\ run' = [run EXCEPT !.at = @ + 1]
  BY <1>2, <1>3
<1> QED
  BY <1>1, <1>4, <1>5 DEF s

\* A role's policies allow what the policy of one of its projects allows.
LEMMA CiPolicyIncludes ==
    ASSUME NEW role, NEW p \in Repositories, NEW c \in Clusters, ciRole[role].inline[p] = c,
           NEW s, Passes(Iam!ProjectDeployPolicy(c, p), s)
    PROVE  Passes(Iam!CiPolicy(role), s)
<1>1. c # Iam!None
  BY NamesAssumption
<1>2. Iam!ProjectDeployPolicy(c, p) \subseteq Iam!CiPolicy(role)
  BY <1>1 DEF Iam!CiPolicy
<1> QED
  BY <1>2, AllowedMore DEF Passes

\* A step that is refused is one of those that the property names.
LEMMA OnlyGapsAreRefused ==
    ASSUME RunTypes, CiInvariant, run.state = "running", run # Iam!Idle,
           NEW s, s = Iam!Program(run)[run.at], ~Passes(Iam!Policy(run), s)
    PROVE  /\ run.role # Iam!None => \/ run.role \in contested
                                     \/ run.kind \in {"remote", "database"}
                                     \/ run.kind = "secrets" /\ run.owner[2] = "component"
           /\ run.role = Iam!None => run.name \in OnUsers \/ run.kind = "database"
<1>1. run \in RanCommands /\ run.at \in 1 .. StepCount(run)
  BY DEF RunTypes
<1>2. /\ run.kind # "database" /\ run.name \notin OnUsers => Passes(Iam!OperatorPolicy, s)
      /\ /\ Iam!Bucket \in have /\ run.name = "deploy"
         /\ run.kind = "plain" \/ (run.kind = "secrets" /\ run.owner[2] = "itself")
         => Passes(Iam!ProjectDeployPolicy(run.cluster, run.owner[1]), s)
  BY <1>1, ProgramIs
<1>3. CASE run.role = Iam!None
  BY <1>2, <1>3 DEF Iam!Policy
<1>4. CASE run.role # Iam!None
  <2>1. run.name = "deploy" /\ run.kind # "create" /\ Iam!Bucket \in have
    BY <1>4 DEF RunTypes
  <2>2. ~Passes(Iam!CiPolicy(run.role), s)
    BY <1>4 DEF Iam!Policy
  <2>3. run.role \notin contested => ciRole[run.role].inline[run.owner[1]] = run.cluster
    BY <1>4 DEF CiInvariant, CiRunHolds
  <2>4. run.cluster \in Clusters /\ run.owner[1] \in Repositories
    BY <1>1, RanIs
  <2>5. run.role \notin contested => ~Passes(Iam!ProjectDeployPolicy(run.cluster, run.owner[1]), s)
    BY <2>2, <2>3, <2>4, CiPolicyIncludes
  <2>6. /\ run.kind \in {"plain", "create", "secrets", "remote", "database"}
        /\ run.owner[2] \in {"itself", "component"}
    BY <1>1 DEF RanCommands, Iam!Owners
  <2> QED
    BY <1>2, <1>4, <2>1, <2>5, <2>6
<1> QED
  BY <1>3, <1>4

(* The operator is allowed what ending a node calls.                         *)
LEMMA TearDownAllowed ==
    ASSUME NEW c \in Clusters, NEW n \in Iam!NodeIds
    PROVE  Allowed(Iam!OperatorPolicy, Iam!TearDownNode(c, n).needs)
<1>1. \A a \in NodeActs : Iam!Granted(Iam!OperatorPolicy, a, Iam!Account)
  BY OperatorAccount
<1>2. Allowed(Iam!OperatorPolicy, NodeActs \X {Iam!Account})
  BY <1>1, AllowedOn
<1> QED
  BY <1>2, TearDownIs, AllowedSubset

\* What the types and the CI invariant say of the command depends on few of its fields.
LEMMA DenotesRun ==
    ASSUME NEW r \in RanCommands, run' \in RanCommands, run'.at \in 1 .. StepCount(r), run'.name =
               r.name, run'.kind = r.kind,
           run'.role # Iam!None => run'.name = "deploy" /\ run'.kind # "create"
               /\ Iam!Bucket \in have'
    PROVE  RunTypes'
BY DEF RunTypes, RanCommands, StepCount

(* A step of the command changes nothing of CI.                              *)
LEMMA CiKept ==
    ASSUME CiTypes, CiInvariant, UNCHANGED <<ciRole, workflow, setup, contested>>,
           run'.state = "running" => run.state = "running",
           run'.role = run.role, run'.owner = run.owner, run'.cluster = run.cluster
    PROVE  CiTypes' /\ CiInvariant'
BY DEF CiTypes, CiInvariant, CiRoleHolds, SetupHolds, CiRunHolds, TrustIsOfTarget

(* A command proceeds: what it is refused the property names, and it leaves  *)
(* no node without a role.                                                   *)
LEMMA ProceedHolds ==
    ASSUME AccessInvariant, Iam!Proceed
    PROVE  AccessInvariant'
<1>0. RunTypes /\ CiTypes /\ CiInvariant /\ NodesHold /\ CallsAreAllowed
  BY DEF AccessInvariant
<1> DEFINE s == Iam!Program(run)[run.at]
<1> DEFINE ok == Allowed(Iam!Policy(run), s.needs)
<1>1. /\ run.state = "running"
      /\ have' = IF ok THEN (have \ s.gone) \cup s.makes ELSE have
      /\ \/ ~ok /\ ~s.soft /\ run' = [run EXCEPT !.state = "denied"]
         \/ (ok \/ s.soft) /\ run.at = Len(Iam!Program(run)) /\ run' = [run EXCEPT !.state = "done"]
         \/ (ok \/ s.soft) /\ run.at # Len(Iam!Program(run)) /\ run' = [run EXCEPT !.at = @ + 1]
      /\ UNCHANGED <<ciRole, workflow, setup, refused, contested>>
  BY ProceedIs
<1>s. skipped' = IF s.soft /\ run.role = Iam!None THEN skipped \cup Iam!Denied(Iam!Policy(run), s.needs)
                 ELSE skipped
  BY ProceedIs
<1>2. run # Iam!Idle /\ run \in RanCommands /\ run.at \in 1 .. StepCount(run)
          /\ Len(Iam!Program(run)) = StepCount(run)
      /\ StepCount(run) \in 1 .. 16
  BY <1>0, <1>1, IdleSetup, StepCountIs DEF RunTypes
<1>3. /\ StepIs(run, s) /\ Spares(s)
      /\ run.kind # "database" /\ run.name \notin OnUsers => Passes(Iam!OperatorPolicy, s)
  BY <1>2, ProgramIs
<1>4. ~Passes(Iam!Policy(run), s) =>
         /\ run.role # Iam!None => \/ run.role \in contested
                                   \/ run.kind \in {"remote", "database"}
                                   \/ run.kind = "secrets" /\ run.owner[2] = "component"
         /\ run.role = Iam!None => run.name \in OnUsers \/ run.kind = "database"
  BY <1>0, <1>1, <1>2, OnlyGapsAreRefused
<1>5. run.role # Iam!None => run.name = "deploy" /\ run.kind # "create" /\ Iam!Bucket \in have
  BY <1>0, <1>2 DEF RunTypes
<1>6. /\ \A c \in Clusters, n \in Iam!NodeIds : Iam!Instance(c, n) \in have =>
          Iam!NodeRole(c, n) \in have
      /\ \A n \in Iam!NodeIds : Launches(run, n) => Iam!NodeRole(run.cluster, n) \in have
      /\ \A n \in Iam!NodeIds : Ended(run, n) => Iam!Instance(run.cluster, n) \notin have
  BY <1>0, <1>1 DEF NodesHold
<1>7. /\ \A c \in Clusters, n \in Iam!NodeIds : Iam!Instance(c, n) \in have' =>
          Iam!NodeRole(c, n) \in have'
      /\ \A n \in Iam!NodeIds : Ended(run, n) => Iam!Instance(run.cluster, n) \notin have'
      /\ Iam!Bucket \in have => Iam!Bucket \in have'
  <2> HIDE DEF s, ok
  <2>1. CASE ok
    <3>1. have' = (have \ s.gone) \cup s.makes
      BY <1>1, <2>1
    <3> QED
      BY <1>2, <1>3, <1>6, <3>1, StepKeepsNodes
  <2>2. CASE ~ok
    BY <1>1, <1>6, <2>2
  <2> QED
    BY <2>1, <2>2
<1>8. ASSUME NEW n \in Iam!NodeIds, Prepares(run, n), ok \/ s.soft
      PROVE  Iam!NodeRole(run.cluster, n) \in have'
  <2> DEFINE launch == Iam!After(Iam!ResolveNodeAmi,
      Iam!After(Iam!PrepareLaunch, Iam!EnsureNodeIam(run.cluster, n)))
  <2>1. s = launch
    BY <1>3, <1>8 DEF StepIs
  <2>2. launch.soft = FALSE /\ launch.makes = {Iam!NodeRole(run.cluster, n)}
    BY LaunchIsHard, LaunchIs
  <2> HIDE DEF launch, s, ok
  <2>3. ok
    BY <1>8, <2>1, <2>2
  <2> QED
    BY <1>1, <2>1, <2>2, <2>3
<1>9. ASSUME NEW n \in Iam!NodeIds, Ends(run, n)
      PROVE  Iam!Instance(run.cluster, n) \notin have'
  <2>1. s = Iam!TearDownNode(run.cluster, n)
    BY <1>3, <1>9 DEF StepIs
  <2>2. Iam!Policy(run) = Iam!OperatorPolicy
    BY <1>5, <1>9, EndersAreNot DEF Iam!Policy
  <2>3. ok
    <3>1. Allowed(Iam!OperatorPolicy, Iam!TearDownNode(run.cluster, n).needs)
      BY <1>2, RanIs, TearDownAllowed
    <3> QED
      BY <2>1, <2>2, <3>1
  <2> HIDE DEF s, ok
  <2>4. s.makes = {} /\ s.gone = {Iam!Instance(run.cluster, n)}
    BY <2>1, TearDownIs
  <2> QED
    BY <1>1, <2>3, <2>4
<1>10. Passes(Iam!Policy(run), s) <=> (s.soft \/ ok)
  BY DEF Passes
<1> HIDE DEF s, ok
<1>14. skipped' \subseteq Iam!OperatorGoesWithout
  <2>1. skipped \subseteq Iam!OperatorGoesWithout
    BY <1>0 DEF CallsAreAllowed, Iam!PoliciesAreEnough, Iam!OperatorIsEnough
  <2>2. CASE s.soft /\ run.role = Iam!None
    <3>1. Iam!Policy(run) = Iam!OperatorPolicy
      BY <2>2 DEF Iam!Policy
    <3>2. Iam!Denied(Iam!OperatorPolicy, s.needs) \subseteq Iam!OperatorGoesWithout
      BY <1>3, <2>2 DEF Spares
    <3> QED
      BY <1>s, <2>1, <2>2, <3>1, <3>2
  <2>3. CASE ~(s.soft /\ run.role = Iam!None)
    BY <1>s, <2>1, <2>3
  <2> QED
    BY <2>2, <2>3
<1>11. CASE ~ok /\ ~s.soft /\ run' = [run EXCEPT !.state = "denied"]
  <2>1. /\ run' \in RanCommands /\ run'.at = run.at /\ run'.state = "denied" /\ run'.role = run.role
        /\ run'.name = run.name /\ run'.kind = run.kind /\ run'.owner = run.owner
               /\ run'.cluster = run.cluster
    BY <1>2, <1>11 DEF RanCommands
  <2>2. RunTypes' /\ NodesHold'
    BY <1>2, <1>5, <1>7, <2>1, DenotesRun DEF NodesHold
  <2>3. CiTypes' /\ CiInvariant'
    BY <1>0, <1>1, <2>1, CiKept
  <2>4. CallsAreAllowed'
    <3>1. ~Passes(Iam!Policy(run), s)
      BY <1>10, <1>11
    <3>2. Iam!CiIsEnough'
      BY <1>1, <1>4, <2>1, <3>1 DEF Iam!CiIsEnough
    <3>3. Iam!OperatorIsEnough'
      BY <1>4, <1>14, <2>1, <3>1, GoesWithoutStays DEF Iam!OperatorIsEnough, OnUsers
    <3>4. Iam!AgentsAreServed'
      BY <1>0, <1>1 DEF CallsAreAllowed, Iam!AgentsAreServed
    <3> QED
      BY <3>2, <3>3, <3>4 DEF CallsAreAllowed, Iam!PoliciesAreEnough
  <2> QED
    BY <2>2, <2>3, <2>4 DEF AccessInvariant
<1>12. CASE run.at = Len(Iam!Program(run)) /\ run' = [run EXCEPT !.state = "done"]
  <2>1. /\ run' \in RanCommands /\ run'.at = run.at /\ run'.state = "done" /\ run'.role = run.role
        /\ run'.name = run.name /\ run'.kind = run.kind /\ run'.owner = run.owner
               /\ run'.cluster = run.cluster
    BY <1>2, <1>12 DEF RanCommands
  <2>2. RunTypes' /\ NodesHold'
    BY <1>2, <1>5, <1>7, <2>1, DenotesRun DEF NodesHold
  <2>3. CiTypes' /\ CiInvariant'
    BY <1>0, <1>1, <2>1, CiKept
  <2>4. CallsAreAllowed'
    BY <1>0, <1>1, <1>14, <2>1, GoesWithoutStays DEF CallsAreAllowed, Iam!PoliciesAreEnough,
       Iam!CiIsEnough, Iam!OperatorIsEnough, Iam!AgentsAreServed
  <2> QED
    BY <2>2, <2>3, <2>4 DEF AccessInvariant
<1>13. CASE (ok \/ s.soft) /\ run.at # Len(Iam!Program(run)) /\ run' = [run EXCEPT !.at = @ + 1]
  <2>1. /\ run' \in RanCommands /\ run'.at = run.at + 1 /\ run'.state = "running"
            /\ run'.role = run.role
        /\ run'.name = run.name /\ run'.kind = run.kind /\ run'.owner = run.owner
               /\ run'.cluster = run.cluster
    BY <1>1, <1>2, <1>13, TwoNodes, FromStepToStep
  <2>2. run'.at \in 1 .. StepCount(run)
    BY <1>2, <1>13, <2>1
  <2>3. RunTypes'
    BY <1>2, <1>5, <1>7, <2>1, <2>2, DenotesRun
  <2>4. ASSUME NEW n \in Iam!NodeIds
        PROVE  /\ Launches(run', n) => Iam!NodeRole(run'.cluster, n) \in have'
               /\ Ended(run', n) => Iam!Instance(run'.cluster, n) \notin have'
    <3>1. /\ Launches(run', n) => Prepares(run, n)
          /\ Ended(run', n) => Ends(run, n) \/ Ended(run, n)
      BY <1>2, <1>13, FromStepToStep
    <3> QED
      BY <1>7, <1>8, <1>9, <1>13, <2>1, <3>1
  <2>5. NodesHold'
    BY <1>7, <2>4 DEF NodesHold, Launches, Ended
  <2>6. CiTypes' /\ CiInvariant'
    BY <1>0, <1>1, <2>1, CiKept
  <2>7. CallsAreAllowed'
    BY <1>0, <1>1, <1>14, <2>1, GoesWithoutStays DEF CallsAreAllowed, Iam!PoliciesAreEnough,
       Iam!CiIsEnough, Iam!OperatorIsEnough, Iam!AgentsAreServed
  <2> QED
    BY <2>3, <2>5, <2>6, <2>7 DEF AccessInvariant
<1> QED
  BY <1>1, <1>11, <1>12, <1>13

(* The invariant holds of a new account.                                     *)
LEMMA AccessInit == Iam!Init => AccessInvariant
<1> SUFFICES ASSUME Iam!Init PROVE AccessInvariant
  OBVIOUS
<1>1. /\ have = {} /\ workflow = {} /\ setup = Iam!Idle /\ run = Iam!Idle /\ refused = {}
          /\ skipped = {} /\ contested = {}
      /\ ciRole = [r \in Roles |-> [there |-> FALSE, trust |-> <<Iam!None, Iam!None>>,
                                    inline |-> [p \in Repositories |-> Iam!None]]]
  BY DEF Iam!Init
<1>2. run.state \notin {"running", "denied"}
  BY <1>1, IdleSetup
<1>3. ciRole \in [Roles -> RoleRecords]
  <2>1. [there |-> FALSE, trust |-> <<Iam!None, Iam!None>>,
            inline |-> [p \in Repositories |-> Iam!None]] \in RoleRecords
    BY DEF RoleRecords
  <2> QED
    BY <1>1, <2>1
<1>4. CiTypes /\ RunTypes /\ NodesHold
  BY <1>1, <1>2, <1>3 DEF CiTypes, RunTypes, NodesHold
<1>5. ASSUME NEW role \in Roles PROVE CiRoleHolds(role)
  <2>1. \A p \in Repositories : ciRole[role].inline[p] = Iam!None
    BY <1>1
  <2> QED
    BY <1>1, <2>1 DEF CiRoleHolds
<1>6. CiInvariant
  BY <1>1, <1>2, <1>5 DEF CiInvariant, SetupHolds, CiRunHolds
<1>7. CallsAreAllowed
  BY <1>1, <1>2 DEF CallsAreAllowed, Iam!PoliciesAreEnough, Iam!CiIsEnough, Iam!OperatorIsEnough,
         Iam!AgentsAreServed
<1> QED
  BY <1>4, <1>6, <1>7 DEF AccessInvariant

(* Every step keeps the invariant.                                           *)
LEMMA AccessNext == AccessInvariant /\ [Iam!Next]_(Iam!vars) => AccessInvariant'
<1> SUFFICES ASSUME AccessInvariant, [Iam!Next]_(Iam!vars) PROVE AccessInvariant'
  OBVIOUS
<1>1. CASE Iam!Setup
  BY <1>1, BeginSetupHolds, TrustHolds, PolicyHolds, WorkflowHolds, AdministratorEnrollsHolds
     DEF Iam!Setup
<1>2. CASE \E r \in Iam!Commands : Iam!BeginOperator(r)
  BY <1>2, BeginOperatorHolds
<1>3. CASE \E r \in Iam!Commands, w \in workflow : Iam!BeginCi(r, w)
  BY <1>3, BeginCiHolds
<1>4. CASE Iam!Proceed
  BY <1>4, ProceedHolds
<1>5. CASE Iam!Interrupt
  BY <1>5, InterruptHolds
<1>6. CASE \E c \in Clusters, n \in Iam!NodeIds : Iam!AgentTick(c, n)
  BY <1>6, AgentTickHolds
<1>7. CASE \E c \in Clusters : Iam!BuildRuns(c)
  BY <1>7, BuildRunsHolds
<1>8. CASE UNCHANGED Iam!vars
  <2>1. UNCHANGED <<have, ciRole, workflow, setup, run, refused, skipped, contested>>
    BY <1>8 DEF Iam!vars
  <2> QED
    BY <2>1, RunStays, CallsStay, CiStays DEF AccessInvariant
<1> QED
  BY <1>1, <1>2, <1>3, <1>4, <1>5, <1>6, <1>7, <1>8 DEF Iam!Next

(* For any clusters, repositories, CI roles and numbers of setups, commands  *)
(* and interruptions, neither commands, workflows, agents nor builds are     *)
(* refused a call (operator-policy.ts, project-deploy-policy.ts,             *)
(* ensureNodeIam and ensureRemoteBuildInfra against the helpers that call    *)
(* AWS), but for the gaps that the property names.                           *)
THEOREM CallsAlwaysAllowed == IamSpec => []CallsAreAllowed
<1>1. AccessInvariant => CallsAreAllowed
  BY DEF AccessInvariant
<1> QED
  BY <1>1, AccessInit, AccessNext, PTL DEF IamSpec, Iam!Spec
=============================================================================
