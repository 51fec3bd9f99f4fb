--------------------------- MODULE JobRunsProofs ---------------------------
(***************************************************************************)
(* Proofs about JobRuns for any number of runs and of retries, whatever    *)
(* fails: a run whose request no deploy took out is started at most once,  *)
(* the verdict of `job run` is that of the job, and a command takes out    *)
(* nobody else's request.                                                  *)
(***************************************************************************)
EXTENDS JobRuns, TLAPS

(* A command that holds a current ETag knows what it read, and publishes     *)
(* only where it found no other run; it is taking its request out because it *)
(* has a verdict.                                                            *)
CliOK ==
    \A r \in Runs :
        /\ cli[r].stage \in {"put", "remove"} /\ cli[r].fresh => cli[r].seen = entry
        /\ cli[r].stage = "put" => cli[r].seen \in {NoRun, r}
        /\ cli[r].stage \in {"regain", "remove"} => cli[r].verdict \in {"ok", "failed"}

\* The agent or docker knows of run r.
Known(r) == agent.want = r \/ container.run = r \/ begun[r] > 0 \/ status.run = r

\* r publishes no more.
Over(r) == cli[r].stage \in {"regain", "remove", "done"}

(* The request of a run that the agent has read stays until its command will *)
(* not publish it again.                                                     *)
StaysOK == \A r \in Runs \ excused : Known(r) => entry = r \/ Over(r)

(* A run that was started has its container, or no request any more; a tick  *)
(* about to remove that container works for another request, or for none;    *)
(* a tick about to start a run is the first to.                              *)
OnceOK ==
    \A r \in Runs \ excused :
        /\ begun[r] <= 1
        /\ begun[r] > 0 => container.run = r \/ entry # r
        /\ agent.pc \in {"remove", "pull", "clear", "run"} /\ agent.want # r
              /\ (begun[r] > 0 \/ container.run = r) => entry # r
        /\ agent.pc \in {"pull", "clear", "run"} /\ agent.want = r => begun[r] = 0

(* The agent's tick and the container are what they look like.               *)
ShapeOK ==
    /\ agent.pc = "idle" => agent.want = NoRun
    /\ agent.pc = "remove" => agent.want = NoRun
    /\ agent.pc \in {"pull", "clear", "run"} => agent.want # NoRun
    /\ container.run = NoRun <=> container = NoContainer
    /\ container.run # NoRun => container.state # "none"

(* The exit code that docker has is the result of the run it has it from.    *)
ResultOK ==
    \A r \in Runs \ excused :
        /\ result[r] # "none" => begun[r] > 0
        /\ container.run = r =>
              CASE container.state = "created" -> container.code = 1
                [] container.state = "running" -> begun[r] = 1 /\ result[r] = "none"
                [] container.state = "exited"  ->
                      begun[r] = 1 /\ result[r] = (IF container.code = 0 THEN "ok" ELSE "bad")
                [] OTHER -> TRUE
        /\ status.run = r /\ status.state = "succeeded" => result[r] = "ok"
        /\ cli[r].verdict = "ok" => result[r] = "ok"

(* The inductive invariant.                                                  *)
JobInv == TypeOK /\ CliOK /\ StaysOK /\ OnceOK /\ ShapeOK /\ ResultOK
-----------------------------------------------------------------------------

(* What the command of run r becomes, by each of the four ways it goes on.   *)
LEMMA Steps ==
    ASSUME JobAssumption, TypeOK, NEW r \in Runs,
           NEW stage \in {"get", "put", "wait", "regain", "remove", "done"},
           NEW verdict \in {"none", "refused", "ok", "failed", "unknown"}
    PROVE  /\ cli[r] \in Cli
           /\ Goes(r, stage) \in Cli
           /\ Goes(r, stage).stage = stage /\ Goes(r, stage).verdict = cli[r].verdict
           /\ Ends(r, verdict) \in Cli
           /\ Ends(r, verdict).stage = "done" /\ Ends(r, verdict).verdict = verdict
           /\ Again(r, stage, verdict) \in Cli
           /\ Again(r, stage, verdict).stage \in {stage, "done"}
           /\ \/ Again(r, stage, verdict).verdict = cli[r].verdict
              \/ /\ Again(r, stage, verdict).stage = "done"
                 /\ Again(r, stage, verdict).verdict = verdict
<1>1. cli[r] \in Cli
  BY DEF TypeOK
<1>2. MAX_PUBLISH_RETRIES \in Nat \ {0}
  BY DEF JobAssumption
<1>3. Goes(r, stage) \in Cli /\ Goes(r, stage).stage = stage
         /\ Goes(r, stage).verdict = cli[r].verdict
  <2> DEFINE g == [cli[r] EXCEPT !.stage = stage, !.tries = 0]
  <2>1. 0 \in 0 .. MAX_PUBLISH_RETRIES - 1
    BY <1>2
  <2>2. g \in Cli
    BY <1>1, <2>1 DEF Cli
  <2>3. g.stage = stage /\ g.verdict = cli[r].verdict
    BY <1>1 DEF Cli
  <2>4. Goes(r, stage) = g
    BY DEF Goes
  <2> QED
    BY <2>2, <2>3, <2>4
<1>4. Ends(r, verdict) \in Cli /\ Ends(r, verdict).stage = "done"
         /\ Ends(r, verdict).verdict = verdict
  BY <1>1, <1>2 DEF Cli, Ends
<1>5. CASE cli[r].tries + 1 < MAX_PUBLISH_RETRIES
  <2>1. Again(r, stage, verdict) = [cli[r] EXCEPT !.stage = stage, !.tries = @ + 1]
    BY <1>5 DEF Again
  <2>2. cli[r].tries + 1 \in 0 .. MAX_PUBLISH_RETRIES - 1
    BY <1>1, <1>2, <1>5 DEF Cli
  <2>3. [cli[r] EXCEPT !.stage = stage, !.tries = @ + 1] \in Cli
    BY <1>1, <2>2 DEF Cli
  <2>4. Again(r, stage, verdict).stage = stage
           /\ Again(r, stage, verdict).verdict = cli[r].verdict
    BY <1>1, <2>1 DEF Cli
  <2> QED
    BY <1>1, <1>3, <1>4, <2>1, <2>3, <2>4
<1>6. CASE ~ (cli[r].tries + 1 < MAX_PUBLISH_RETRIES)
  BY <1>1, <1>3, <1>4, <1>6 DEF Again
<1> QED
  BY <1>5, <1>6

(* A fault is one of those there may be.                                     *)
LEMMA MayOK ==
    ASSUME JobAssumption, TypeOK, NEW kind, May(kind) \/ UNCHANGED faults
    PROVE  faults' \in 0 .. MaxFaults
BY DEF JobAssumption, TypeOK, May

(* At the start nothing is requested and nothing runs.                       *)
LEMMA InitInv == ASSUME JobAssumption, Init PROVE JobInv
<1>1. TypeOK
  BY DEF JobAssumption, Init, TypeOK, Cli, Container, Agent, JobStatus,
         NoContainer, Resting, Silent
<1>2. CliOK /\ ShapeOK
  BY DEF Init, CliOK, ShapeOK, NoContainer, Resting
<1>3. StaysOK /\ OnceOK /\ ResultOK
  BY DEF JobAssumption, Init, StaysOK, Known, OnceOK, ResultOK,
         NoContainer, Resting, Silent
<1> QED
  BY <1>1, <1>2, <1>3 DEF JobInv

(* A step of one command that leaves desired.json alone keeps the invariant  *)
(* if what the command holds as current is, it does not go back to           *)
(* publishing, and its verdict is one it had or that of the container.       *)
LEMMA CmdInv ==
    ASSUME JobAssumption, JobInv, NEW r \in Runs, NEW c \in Cli, Cmd(r, c),
           UNCHANGED <<entry, agentOnly, past, writes>>, faults' \in 0 .. MaxFaults,
           c.stage \in {"put", "remove"} /\ c.fresh => c.seen = entry,
           c.stage = "put" => c.seen \in {NoRun, r},
           c.stage \in {"regain", "remove"} => c.verdict \in {"ok", "failed"},
           Over(r) => c.stage \in {"regain", "remove", "done"},
           c.verdict = "ok" => cli[r].verdict = "ok" \/ r \in excused \/ result[r] = "ok"
    PROVE  JobInv'
<1> USE DEF JobInv
<1>1. \A s \in Runs : cli'[s] = IF s = r THEN c ELSE cli[s]
  BY DEF TypeOK, Cmd
<1>2. TypeOK'
  BY DEF TypeOK, Cmd, agentOnly, past
<1>3. CliOK'
  BY <1>1 DEF CliOK
<1>4. StaysOK'
  BY <1>1 DEF StaysOK, Known, Over, agentOnly, past
<1>5. OnceOK' /\ ShapeOK'
  BY DEF OnceOK, ShapeOK, agentOnly, past
<1>6. ResultOK'
  <2> SUFFICES ASSUME NEW s \in Runs \ excused PROVE ResultOK!(s)'
    BY DEF ResultOK, past
  <2>1. cli'[s].verdict = "ok" => result[s] = "ok"
    BY <1>1 DEF ResultOK
  <2> QED
    BY <2>1 DEF ResultOK, agentOnly, past
<1> QED
  BY <1>2, <1>3, <1>4, <1>5, <1>6

(* The steps of `job run` that write nothing.                                *)
LEMMA InvokeInv == ASSUME JobAssumption, JobInv, NEW r \in Runs, Invoke(r) PROVE JobInv'
<1>1. PICK c \in {Goes(r, "get"), Ends(r, "refused")} : Cmd(r, c)
  BY DEF Invoke
<1>2. c \in Cli /\ c.stage \in {"get", "done"} /\ c.verdict \in {cli[r].verdict, "refused"}
  BY <1>1, Steps DEF JobInv
<1>3. faults' \in 0 .. MaxFaults
  BY DEF Invoke, JobInv, TypeOK
<1> QED
  BY <1>1, <1>2, <1>3, CmdInv DEF Invoke, Over

LEMMA GetInv == ASSUME JobAssumption, JobInv, NEW r \in Runs, Get(r) PROVE JobInv'
<1>3. faults' \in 0 .. MaxFaults
  BY DEF Get, JobInv, TypeOK
<1>1. CASE Taken(r)
  <2>1. Cmd(r, Ends(r, "refused"))
    BY <1>1 DEF Get
  <2> QED
    BY <1>3, <2>1, Steps, CmdInv DEF Get, JobInv
<1>2. CASE ~Taken(r)
  <2> DEFINE c == [cli[r] EXCEPT !.stage = "put", !.fresh = TRUE, !.seen = entry]
  <2>1. Cmd(r, c)
    BY <1>2 DEF Get
  <2>2. cli[r] \in Cli /\ entry \in {NoRun, r}
    BY <1>2 DEF JobInv, TypeOK, Taken
  <2>3. c \in Cli /\ c.stage = "put" /\ c.seen = entry /\ c.verdict = cli[r].verdict
    BY <2>2 DEF Cli
  <2> HIDE DEF c
  <2> QED
    BY <1>3, <2>1, <2>2, <2>3, CmdInv DEF Get, Over
<1> QED
  BY <1>1, <1>2

LEMMA WaitInv == ASSUME JobAssumption, JobInv, NEW r \in Runs, Wait(r) PROVE JobInv'
<1> DEFINE c == [Goes(r, "regain") EXCEPT !.verdict = Verdict(r)]
<1>1. Cmd(r, c) /\ Verdict(r) \in {"ok", "failed"}
  BY DEF Wait, Verdict
<1>2. c \in Cli /\ c.stage = "regain" /\ c.verdict = Verdict(r)
  <2>1. Goes(r, "regain") \in Cli /\ Goes(r, "regain").stage = "regain"
    BY Steps DEF JobInv
  <2> QED
    BY <1>1, <2>1 DEF Cli
<1>3. Verdict(r) = "ok" => r \in excused \/ result[r] = "ok"
  BY DEF Verdict, JobInv, ResultOK
<1>4. faults' \in 0 .. MaxFaults
  BY DEF Wait, JobInv, TypeOK
<1> HIDE DEF c
<1> QED
  BY <1>1, <1>2, <1>3, <1>4, CmdInv DEF Wait

LEMMA GiveUpInv == ASSUME JobAssumption, JobInv, NEW r \in Runs, GiveUp(r) PROVE JobInv'
<1>1. faults' \in 0 .. MaxFaults
  BY DEF GiveUp, JobInv, TypeOK
<1> QED
  BY <1>1, Steps, CmdInv DEF GiveUp, JobInv

LEMMA RegainInv == ASSUME JobAssumption, JobInv, NEW r \in Runs, Regain(r) PROVE JobInv'
<1>0. cli[r] \in Cli /\ NoRun \in Runs \cup {NoRun} /\ entry \in Runs \cup {NoRun}
         /\ faults' \in 0 .. MaxFaults
  BY DEF Regain, JobInv, TypeOK
<1>1. PICK c : c \in Cli /\ Cmd(r, c) /\ c.stage \in {"done", "remove"}
         /\ c.verdict = cli[r].verdict /\ (c.stage = "remove" => c.seen = entry)
  <2>1. CASE entry = NoRun
    <3> DEFINE d == [Ends(r, cli[r].verdict) EXCEPT !.seen = NoRun]
    <3>1. d \in Cli /\ d.stage = "done" /\ d.verdict = cli[r].verdict
      BY <1>0 DEF Cli, Ends
    <3>2. Cmd(r, d)
      BY <2>1 DEF Regain
    <3> QED
      BY <3>1, <3>2
  <2>2. CASE entry # NoRun
    <3> DEFINE d == [cli[r] EXCEPT !.stage = "remove", !.fresh = TRUE, !.seen = entry]
    <3>1. d \in Cli /\ d.stage = "remove" /\ d.verdict = cli[r].verdict /\ d.seen = entry
      BY <1>0 DEF Cli
    <3>2. Cmd(r, d)
      BY <2>2 DEF Regain
    <3> QED
      BY <3>1, <3>2
  <2> QED
    BY <2>1, <2>2
<1>2. cli[r].verdict \in {"ok", "failed"}
  BY DEF Regain, JobInv, CliOK
<1> QED
  BY <1>0, <1>1, <1>2, CmdInv DEF Regain

LEMMA KilledInv == ASSUME JobAssumption, JobInv, NEW r \in Runs, Killed(r) PROVE JobInv'
<1>1. faults' \in 0 .. MaxFaults
  BY MayOK DEF Killed, JobInv
<1>2. cli[r].verdict \in {"none", "refused", "ok", "failed", "unknown"}
  BY DEF JobInv, TypeOK, Cli
<1> QED
  BY <1>1, <1>2, Steps, CmdInv DEF Killed, JobInv
-----------------------------------------------------------------------------

(* A put of desired.json keeps the invariant if no command still holds its   *)
(* ETag, no command goes back to publishing, a request that it takes out is  *)
(* excused or of a command that publishes it no more, and one that it puts   *)
(* in is there already or of a run nobody knows.                             *)
LEMMA WriteInv ==
    ASSUME JobAssumption, JobInv, UNCHANGED <<agentOnly, begun, result>>,
           entry' \in Runs \cup {NoRun}, cli' \in [Runs -> Cli],
           excused \subseteq excused', excused' \subseteq Runs,
           writes' \in 0 .. MaxWrites, faults' \in 0 .. MaxFaults,
           \A s \in Runs :
              /\ cli'[s].stage \in {"put", "remove"} => ~cli'[s].fresh
              /\ cli'[s].stage = "put" => cli[s].stage = "put" /\ cli'[s].seen = cli[s].seen
              /\ cli'[s].stage \in {"regain", "remove"} => cli'[s].verdict \in {"ok", "failed"}
              /\ Over(s) => Over(s)'
              /\ cli'[s].verdict = "ok" => cli[s].verdict = "ok",
           \A s \in Runs \ excused' :
              /\ entry = s => entry' = s \/ Over(s)'
              /\ entry' = s /\ Known(s) => entry = s
    PROVE  JobInv'
<1> USE DEF JobInv
<1>1. TypeOK'
  BY DEF TypeOK, agentOnly
<1>2. CliOK'
  BY DEF CliOK
<1>3. ShapeOK'
  BY DEF ShapeOK, agentOnly
<1>4. \A s \in Runs : Known(s)' <=> Known(s)
  BY DEF Known, agentOnly
<1>5. StaysOK'
  BY <1>4 DEF StaysOK
<1>6. OnceOK'
  <2> SUFFICES ASSUME NEW s \in Runs \ excused' PROVE OnceOK!(s)'
    BY DEF OnceOK
  <2>1. s \in Runs \ excused
    OBVIOUS
  <2>2. begun[s] > 0 \/ container.run = s => Known(s)
    BY DEF Known
  <2>3. entry' = s /\ (begun[s] > 0 \/ container.run = s) => entry = s
    BY <2>2
  <2> QED
    BY <2>1, <2>3 DEF OnceOK, agentOnly
<1>7. ResultOK'
  <2> SUFFICES ASSUME NEW s \in Runs \ excused' PROVE ResultOK!(s)'
    BY DEF ResultOK
  <2>1. s \in Runs \ excused
    OBVIOUS
  <2> QED
    BY <2>1 DEF ResultOK, agentOnly
<1> QED
  BY <1>1, <1>2, <1>3, <1>5, <1>6, <1>7

(* What is left of the commands when somebody else puts desired.json.        *)
LEMMA Outdated ==
    ASSUME TypeOK, NEW s \in Runs
    PROVE  /\ [cli[s] EXCEPT !.fresh = FALSE] \in Cli
           /\ ~[cli[s] EXCEPT !.fresh = FALSE].fresh
           /\ [cli[s] EXCEPT !.fresh = FALSE].stage = cli[s].stage
           /\ [cli[s] EXCEPT !.fresh = FALSE].seen = cli[s].seen
           /\ [cli[s] EXCEPT !.fresh = FALSE].verdict = cli[s].verdict
<1>1. cli[s] \in Cli
  BY DEF TypeOK
<1> QED
  BY <1>1 DEF Cli

LEMMA OthersInv == ASSUME JobAssumption, JobInv, FullDeploy \/ OtherWrite PROVE JobInv'
<1>1. cli' = [c \in Runs |-> [cli[c] EXCEPT !.fresh = FALSE]]
  BY DEF FullDeploy, OtherWrite
<1>2. \A s \in Runs :
         /\ cli'[s] \in Cli /\ ~cli'[s].fresh /\ cli'[s].stage = cli[s].stage
         /\ cli'[s].seen = cli[s].seen /\ cli'[s].verdict = cli[s].verdict
  BY <1>1, Outdated DEF JobInv
<1>3. cli' \in [Runs -> Cli]
  BY <1>1, <1>2
<1>4. \A s \in Runs : Over(s)' <=> Over(s)
  BY <1>2 DEF Over
<1>5. /\ UNCHANGED <<agentOnly, begun, result>>
      /\ entry' \in {entry, NoRun} /\ excused \subseteq excused' /\ excused' \subseteq Runs
      /\ writes' \in 0 .. MaxWrites /\ faults' \in 0 .. MaxFaults
      /\ \A s \in Runs \ excused' : entry = s => entry' = s
  BY DEF FullDeploy, OtherWrite, agentOnly, past, JobInv, TypeOK, JobAssumption
<1>6. entry' \in Runs \cup {NoRun}
  BY <1>5 DEF JobInv, TypeOK
<1>7. \A s \in Runs : cli'[s].stage \in {"regain", "remove"} => cli'[s].verdict \in {"ok", "failed"}
  BY <1>2 DEF JobInv, CliOK
<1>8. \A s \in Runs : entry' = s => entry = s
  BY <1>5 DEF JobAssumption
<1> QED
  BY <1>2, <1>3, <1>4, <1>5, <1>6, <1>7, <1>8, WriteInv

(* publishJobRun: where it puts its request, it found none or its own.       *)
LEMMA PublishInv == ASSUME JobAssumption, JobInv, NEW r \in Runs, Publish(r) PROVE JobInv'
<1>0. UNCHANGED <<agentOnly, begun, result, excused, writes>>
  BY DEF Publish, past
<1>1. CASE /\ ~cli[r].fresh
           /\ Cmd(r, Again(r, "get", "refused"))
           /\ UNCHANGED <<entry, faults>>
  <2>1. faults' \in 0 .. MaxFaults
    BY <1>1 DEF JobInv, TypeOK
  <2>2. UNCHANGED <<entry, agentOnly, past, writes>> /\ ~Over(r)
    BY <1>1 DEF Publish, Over
  <2> QED
    BY <1>1, <2>1, <2>2, Steps, CmdInv DEF JobInv
<1>2. ASSUME cli[r].fresh, entry' = r, faults' \in 0 .. MaxFaults,
             NEW c \in {Goes(r, "wait"), Again(r, "get", "refused")}, Stale(r, c)
      PROVE  JobInv'
  <2>1. cli[r].stage = "put" /\ entry \in {NoRun, r} /\ ~Over(r)
    BY <1>2 DEF Publish, JobInv, CliOK, Over
  <2>2. c \in Cli /\ c.stage \in {"wait", "get", "done"} /\ (c.verdict = "ok" => cli[r].verdict = "ok")
    BY Steps DEF JobInv
  <2>3. \A s \in Runs : cli'[s] = IF s = r THEN c ELSE [cli[s] EXCEPT !.fresh = FALSE]
    BY <1>2 DEF Stale
  <2>4. ASSUME NEW s \in Runs, s # r
        PROVE  /\ cli'[s] \in Cli /\ ~cli'[s].fresh /\ cli'[s].stage = cli[s].stage
               /\ cli'[s].seen = cli[s].seen /\ cli'[s].verdict = cli[s].verdict
    BY <2>3, <2>4, Outdated DEF JobInv
  <2>5. cli' \in [Runs -> Cli]
    BY <1>2, <2>2, <2>3, <2>4 DEF Stale
  <2>6. \A s \in Runs : Over(s) => Over(s)'
    BY <2>1, <2>4 DEF Over
  <2>7. \A s \in Runs : cli'[s].stage \in {"regain", "remove"} => cli'[s].verdict \in {"ok", "failed"}
    BY <2>2, <2>3, <2>4 DEF JobInv, CliOK
  <2>8. \A s \in Runs : entry = s => entry' = s
    BY <1>2, <2>1 DEF JobAssumption
  <2>9. \A s \in Runs \ excused : entry' = s /\ Known(s) => entry = s
    BY <1>2, <2>1 DEF JobInv, StaysOK
  <2>10. writes' \in 0 .. MaxWrites /\ entry' \in Runs \cup {NoRun} /\ excused \subseteq Runs
    BY <1>0, <1>2 DEF JobInv, TypeOK
  <2> QED
    BY <1>0, <1>2, <2>2, <2>3, <2>4, <2>5, <2>6, <2>7, <2>8, <2>9, <2>10, WriteInv
<1>3. CASE cli[r].fresh /\ entry' = r /\ Stale(r, Goes(r, "wait")) /\ UNCHANGED faults
  BY <1>2, <1>3 DEF JobInv, TypeOK
<1>4. CASE cli[r].fresh /\ entry' = r /\ Stale(r, Again(r, "get", "refused")) /\ May("answer")
  <2>1. faults' \in 0 .. MaxFaults
    BY <1>4, MayOK DEF JobInv
  <2> QED
    BY <1>2, <1>4, <2>1
<1> QED
  BY <1>1, <1>3, <1>4 DEF Publish

(* removeJobRun: what it takes out is its own request.                       *)
LEMMA RemoveInv == ASSUME JobAssumption, JobInv, NEW r \in Runs, Remove(r) PROVE JobInv'
<1>0. UNCHANGED <<agentOnly, begun, result, excused, writes>>
  BY DEF Remove, past
<1>1. cli[r].stage = "remove" /\ cli[r].verdict \in {"ok", "failed"}
  BY DEF Remove, JobInv, CliOK
<1>2. \A c \in {Again(r, "regain", cli[r].verdict), Ends(r, cli[r].verdict)} :
         c \in Cli /\ c.stage \in {"regain", "done"} /\ c.verdict = cli[r].verdict
  BY <1>1, Steps DEF JobInv
<1>3. ASSUME NEW c \in {Again(r, "regain", cli[r].verdict), Ends(r, cli[r].verdict)},
             Cmd(r, c), UNCHANGED <<entry, faults>>
      PROVE  JobInv'
  <2>1. faults' \in 0 .. MaxFaults
    BY <1>3 DEF JobInv, TypeOK
  <2>2. UNCHANGED <<entry, agentOnly, past, writes>>
    BY <1>3 DEF Remove
  <2> QED
    BY <1>1, <1>2, <1>3, <2>1, <2>2, CmdInv
<1>4. ASSUME cli[r].fresh, Mine(r), entry' = NoRun, faults' \in 0 .. MaxFaults,
             NEW c \in {Again(r, "regain", cli[r].verdict), Ends(r, cli[r].verdict)}, Stale(r, c)
      PROVE  JobInv'
  <2>1. entry = r
    BY <1>1, <1>4 DEF JobInv, CliOK, Mine
  <2>2. c \in Cli /\ c.stage \in {"regain", "done"} /\ c.verdict = cli[r].verdict
    BY <1>2
  <2>3. \A s \in Runs : cli'[s] = IF s = r THEN c ELSE [cli[s] EXCEPT !.fresh = FALSE]
    BY <1>4 DEF Stale
  <2>4. ASSUME NEW s \in Runs, s # r
        PROVE  /\ cli'[s] \in Cli /\ ~cli'[s].fresh /\ cli'[s].stage = cli[s].stage
               /\ cli'[s].seen = cli[s].seen /\ cli'[s].verdict = cli[s].verdict
    BY <2>3, <2>4, Outdated DEF JobInv
  <2>5. cli' \in [Runs -> Cli]
    BY <1>4, <2>2, <2>3, <2>4 DEF Stale
  <2>6. \A s \in Runs : (Over(s) \/ s = r) => Over(s)'
    BY <2>2, <2>3, <2>4 DEF Over
  <2>7. \A s \in Runs : cli'[s].stage \in {"regain", "remove"} => cli'[s].verdict \in {"ok", "failed"}
    BY <1>1, <2>2, <2>3, <2>4 DEF JobInv, CliOK
  <2>8. \A s \in Runs : (entry = s => Over(s)') /\ entry' # s
    BY <1>4, <2>1, <2>6 DEF JobAssumption
  <2>9. writes' \in 0 .. MaxWrites /\ entry' \in Runs \cup {NoRun} /\ excused \subseteq Runs
    BY <1>0, <1>4 DEF JobInv, TypeOK
  <2> QED
    BY <1>0, <1>4, <2>2, <2>3, <2>4, <2>5, <2>6, <2>7, <2>8, <2>9, WriteInv
<1>5. CASE May("answer") /\ Mine(r) /\ cli[r].fresh /\ entry' = NoRun
           /\ Stale(r, Again(r, "regain", cli[r].verdict))
  <2>1. faults' \in 0 .. MaxFaults
    BY <1>5, MayOK DEF JobInv
  <2> QED
    BY <1>4, <1>5, <2>1
<1>6. CASE UNCHANGED faults /\ Mine(r) /\ cli[r].fresh /\ entry' = NoRun
           /\ Stale(r, Ends(r, cli[r].verdict))
  BY <1>4, <1>6 DEF JobInv, TypeOK
<1> QED
  BY <1>3, <1>5, <1>6 DEF Remove
-----------------------------------------------------------------------------

(* The agent's steps leave the commands and desired.json alone.              *)
LEMMA CliFrame ==
    ASSUME CliOK, UNCHANGED cliOnly
    PROVE  CliOK'
BY DEF CliOK, cliOnly

(* A tick reads the request: it is about to start only a run that has no     *)
(* container and, as its request is there, never had one.                    *)
LEMMA BeginTickInv == ASSUME JobAssumption, JobInv, BeginTick PROVE JobInv'
<1> USE DEF JobInv
<1>0. /\ agent' = [pc |-> Plan(entry), want |-> entry, error |-> FALSE]
      /\ Plan(entry) \in {"report", "remove", "pull"}
      /\ Plan(entry) = "pull" => entry # NoRun /\ container.run # entry
      /\ Plan(entry) = "remove" => entry = NoRun
      /\ entry \in Runs \cup {NoRun}
      /\ UNCHANGED <<cliOnly, container, status, past, faults>>
  BY DEF BeginTick, Plan, Dispatched, TypeOK
<1>1. TypeOK'
  BY <1>0 DEF TypeOK, Agent, cliOnly, past
<1>2. CliOK'
  BY <1>0, CliFrame
<1>3. StaysOK'
  BY <1>0 DEF StaysOK, Known, Over, cliOnly, past
<1>4. ShapeOK'
  BY <1>0 DEF ShapeOK
<1>5. OnceOK'
  <2> SUFFICES ASSUME NEW r \in Runs \ excused PROVE OnceOK!(r)'
    BY <1>0 DEF OnceOK, past
  <2>1. begun[r] \in Nat
    BY DEF TypeOK
  <2> QED
    BY <1>0, <2>1 DEF OnceOK, cliOnly, past
<1>6. ResultOK'
  BY <1>0 DEF ResultOK, cliOnly, past
<1> QED
  BY <1>1, <1>2, <1>3, <1>4, <1>5, <1>6

(* The container that is taken away is of a run whose request is gone.       *)
LEMMA RmInv ==
    ASSUME JobAssumption, JobInv, NEW next \in {"report", "run"}, Rm(next),
           \/ agent.pc = "remove" /\ next = "report"
           \/ agent.pc = "clear" /\ next = "run"
    PROVE  JobInv'
<1> USE DEF JobInv
<1>0. /\ agent' = [agent EXCEPT !.pc = next]
      /\ container' \in {container, NoContainer}
      /\ UNCHANGED <<cliOnly, status, past>>
  BY DEF Rm
<1>1. agent \in Agent /\ agent'.pc = next /\ agent'.want = agent.want /\ agent' \in Agent
  BY <1>0 DEF TypeOK, Agent
<1>2. faults' \in 0 .. MaxFaults
  BY MayOK DEF Rm
<1>3. TypeOK'
  BY <1>0, <1>1, <1>2 DEF TypeOK, cliOnly, past, NoContainer, Container
<1>4. CliOK'
  BY <1>0, CliFrame
<1>5. StaysOK'
  BY <1>0, <1>1 DEF JobAssumption, StaysOK, Known, Over, cliOnly, past, NoContainer
<1>6. ShapeOK'
  BY <1>0, <1>1 DEF ShapeOK, NoContainer
<1>7. OnceOK'
  <2> SUFFICES ASSUME NEW r \in Runs \ excused PROVE OnceOK!(r)'
    BY <1>0 DEF OnceOK, past
  <2>1. r # NoRun /\ begun[r] \in Nat
    BY DEF TypeOK, JobAssumption
  <2>2. begun[r] > 0 => container'.run = r \/ entry # r
    <3>1. CASE agent.want # r
      BY <1>0, <3>1 DEF OnceOK
    <3>2. CASE agent.want = r
      BY <2>1, <3>2 DEF OnceOK, ShapeOK
    <3> QED
      BY <3>1, <3>2
  <2>3. container'.run = r => container.run = r
    BY <1>0, <2>1 DEF NoContainer
  <2>4. agent.pc \in {"remove", "clear"} /\ agent'.pc \in {"report", "run"}
           /\ (agent'.pc = "run" => agent.pc = "clear")
    BY <1>1
  <2>5. begun[r] <= 1
    BY DEF OnceOK
  <2>6. agent'.pc = "run" /\ agent'.want # r /\ (begun[r] > 0 \/ container'.run = r) => entry # r
    BY <1>1, <2>3, <2>4 DEF OnceOK
  <2>7. agent'.pc = "run" /\ agent'.want = r => begun[r] = 0
    BY <1>1, <2>4 DEF OnceOK
  <2> QED
    BY <1>0, <2>2, <2>4, <2>5, <2>6, <2>7 DEF cliOnly, past
<1>8. ResultOK'
  <2> SUFFICES ASSUME NEW r \in Runs \ excused PROVE ResultOK!(r)'
    BY <1>0 DEF ResultOK, past
  <2>1. r # NoRun
    BY DEF JobAssumption
  <2> QED
    BY <1>0, <2>1 DEF ResultOK, cliOnly, past, NoContainer
<1> QED
  BY <1>3, <1>4, <1>5, <1>6, <1>7, <1>8

LEMMA RemoveContainerInv ==
    ASSUME JobAssumption, JobInv, RemoveContainer PROVE JobInv'
<1>1. agent.pc = "remove" /\ Rm("report")
  BY DEF RemoveContainer
<1> QED
  BY <1>1, RmInv

LEMMA ClearInv == ASSUME JobAssumption, JobInv, Clear PROVE JobInv'
<1>1. agent.pc = "clear" /\ Rm("run")
  BY DEF Clear
<1> QED
  BY <1>1, RmInv

LEMMA PullInv == ASSUME JobAssumption, JobInv, Pull PROVE JobInv'
<1> USE DEF JobInv
<1>0. agent.pc = "pull" /\ UNCHANGED <<cliOnly, container, status, past>>
  BY DEF Pull
<1>1. agent \in Agent /\ agent' \in Agent /\ agent'.want = agent.want
         /\ agent'.pc \in {"clear", "report"}
  BY DEF Pull, Failing, TypeOK, Agent
<1>2. faults' \in 0 .. MaxFaults
  BY MayOK DEF Pull
<1>3. TypeOK'
  BY <1>0, <1>1, <1>2 DEF TypeOK, cliOnly, past
<1>4. CliOK'
  BY <1>0, CliFrame
<1>5. StaysOK'
  BY <1>0, <1>1 DEF StaysOK, Known, Over, cliOnly, past
<1>6. ShapeOK'
  BY <1>0, <1>1 DEF ShapeOK
<1>7. OnceOK'
  <2> SUFFICES ASSUME NEW r \in Runs \ excused PROVE OnceOK!(r)'
    BY <1>0 DEF OnceOK, past
  <2> QED
    BY <1>0, <1>1 DEF OnceOK, cliOnly, past
<1>8. ResultOK'
  BY <1>0 DEF ResultOK, cliOnly, past
<1> QED
  BY <1>3, <1>4, <1>5, <1>6, <1>7, <1>8

(* A container is started where there is none, for the first time.           *)
LEMMA StartsInv ==
    ASSUME JobAssumption, JobInv, agent.pc = "run", container = NoContainer,
           Starts(agent.want), UNCHANGED <<cliOnly, status, result, excused>>,
           agent' \in Agent, agent'.pc \in {"report", "idle"},
           agent'.want \in {agent.want, NoRun},
           agent'.pc = "idle" => agent'.want = NoRun,
           faults' \in 0 .. MaxFaults
    PROVE  JobInv'
<1> USE DEF JobInv
<1> DEFINE w == agent.want
<1>0. w \in Runs /\ container' = [run |-> w, state |-> "running", code |-> 0]
         /\ begun' = [begun EXCEPT ![w] = @ + 1]
  BY DEF ShapeOK, TypeOK, Agent, Starts
<1>1. \A r \in Runs : begun[r] \in Nat /\ begun'[r] = IF r = w THEN begun[r] + 1 ELSE begun[r]
  BY <1>0 DEF TypeOK
<1>2. w \notin excused => begun[w] = 0
  BY <1>0 DEF OnceOK
<1>3. TypeOK'
  BY <1>0, <1>1 DEF TypeOK, Container, cliOnly
<1>4. CliOK'
  BY CliFrame
<1>5. StaysOK'
  <2> SUFFICES ASSUME NEW r \in Runs \ excused, Known(r)' PROVE entry = r \/ Over(r)
    BY DEF StaysOK, Over, cliOnly
  <2>1. Known(r)
    BY <1>0, <1>1 DEF Known, JobAssumption
  <2> QED
    BY <2>1 DEF StaysOK
<1>6. ShapeOK'
  BY <1>0 DEF ShapeOK, NoContainer, JobAssumption
<1>7. OnceOK'
  <2> SUFFICES ASSUME NEW r \in Runs \ excused PROVE OnceOK!(r)'
    BY DEF OnceOK
  <2>1. begun'[r] <= 1
    BY <1>1, <1>2 DEF OnceOK
  <2>2. begun'[r] > 0 => container'.run = r \/ entry # r
    BY <1>0, <1>1 DEF OnceOK, NoContainer, JobAssumption
  <2> QED
    BY <2>1, <2>2 DEF cliOnly
<1>8. ResultOK'
  <2> SUFFICES ASSUME NEW r \in Runs \ excused PROVE ResultOK!(r)'
    BY DEF ResultOK
  <2>1. result[r] # "none" => begun'[r] > 0
    BY <1>1 DEF ResultOK
  <2>2. container'.run = r => container'.state = "running" /\ begun'[r] = 1 /\ result[r] = "none"
    BY <1>0, <1>1, <1>2 DEF ResultOK
  <2> QED
    BY <2>1, <2>2 DEF ResultOK, cliOnly
<1> QED
  BY <1>3, <1>4, <1>5, <1>6, <1>7, <1>8

(* A container that could not be started, or of a run that is excused, is    *)
(* left where there was none.                                                *)
LEMMA LeftInv ==
    ASSUME JobAssumption, JobInv, agent.pc = "run", container = NoContainer,
           NEW code \in 0 .. 1,
           container' = [run |-> agent.want, state |-> "created", code |-> code],
           excused' \in {excused, excused \cup {agent.want}},
           code = 1 \/ agent.want \in excused',
           UNCHANGED <<cliOnly, status, begun, result>>,
           agent' \in Agent, agent'.pc \in {"report", "idle"},
           agent'.want \in {agent.want, NoRun},
           agent'.pc = "idle" => agent'.want = NoRun,
           faults' \in 0 .. MaxFaults
    PROVE  JobInv'
<1> USE DEF JobInv
<1> DEFINE w == agent.want
<1>0. w \in Runs
  BY DEF ShapeOK, TypeOK, Agent
<1>1. TypeOK'
  BY <1>0 DEF TypeOK, Container, cliOnly
<1>2. CliOK'
  BY CliFrame
<1>3. StaysOK'
  <2> SUFFICES ASSUME NEW r \in Runs \ excused, Known(r)' PROVE entry = r \/ Over(r)
    BY DEF StaysOK, Over, cliOnly
  <2>1. Known(r)
    BY DEF Known, JobAssumption
  <2> QED
    BY <2>1 DEF StaysOK
<1>4. ShapeOK'
  BY <1>0 DEF ShapeOK, NoContainer, JobAssumption
<1>5. OnceOK'
  <2> SUFFICES ASSUME NEW r \in Runs \ excused PROVE OnceOK!(r)'
    BY DEF OnceOK
  <2>1. begun[r] > 0 => entry # r
    BY DEF OnceOK, NoContainer, JobAssumption
  <2> QED
    BY <2>1 DEF OnceOK, cliOnly
<1>6. ResultOK'
  <2> SUFFICES ASSUME NEW r \in Runs \ excused' PROVE ResultOK!(r)'
    BY DEF ResultOK
  <2>1. r \in Runs \ excused
    OBVIOUS
  <2>2. container'.run = r => container'.state = "created" /\ container'.code = 1
    OBVIOUS
  <2> QED
    BY <2>1, <2>2 DEF ResultOK, cliOnly
<1> QED
  BY <1>1, <1>2, <1>3, <1>4, <1>5, <1>6
-----------------------------------------------------------------------------

LEMMA RunInv == ASSUME JobAssumption, JobInv, Run PROVE JobInv'
<1> USE DEF JobInv
<1>0. agent.pc = "run" /\ UNCHANGED <<cliOnly, status, result, excused>>
  BY DEF Run
<1>1. agent \in Agent /\ agent' \in Agent /\ agent'.pc = "report" /\ agent'.want = agent.want
  BY DEF Run, Failing, TypeOK, Agent
<1>2. CASE container # NoContainer /\ UNCHANGED <<container, begun, faults>>
  <2>1. TypeOK'
    BY <1>0, <1>1, <1>2 DEF TypeOK, cliOnly
  <2>2. CliOK'
    BY <1>0, CliFrame
  <2>3. StaysOK'
    BY <1>0, <1>1, <1>2 DEF StaysOK, Known, Over, cliOnly
  <2>4. OnceOK' /\ ShapeOK' /\ ResultOK'
    BY <1>0, <1>1, <1>2 DEF OnceOK, ShapeOK, ResultOK, cliOnly
  <2> QED
    BY <2>1, <2>2, <2>3, <2>4
<1>3. CASE container = NoContainer /\ Starts(agent.want) /\ UNCHANGED faults
  <2>1. faults' \in 0 .. MaxFaults
    BY <1>3 DEF TypeOK
  <2> QED
    BY <1>0, <1>1, <1>3, <2>1, StartsInv
<1>4. CASE container = NoContainer /\ May("start") /\ UNCHANGED begun
           /\ container' = [run |-> agent.want, state |-> "created", code |-> 1]
  <2>1. faults' \in 0 .. MaxFaults /\ 1 \in 0 .. 1
    BY <1>4, MayOK
  <2> QED
    BY <1>0, <1>1, <1>4, <2>1, LeftInv
<1> QED
  BY <1>2, <1>3, <1>4 DEF Run

LEMMA AgentCrashInv == ASSUME JobAssumption, JobInv, AgentCrash PROVE JobInv'
<1> USE DEF JobInv
<1>0. UNCHANGED <<cliOnly, status, result>>
         /\ agent' = Resting /\ agent' \in Agent
         /\ agent'.pc = "idle" /\ agent'.want = NoRun
  BY DEF AgentCrash, Resting, Agent
<1>1. CASE May("agent") /\ UNCHANGED <<container, begun, excused>>
  <2>0. faults' \in 0 .. MaxFaults
    BY <1>1, MayOK
  <2>1. TypeOK'
    BY <1>0, <1>1, <2>0 DEF TypeOK, cliOnly
  <2>2. CliOK'
    BY <1>0, CliFrame
  <2>3. StaysOK'
    BY <1>0, <1>1 DEF JobAssumption, StaysOK, Known, Over, cliOnly
  <2>4. OnceOK' /\ ShapeOK' /\ ResultOK'
    BY <1>0, <1>1 DEF OnceOK, ShapeOK, ResultOK, cliOnly
  <2> QED
    BY <2>1, <2>2, <2>3, <2>4
<1>2. CASE agent.pc = "run" /\ container = NoContainer /\ May("split")
           /\ Starts(agent.want) /\ UNCHANGED excused
  <2>1. faults' \in 0 .. MaxFaults
    BY <1>2, MayOK
  <2> QED
    BY <1>0, <1>2, <2>1, StartsInv
<1>3. CASE /\ agent.pc = "run" /\ container = NoContainer /\ May("split")
           /\ container' = [run |-> agent.want, state |-> "created", code |-> 0]
           /\ excused' = excused \cup {agent.want} /\ UNCHANGED begun
  <2>1. faults' \in 0 .. MaxFaults /\ 0 \in 0 .. 1 /\ agent.want \in excused'
    BY <1>3, MayOK
  <2> QED
    BY <1>0, <1>3, <2>1, LeftInv
<1> QED
  BY <1>1, <1>2, <1>3 DEF AgentCrash

(* What a status document says of a run is what its container is, or less.   *)
LEMMA StatusInv ==
    ASSUME JobAssumption, JobInv, UNCHANGED <<cliOnly, container, past>>,
           agent' \in {agent, Resting}, status' \in {status, Silent, View},
           faults' \in 0 .. MaxFaults
    PROVE  JobInv'
<1> USE DEF JobInv
<1>0. View \in JobStatus /\ View.run \in {agent.want, NoRun}
         /\ (View.state = "succeeded" =>
                container.run = View.run /\ container.state # "running" /\ container.code = 0)
  <2>1. agent.want \in Runs \cup {NoRun}
    BY DEF TypeOK, Agent
  <2>2. RunState(agent.want) \in {"running", "succeeded", "failed", "pending"}
           /\ (RunState(agent.want) = "succeeded" =>
                  container.run = agent.want /\ container.state # "running" /\ container.code = 0)
    BY DEF RunState, Busy
  <2> QED
    BY <2>1, <2>2 DEF View, Silent, JobStatus
<1>1. TypeOK'
  <2>1. Resting \in Agent /\ Silent \in JobStatus
    BY DEF Resting, Agent, Silent, JobStatus
  <2> QED
    BY <1>0, <2>1 DEF TypeOK, cliOnly, past
<1>2. CliOK'
  BY CliFrame
<1>3. StaysOK'
  BY <1>0 DEF JobAssumption, StaysOK, Known, Over, cliOnly, past, Silent, Resting
<1>4. OnceOK' /\ ShapeOK'
  BY DEF OnceOK, ShapeOK, cliOnly, past, Resting
<1>5. ResultOK'
  <2> SUFFICES ASSUME NEW r \in Runs \ excused PROVE ResultOK!(r)'
    BY DEF ResultOK, past
  <2>1. r # NoRun /\ container.state \in {"none", "created", "running", "exited"}
    BY DEF JobAssumption, TypeOK, Container
  <2>2. View.run = r /\ View.state = "succeeded" => result[r] = "ok"
    BY <1>0, <2>1 DEF ResultOK, ShapeOK
  <2>3. status'.run = r /\ status'.state = "succeeded" => result[r] = "ok"
    BY <2>1, <2>2 DEF ResultOK, Silent
  <2> QED
    BY <2>3 DEF ResultOK, cliOnly, past
<1> QED
  BY <1>1, <1>2, <1>3, <1>4, <1>5

LEMMA ReportInv == ASSUME JobAssumption, JobInv, Report PROVE JobInv'
<1>1. faults' \in 0 .. MaxFaults
  BY MayOK DEF Report, JobInv
<1> QED
  BY <1>1, StatusInv DEF Report

LEMMA HeartbeatInv == ASSUME JobAssumption, JobInv, Heartbeat PROVE JobInv'
<1>1. faults' \in 0 .. MaxFaults
  BY MayOK DEF Heartbeat, JobInv
<1> QED
  BY <1>1, StatusInv DEF Heartbeat

LEMMA ReadFailsInv == ASSUME JobAssumption, JobInv, ReadFails PROVE JobInv'
<1>1. faults' \in 0 .. MaxFaults
  BY MayOK DEF ReadFails, JobInv
<1> QED
  BY <1>1, StatusInv DEF ReadFails

(* A container that ends does so once, and then has the run's result.        *)
LEMMA ExitInv ==
    ASSUME JobAssumption, JobInv, NEW code \in 0 .. 1, Exit(code),
           UNCHANGED <<cliOnly, status, begun, excused>>,
           agent' \in {agent, Resting}, faults' \in 0 .. MaxFaults
    PROVE  JobInv'
<1> USE DEF JobInv
<1> DEFINE end == IF code = 0 THEN "ok" ELSE "bad"
<1>0. /\ container.state = "running" /\ container.run \in Runs
      /\ container' \in Container /\ container'.run = container.run
      /\ container'.state = "exited" /\ container'.code = code
      /\ \A r \in Runs : result'[r] = IF r = container.run THEN end ELSE result[r]
      /\ result' \in [Runs -> {"none", "ok", "bad"}]
  <2>1. container \in Container /\ container.state = "running"
    BY DEF TypeOK, Exit, Busy
  <2>2. container.run \in Runs
    BY <2>1 DEF ShapeOK, NoContainer, Container
  <2>3. container' \in Container /\ container'.run = container.run
           /\ container'.state = "exited" /\ container'.code = code
    BY <2>1 DEF Exit, Container
  <2>4. result' = [result EXCEPT ![container.run] = end]
    BY DEF Exit
  <2> QED
    BY <2>1, <2>2, <2>3, <2>4 DEF TypeOK
<1>1. TypeOK'
  <2>1. Resting \in Agent
    BY DEF Resting, Agent
  <2> QED
    BY <1>0, <2>1 DEF TypeOK, cliOnly
<1>2. CliOK'
  BY CliFrame
<1>3. StaysOK'
  BY <1>0 DEF JobAssumption, StaysOK, Known, Over, cliOnly, Resting
<1>4. OnceOK'
  BY <1>0 DEF OnceOK, cliOnly, Resting
<1>5. ShapeOK'
  BY <1>0 DEF ShapeOK, Resting, NoContainer, JobAssumption
<1>6. ResultOK'
  <2> SUFFICES ASSUME NEW r \in Runs \ excused PROVE ResultOK!(r)'
    BY DEF ResultOK
  <2>1. CASE r = container.run
    <3>1. begun[r] = 1 /\ result[r] = "none"
      BY <1>0, <2>1 DEF ResultOK
    <3>2. result'[r] = end
      BY <1>0, <2>1
    <3>3. ~ (status.run = r /\ status.state = "succeeded") /\ cli[r].verdict # "ok"
      BY <3>1 DEF ResultOK
    <3> QED
      BY <1>0, <2>1, <3>1, <3>2, <3>3 DEF cliOnly
  <2>2. CASE r # container.run
    BY <1>0, <2>2 DEF ResultOK, cliOnly
  <2> QED
    BY <2>1, <2>2
<1> QED
  BY <1>1, <1>2, <1>3, <1>4, <1>5, <1>6

LEMMA ContainerExitsInv == ASSUME JobAssumption, JobInv, ContainerExits PROVE JobInv'
<1>1. faults' \in 0 .. MaxFaults
  BY DEF ContainerExits, JobInv, TypeOK
<1> QED
  BY <1>1, ExitInv DEF ContainerExits

LEMMA HostRebootsInv == ASSUME JobAssumption, JobInv, HostReboots PROVE JobInv'
<1>1. faults' \in 0 .. MaxFaults /\ 1 \in 0 .. 1
  BY MayOK DEF HostReboots, JobInv
<1> QED
  BY <1>1, ExitInv DEF HostReboots

(* Every step keeps the invariant.                                           *)
LEMMA StepInv == ASSUME JobAssumption, JobInv, [Next]_vars PROVE JobInv'
<1>1. CASE \E r \in Runs : Command(r)
  BY <1>1, InvokeInv, GetInv, PublishInv, WaitInv, GiveUpInv, RegainInv, RemoveInv, KilledInv
     DEF Command
<1>2. CASE Tick
  BY <1>2, BeginTickInv, RemoveContainerInv, PullInv, ClearInv, RunInv, ReportInv DEF Tick
<1>3. CASE Heartbeat \/ ReadFails \/ AgentCrash
  BY <1>3, HeartbeatInv, ReadFailsInv, AgentCrashInv
<1>4. CASE ContainerExits \/ HostReboots \/ FullDeploy \/ OtherWrite
  BY <1>4, ContainerExitsInv, HostRebootsInv, OthersInv
<1>5. CASE UNCHANGED vars
  BY <1>5 DEF vars, JobInv, TypeOK, CliOK, StaysOK, Known, Over, OnceOK, ShapeOK, ResultOK
<1> QED
  BY <1>1, <1>2, <1>3, <1>4, <1>5 DEF Next

(* The request, the commands, the tick and the container fit together in      *)
(* every reachable state.                                                    *)
THEOREM Invariant == ASSUME JobAssumption PROVE Spec => []JobInv
<1>1. Init => JobInv
  BY InitInv
<1>2. JobInv /\ [Next]_vars => JobInv'
  BY StepInv
<1> QED
  BY <1>1, <1>2, PTL DEF Spec

(* "run a top-level [[job]] exactly once": however plan_job_service is        *)
(* re-entered by crashes and lost answers, the container of a run whose      *)
(* request no deploy took out is started at most once.                       *)
THEOREM JobsAtMostOnce == ASSUME JobAssumption PROVE Spec => []AtMostOnce
<1>1. JobInv => AtMostOnce
  BY DEF JobInv, OnceOK, AtMostOnce
<1> QED
  BY <1>1, Invariant, PTL

(* waitForJob reports success only of a container that was started once and   *)
(* ended with exit code 0.                                                   *)
THEOREM VerdictAlwaysTrue == ASSUME JobAssumption PROVE Spec => []VerdictIsTrue
<1>1. JobInv => VerdictIsTrue
  <2> SUFFICES ASSUME JobInv, NEW r \in Runs \ excused, cli[r].verdict = "ok"
               PROVE  begun[r] = 1 /\ result[r] = "ok"
    BY DEF VerdictIsTrue
  <2>1. result[r] = "ok" /\ begun[r] > 0
    BY DEF JobInv, ResultOK
  <2>2. begun[r] \in Nat /\ begun[r] <= 1
    BY DEF JobInv, TypeOK, OnceOK
  <2> QED
    BY <2>1, <2>2
<1> QED
  BY <1>1, Invariant, PTL

(* publishJobRun and removeJobRun touch nobody else's request: publishing     *)
(* overwrites none, and one is taken out by its own command, which has its   *)
(* verdict by then, or by a full deploy.                                     *)
THEOREM RequestsAlwaysKept == ASSUME JobAssumption PROVE Spec => RequestsAreKept
<1> DEFINE Kept == \A r \in Runs :
         entry = r /\ entry' # r =>
            \/ writes' # writes
            \/ cli[r].stage = "remove" /\ cli[r].verdict \in {"ok", "failed"}
<1>1. ASSUME JobInv, [Next]_vars PROVE Kept
  <2>1. CASE \E r \in Runs : Publish(r)
    <3>1. PICK r \in Runs : Publish(r)
      BY <2>1
    <3>2. cli[r].fresh => entry \in {NoRun, r}
      BY <1>1, <3>1 DEF Publish, JobInv, CliOK
    <3> QED
      BY <3>1, <3>2 DEF Publish, JobAssumption
  <2>2. CASE \E r \in Runs : Remove(r)
    <3>1. PICK r \in Runs : Remove(r)
      BY <2>2
    <3>2. Mine(r) /\ cli[r].fresh => entry = r
      BY <1>1, <3>1 DEF Remove, JobInv, CliOK, Mine
    <3>3. cli[r].stage = "remove" /\ cli[r].verdict \in {"ok", "failed"}
      BY <1>1, <3>1 DEF Remove, JobInv, CliOK
    <3> QED
      BY <3>1, <3>2, <3>3 DEF Remove
  <2>3. CASE FullDeploy
    BY <1>1, <2>3 DEF FullDeploy, JobInv, TypeOK, JobAssumption
  <2>4. CASE UNCHANGED entry
    BY <2>4
  <2>5. \/ \E r \in Runs : Publish(r)
        \/ \E r \in Runs : Remove(r)
        \/ FullDeploy
        \/ UNCHANGED entry
    BY <1>1 DEF Next, vars, Command, Invoke, Get, Wait, GiveUp, Regain, Killed, cliOnly,
       Tick, BeginTick, RemoveContainer, Rm, Pull, Clear, Run, Report, Heartbeat,
       ReadFails, AgentCrash, ContainerExits, HostReboots, OtherWrite
  <2> QED
    BY <2>1, <2>2, <2>3, <2>4, <2>5
<1>2. JobInv /\ [Next]_vars => [Kept]_vars
  BY <1>1
<1> QED
  BY <1>2, Invariant, PTL DEF Spec, RequestsAreKept
=============================================================================
