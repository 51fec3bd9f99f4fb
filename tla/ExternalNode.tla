---------------------------- MODULE ExternalNode ----------------------------
(***************************************************************************)
(* The life of one external (BYOS) node: node init, rotate-creds,          *)
(* upgrade-agent, reconcile and destroy, which reach an operator's own     *)
(* machine over SSH and hand it the access key of an IAM user.             *)
(*                                                                         *)
(* What the node is lies in four places no step changes together: its      *)
(* entry node.json, the IAM user with its keys, the machine with the key   *)
(* in agent.env, in the systemd unit and in the running process, and the   *)
(* status.json that the agent can write as long as its key lives.          *)
(* Commands run side by side, an SSH session breaks after it has begun to  *)
(* write, calls fail and processes are killed.                             *)
(***************************************************************************)
EXTENDS Naturals, FiniteSets

CONSTANTS
    CLIs,        \* processes that run commands
    MaxKeys,     \* bound: access keys ever created
    MaxStarts,   \* bound: commands started, other than init --name to resume
    MaxFaults    \* bound: calls and sessions that fail, processes killed

ExternalNodeAssumption ==
    MaxKeys \in Nat /\ MaxStarts \in Nat /\ MaxFaults \in Nat

Keys  == 1 .. MaxKeys
NoKey == 0

VARIABLES
    registry,   \* node.json
    user,       \* whether the IAM user exists
    active,     \* its access keys
    minted,     \* keys created so far
    host,       \* the machine
    status,     \* status.json: none, fresh or stale
    job,        \* the command each CLI runs
    excused,    \* history: what a failed cleanup or a crossing has undone
    gone,       \* history: destroyed, and by a command that met no other
    starts, faults

aws     == <<registry, user, active, minted>>
history == <<excused, gone>>
vars    == <<aws, host, status, job, history, starts, faults>>

\* An entry is told apart by the enrollment that wrote it (createdAt).
Entry   == [born : Keys, state : {"provisioning", "ready", "terminating"},
            upgraded : BOOLEAN]
NoEntry == [born |-> NoKey, state |-> "terminating", upgraded |-> FALSE]

Host == [env  : Keys \cup {NoKey},                \* agent.env
         unit : {"none", "file", "plain"},        \* with EnvironmentFile or not
         up   : BOOLEAN,
         runs : Keys \cup {NoKey}]                \* what the process was given

Kinds  == {"init", "rotate", "upgrade", "reconcile", "destroy"}
Stages == {"idle", "mint", "register", "write", "install", "await", "mark",
           "push", "restart", "supersede", "drop", "swap", "record", "put",
           "cordon", "revoke", "user", "remove"}

Job == [kind  : Kinds, stage : Stages,
        key   : Keys \cup {NoKey},
        entry : Entry \cup {NoEntry},     \* as read, or as init wrote it
        cut   : BOOLEAN,                  \* history: SSH broke after the write
        ok    : BOOLEAN,                  \* no step failed
        met   : SUBSET Kinds]             \* history: what ran at the same time

TypeOK ==
    /\ registry \in Entry \cup {NoEntry}
    /\ user \in BOOLEAN /\ active \subseteq Keys /\ minted \in 0 .. MaxKeys
    /\ host \in Host
    /\ status \in {"none", "fresh", "stale"}
    /\ job \in [CLIs -> Job]
    /\ excused \subseteq {"listing", "keys", "rotation"} /\ gone \in BOOLEAN
    /\ starts \in 0 .. MaxStarts /\ faults \in 0 .. MaxFaults

Idle == [kind |-> "init", stage |-> "idle", key |-> NoKey, entry |-> NoEntry,
         cut |-> FALSE, ok |-> TRUE, met |-> {}]

Init ==
    /\ registry = NoEntry
    /\ user = FALSE /\ active = {} /\ minted = 0
    /\ host = [env |-> NoKey, unit |-> "none", up |-> FALSE, runs |-> NoKey]
    /\ status = "none"
    /\ job = [c \in CLIs |-> Idle]
    /\ excused = {} /\ gone = FALSE
    /\ starts = MaxStarts /\ faults = MaxFaults

At(c, s)  == job[c].stage = s
Active(c) == ~At(c, "idle")

Goto(c, s) == job' = [job EXCEPT ![c].stage = s]
Finish(c)  == job' = [job EXCEPT ![c] = Idle]

\* A command begins: it meets those that run, and they meet it.
Begin(c, kind, stage) ==
    job' = [d \in CLIs |->
      IF d = c THEN [Idle EXCEPT !.kind = kind, !.stage = stage, !.entry = registry,
                       !.met = {job[e].kind : e \in {e \in CLIs : Active(e)}}]
      ELSE IF Active(d) THEN [job[d] EXCEPT !.met = @ \cup {kind}] ELSE job[d]]

-----------------------------------------------------------------------------
(* The keys: createExternalNodeAccessKey, deleteExternalNodeIam             *)

CanCreateKey == Cardinality(active) < 2 /\ minted < MaxKeys

CreateKey(c, stage) ==
    /\ CanCreateKey
    /\ minted' = minted + 1
    /\ active' = active \cup {minted + 1}
    /\ job' = [job EXCEPT ![c].key = minted + 1, ![c].stage = stage]

\* deleteExternalNodeIam lists the keys and deletes them ...
Revoke(c) ==
    /\ At(c, "revoke")
    /\ active' = {}
    /\ Goto(c, "user")
    /\ UNCHANGED <<registry, user, minted, host, status, history>>

\* ... and the user, unless a key was created since.
DeleteUser(c) ==
    /\ At(c, "user")
    /\ user' = (active # {})
    /\ excused' = excused \cup (IF active = {} THEN {} ELSE {"listing", "keys"})
    /\ job' = [job EXCEPT ![c].stage = "remove", ![c].ok = @ /\ active = {}]
    /\ UNCHANGED <<registry, active, minted, host, status, gone>>

-----------------------------------------------------------------------------
(* node init                                                                *)

\* node.json is written BEFORE the bootstrap, so that destroy can find it.
After(s) == CASE s = "mint"     -> "register"
              [] s = "register" -> "write"
              [] s = "write"    -> "install"
              [] OTHER          -> "await"

\* ensureExternalNodeIam: the user may exist; a key is created in any case.
Mint(c) ==
    /\ At(c, "mint")
    /\ user' = TRUE
    /\ \/ CreateKey(c, After("mint"))
       \/ ~CanCreateKey /\ Finish(c) /\ UNCHANGED <<minted, active>>
    /\ UNCHANGED <<registry, host, status, history>>

\* Put if there is none; the loser rolls back, but for the entry.
Register(c) ==
    /\ At(c, "register")
    /\ IF registry = NoEntry
       THEN LET e == [born |-> job[c].key, state |-> "provisioning", upgraded |-> FALSE]
            IN  /\ registry' = e
                /\ job' = [job EXCEPT ![c].entry = e, ![c].stage = After("register")]
       ELSE Goto(c, "revoke") /\ UNCHANGED registry
    /\ UNCHANGED <<user, active, minted, host, status, history>>

\* The bootstrap script up to agent.env ...
WriteEnv(c) ==
    /\ At(c, "write")
    /\ host' = [host EXCEPT !.env = job[c].key]
    /\ Goto(c, After("write"))
    /\ UNCHANGED <<aws, status, history>>

Installed == [host EXCEPT !.unit = "file", !.up = TRUE, !.runs = host.env]

\* ... and the rest.  curl cannot write the binary of a running agent (one
\* left by a destroyed node): the script exits.
Install(c) ==
    /\ At(c, "install")
    /\ IF host.up
       THEN Goto(c, "revoke") /\ UNCHANGED host
       ELSE Goto(c, After("install")) /\ host' = Installed
    /\ UNCHANGED <<aws, status, history>>

\* waitForFirstHeartbeat, and the entry read by markReady
Await(c) ==
    /\ At(c, "await")
    /\ IF status = "fresh" /\ registry # NoEntry /\ registry.state # "ready"
       THEN job' = [job EXCEPT ![c].entry = registry, ![c].stage = "mark"]
       ELSE Finish(c)     \* ready, gone, or the timeout
    /\ UNCHANGED <<aws, host, status, history>>

\* Put if it is as read; a lost race is left alone.
Mark(c) ==
    /\ At(c, "mark")
    /\ registry' = IF registry = job[c].entry
                   THEN [registry EXCEPT !.state = "ready"] ELSE registry
    /\ Finish(c)
    /\ UNCHANGED <<user, active, minted, host, status, history>>

\* The end of the rollback, of the entry this init wrote
Unregister(c) ==
    /\ At(c, "remove") /\ job[c].kind = "init"
    /\ registry' = IF registry = job[c].entry THEN NoEntry ELSE registry
    /\ excused' = excused \cup (IF job[c].met \subseteq {"init"} THEN {} ELSE {"listing"})
    /\ Finish(c)
    /\ UNCHANGED <<user, active, minted, host, status, gone>>

Enroll(c) ==
    \/ Mint(c) \/ Register(c) \/ WriteEnv(c) \/ Install(c) \/ Await(c) \/ Mark(c)
    \/ Unregister(c)

-----------------------------------------------------------------------------
(* node rotate-creds                                                        *)

Replace(c) ==
    /\ At(c, "push") /\ job[c].key = NoKey
    /\ \/ user /\ CreateKey(c, "push")
       \/ ~(user /\ CanCreateKey) /\ Finish(c) /\ UNCHANGED <<minted, active>>
    /\ excused' = excused \cup (IF active = {} THEN {"rotation"} ELSE {})
    /\ UNCHANGED <<registry, user, host, status, gone>>

\* The script writes agent.env ...
Push(c) ==
    /\ At(c, "push") /\ job[c].key # NoKey
    /\ host' = [host EXCEPT !.env = job[c].key]
    /\ Goto(c, "restart")
    /\ UNCHANGED <<aws, status, history>>

Restarted(h) ==
    IF h.unit = "none" THEN h
    ELSE [h EXCEPT !.up = TRUE, !.runs = IF h.unit = "file" THEN h.env ELSE NoKey]

\* ... and restarts the agent, which must then be active.
Restart(c) ==
    /\ At(c, "restart")
    /\ host' = Restarted(host)
    /\ IF host.unit # "none" THEN Goto(c, "supersede")
       ELSE job' = [job EXCEPT ![c].stage = "drop", ![c].cut = TRUE]
    /\ UNCHANGED <<aws, status, history>>

\* mutant: the key that was there before is kept, not the one pushed
BugSuperseded(k) == {k}

Superseded(k) == active \ {k}

\* deleteExternalNodeAccessKeysExcept
Supersede(c) ==
    /\ At(c, "supersede")
    /\ active' = active \ Superseded(job[c].key)
    /\ Finish(c)
    /\ UNCHANGED <<registry, user, minted, host, status, history>>

Dropped(k) == {k}

\* The push failed: the replacement goes.
Drop(c) ==
    /\ At(c, "drop")
    /\ active' = active \ Dropped(job[c].key)
    /\ Finish(c)
    /\ UNCHANGED <<registry, user, minted, host, status, history>>

Rotate(c) == Replace(c) \/ Push(c) \/ Restart(c) \/ Supersede(c) \/ Drop(c)

-----------------------------------------------------------------------------
(* node upgrade-agent, node reconcile                                       *)

\* The upgrade's unit is that of an EC2 node: it names no EnvironmentFile.
Upgraded == Restarted([host EXCEPT !.unit = "plain"])

Swap(c) ==
    /\ At(c, "swap")
    /\ host' = Upgraded
    /\ Goto(c, "record")
    /\ UNCHANGED <<aws, status, history>>

\* updateRegistryAgentVersion puts the entry as it was read.
Record(c) ==
    /\ At(c, "record")
    /\ registry' = [job[c].entry EXCEPT !.upgraded = TRUE]
    /\ Finish(c)
    /\ UNCHANGED <<user, active, minted, host, status, history>>

\* assessExternalReconcile: mark-ready, put as it was read
PutReady(c) ==
    /\ At(c, "put")
    /\ registry' = [job[c].entry EXCEPT !.state = "ready"]
    /\ Finish(c)
    /\ UNCHANGED <<user, active, minted, host, status, history>>

Maintain(c) == Swap(c) \/ Record(c) \/ PutReady(c)

-----------------------------------------------------------------------------
(* node destroy: teardownNode, each step best effort                        *)

\* mutant: an external node is taken for one of EC2, that has a role and no user
BugAfterCordon == "remove"

AfterCordon == "revoke"

Cordon(c) ==
    /\ At(c, "cordon")
    /\ registry' = [job[c].entry EXCEPT !.state = "terminating"]
    /\ Goto(c, AfterCordon)
    /\ UNCHANGED <<user, active, minted, host, status, history>>

\* deletePrefix: node.json and status.json.  The machine is left as it is.
Remove(c) ==
    /\ At(c, "remove") /\ job[c].kind = "destroy"
    /\ registry' = NoEntry /\ status' = "none"
    /\ excused' = excused \cup (IF job[c].met = {} THEN {} ELSE {"listing"})
    /\ gone' = (job[c].ok /\ job[c].met = {})
    /\ Finish(c)
    /\ UNCHANGED <<user, active, minted, host>>

Destroy(c) == Cordon(c) \/ Revoke(c) \/ DeleteUser(c) \/ Remove(c)

-----------------------------------------------------------------------------
(* Commands, failures, and the machine                                      *)

\* Nothing is changed before the entry is read; init checks SSH beside it.
BeginInit(c)    == registry = NoEntry /\ Begin(c, "init", "mint")
BeginRotate(c)  == registry # NoEntry /\ Begin(c, "rotate", "push")
BeginUpgrade(c) == registry # NoEntry /\ Begin(c, "upgrade", "swap")
BeginDestroy(c) == registry # NoEntry /\ Begin(c, "destroy", "cordon")

AssessedReady == registry # NoEntry /\ registry.state = "provisioning" /\ status = "fresh"

BeginReconcile(c) == AssessedReady /\ Begin(c, "reconcile", "put")

\* destroy of a node that has no entry
SweepOrphanPrefix ==
    /\ registry = NoEntry /\ status # "none"
    /\ status' = "none"
    /\ UNCHANGED job

Start(c) ==
    /\ At(c, "idle")
    /\ starts > 0 /\ starts' = starts - 1
    /\ \/ BeginInit(c) /\ gone' = FALSE /\ UNCHANGED status
       \/ /\ BeginRotate(c) \/ BeginUpgrade(c) \/ BeginReconcile(c) \/ BeginDestroy(c)
          /\ UNCHANGED <<status, gone>>
       \/ SweepOrphanPrefix /\ UNCHANGED gone
    /\ UNCHANGED <<aws, host, excused, faults>>

\* mutant: a node that has an entry is enrolled
BugCanResume(e) == FALSE

CanResume(e) == e # NoEntry /\ e.state = "provisioning"

\* init --name again: only the wait is done again.
Resume(c) ==
    /\ At(c, "idle") /\ CanResume(registry)
    /\ Begin(c, "init", "await")
    /\ UNCHANGED <<aws, host, status, history, starts, faults>>

\* Where a command goes when the call it makes fails
AfterFailure(c) ==
    CASE job[c].stage \in {"register", "write", "install"} -> "revoke"
      [] job[c].stage \in {"revoke", "user"}               -> "remove"
      [] At(c, "cordon")                                   -> AfterCordon
      [] At(c, "restart") \/ (At(c, "push") /\ job[c].key # NoKey) -> "drop"
      [] OTHER -> "idle"

\* A call fails, or its answer is lost: the put is done and the script has run
\* on, and the command does not know.
Fail(c) ==
    /\ Active(c) /\ faults > 0 /\ faults' = faults - 1
    /\ \/ UNCHANGED <<registry, host>>
       \/ /\ At(c, "register") /\ registry = NoEntry
          /\ registry' = [born |-> job[c].key, state |-> "provisioning", upgraded |-> FALSE]
          /\ UNCHANGED host
       \/ At(c, "write") /\ host' = [host EXCEPT !.env = job[c].key] /\ UNCHANGED registry
       \/ At(c, "install") /\ ~host.up /\ host' = Installed /\ UNCHANGED registry
       \/ At(c, "restart") /\ host' = Restarted(host) /\ UNCHANGED registry
       \/ At(c, "swap") /\ host' = Upgraded /\ UNCHANGED registry
    /\ IF AfterFailure(c) = "idle" THEN Finish(c)
       ELSE job' = [job EXCEPT ![c].stage = AfterFailure(c), ![c].ok = FALSE,
                      ![c].cut = @ \/ At(c, "restart"),
                      ![c].entry = IF At(c, "register") THEN NoEntry ELSE @]
    /\ excused' = excused \cup
         CASE job[c].stage \in {"revoke", "user"}    -> {"listing", "keys"}
           [] job[c].stage \in {"supersede", "drop"} -> {"keys"}
           [] OTHER -> {}
    /\ UNCHANGED <<user, active, minted, status, gone, starts>>

Kill(c) ==
    /\ Active(c) /\ faults > 0 /\ faults' = faults - 1
    /\ Finish(c)
    /\ excused' = excused \cup (IF job[c].key = NoKey THEN {} ELSE {"keys"})
    /\ UNCHANGED <<aws, host, status, gone, starts>>

\* The machine, or the agent, is restarted.
Reboot ==
    /\ host.unit # "none" /\ host # Restarted(host)
    /\ host' = Restarted(host)
    /\ UNCHANGED <<aws, status, job, history, starts, faults>>

Lives == host.up /\ host.runs \in active

\* The agent writes status.json with each tick, as long as its key is good.
Beat ==
    /\ Lives /\ status # "fresh"
    /\ status' = "fresh"
    /\ UNCHANGED <<aws, host, job, history, starts, faults>>

\* HEARTBEAT_STALE_MS after the last
GoStale ==
    /\ ~Lives /\ status = "fresh"
    /\ status' = "stale"
    /\ UNCHANGED <<aws, host, job, history, starts, faults>>

Step(c) ==
    /\ Enroll(c) \/ Rotate(c) \/ Maintain(c) \/ Destroy(c)
    /\ UNCHANGED <<starts, faults>>

Next ==
    \/ \E c \in CLIs : Start(c) \/ Resume(c) \/ Step(c) \/ Fail(c) \/ Kill(c)
    \/ Reboot \/ Beat \/ GoStale

\* Commands go on, an agent that lives beats, and whoever enrolls a node
\* follows the hint to run init again as long as it is provisioning.
Fairness ==
    /\ \A c \in CLIs : WF_vars(Step(c))
    /\ WF_vars(\E c \in CLIs : Resume(c))
    /\ WF_vars(Beat)

Spec == Init /\ [][Next]_vars /\ Fairness

-----------------------------------------------------------------------------
(* Properties                                                               *)

\* A machine that holds a good key has an entry by which destroy finds it,
\* wherever an enrollment, a rollback or a destroy fails or is killed and
\* whoever enrolls the same name meanwhile; except after IAM refused a cleanup,
\* or when the entry was removed beside a command that had read it.
HostsAreListed ==
    host.env \in active /\ registry = NoEntry => "listing" \in excused

\* Keys do not pile up until every rotation is refused: when no command runs
\* there is one at most, unless a process was killed or a cleanup failed.
KeysDoNotPileUp ==
    (\A c \in CLIs : ~Active(c)) /\ Cardinality(active) > 1 => "keys" \in excused

\* A rotation, whether it succeeds or not and whatever other rotation goes on,
\* does not revoke the key that the machine starts its agent with: the limit of
\* two keys serialises rotations.  Except when SSH broke between the write and
\* the restart, a rotation found no key to replace, or an enrollment wrote its own.
RotationKeepsTheNodeIn ==
    [][\A c \in CLIs :
         job[c].kind = "rotate" /\ job[c].stage \in {"supersede", "drop"}
         /\ job'[c].stage = "idle" /\ host.env \in active =>
           \/ host.env \in active'
           \/ job[c].cut \/ "rotation" \in excused
           \/ "init" \in job[c].met]_vars

\* A destroy that ran alone and without a failed step is final: no key is left,
\* and the agent on the machine cannot bring the node's state back.
DestroyedStaysGone ==
    gone => active = {} /\ ~user /\ registry = NoEntry /\ status = "none"

\* No credential is out of reach: a good key is found by a destroy, goes with the
\* node, and there is one of it.
CredentialsAreHeld == TypeOK /\ HostsAreListed /\ KeysDoNotPileUp /\ DestroyedStaysGone

\* An enrolled machine whose agent lives becomes ready, though the enrollment's
\* wait timed out, its process was killed or its entry was put back meanwhile.
EnrolledComesUp ==
    (registry # NoEntry /\ registry.state = "provisioning" /\ Lives)
      ~> (registry = NoEntry \/ registry.state # "provisioning" \/ ~Lives)
=============================================================================
