------------------------------- MODULE Access -------------------------------
(***************************************************************************)
(* Who may do what in the account: the IAM policies the code writes, and   *)
(* the AWS calls its programs make under them.                             *)
(*                                                                         *)
(* Four identities act with a policy of launch-pad's: the operator         *)
(* (`setup iam-policy`), a repository's CI role (`setup ci-deploy`), the   *)
(* agent of a node (ensureNodeIam) and the CodeBuild container             *)
(* (ensureRemoteBuildInfra).  An administrator runs `setup ci-deploy`, any *)
(* number of times, for any project and cluster, and may be interrupted.   *)
(* A step of a command is one helper of the code with every call it makes: *)
(* it goes through only if the identity is granted all of them.  Policy    *)
(* and calls come from different files of the code, which says of each     *)
(* policy that it is what the calls need; this module says whether it is.  *)
(***************************************************************************)
EXTENDS Naturals, Sequences

CONSTANTS
    Clusters,   \* the named clusters
    Roles,      \* the names of CI roles: a project's own, or --role-name
    Projects,   \* each in a GitHub repository of its own
    MaxSetups,  \* bound: runs of setup ci-deploy
    MaxRuns,    \* bound: commands started
    MaxCrashes  \* bound: commands interrupted

VARIABLES
    have,       \* the resources that exist
    ciRole,     \* the IAM roles of CI: trusted project, inline policies
    workflow,   \* the .github/workflows/deploy.yml written, a branch per cluster
    setup,      \* the administrator's `setup ci-deploy`
    run,        \* the command that the operator or a CI job runs
    refused,    \* history: what an agent or a build was denied
    skipped,    \* history: what the operator was denied and went on without
    contested,  \* history: CI roles set up for two different targets
    setups, runs, crashes

vars == <<have, ciRole, workflow, setup, run, refused, skipped, contested, setups, runs, crashes>>

None == "none"

NodeIds == {"app", "edge"}
Host    == "host"                         \* the external node, if one is enrolled

(***************************************************************************)
(* Resources.  A footprint is a project or one component of it.            *)
(***************************************************************************)
Bucket  == <<"bucket">>
Backups == <<"backups bucket">>
Account == <<"account">>                  \* actions without a resource
ShellScript == <<"AWS-RunShellScript">>   \* the document

Owners == Projects \X {"itself", "component"}

\* Objects of the state bucket under clusters/<c>/
Desired(c, n)   == <<"desired.json", c, n>>
Status(c, n)    == <<"status.json", c, n>>
Registry(c, n)  == <<"node.json", c, n>>
Shard(c, n)     == <<"upstream shard", c, n>>
Config(c)       == <<"cluster.json", c>>
Index(c, p)     == <<"index", c, p>>
Project(c, o)   == <<"project state", c, o>>
Context(c, o)   == <<"build context", c, o>>

NodeObjects(c) == {Desired(c, n) : n \in NodeIds} \cup {Status(c, n) : n \in NodeIds}
                    \cup {Registry(c, n) : n \in NodeIds \cup {Host}} \cup {Shard(c, n) : n \in NodeIds}

Objects(c) == NodeObjects(c) \cup {Config(c)} \cup {Index(c, p) : p \in Projects}
                \cup {Project(c, o) : o \in Owners} \cup {Context(c, o) : o \in Owners}

AllObjects == UNION {Objects(c) : c \in Clusters}

Repo(p)       == <<"ECR repository", p>>
Secret(c, o)  == <<"secret", c, o>>
Dump(c)       == <<"database dump", c>>
Logs(c)       == <<"log group", c>>
Topic(c)      == <<"SNS topic", c>>
TopicArn(c)   == <<"the topic's ARN in cluster.json", c>>
Queue(c, n)   == <<"SQS queue", c, n>>
NodeRole(c, n) == <<"node role", c, n>>
NodeUser(c, n) == <<"node user", c, n>>
BuildRole(c)  == <<"build role", c>>
Builder(c)    == <<"CodeBuild project", c>>
Build(c)      == <<"running build", c>>
Instance(c, n) == <<"running instance", c, n>>

EachNode(F(_, _)) == {F(c, n) : c \in Clusters, n \in NodeIds}
EachOne(F(_))     == {F(c) : c \in Clusters}

(***************************************************************************)
(* Policies: sets of statements.                                           *)
(***************************************************************************)
Grant(acts, on) == [acts |-> acts, on |-> on]

Granted(policy, act, r) == \E s \in policy : act \in s.acts /\ r \in s.on

PullImage == {"ecr:BatchCheckLayerAvailability", "ecr:GetDownloadUrlForLayer", "ecr:BatchGetImage"}
PushImage == PullImage \cup {"ecr:InitiateLayerUpload", "ecr:UploadLayerPart",
                             "ecr:CompleteLayerUpload", "ecr:PutImage"}
ManageRepo == PushImage \cup {"ecr:CreateRepository", "ecr:DescribeRepositories",
                              "ecr:DescribeImages", "ecr:ListImages", "ecr:TagResource"}
ManageRole == {"iam:CreateRole", "iam:DeleteRole", "iam:TagRole", "iam:PutRolePolicy",
               "iam:DeleteRolePolicy"}
ReadWrite  == {"s3:GetObject", "s3:PutObject", "s3:DeleteObject"}
ReadSecret == {"ssm:GetParameter", "ssm:GetParameters"}

\* Without the tagging that ensureBucket does on every run.
BugProjectDeployPolicy(c, p) ==
    { Grant({"sts:GetCallerIdentity", "ecr:GetAuthorizationToken", "ec2:DescribeInstances"}, {Account}),
      Grant({"s3:ListBucket"}, {Bucket} \cup AllObjects),
      Grant(ReadWrite, Objects(c)),
      Grant(ManageRepo, {Repo(p)}),
      Grant(ReadSecret, {Secret(c, <<p, "itself">>)}) }

\* What `setup ci-deploy` grants a project on a cluster.
ProjectDeployPolicy(c, p) ==
    { Grant({"sts:GetCallerIdentity", "ecr:GetAuthorizationToken", "ec2:DescribeInstances",
             "ssm:GetPublicParameter"}, {Account}),
      Grant({"s3:ListBucket", "s3:PutBucketTagging"}, {Bucket} \cup AllObjects),
      Grant(ReadWrite, Objects(c)),
      Grant(ManageRepo, {Repo(p)}),
      Grant(ReadSecret \cup {"ssm:GetParametersByPath"}, {Secret(c, <<p, "itself">>)}) }

OperatorState ==
    { Grant({"sts:GetCallerIdentity", "ecr:GetAuthorizationToken"}, {Account}),
      Grant({"s3:CreateBucket", "s3:ListBucket", "s3:PutBucketVersioning",
             "s3:PutEncryptionConfiguration", "s3:PutBucketPublicAccessBlock",
             "s3:PutBucketTagging"}, {Bucket} \cup AllObjects),
      Grant(ReadWrite, AllObjects),
      Grant(ManageRepo, {Repo(p) : p \in Projects}) }

OperatorNodes ==
    { Grant({"ec2:RunInstances", "ec2:StartInstances", "ec2:StopInstances",
             "ec2:TerminateInstances", "ec2:ModifyInstanceAttribute", "ec2:DescribeInstances",
             "ec2:DescribeInstanceTypes", "ec2:DescribeImages", "ec2:DescribeVpcs",
             "ec2:DescribeAddresses", "ec2:AllocateAddress", "ec2:AssociateAddress",
             "ec2:DisassociateAddress", "ec2:ReleaseAddress", "ec2:DescribeSecurityGroups",
             "ec2:CreateSecurityGroup", "ec2:DeleteSecurityGroup",
             "ec2:AuthorizeSecurityGroupIngress", "ec2:CreateTags"}, {Account}),
      Grant(ManageRole \cup {"iam:PassRole", "iam:AttachRolePolicy", "iam:DetachRolePolicy",
             "iam:CreateInstanceProfile", "iam:DeleteInstanceProfile", "iam:GetInstanceProfile",
             "iam:TagInstanceProfile", "iam:AddRoleToInstanceProfile",
             "iam:RemoveRoleFromInstanceProfile"}, EachNode(NodeRole)) }

OperatorServices ==
    { Grant({"codebuild:CreateProject", "codebuild:UpdateProject", "codebuild:DeleteProject",
             "codebuild:StartBuild", "codebuild:BatchGetBuilds", "logs:GetLogEvents",
             "logs:DeleteLogGroup"}, EachOne(Builder)),
      Grant(ManageRole \cup {"iam:PassRole"}, EachOne(BuildRole)),
      Grant(ReadSecret \cup {"ssm:GetParametersByPath", "ssm:PutParameter",
             "ssm:DeleteParameter"}, {Secret(c, o) : c \in Clusters, o \in Owners}),
      Grant({"ssm:GetPublicParameter"}, {Account}),
      Grant({"ssm:SendCommand", "ssm:GetCommandInvocation"}, {ShellScript} \cup EachNode(Instance)),
      Grant({"logs:FilterLogEvents"}, EachOne(Logs)),
      Grant({"sns:CreateTopic", "sns:SetTopicAttributes", "sns:Subscribe", "sns:Publish"},
            EachOne(Topic)),
      Grant({"sqs:CreateQueue", "sqs:GetQueueAttributes", "sqs:SetQueueAttributes"},
            EachNode(Queue)) }

OperatorPolicy == OperatorState \cup OperatorNodes \cup OperatorServices

CloudWatchLogs(c) ==
    { Grant({"logs:CreateLogGroup", "logs:CreateLogStream", "logs:PutLogEvents",
             "logs:PutRetentionPolicy"}, {Logs(c)}) }

Ecr == { Grant({"ecr:GetAuthorizationToken"}, {Account}),
         Grant(PullImage, {Repo(p) : p \in Projects}) }

BackupWrites(c) == {Grant({"s3:PutObject", "s3:DeleteObject", "s3:ListBucket"}, {Dump(c)})}

Notifications(c, n) ==
    {Grant({"sqs:ReceiveMessage", "sqs:DeleteMessage", "sqs:GetQueueUrl"}, {Queue(c, n)})}

SsmReads(c) == {Grant(ReadSecret, {Secret(c, o) : o \in Owners})}

AppPolicy(c, n) ==
    { Grant({"s3:GetObject"}, {Desired(c, n)}),
      Grant({"s3:PutObject"}, {Status(c, n), Shard(c, n)}),
      Grant({"s3:ListBucket"}, {Desired(c, n), Status(c, n), Registry(c, n)}) }
    \cup Notifications(c, n) \cup CloudWatchLogs(c) \cup Ecr \cup SsmReads(c) \cup BackupWrites(c)

EdgePolicy(c, n) ==
    { Grant({"s3:GetObject", "s3:ListBucket"}, {Shard(c, m) : m \in NodeIds}),
      Grant({"s3:PutObject"}, {Status(c, n)}) }
    \cup Notifications(c, n) \cup CloudWatchLogs(c)

NodePolicy(c, n) == IF n = "app" THEN AppPolicy(c, n) ELSE EdgePolicy(c, n)

BuildPolicy(c) ==
    { Grant({"ecr:GetAuthorizationToken"}, {Account}),
      Grant(PushImage, {Repo(p) : p \in Projects}),
      Grant({"s3:GetObject"}, {Context(c, o) : o \in Owners}),
      Grant({"logs:CreateLogGroup", "logs:CreateLogStream", "logs:PutLogEvents"}, {Builder(c)}) }

(***************************************************************************)
(* Steps: what a helper needs to be granted, what it makes, and whether a  *)
(* refusal ends the command or only costs a warning.                       *)
(***************************************************************************)
Step(acts, on) == [needs |-> acts \X on, makes |-> {}, gone |-> {}, soft |-> FALSE]

Making(s, made) == [s EXCEPT !.makes = made]
Removing(s, r)  == [s EXCEPT !.gone = r]
BestEffort(s)   == [s EXCEPT !.soft = TRUE]
Calling(s, acts, on) == [s EXCEPT !.needs = @ \cup (acts \X on)]

\* Calls that change nothing, made before those of a step.
After(reads, s) == [s EXCEPT !.needs = @ \cup reads.needs]

\* Reading an object that is not there answers 404 only to who may list it.
Reading(objects) ==
    Calling(Step({"s3:GetObject"}, objects), {"s3:ListBucket"}, objects \ have)

Writing(objects) == Making(Step({"s3:PutObject"}, objects), objects)

Updating(objects) == After(Reading(objects), Writing(objects))

Identity == Step({"sts:GetCallerIdentity"}, {Account})

EnsureHardenedBucket(b) ==
    Making(Step(IF b \in have THEN {"s3:ListBucket", "s3:PutBucketTagging"}
                ELSE {"s3:ListBucket", "s3:CreateBucket", "s3:PutBucketPublicAccessBlock",
                      "s3:PutEncryptionConfiguration", "s3:PutBucketVersioning",
                      "s3:PutBucketTagging"}, {b}), {b})

\* createOrGetTopic, and the ARN kept in cluster.json where there is one
EnsureTopic(c) ==
    LET arn == IF Config(c) \in have THEN {TopicArn(c)} ELSE {} IN
    IF TopicArn(c) \in have THEN Step({}, {})
    ELSE BestEffort(Making(Calling(Step({"sns:CreateTopic", "sns:SetTopicAttributes"}, {Topic(c)}),
                                   {"s3:PutObject"}, have \cap {Config(c)}), {Topic(c)} \cup arn))

\* ensureNodeQueue of every node of the deploy
EnsureNodeQueue(c) ==
    BestEffort(Making(Calling(Step({"sns:Subscribe"}, {Topic(c)}),
                              {"sqs:CreateQueue", "sqs:GetQueueAttributes", "sqs:SetQueueAttributes"},
                              {Queue(c, n) : n \in NodeIds}),
                      {Queue(c, n) : n \in NodeIds}))

PublishDeployNotification(c) == BestEffort(Step({"sns:Publish"}, {Topic(c)}))

EnsureRepository(p) ==
    Making(Step({"ecr:DescribeRepositories", "ecr:TagResource"}
                  \cup (IF Repo(p) \in have THEN {} ELSE {"ecr:CreateRepository"}), {Repo(p)}),
           {Repo(p)})

ImageExists(p) == Step({"ecr:DescribeImages"}, {Repo(p)})

DockerPush(p) == Calling(Step(PushImage, {Repo(p)}), {"ecr:GetAuthorizationToken"}, {Account})

EnsureRemoteBuildInfra(c) ==
    Making(Calling(Step({"iam:CreateRole", "iam:PutRolePolicy", "iam:PassRole"}, {BuildRole(c)}),
                   {"codebuild:CreateProject"} \cup (IF Builder(c) \in have
                                                     THEN {"codebuild:UpdateProject"} ELSE {}),
                   {Builder(c)}),
           {BuildRole(c), Builder(c)})

StartBuild(c) ==
    Making(Step({"codebuild:StartBuild", "codebuild:BatchGetBuilds"}, {Builder(c)}), {Build(c)})

BuildLogTail(c) == BestEffort(Step({"logs:GetLogEvents"}, {Builder(c)}))

DeleteBuildContext(c, o) ==
    BestEffort(Removing(Step({"s3:DeleteObject"}, {Context(c, o)}), {Context(c, o)}))

DeleteRemoteBuildInfra(c) ==
    BestEffort(Removing(Calling(Step({"codebuild:DeleteProject", "logs:DeleteLogGroup"}, {Builder(c)}),
                                {"iam:DeleteRolePolicy", "iam:DeleteRole"}, {BuildRole(c)}),
                        {Builder(c), BuildRole(c)}))

EnsureNodeIam(c, n) ==
    Making(Step({"iam:CreateRole", "iam:PutRolePolicy", "iam:AttachRolePolicy",
                 "iam:CreateInstanceProfile", "iam:GetInstanceProfile",
                 "iam:AddRoleToInstanceProfile", "iam:TagRole", "iam:TagInstanceProfile"},
                {NodeRole(c, n)}), {NodeRole(c, n)})

ResolveNodeAmi == Step({"ec2:DescribeImages", "ssm:GetPublicParameter"}, {Account})

PrepareLaunch ==
    Step({"ec2:DescribeInstanceTypes", "ec2:DescribeVpcs", "ec2:DescribeSecurityGroups",
          "ec2:CreateSecurityGroup", "ec2:AuthorizeSecurityGroupIngress", "ec2:CreateTags"}, {Account})

RunNode(c, n) ==
    Making(Calling(Step({"ec2:RunInstances", "ec2:DescribeInstances"}, {Account}),
                   {"iam:PassRole"}, {NodeRole(c, n)}), {Instance(c, n)})

EnsureEip == Step({"ec2:DescribeAddresses", "ec2:AllocateAddress", "ec2:AssociateAddress",
                   "ec2:CreateTags"}, {Account})

TearDownNode(c, n) ==
    BestEffort(Removing(Step({"ec2:TerminateInstances", "ec2:DisassociateAddress",
                              "ec2:ReleaseAddress", "ec2:DescribeAddresses", "ec2:DescribeInstances",
                              "ec2:DeleteSecurityGroup"}, {Account}), {Instance(c, n)}))

DeleteNodeIam(c, n) ==
    BestEffort(Removing(Step({"iam:RemoveRoleFromInstanceProfile", "iam:DeleteInstanceProfile",
                              "iam:DetachRolePolicy", "iam:DeleteRolePolicy", "iam:DeleteRole",
                              "iam:GetInstanceProfile"}, {NodeRole(c, n)}), {NodeRole(c, n)}))

ModifyInstance == Step({"ec2:StopInstances", "ec2:ModifyInstanceAttribute", "ec2:StartInstances",
                        "ec2:DescribeInstances"}, {Account})

\* A command is sent with a document to an instance.  Its result is asked for by the
\* command's id: GetCommandInvocation is an action without a resource.
RunShellScript(c, n) ==
    Calling(Step({"ssm:SendCommand"}, {ShellScript, Instance(c, n)}),
            {"ssm:GetCommandInvocation"}, {Account})

FilterLogEvents(c) == Step({"logs:FilterLogEvents"}, {Logs(c)})

DeletePrefix(objects) ==
    BestEffort(Removing(Step({"s3:ListBucket", "s3:DeleteObject"}, objects), objects))

EnsureExternalNodeIam(c, n) ==
    Making(Step({"iam:CreateUser", "iam:TagUser", "iam:PutUserPolicy", "iam:ListAccessKeys",
                 "iam:CreateAccessKey"}, {NodeUser(c, n)}), {NodeUser(c, n)})

CreateExternalNodeAccessKey(c, n) ==
    Step({"iam:ListAccessKeys", "iam:DeleteAccessKey", "iam:CreateAccessKey"}, {NodeUser(c, n)})

DeleteExternalNodeAccessKeysExcept(c, n) ==
    BestEffort(Step({"iam:ListAccessKeys", "iam:DeleteAccessKey"}, {NodeUser(c, n)}))

\* Of a node that is registered; the entry is cordoned first.
DeleteExternalNodeIam(c, n) ==
    IF Registry(c, n) \notin have THEN Step({}, {})
    ELSE BestEffort(Removing(Calling(Step({"iam:ListAccessKeys", "iam:DeleteAccessKey",
                                           "iam:DeleteUserPolicy", "iam:DeleteUser"}, {NodeUser(c, n)}),
                                     {"s3:PutObject"}, {Registry(c, n)}), {NodeUser(c, n)}))

(***************************************************************************)
(* Commands                                                                *)
(***************************************************************************)
\* prepareAws with ensureBucket
PrepareAws == After(Identity, EnsureHardenedBucket(Bucket))

\* The image: built here and pushed, or on CodeBuild.
Images(r) ==
    LET p == r.owner[1]  c == r.cluster IN
    <<After(ImageExists(p), EnsureRepository(p))>> \o
    IF r.kind = "remote"
    THEN <<EnsureRemoteBuildInfra(c), Writing({Context(c, r.owner)}), StartBuild(c),
           BuildLogTail(c), DeleteBuildContext(c, r.owner)>>
    ELSE <<DockerPush(p)>>

Publish(r) ==
    LET c == r.cluster IN
    (IF r.kind = "database" THEN <<EnsureHardenedBucket(Backups)>> ELSE <<>>) \o
    <<Updating({Desired(c, "app")}), EnsureNodeQueue(c), PublishDeployNotification(c),
      Updating({Project(c, r.owner), Index(c, r.owner[1])})>>

ProvisionNode(c, n) ==
    <<After(ResolveNodeAmi, After(PrepareLaunch, EnsureNodeIam(c, n))), RunNode(c, n),
      After(EnsureEip, Writing({Registry(c, n)}))>>

\* A deploy; the workflow of setup ci-deploy creates no node.
Deploy(r) ==
    LET c == r.cluster IN
    <<PrepareAws, EnsureTopic(c),
      After(Reading({Project(c, r.owner), Index(c, r.owner[1]), Config(c)} \cup NodeObjects(c)),
            Step({"ec2:DescribeInstances"}, {Account}))>> \o
    (IF r.kind = "create"
     THEN ProvisionNode(c, "edge") \o ProvisionNode(c, "app") \o <<Updating({Config(c)})>>
     ELSE <<>>) \o
    (IF r.kind = "secrets" THEN <<Step({"ssm:GetParameters"}, {Secret(c, r.owner)})>> ELSE <<>>) \o
    Images(r) \o Publish(r)

\* secret set, rm, get, list and import of a value
Secrets(r) ==
    <<After(Identity, Step(ReadSecret \cup {"ssm:PutParameter", "ssm:GetParametersByPath",
                                           "ssm:DeleteParameter"}, {Secret(r.cluster, r.owner)}))>>

\* node destroy of every node
DestroyNodes(r) ==
    LET c == r.cluster IN
    <<After(Identity, Reading(NodeObjects(c))),
      TearDownNode(c, "app"), DeleteNodeIam(c, "app"),
      TearDownNode(c, "edge"), DeleteNodeIam(c, "edge"), DeleteExternalNodeIam(c, Host),
      DeletePrefix(NodeObjects(c))>>

\* node resize, pause and resume
Resize(r) ==
    LET entry == {Registry(r.cluster, "app")} IN
    <<After(Identity, Reading(entry)), After(ModifyInstance, Writing(entry))>>

\* node upgrade-agent refreshes the node's policies first, and registers the version
\* once the script is known to have succeeded; else it prints what to do by hand.  Then `logs`.
Upgrade(r) ==
    LET entry == {Registry(r.cluster, "app")} IN
    <<After(Identity, Reading(entry)), BestEffort(EnsureNodeIam(r.cluster, "app")),
      BestEffort(After(RunShellScript(r.cluster, "app"), Writing(entry))), FilterLogEvents(r.cluster)>>

\* cluster create, with the bucket
CreateCluster(r) == <<PrepareAws, Updating({Config(r.cluster)})>>

\* cluster destroy leaves the topic, the queues, the images and the secrets
DestroyCluster(r) ==
    LET c == r.cluster IN
    <<After(Identity, Reading(NodeObjects(c))),
      TearDownNode(c, "app"), TearDownNode(c, "edge"), DeleteNodeIam(c, "app"),
      DeleteNodeIam(c, "edge"), DeleteExternalNodeIam(c, Host), DeleteRemoteBuildInfra(c),
      Removing(DeletePrefix(Objects(c)), Objects(c) \cup {TopicArn(c)})>>

\* node init
Enroll(r) ==
    LET entry == {Registry(r.cluster, Host)} IN
    <<PrepareAws, After(Reading(entry), EnsureExternalNodeIam(r.cluster, Host)), Writing(entry)>>

\* node rotate-creds
RotateCreds(r) ==
    <<After(Identity, Reading({Registry(r.cluster, Host)})),
      CreateExternalNodeAccessKey(r.cluster, Host), DeleteExternalNodeAccessKeysExcept(r.cluster, Host)>>

Program(r) == CASE r.name = "deploy" -> Deploy(r)
                [] r.name = "secret" -> Secrets(r)
                [] r.name = "node destroy" -> DestroyNodes(r)
                [] r.name = "node resize" -> Resize(r)
                [] r.name = "node upgrade-agent" -> Upgrade(r)
                [] r.name = "cluster create" -> CreateCluster(r)
                [] r.name = "cluster destroy" -> DestroyCluster(r)
                [] r.name = "node init" -> Enroll(r)
                [] r.name = "node rotate-creds" -> RotateCreds(r)

\* A named node must be registered, in a bucket that exists.
Targets(r) == CASE r.name \in {"node resize", "node upgrade-agent"}
                       -> {Instance(r.cluster, "app"), Registry(r.cluster, "app")}
                [] r.name = "node rotate-creds" -> {NodeUser(r.cluster, Host), Registry(r.cluster, Host)}
                [] r.name \in {"node destroy", "cluster destroy"} -> {Bucket}
                [] OTHER -> {}

Names == {"deploy", "secret", "node destroy", "node resize", "node upgrade-agent", "node init",
          "node rotate-creds", "cluster create", "cluster destroy"}

\* Bound: a component's footprint only where secrets are read.
Commands == {r \in [name : Names, state : {"running"},
                    at : {1}, owner : Owners, cluster : Clusters, role : Roles \cup {None},
                    kind : {"plain", "create", "secrets", "remote", "database"}] :
                 /\ r.kind = "plain" \/ r.name = "deploy"
                 /\ r.owner[2] = "itself" \/ r.kind = "secrets" \/ r.name = "secret"}

Idle == [name |-> None, state |-> "idle"]

Init ==
    /\ have = {}
    /\ ciRole = [r \in Roles |-> [there |-> FALSE, trust |-> <<None, None>>, inline |-> [p \in Projects |-> None]]]
    /\ workflow = {}
    /\ setup = Idle
    /\ run = Idle
    /\ refused = {}
    /\ skipped = {}
    /\ contested = {}
    /\ setups = 0
    /\ runs = 0
    /\ crashes = 0

(***************************************************************************)
(* setup ci-deploy                                                         *)
(***************************************************************************)
\* `--role-name` defaults to one of the project's own.
BeginSetup(p, c, role) ==
    /\ setup = Idle
    /\ setups < MaxSetups
    /\ setups' = setups + 1
    /\ setup' = [name |-> "ci-deploy", state |-> "role", project |-> p, cluster |-> c, role |-> role]
    /\ contested' = IF ciRole[role].there /\ ciRole[role].trust # <<p, c>>
                    THEN contested \cup {role} ELSE contested
    /\ UNCHANGED <<have, ciRole, workflow, run, refused, skipped, runs, crashes>>

\* CreateRole, or UpdateAssumeRolePolicy of the one there is; the trust policy
\* names the repository and its branch.
TrustRepository ==
    /\ setup.state = "role"
    /\ ciRole' = [ciRole EXCEPT ![setup.role].there = TRUE,
                                ![setup.role].trust = <<setup.project, setup.cluster>>]
    /\ setup' = [setup EXCEPT !.state = "policy"]
    /\ UNCHANGED <<have, workflow, run, refused, skipped, contested, setups, runs, crashes>>

\* The inline policy is named after the project, so it replaces the one the
\* project had and leaves those of other projects.
PutInlinePolicy ==
    /\ setup.state = "policy"
    /\ ciRole' = [ciRole EXCEPT ![setup.role].inline[setup.project] = setup.cluster]
    /\ setup' = [setup EXCEPT !.state = "workflow"]
    /\ UNCHANGED <<have, workflow, run, refused, skipped, contested, setups, runs, crashes>>

WriteWorkflow ==
    /\ setup.state = "workflow"
    /\ workflow' = {w \in workflow : <<w.project, w.cluster>> # <<setup.project, setup.cluster>>}
                     \cup {[project |-> setup.project, cluster |-> setup.cluster, role |-> setup.role]}
    /\ setup' = Idle
    /\ UNCHANGED <<have, ciRole, run, refused, skipped, contested, setups, runs, crashes>>

\* An administrator, whom no policy of launch-pad's binds, enrolls an external node.
AdministratorEnrolls(c) ==
    /\ setup = Idle
    /\ setups < MaxSetups
    /\ setups' = setups + 1
    /\ Registry(c, Host) \notin have
    /\ have' = have \cup {Bucket, Registry(c, Host), NodeUser(c, Host)}
    /\ UNCHANGED <<ciRole, workflow, setup, run, refused, skipped, contested, runs, crashes>>

Setup == (\E p \in Projects, c \in Clusters, role \in Roles : BeginSetup(p, c, role))
         \/ TrustRepository \/ PutInlinePolicy \/ WriteWorkflow
         \/ \E c \in Clusters : AdministratorEnrolls(c)

(***************************************************************************)
(* The operator's commands, and CI's                                       *)
(***************************************************************************)
CiPolicy(role) == UNION {ProjectDeployPolicy(ciRole[role].inline[p], p) :
                            p \in {q \in Projects : ciRole[role].inline[q] # None}}

Policy(r) == IF r.role = None THEN OperatorPolicy ELSE CiPolicy(r.role)

Begin(r) ==
    /\ run.state # "running"
    /\ runs < MaxRuns
    /\ runs' = runs + 1
    /\ run' = r
    /\ UNCHANGED <<have, ciRole, workflow, setup, refused, skipped, contested, setups, crashes>>

BeginOperator(r) ==
    /\ r.role = None
    /\ Targets(r) \subseteq have
    /\ Begin(r)

\* A push to the branch runs the workflow, in a cluster the operator deployed to:
\* GitHub's token must be trusted by the role.
BeginCi(r, w) ==
    /\ w.role = r.role /\ w.project = r.owner[1] /\ w.cluster = r.cluster
    /\ r.name = "deploy" /\ r.kind # "create"
    /\ {Config(r.cluster), Bucket} \subseteq have
    /\ Begin([r EXCEPT !.state = IF ciRole[w.role].trust = <<w.project, w.cluster>>
                                 THEN "running" ELSE "denied"])

Denied(policy, calls) == {call \in calls : ~Granted(policy, call[1], call[2])}

\* One helper's calls: refused, it is skipped with a warning or ends the command.
Proceed ==
    /\ run.state = "running"
    /\ \E s \in {Program(run)[run.at]} :
          LET denied == Denied(Policy(run), s.needs)
              ok     == denied = {} IN
          /\ skipped' = IF s.soft /\ run.role = None THEN skipped \cup denied ELSE skipped
          /\ have' = IF ok THEN (have \ s.gone) \cup s.makes ELSE have
          /\ run' = IF ~ok /\ ~s.soft THEN [run EXCEPT !.state = "denied"]
                    ELSE IF run.at = Len(Program(run)) THEN [run EXCEPT !.state = "done"]
                    ELSE [run EXCEPT !.at = @ + 1]
    /\ UNCHANGED <<ciRole, workflow, setup, refused, contested, setups, runs, crashes>>

\* A command, or a setup, is killed between two steps.
Interrupt ==
    /\ crashes < MaxCrashes
    /\ crashes' = crashes + 1
    /\ \/ run.state = "running" /\ run' = Idle /\ UNCHANGED setup
       \/ setup # Idle /\ setup' = Idle /\ UNCHANGED run
    /\ UNCHANGED <<have, ciRole, workflow, refused, skipped, contested, setups, runs>>

(***************************************************************************)
(* The agents and the build container                                      *)
(***************************************************************************)
\* What the app agent calls: its poll, its heartbeat and shard, and for what is
\* deployed to it images, secrets, dumps and logs.
AppCalls(c, n) ==
    Reading({Desired(c, n)}).needs \cup
    ({"s3:PutObject"} \X {Status(c, n), Shard(c, n)}) \cup
    ({"logs:CreateLogGroup", "logs:CreateLogStream", "logs:PutLogEvents"} \X {Logs(c)}) \cup
    (IF Desired(c, n) \in have
     THEN ({"ecr:GetAuthorizationToken"} \X {Account})
            \cup (PullImage \X (have \cap {Repo(p) : p \in Projects}))
            \cup ({"ssm:GetParameters"} \X {Secret(c, o) : o \in Owners})
            \cup ({"s3:PutObject", "s3:ListBucket", "s3:DeleteObject"} \X {Dump(c)})
     ELSE {})

EdgeCalls(c, n) ==
    ({"s3:ListBucket"} \X {Shard(c, m) : m \in NodeIds}) \cup
    ({"s3:GetObject"} \X {Shard(c, m) : m \in NodeIds}) \cup
    {<<"s3:PutObject", Status(c, n)>>} \cup
    ({"logs:CreateLogGroup", "logs:CreateLogStream", "logs:PutLogEvents"} \X {Logs(c)})

QueueCalls(c, n) ==
    {"sqs:GetQueueUrl", "sqs:ReceiveMessage", "sqs:DeleteMessage"} \X {Queue(c, n)}

AgentCalls(c, n) == QueueCalls(c, n) \cup IF n = "app" THEN AppCalls(c, n) ELSE EdgeCalls(c, n)

RolePolicy(role, policy) == IF role \in have THEN policy ELSE {}

AgentTick(c, n) ==
    /\ Instance(c, n) \in have
    /\ refused' = refused \cup Denied(RolePolicy(NodeRole(c, n), NodePolicy(c, n)), AgentCalls(c, n))
    /\ UNCHANGED <<have, ciRole, workflow, setup, run, skipped, contested, setups, runs, crashes>>

\* The buildspec: fetch the context, build, push; its log goes to CloudWatch.
BuildCalls(c) ==
    {<<"ecr:GetAuthorizationToken", Account>>} \cup
    ({"s3:GetObject"} \X (have \cap {Context(c, o) : o \in Owners})) \cup
    (PushImage \X (have \cap {Repo(p) : p \in Projects})) \cup
    ({"logs:CreateLogGroup", "logs:CreateLogStream", "logs:PutLogEvents"} \X {Builder(c)})

\* A build whose cluster was destroyed under it has lost its role: it just fails.
BuildRuns(c) ==
    /\ Build(c) \in have
    /\ have' = have \ {Build(c)}
    /\ refused' = IF BuildRole(c) \in have
                  THEN refused \cup Denied(BuildPolicy(c), BuildCalls(c)) ELSE refused
    /\ UNCHANGED <<ciRole, workflow, setup, run, skipped, contested, setups, runs, crashes>>

Next == \/ Setup
        \/ \E r \in Commands : BeginOperator(r)
        \/ \E r \in Commands, w \in workflow : BeginCi(r, w)
        \/ Proceed
        \/ Interrupt
        \/ \E c \in Clusters, n \in NodeIds : AgentTick(c, n)
        \/ \E c \in Clusters : BuildRuns(c)

Spec == Init /\ [][Next]_vars

(***************************************************************************)
(* Properties                                                              *)
(***************************************************************************)
\* project-deploy-policy.ts says its statements are the minimum that a deploy-only
\* run calls: a workflow that `setup ci-deploy` wrote, for a role that was never set
\* up for another target, is not refused a deploy of its project's own footprint.
CiIsEnough ==
    run.state = "denied" /\ run.role # None
        => \/ run.role \in contested
           \/ run.kind \in {"remote", "database"}
           \/ run.kind = "secrets" /\ run.owner[2] = "component"

\* What the operator's best-effort steps are refused: the result of a script that
\* `node upgrade-agent` ran, and the user of an external node that a destroy leaves.
OperatorGoesWithout ==
    {<<"ssm:GetCommandInvocation", Account>>} \cup
    ({"iam:ListAccessKeys", "iam:DeleteAccessKey", "iam:DeleteUserPolicy", "iam:DeleteUser"}
        \X {NodeUser(c, Host) : c \in Clusters})

\* operator-policy.ts says of the operator policy that it is kept in lock-step with the
\* calls the CLI makes: but for node init, node rotate-creds and a database with backups
\* no command of the operator's is stopped by a refusal, and what a command goes on
\* without is one of those two, whatever an administrator has enrolled.
OperatorIsEnough ==
    /\ run.state = "denied" /\ run.role = None
          => run.name \in {"node init", "node rotate-creds"} \/ run.kind = "database"
    /\ skipped \subseteq OperatorGoesWithout

PoliciesAreEnough == CiIsEnough /\ OperatorIsEnough

\* The agents of the nodes, and the build containers, are refused nothing they call,
\* whatever was interrupted, torn down or has not been written yet.
AgentsAreServed == refused = {}
=============================================================================
