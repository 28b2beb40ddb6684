----------------------------- MODULE Discovery -----------------------------
(***************************************************************************)
(* installer/internal/workflow/stages/discovery, and what the steps of     *)
(* stages/artifact do with the session it sets up: which Harbor the run    *)
(* talks to, with which credentials, over which tunnel, and what the       *)
(* operator is asked when that fails.                                      *)
(*                                                                         *)
(* A namespace of the cluster is a record of the Harbor in it; pods,       *)
(* services and robot passwords change between any two steps.  A failure   *)
(* that nothing in the state explains uses up one of MaxFaults.            *)
(***************************************************************************)
EXTENDS Integers, FiniteSets, Sequences

CONSTANTS
    Namespaces, Services, Secrets,  \* names the operator may enter
    DefaultNamespace,   \* the installer's and the Harbor stack's namespace
    DefaultService,     \* chart.ServiceName
    DefaultSecret,      \* pullSecretName
    StackProjects,      \* projects the Harbor stack creates
    ImageProjects,      \* projects the image manifest names
    ModelProject,       \* catalog.ModelHarborProject, None without models
    Harbors,            \* what a namespace may hold when the run starts
    StepLists,          \* steps of the artifact stage that talk to Harbor
    Platforms,          \* of Provider.IsCloud: the platforms looked at
    MaxFaults,          \* bound: failures and changes of the cluster
    None

Projects == StackProjects \cup ImageProjects \cup ({ModelProject} \ {None})

\* The Harbor of a namespace: its Service, whether an endpoint of it is ready,
\* the pod behind it, whether this installer's Pulumi state holds it, the pull
\* secret with the robot password in it, the password Harbor takes, whether the
\* robot may list projects, whether it takes the admin's password that the
\* secret harbor-core holds, projects.
HarborStates ==
    [exists : BOOLEAN, svc : Services \cup {None}, ready : BOOLEAN, pod : Nat, ours : BOOLEAN,
     secret : Secrets \cup {None}, held : Nat, robot : Nat, lists : BOOLEAN, core : BOOLEAN,
     projects : SUBSET Projects]

\* Registry hosts that containerd is configured for, pods that a tunnel leads to
Hosts == [ns : Namespaces, svc : Services]
Pods == [ns : Namespaces, pod : Nat]

ASSUME DiscoveryAssumption ==
    /\ None \notin Namespaces \cup Services \cup Secrets
    /\ None \notin Pods
    /\ DefaultNamespace \in Namespaces
    /\ DefaultService \in Services
    /\ DefaultSecret \in Secrets
    /\ Harbors \subseteq HarborStates
    /\ \A h \in Harbors : h.held <= h.robot    \* passwords are numbered as they are made
    /\ StepLists \subseteq Seq({"check", "models", "images", "delete"})
    /\ \A l \in StepLists : \E i \in 1 .. Len(l) : l[i] \in {"models", "images"}
    /\ Platforms \subseteq BOOLEAN
    /\ MaxFaults \in Nat

VARIABLES
    cluster,    \* namespace -> HarborStates
    cloud,      \* Bootstrap.Provider is a managed cloud
    pc,         \* the step, or the part of it, that runs next
    err,        \* what the operator is asked about
    at,         \* where RecoveryRetryStep goes
    cfg,        \* Bootstrap.Config.Harbor
    mode,       \* Discovery.Mode
    target,     \* Discovery.Target
    auth,       \* Discovery.Auth
    forward,    \* Discovery.HarborForward
    client,     \* Discovery.Client is set
    admin,      \* Discovery.AdminPassword: none, the Harbor stack's, or one Harbor took
    steps,      \* steps of the artifact stage that are left
    tunnels,    \* port-forwards that are open
    nodes,      \* the registry host that containerd is configured for
    pushed,     \* namespaces of the Harbors that were pushed into
    fresh,      \* the operator chose "Fresh install"
    deployed,   \* namespaces in which this run deployed Harbor
    had,        \* namespaces that held a Harbor when the run started
    faults

session == <<cfg, mode, target, auth, forward, client>>
outcome == <<admin, nodes, pushed, fresh, deployed, had, cloud>>
vars == <<cluster, pc, err, at, session, steps, tunnels, outcome, faults>>

\* Credentials: whose they are, which password (0: the admin's), and where the
\* run has them from.
NoAuth == [ns |-> None, ver |-> 0, by |-> "none"]

Init ==
    /\ cluster \in [Namespaces -> Harbors]
    /\ pc = "target"
    /\ err = "none"
    /\ at = "target"
    /\ cfg = [ns |-> DefaultNamespace, svc |-> DefaultService, secret |-> DefaultSecret]
    /\ mode = "update"
    /\ target = None
    /\ auth = NoAuth
    /\ forward = None
    /\ client = FALSE
    /\ admin = "none"
    /\ steps \in StepLists
    /\ tunnels = 0
    /\ nodes = None
    /\ pushed = {}
    /\ fresh = FALSE
    /\ deployed = {}
    /\ had = {n \in Namespaces : cluster[n].svc # None}
    /\ cloud \in Platforms
    /\ faults = 0

----------------------------------------------------------------------------
(* How steps end                                                           *)

Goto(l) == pc' = l /\ UNCHANGED <<err, at>>

\* The step fails and its Recover asks the operator; r is where a retry goes.
Ask(e, r) == pc' = "ask" /\ err' = e /\ at' = r

\* A step of the artifact stage, or the question it led to
InArtifact ==
    \/ pc \in {"refresh", "open", "probe", "work", "create"}
    \/ pc = "ask" /\ at \in {"refresh", "create"}

\* The stage fails; the artifact stage still runs its Cleanup.
Fail == pc' = (IF InArtifact THEN "cleanup" ELSE "failed") /\ UNCHANGED <<err, at>>

Fault == faults < MaxFaults /\ faults' = faults + 1

\* The When conditions of the steps after CheckResources
AfterCheck(m) ==
    CASE m = "update" -> "access"
      [] m = "install" /\ ~cloud -> "preload"
      [] OTHER -> "deploy"

----------------------------------------------------------------------------
(* What the cluster answers                                                *)

Host == [ns |-> cfg.ns, svc |-> cfg.svc]

\* ServiceRef.ForwardTarget: the Service exists and has a ready endpoint.
Usable == cluster[cfg.ns].exists /\ cluster[cfg.ns].svc = cfg.svc /\ cluster[cfg.ns].ready

ForwardTarget == [ns |-> cfg.ns, pod |-> cluster[cfg.ns].pod]

\* The tunnel leads to a pod that still serves.
Reachable(f) == f # None /\ cluster[f.ns].ready /\ cluster[f.ns].pod = f.pod

\* Harbor takes the credentials.
Accepted(n) == auth.ns = n /\ auth.by # "none" /\ auth.ver \in {0, cluster[n].robot}

----------------------------------------------------------------------------
(* CheckResources                                                          *)

\* Mutant: a missing namespace is enough to install without asking.
MutFindHarborNamespaces == {}

findHarborNamespaces == {n \in Namespaces : cluster[n].svc # None}

\* checkHarborTarget, in CheckResources and again after Harbor was deployed
checkHarborTarget ==
    /\ pc \in {"target", "retarget"}
    /\ Usable
    /\ target' = ForwardTarget
    /\ Goto(IF pc = "target" THEN "pull" ELSE "access")
    /\ UNCHANGED <<cluster, cfg, mode, auth, forward, client, steps, tunnels, outcome, faults>>

\* The Service is missing, has no selector or port, no ready endpoint, or
\* reading it fails.
harborServiceInvalid ==
    /\ pc = "target"
    /\ cluster[cfg.ns].exists
    /\ \/ ~Usable /\ UNCHANGED faults
       \/ Fault
    /\ Ask("service", "target")
    /\ UNCHANGED <<cluster, session, steps, tunnels, outcome>>

\* The namespace does not exist, and no Harbor runs elsewhere.
installWhenHarborMissing ==
    /\ pc = "target"
    /\ ~cluster[cfg.ns].exists
    /\ findHarborNamespaces = {}
    /\ mode' = "install"
    /\ Goto(AfterCheck("install"))
    /\ UNCHANGED <<cluster, cfg, target, auth, forward, client, steps, tunnels, outcome, faults>>

\* The namespace does not exist; a Harbor runs elsewhere or the search failed.
harborElsewhere ==
    /\ pc = "target"
    /\ ~cluster[cfg.ns].exists
    /\ \/ findHarborNamespaces # {} /\ UNCHANGED faults
       \/ Fault
    /\ Ask("namespace", "target")
    /\ UNCHANGED <<cluster, session, steps, tunnels, outcome>>

\* checkHarborPullSecret, in CheckResources and as the stage's last step
PullSecretUsable == cluster[cfg.ns].secret = cfg.secret

Credentials(by) == [ns |-> cfg.ns, ver |-> cluster[cfg.ns].held, by |-> by]

checkHarborPullSecret ==
    /\ pc \in {"pull", "repull"}
    /\ PullSecretUsable
    /\ auth' = Credentials(pc)
    /\ Goto(IF pc = "pull" THEN "forward" ELSE "next")
    /\ UNCHANGED <<cluster, cfg, mode, target, forward, client, steps, tunnels, outcome, faults>>

harborSecretInvalid ==
    /\ pc \in {"pull", "repull"}
    /\ \/ ~PullSecretUsable /\ UNCHANGED faults
       \/ Fault
    /\ Ask("secret", IF pc = "pull" THEN "target" ELSE "repull")
    /\ UNCHANGED <<cluster, session, steps, tunnels, outcome>>

\* Reading the cluster fails for another reason than a harborDiscoveryError, or
\* in a step that has no Recover.
checkFails ==
    /\ pc \in {"target", "retarget"}
    /\ \/ Fault
       \/ pc = "retarget" /\ ~Usable /\ UNCHANGED faults
    /\ Fail
    /\ UNCHANGED <<cluster, session, steps, tunnels, outcome>>

\* startPortForward dials the pod resolved earlier, in the configured namespace.
Dialable == target.ns = cfg.ns /\ Reachable(target)

startPortForward ==
    /\ pc \in {"forward", "open"}
    /\ Dialable
    /\ forward' = target
    /\ tunnels' = tunnels + 1
    /\ Goto(IF pc = "forward" THEN "projects" ELSE "probe")
    /\ UNCHANGED <<cluster, cfg, mode, target, auth, client, steps, outcome, faults>>

\* In CheckResources, and in the steps that expect an oras or Harbor error,
\* nothing recovers; recoverCheckModelArtifacts asks after a timeout, but a pod
\* that is gone is no error of the network to it.
startPortForwardFails ==
    /\ pc \in {"forward", "open"}
    /\ \/ ~Dialable /\ UNCHANGED faults
       \/ Fault
    /\ \/ Fail
       \/ pc = "open" /\ Head(steps) = "check" /\ Ask("network", "refresh")
    /\ UNCHANGED <<cluster, session, steps, tunnels, outcome>>

\* Mutant: the projects are taken to be there.
MutRequired == {}

\* RequiredHarborProjects: what the stack creates and the manifests name
Required == Projects

missingProjects == Required \ cluster[forward.ns].projects

\* projectNames: Harbor takes the credentials and lets their owner list.
Lists(n) == Accepted(n) /\ (auth.ver = 0 \/ cluster[n].lists)

\* The common case, which needs no admin: everything is in the robot's list.
SeesAll == Lists(forward.ns) /\ missingProjects = {}

\* Harbor takes the password that harborAdminClient tries first: the one of this
\* run, or else of harbor-core, where a release of the stack has the stack's.
AdminKnown ==
    CASE admin = "none" -> cluster[cfg.ns].core
      [] admin = "stack" -> forward.ns = DefaultNamespace /\ cluster[DefaultNamespace].core
      [] OTHER -> TRUE

\* Nothing is missing, or the admin creates what is.
EnsureHarborProjects ==
    /\ pc \in {"projects", "create"}
    /\ Reachable(forward)
    /\ SeesAll \/ AdminKnown
    /\ cluster' = [cluster EXCEPT ![forward.ns].projects = @ \cup missingProjects]
    /\ admin' = IF SeesAll THEN admin ELSE "taken"
    /\ Goto(IF pc = "projects" THEN "ready" ELSE "refresh")
    /\ UNCHANGED <<session, steps, tunnels, nodes, pushed, fresh, deployed, had, cloud, faults>>

\* harborAdminClient has no password, or Harbor rejects it; or the robot's list,
\* the secret or the log-in fails for once.
harborAdminClient ==
    /\ pc \in {"projects", "create"}
    /\ Reachable(forward)
    /\ \/ ~SeesAll /\ ~AdminKnown /\ UNCHANGED faults
       \/ Fault
    /\ Ask("admin", pc)
    /\ UNCHANGED <<cluster, session, steps, tunnels, outcome>>

\* Harbor cannot be asked, or creating fails at one of the projects.
EnsureHarborProjectsFails ==
    /\ pc \in {"projects", "create"}
    /\ \/ ~Reachable(forward) /\ UNCHANGED <<cluster, faults>>
       \/ /\ Fault
          /\ \E created \in SUBSET missingProjects :
               cluster' = [cluster EXCEPT ![forward.ns].projects = @ \cup created]
    /\ Fail
    /\ UNCHANGED <<session, steps, tunnels, outcome>>

\* The token exchange for a model's repository; skipped without credentials or
\* without models.
Ready ==
    \/ auth.by = "none"
    \/ ModelProject = None
    \/ /\ Reachable(forward)
       /\ Accepted(forward.ns)
       /\ ModelProject \in cluster[forward.ns].projects

\* waitRegistryReady, and the client both callers make then
waitRegistryReady ==
    /\ pc \in {"ready", "probe"}
    /\ Ready
    /\ client' = TRUE
    /\ mode' = IF pc = "ready" THEN "update" ELSE mode
    /\ Goto(IF pc = "ready" THEN AfterCheck("update") ELSE "work")
    /\ UNCHANGED <<cluster, cfg, target, auth, forward, steps, tunnels, outcome, faults>>

\* The budget is spent.  Only recoverCheckModelArtifacts knows a way on; a token
\* service that is still warming up answers like one that refuses.
registryNotReady ==
    /\ pc \in {"ready", "probe"}
    /\ \E e \in {"auth", "network"} :
         /\ \/ ~Ready /\ (e = "auth" <=> Reachable(forward)) /\ UNCHANGED faults
            \/ Fault
         /\ IF pc = "probe" /\ Head(steps) = "check" THEN Ask(e, "refresh") ELSE Fail
    /\ UNCHANGED <<cluster, session, steps, tunnels, outcome>>

----------------------------------------------------------------------------
(* Installing Harbor, access of the nodes                                  *)

preloadHarbor ==
    /\ pc = "preload"
    /\ \/ Goto("deploy") /\ UNCHANGED faults
       \/ Fault /\ Ask("preload", "preload")
    /\ UNCHANGED <<cluster, session, steps, tunnels, outcome>>

\* The namespace holds a release that is not in this installer's state.
Foreign == cluster[DefaultNamespace].svc # None /\ ~cluster[DefaultNamespace].ours

\* What the first k of the stack's resources make of a namespace: namespace,
\* release, projects, robot account, pull secret.
HarborStack(c, k) ==
    [exists |-> k >= 1 \/ c.exists,
     svc |-> IF k >= 2 THEN DefaultService ELSE c.svc,
     ready |-> k >= 2 \/ c.ready,
     pod |-> IF k >= 2 /\ c.svc = None THEN c.pod + 1 ELSE c.pod,
     ours |-> k >= 2 \/ c.ours,
     projects |-> IF k >= 3 THEN c.projects \cup StackProjects ELSE c.projects,
     lists |-> c.lists,
     core |-> (k >= 2 /\ c.svc = None) \/ c.core,
     robot |-> IF k >= 4 THEN c.robot + 1 ELSE c.robot,
     secret |-> IF k >= 5 THEN DefaultSecret ELSE c.secret,
     held |-> IF k >= 5 THEN c.robot + 1 ELSE c.held]

\* The stack's admin password is kept whether or not the update succeeds.
deployUpTo(k) ==
    /\ cluster' = [cluster EXCEPT ![DefaultNamespace] = HarborStack(@, k)]
    /\ admin' = "stack"
    /\ deployed' = IF k >= 2 THEN deployed \cup {DefaultNamespace} ELSE deployed
    /\ UNCHANGED <<session, steps, tunnels, nodes, pushed, fresh, had, cloud>>

\* Without a robot password the stack ends with the release.
DeployHarbor ==
    /\ pc = "deploy"
    /\ ~Foreign
    /\ \E k \in {2, 5} : deployUpTo(k)
    /\ Goto("retarget")
    /\ UNCHANGED faults

\* RecoverHarbor asks, or gives up on errors of the program or the guard.
deployFails ==
    /\ pc = "deploy"
    /\ IF Foreign
       THEN (\E k \in 0 .. 1 : deployUpTo(k)) /\ UNCHANGED faults
       ELSE (\E k \in 0 .. 4 : deployUpTo(k)) /\ Fault
    /\ Ask("deploy", "deploy") \/ Fail

\* On managed clouds, containerd on the nodes learns the ClusterIP of the host.
ensureHarborNodeAccess ==
    /\ pc = "access"
    /\ cloud => cluster[cfg.ns].svc = cfg.svc
    /\ nodes' = IF cloud THEN Host ELSE nodes
    /\ Goto("repull")
    /\ UNCHANGED <<cluster, session, admin, steps, tunnels, pushed, fresh, deployed, had, cloud, faults>>

\* No Service, or the DaemonSet does not come up in time; the step has no Recover.
nodeAccessFails ==
    /\ pc = "access"
    /\ cloud
    /\ \/ cluster[cfg.ns].svc # cfg.svc /\ UNCHANGED <<nodes, faults>>
       \/ Fault /\ nodes' \in {nodes, Host}
    /\ Fail
    /\ UNCHANGED <<cluster, session, admin, steps, tunnels, pushed, fresh, deployed, had, cloud>>

----------------------------------------------------------------------------
(* The artifact stage                                                      *)

nextStep ==
    /\ pc = "next"
    /\ Goto(IF steps = <<>> THEN "cleanup" ELSE "refresh")
    /\ UNCHANGED <<cluster, session, steps, tunnels, outcome, faults>>

\* Mutant: the pod is looked up again, wherever the namespace points by now.
MutCurrentTarget == ForwardTarget

\* Target is looked up only once.
CurrentTarget == IF target = None THEN ForwardTarget ELSE target

\* Mutant: the old tunnel is forgotten instead of closed.
MutClosed == tunnels

Closed == IF forward = None THEN tunnels ELSE tunnels - 1

RefreshPortForward ==
    /\ pc = "refresh"
    /\ target = None => Usable
    /\ target' = CurrentTarget
    /\ tunnels' = Closed
    /\ forward' = None
    /\ client' = FALSE
    /\ Goto("open")
    /\ UNCHANGED <<cluster, cfg, mode, auth, steps, outcome, faults>>

\* Projects a step needs.  What is not there counts as deleted.
Needs(s) ==
    CASE s = "images" -> ImageProjects
      [] s = "delete" -> {}
      [] OTHER -> {ModelProject} \ {None}

\* Projects are public: looking a model up needs no credentials.
Served(s) ==
    /\ Needs(s) \subseteq cluster[forward.ns].projects
    /\ Accepted(forward.ns) \/ (s = "check" /\ auth.by = "none")

\* checkModelArtifacts, uploadModels, uploadImages, deleteUninstalledModels
work ==
    /\ pc = "work"
    /\ Reachable(forward)
    /\ Served(Head(steps))
    /\ pushed' = IF Head(steps) \in {"models", "images"} THEN pushed \cup {forward.ns} ELSE pushed
    /\ steps' = Tail(steps)
    /\ Goto("next")
    /\ UNCHANGED <<cluster, session, tunnels, admin, nodes, fresh, deployed, had, cloud, faults>>

\* Mutant: a refused push always blames the credentials.
MutRefused(s) == "auth"

\* A push that Harbor refuses: a project that does not exist is ruled out
\* first, if the project list can be read.
Refused(s) ==
    IF s # "check" /\ Lists(forward.ns) /\ ~(Needs(s) \subseteq cluster[forward.ns].projects)
    THEN "project" ELSE "auth"

\* Harbor refuses the request; with a fault, one that it should have served, or
\* the project list cannot be read for once.
workRefused ==
    /\ pc = "work"
    /\ Reachable(forward)
    /\ \E e \in {"auth", Refused(Head(steps))} :
         /\ \/ ~Served(Head(steps)) /\ e = Refused(Head(steps)) /\ UNCHANGED faults
            \/ Fault /\ e = "auth"
         /\ Ask(IF Head(steps) = "delete" THEN "delete" ELSE e, "refresh")
    /\ UNCHANGED <<cluster, session, steps, tunnels, outcome>>

\* The tunnel is gone, a source registry refuses, the disk is full...
workFails ==
    /\ pc = "work"
    /\ \/ ~Reachable(forward) /\ UNCHANGED faults
       \/ Fault
    /\ Ask(IF Head(steps) = "delete" THEN "delete" ELSE "network", "refresh") \/ Fail
    /\ UNCHANGED <<cluster, session, steps, tunnels, outcome>>

\* Cleanup of the stage, whether or not it succeeded
ClosePortForward ==
    /\ pc = "cleanup"
    /\ tunnels' = Closed
    /\ forward' = None
    /\ client' = IF forward = None THEN client ELSE FALSE
    /\ Goto(IF steps = <<>> THEN "done" ELSE "failed")
    /\ UNCHANGED <<cluster, cfg, mode, target, auth, steps, outcome, faults>>

----------------------------------------------------------------------------
(* The operator's answers                                                  *)

\* "Fresh install", in recoverHarborNamespace, recoverHarborService and
\* recoverHarborSecret: the run goes on with the step after the one that failed.
FreshInstall ==
    /\ pc = "ask"
    /\ err \in {"namespace", "service", "secret"}
    /\ mode' = "install"
    /\ fresh' = TRUE
    /\ Goto(IF at = "target" THEN AfterCheck("install") ELSE "next")
    /\ UNCHANGED <<cluster, cfg, target, auth, forward, client, steps, tunnels, admin, nodes,
                   pushed, deployed, had, cloud, faults>>

\* "Choose another namespace", "Enter service name", "Enter secret name"
EnterName ==
    /\ pc = "ask"
    /\ \/ /\ err \in {"namespace", "service", "secret"}
          /\ \E n \in Namespaces : cfg' = [cfg EXCEPT !.ns = n]
       \/ /\ err = "service"
          /\ \E s \in Services : cfg' = [cfg EXCEPT !.svc = s]
       \/ /\ err = "secret"
          /\ \E s \in Secrets : cfg' = [cfg EXCEPT !.secret = s]
    /\ Goto(at)
    /\ UNCHANGED <<cluster, mode, target, auth, forward, client, steps, tunnels, outcome, faults>>

Retry ==
    /\ pc = "ask"
    /\ err \in {"preload", "deploy", "network", "auth", "delete"}
    /\ Goto(at)
    /\ UNCHANGED <<cluster, session, steps, tunnels, outcome, faults>>

\* recoverModelUploadAuth: the admin's credentials, or wrong ones
EnterCredentials ==
    /\ pc = "ask"
    /\ err = "auth"
    /\ \E n \in {target.ns, None} : auth' = [ns |-> n, ver |-> 0, by |-> "operator"]
    /\ Goto(at)
    /\ UNCHANGED <<cluster, cfg, mode, target, forward, client, steps, tunnels, outcome, faults>>

recoverMissingHarborProject ==
    /\ pc = "ask"
    /\ err = "project"
    /\ Goto("create")
    /\ UNCHANGED <<cluster, session, steps, tunnels, outcome, faults>>

\* The prompt of harborAdminClient.  A wrong password is asked for again, which
\* changes nothing, until the last attempt ends the step like Abort.
EnterAdminPassword ==
    /\ pc = "ask"
    /\ err = "admin"
    /\ admin' = "taken"
    /\ Goto(at)
    /\ UNCHANGED <<cluster, session, steps, tunnels, nodes, pushed, fresh, deployed, had, cloud,
                   faults>>

SkipDelete ==
    /\ pc = "ask"
    /\ err = "delete"
    /\ steps' = Tail(steps)
    /\ Goto("next")
    /\ UNCHANGED <<cluster, session, tunnels, outcome, faults>>

\* "Abort", or the prompt itself fails
Abort ==
    /\ pc = "ask"
    /\ Fail
    /\ UNCHANGED <<cluster, session, steps, tunnels, outcome, faults>>

----------------------------------------------------------------------------
(* The cluster                                                             *)

Changes(n, h) ==
    /\ cluster' = [cluster EXCEPT ![n] = h]
    /\ UNCHANGED <<pc, err, at, session, steps, tunnels, outcome>>

PodLost(n) ==
    /\ cluster[n].ready
    /\ Fault
    /\ Changes(n, [cluster[n] EXCEPT !.ready = FALSE])

\* The pod is ready again, or another one takes its place.
PodBack(n) ==
    /\ cluster[n].svc # None
    /\ ~cluster[n].ready
    /\ \E p \in {0, 1} : Changes(n, [cluster[n] EXCEPT !.ready = TRUE, !.pod = @ + p])
    /\ UNCHANGED faults

\* Somebody rotates the robot's password; the pull secret follows, or it keeps
\* the old password, or it goes away.
Rotate(n) ==
    /\ cluster[n].secret # None
    /\ Fault
    /\ LET new == cluster[n].robot + 1 IN
       \/ Changes(n, [cluster[n] EXCEPT !.robot = new, !.held = new])
       \/ Changes(n, [cluster[n] EXCEPT !.robot = new])
       \/ Changes(n, [cluster[n] EXCEPT !.robot = new, !.secret = None])

----------------------------------------------------------------------------

Installer ==
    \/ checkHarborTarget \/ harborServiceInvalid
    \/ installWhenHarborMissing \/ harborElsewhere
    \/ checkHarborPullSecret \/ harborSecretInvalid
    \/ checkFails
    \/ startPortForward \/ startPortForwardFails
    \/ EnsureHarborProjects \/ harborAdminClient \/ EnsureHarborProjectsFails
    \/ waitRegistryReady \/ registryNotReady
    \/ preloadHarbor
    \/ DeployHarbor \/ deployFails
    \/ ensureHarborNodeAccess \/ nodeAccessFails
    \/ nextStep
    \/ RefreshPortForward
    \/ work \/ workRefused \/ workFails
    \/ ClosePortForward

Operator ==
    \/ FreshInstall \/ EnterName \/ Retry \/ EnterCredentials
    \/ recoverMissingHarborProject \/ EnterAdminPassword \/ SkipDelete \/ Abort

Environment == \E n \in Namespaces : PodLost(n) \/ PodBack(n) \/ Rotate(n)

Terminated == pc \in {"done", "failed"} /\ UNCHANGED vars

Next == Installer \/ Operator \/ Environment \/ Terminated

Spec == Init /\ [][Next]_vars

\* The installer keeps running, the operator answers.
FairSpec == Spec /\ WF_vars(Installer) /\ WF_vars(Operator)

----------------------------------------------------------------------------
(* Properties                                                              *)

ClusterOK == cluster \in [Namespaces -> HarborStates]

ControlOK ==
    /\ pc \in {"target", "pull", "forward", "projects", "ready", "preload", "deploy", "retarget",
              "access", "repull", "next", "refresh", "open", "probe", "work", "create",
              "cleanup", "ask", "done", "failed"}
    /\ err \in {"none", "namespace", "service", "secret", "preload", "deploy", "network",
               "auth", "project", "admin", "delete"}
    /\ at \in {"target", "projects", "repull", "preload", "deploy", "refresh", "create"}
    /\ steps \in Seq({"check", "models", "images", "delete"})
    /\ faults \in 0 .. MaxFaults

SessionOK ==
    /\ cfg \in [ns : Namespaces, svc : Services, secret : Secrets]
    /\ mode \in {"install", "update"}
    /\ target \in Pods \cup {None}
    /\ auth \in [ns : Namespaces \cup {None}, ver : Nat, by : {"none", "pull", "repull", "operator"}]
    /\ forward \in Pods \cup {None}
    /\ client \in BOOLEAN

OutcomeOK ==
    /\ admin \in {"none", "stack", "taken"}
    /\ tunnels \in Nat
    /\ nodes \in Hosts \cup {None}
    /\ pushed \subseteq Namespaces
    /\ fresh \in BOOLEAN
    /\ cloud \in BOOLEAN
    /\ deployed \subseteq Namespaces
    /\ had \subseteq Namespaces

\* Every variable has its type.
TypeOK == ClusterOK /\ ControlOK /\ SessionOK /\ OutcomeOK

\* "so the installer never deploys a second Harbor without asking": what this
\* run deploys next to a Harbor it found, the operator chose as a fresh install.
NoUnaskedSecondHarbor == deployed # {} /\ ~fresh => had = {}

\* A run that completes has pushed everything into the Harbor of the namespace
\* that the session ends with, and that is the one the nodes pull from, whatever
\* names the operator entered on the way.
OneHarbor ==
    pc = "done" => /\ pushed = {cfg.ns}
                   /\ cloud => nodes = Host

\* Refreshing the tunnel at every step and closing it in Cleanup leaves no
\* second tunnel open, and none after the artifact stage.
OneTunnel ==
    /\ tunnels = (IF forward = None THEN 0 ELSE 1)
    /\ pc = "done" => tunnels = 0

MissingFor(s) == ~(Needs(s) \subseteq cluster[target.ns].projects)

\* "Harbor answers a push into a missing project with 401, which reads as bad
\* credentials, so they are created up front": in a Harbor that was found, no
\* failure and no answer of the operator lets a missing project be taken for
\* bad credentials.  In one that this run installed, it is only where the project
\* list cannot be read; and the offer to create projects is made only when one
\* that the step pushes into is missing.
PushPromptRight ==
    pc = "ask" /\ Head(steps) \in {"models", "images"} =>
        /\ err = "project" => MissingFor(Head(steps))
        /\ err = "auth" /\ MissingFor(Head(steps)) =>
             deployed # {} /\ (~Lists(target.ns) \/ faults > 0)

\* docs/installation/troubleshooting.md: "it only asks for new credentials when
\* the project exists".  The code also asks for them when it cannot tell.
CredentialsOnlyIfProject ==
    pc = "ask" /\ err = "auth" /\ Head(steps) \in {"models", "images"} =>
        ~MissingFor(Head(steps))

\* The Harbor that CheckResources looks for is there, with its projects in a list
\* that its robot may read, or with the admin's password in harbor-core.
Healthy(h) ==
    /\ h.exists /\ h.svc = DefaultService /\ h.ready
    /\ h.secret = DefaultSecret /\ h.held = h.robot
    /\ h.core \/ (h.lists /\ Projects \subseteq h.projects)

\* With a reachable Harbor whose pull secret is good and whose admin's password
\* is in harbor-core, or is not needed, the run completes without a question,
\* whoever installed that Harbor and whatever projects it lacks.
HealthyRunCompletes ==
    Healthy(cluster[DefaultNamespace]) => <>(faults > 0 \/ pc = "done") /\ [](faults > 0 \/ pc # "ask")

\* EnsurePortForward: "Callers that run before the Harbor projects exist must
\* not use this: the readiness probe asks for a scope Harbor cannot issue a
\* token for yet."
ProjectsBeforeProbe ==
    pc = "probe" /\ auth.by # "none" /\ ModelProject # None =>
        ModelProject \in cluster[forward.ns].projects

\* A dropped tunnel has "no way back short of restarting the step": a step that
\* starts while the Harbor it has used so far is up, and stays up, gets its
\* tunnel.
RestartComesBack ==
    \A f \in 0 .. MaxFaults :
        (pc = "refresh" /\ Usable /\ target.ns = cfg.ns /\ faults = f)
            ~> (pc = "probe" \/ ~Usable \/ faults # f)

----------------------------------------------------------------------------
(* The parts of the inductive invariant                                    *)

\* Where the step that asks a question can be
Places(e) ==
    CASE e \in {"namespace", "service"} -> {"target"}
      [] e = "secret" -> {"target", "repull"}
      [] e = "preload" -> {"preload"}
      [] e = "deploy" -> {"deploy"}
      [] e = "admin" -> {"projects", "create"}
      [] OTHER -> {"refresh"}

AskedWhere == pc = "ask" => at \in Places(err)

Asking(places) == pc = "ask" /\ at \in places

\* The tunnel of CheckResources, or of the step before, is not open.
NoForwardYet ==
    \/ pc \in {"target", "pull", "forward", "preload", "deploy", "retarget", "open", "done"}
    \/ Asking({"target", "preload", "deploy"})
    => forward = None

\* It is open while the client is used, and for creating projects.
ForwardOpen ==
    \/ pc \in {"projects", "ready", "probe", "work", "create"}
    \/ pc = "ask" /\ err \in {"project", "admin"}
    => forward # None

TunnelCounted == tunnels = (IF forward = None THEN 0 ELSE 1)

ForwardIsTarget == forward # None => forward = target

\* The artifact stage has a step to do while it does one.
StepsLeft ==
    /\ InArtifact => steps # <<>>
    /\ pc = "ask" /\ err = "delete" => Head(steps) = "delete"
    /\ pc = "done" => steps = <<>>

\* The pod belongs to the configured namespace, until the operator changes that
\* in the last step; from then on no tunnel can be opened.
TargetCurrent ==
    pc \in {"pull", "forward", "projects", "ready", "access", "probe", "work"}
      \/ Asking({"projects"}) =>
        target # None /\ target.ns = cfg.ns

\* The nodes are configured for the Harbor that the pod belongs to.
NodesCurrent ==
    \/ pc \in {"repull", "next", "refresh", "open", "probe", "work", "create", "cleanup", "done"}
    \/ Asking({"repull", "refresh", "create"})
    => target # None /\ (cloud => nodes = [ns |-> target.ns, svc |-> cfg.svc])

PushedToTarget ==
    pushed # {} =>
        /\ InArtifact \/ pc \in {"next", "cleanup", "done", "failed"}
        /\ target # None
        /\ target.ns = cfg.ns
        /\ pushed = {target.ns}

PushesLeft == pushed = {} => \E i \in 1 .. Len(steps) : steps[i] \in {"models", "images"}

PasswordsNumbered ==
    /\ \A n \in Namespaces : cluster[n].held <= cluster[n].robot
    /\ auth.ns # None => auth.ver <= cluster[auth.ns].robot

HadStays == \A n \in had : cluster[n].svc # None

InstallsUnasked ==
    /\ ~fresh
    /\ pc \in {"preload", "deploy"} \/ Asking({"preload", "deploy"})
    => had = {}

\* The Harbor that CheckResources found has every project from then on.
CreatedUpFront ==
    deployed = {} =>
        /\ pc # "retarget"
        /\ \/ pc \in {"ready", "access", "repull", "next", "refresh", "open", "probe", "work", "create"}
           \/ Asking({"repull", "refresh", "create"})
           => Projects \subseteq cluster[target.ns].projects

IndInv ==
    /\ TypeOK
    /\ AskedWhere
    /\ NoForwardYet
    /\ ForwardOpen
    /\ TunnelCounted
    /\ ForwardIsTarget
    /\ StepsLeft
    /\ TargetCurrent
    /\ NodesCurrent
    /\ PushedToTarget
    /\ PushesLeft
    /\ PasswordsNumbered
    /\ HadStays
    /\ InstallsUnasked
    /\ NoUnaskedSecondHarbor
    /\ CreatedUpFront
    /\ PushPromptRight
=============================================================================
