------------------------------ MODULE Serving -------------------------------
(***************************************************************************)
(* The life of a model on the cluster over many runs of the installer: the *)
(* stage "select models", the deletion of uninstalled models in Harbor,    *)
(* the step DeployAppServing and the app-serving stack (pkg/iac/serving)   *)
(* it updates, recreates or destroys.  Pulumi creates the resources of one *)
(* model after the other, Kubernetes runs the Job that pulls the weights   *)
(* from Harbor into the model's volume, and any of it may fail half-way;   *)
(* nodes disappear and pods with them; the next run may be of a release    *)
(* with other models, pins and sizes.  What mirrors the artifacts is one   *)
(* action here; the module ModelArtifacts has its detail.                  *)
(***************************************************************************)
EXTENDS Naturals, FiniteSets, StackDefinitions

CONSTANTS
  Releases,    \* [model -> definition], one per release: what it packages
  Sizes,       \* the sizes a volume may have
  Classes,     \* the answers to promptStorageClass; "" is the cluster default
  DefaultClass, \* the class Kubernetes gives a claim that asks for none
  Inherited,   \* the clusters the first run may meet
  MaxRuns,     \* bound on runs
  MaxFaults,   \* bound on failures, crashes and lost nodes
  None

(* A definition: the tag of its weights in Harbor, None for a simulated    *)
(* model; the size of its volume; its category and replicas; and whether   *)
(* its file says all that every consumer relies on.                        *)

VARIABLES
  platform,
  release,     \* the release that runs
  harbor,      \* the artifacts in Harbor: pairs <<model, tag>>
  file,        \* Pulumi.app-serving.yaml, without the models
  config,      \* its key models: [model -> entry]
  volumes,     \* the PersistentVolumeClaims: [model -> volume]
  jobs,        \* the pull Jobs: [model -> [tag, status]]
  servers,     \* the models whose Deployment exists
  endpoints,   \* what makes them reachable: pairs <<model, resource>>
  pods,        \* the models that have pods
  orphaned,    \* the ones whose pods are bound to a node that is gone
  legacy,      \* the models the retired chart still serves
  serve, uninstall, \* rt.Models
  mode,        \* "update", "recreate" or "destroy" while Pulumi works
  step,        \* how far Pulumi is with each model of the config
  phase, runs, faults

clusterVars == <<volumes, jobs, servers, endpoints, pods, orphaned, legacy>>
stackVars == <<file, config>>
selectionVars == <<platform, release, serve, uninstall>>
vars == <<selectionVars, harbor, stackVars, clusterVars, mode, step, phase, runs, faults>>

----------------------------------------------------------------------------
(* The catalog                                                             *)

(* modeldef.Validate, shared with the stack. *)
validDefinition(def) == def.valid /\ def.replicas >= 0

(* The catalog's own checks: a pin it can name the artifact by, a size.    *)
validPin(def) == def.tag # Empty /\ def.size \in Sizes

(* The simulator is offered as a generative model only.  A directory that  *)
(* does not describe an installable model is skipped.                      *)
loadModel(def) ==
  /\ validDefinition(def)
  /\ IF def.tag = None THEN def.category = "generative" ELSE validPin(def)

LoadModels(packaged) == {m \in DOMAIN packaged : loadModel(packaged[m])}

Catalog == LoadModels(release)

HasWeights(m) == release[m].tag # None
WithWeights(models) == {m \in models : HasWeights(m)}

(* The artifact app-serving asks Harbor for. *)
HarborRef(m) == <<m, release[m].tag>>

----------------------------------------------------------------------------
(* All the clouds are alike to this stack. *)
Init ==
  /\ platform \in {Azure, OnPrem}
  /\ release = None
  /\ \E c \in Inherited :
       /\ harbor = c.harbor /\ file = c.file
       /\ volumes = [m \in DOMAIN c.volumes |->
                       [c.volumes[m] EXCEPT
                          !.class = IF platform = OnPrem THEN "hostpath" ELSE @]]
       /\ servers = {} /\ endpoints = {} /\ jobs = <<>>
       /\ legacy = c.legacy /\ pods = c.legacy
  /\ config = <<>>
  /\ orphaned = {}
  /\ serve = {} /\ uninstall = {} /\ mode = None
  /\ phase = "idle" /\ step = <<>> /\ runs = 0 /\ faults = 0

Goto(p) == phase' = p /\ UNCHANGED <<runs, faults>>

StartRun ==
  /\ phase \in {"idle", "done"}
  /\ runs < MaxRuns
  /\ release' \in Releases
  /\ runs' = runs + 1
  /\ phase' = "models"
  /\ serve' = {} /\ uninstall' = {} /\ mode' = None /\ step' = <<>>
  /\ UNCHANGED <<platform, harbor, stackVars, clusterVars, faults>>

(* detectInstalledModels: a model counts as installed when pods carry its  *)
(* slug.  A model this release does not package is left out.               *)
Installed == pods \cap Catalog

(* The actions offered, and the split of the catalog by them.              *)
choicePrompt(m) ==
  IF m \in Installed THEN {"keep", "uninstall"} ELSE {"none", "install"}

applyActions(actions) ==
  /\ serve' = {m \in Catalog : actions[m] \in {"install", "keep"}}
  /\ uninstall' = {m \in Catalog : actions[m] = "uninstall"}

selectModels ==
  /\ phase = "models"
  /\ \E actions \in [Catalog -> {"keep", "uninstall", "none", "install"}] :
       /\ \A m \in Catalog : actions[m] \in choicePrompt(m)
       /\ applyActions(actions)
  /\ Goto("mirror")
  /\ UNCHANGED <<platform, release, harbor, stackVars, clusterVars, mode, step>>

(* Mutant: a model that is kept is taken to be in Harbor. *)
MutMissing == {m \in WithWeights(serve \ Installed) : HarborRef(m) \notin harbor}

(* checkModelArtifacts to uploadModels: what is missing is mirrored.       *)
Missing == {m \in WithWeights(serve) : HarborRef(m) \notin harbor}

mirrorModels ==
  /\ phase = "mirror"
  /\ harbor' = harbor \cup {HarborRef(m) : m \in Missing}
  /\ Goto("delete")
  /\ UNCHANGED <<selectionVars, stackVars, clusterVars, mode, step>>

(* deleteUninstalledModels removes the repository with all its tags.       *)
Unwanted == WithWeights(uninstall)

deleteUninstalledModels ==
  /\ phase = "delete"
  /\ harbor' = {ref \in harbor : ref[1] \notin Unwanted}
  /\ Goto("serving")
  /\ UNCHANGED <<selectionVars, stackVars, clusterVars, mode, step>>

(* "Skip delete models" after a failure. *)
skipDelete ==
  /\ phase = "delete" /\ Unwanted # {}
  /\ faults < MaxFaults
  /\ phase' = "serving" /\ faults' = faults + 1
  /\ UNCHANGED <<selectionVars, harbor, stackVars, clusterVars, mode, step, runs>>

----------------------------------------------------------------------------
(* DeployAppServing                                                        *)

ServesModels == serve # {} \/ uninstall # {}

(* Pods bound to a vanished node are force-deleted; a Deployment that is   *)
(* still there makes new ones.                                             *)
ReleaseOrphanedPods(models) ==
  /\ orphaned' = orphaned \ models
  /\ pods' = pods \ ((orphaned \cap models) \ servers)

(* Every supported model's namespace is looked at, selected or not.        *)
releaseOrphanedModelPods == ReleaseOrphanedPods(Catalog)

skipServing ==
  /\ phase = "serving" /\ ~ServesModels
  /\ Goto("done")
  /\ UNCHANGED <<selectionVars, harbor, stackVars, clusterVars, mode, step>>

(* existingPVCStorageClass and existingPVCSize: what the claim has now. *)
Existing(m) == m \in DOMAIN volumes

(* A volume that exists keeps its class on an update; on-prem nothing is   *)
(* asked.                                                                  *)
modelStorageClass(m, destroy, selected) ==
  IF platform = OnPrem THEN Empty
  ELSE IF Existing(m) /\ ~destroy THEN volumes[m].class
  ELSE selected

(* Mutant: the size of the definition, whatever the volume has. *)
MutModelStorageSize(m, destroy) == release[m].size

(* A volume can grow but never shrink. *)
modelStorageSize(m, destroy) ==
  IF Existing(m) /\ ~destroy /\ volumes[m].size > release[m].size
  THEN volumes[m].size ELSE release[m].size

NoSource == [tag |-> None, size |-> None, class |-> None]

(* The entry of a model in the selection.  A model without weights has no  *)
(* source, so the stack creates no volume for it.                          *)
selectedModel(m, destroy, selected) ==
  IF HasWeights(m)
  THEN [tag |-> release[m].tag, size |-> modelStorageSize(m, destroy),
        class |-> modelStorageClass(m, destroy, selected)]
  ELSE NoSource

(* Only a model with a packaged definition is passed on to the stack. *)
modelsInput(models, destroy, selected) ==
  [m \in models \cap DOMAIN release |-> selectedModel(m, destroy, selected)]

(* What the installer supplies for each entry of the stack's definition.   *)
(* An empty selection is not written.                                      *)
Sources(models) ==
  [platform |-> platform, kubeconfig |-> "set", context |-> "set",
   models |-> IF models = <<>> THEN Empty ELSE "set",
   harborHostname |-> "set", harborUser |-> "set", harborToken |-> "set",
   orasImage |-> "mirrored", modelServerImage |-> "mirrored",
   routerImage |-> "mirrored", simulatorImage |-> "mirrored",
   modelStorageClass |-> Empty]

(* The questions are asked, the config is written, and the update begins,  *)
(* after a destroy if the operator asked for one.                          *)
deployAppServing ==
  /\ phase = "serving" /\ serve # {}
  /\ \E answer \in {"update", "recreate"}, selected \in Classes :
       LET models == modelsInput(serve, answer = "recreate", selected)
           resolved == Resolve(servingEntries, Sources(models), <<>>)
       IN  /\ resolved.ok
           /\ file' = Written(file, resolved.values)
           /\ config' = models
           /\ mode' = answer
           /\ Goto(IF answer = "recreate" THEN "destroy" ELSE "load")
  /\ releaseOrphanedModelPods
  /\ UNCHANGED <<selectionVars, harbor, volumes, jobs, servers, endpoints, legacy, step>>

destroyAppServing ==
  /\ phase = "serving" /\ serve = {} /\ uninstall # {}
  /\ mode' = "destroy"
  /\ Goto("destroy")
  /\ releaseOrphanedModelPods
  /\ UNCHANGED <<selectionVars, harbor, stackVars, volumes, jobs, servers,
                 endpoints, legacy, step>>

----------------------------------------------------------------------------
(* What the stack's program has of a model                                 *)

Gateway(m) == {<<m, "gateway">>, <<m, "discovery">>}
Router(m) == {<<m, "router">>}
PullSecret(m) == {<<m, "secret">>}
HTTPRoute(m) == {<<m, "route">>}
EmbeddingService(m) ==
  IF release[m].category = "embedder" THEN {<<m, "embedding">>} ELSE {}

HasSource(m) == config[m].tag # None

(* A server with a source reads its weights offline from the claim; the    *)
(* simulator reads none.                                                   *)
readsVolume(m) == HasSource(m)

(* The pods of a model's Deployment. *)
PodsOf(m) == IF release[m].replicas > 0 THEN {m} ELSE {}

(* What does not wait for the model server, and what does. *)
FrontOf(m) == Gateway(m) \cup Router(m) \cup PullSecret(m)
Routes(m) == HTTPRoute(m) \cup EmbeddingService(m)

EndpointsOf(m) == {r \in endpoints : r[1] = m}

Without(f, m) == [x \in DOMAIN f \ {m} |-> f[x]]
Having(f, m, v) == [x \in DOMAIN f \cup {m} |-> IF x = m THEN v ELSE f[x]]

Deployed == servers \cup DOMAIN jobs \cup DOMAIN volumes \cup {r[1] : r \in endpoints}

(* Pulumi deletes what depends on a resource before the resource: the      *)
(* routes of a model before its server, the server before the Job and the  *)
(* volume.  It waits for the pods of a server to go, which orphaned ones   *)
(* never do.                                                               *)
removeEndpoints(m) ==
  /\ EndpointsOf(m) # {}
  /\ endpoints' = endpoints \ EndpointsOf(m)
  /\ UNCHANGED <<volumes, jobs, servers, pods, orphaned, legacy>>

removeServer(m) ==
  /\ m \in servers /\ m \notin orphaned /\ EndpointsOf(m) = {}
  /\ servers' = servers \ {m}
  /\ pods' = pods \ {m}
  /\ UNCHANGED <<volumes, jobs, endpoints, orphaned, legacy>>

removeStorage(m) ==
  /\ m \in DOMAIN jobs \cup DOMAIN volumes
  /\ jobs' = Without(jobs, m)
  /\ volumes' = Without(volumes, m)
  /\ UNCHANGED <<servers, endpoints, pods, orphaned, legacy>>

(* The release of the retired chart is no longer part of the program.      *)
removeRetiredChart ==
  /\ legacy # {}
  /\ legacy' = {}
  /\ pods' = pods \ (legacy \ servers)
  /\ UNCHANGED <<volumes, jobs, servers, endpoints, orphaned>>

destroyStack ==
  /\ phase = "destroy"
  /\ \/ \E m \in Deployed : removeEndpoints(m)
     \/ \E m \in servers : removeServer(m)
     \/ \E m \in Deployed \ servers : removeStorage(m)
     \/ removeRetiredChart
  /\ UNCHANGED <<selectionVars, harbor, stackVars, mode, step, phase, runs, faults>>

destroyed ==
  /\ phase = "destroy" /\ Deployed = {} /\ legacy = {}
  /\ Goto(IF mode = "recreate" THEN "load" ELSE "done")
  /\ UNCHANGED <<selectionVars, harbor, stackVars, clusterVars, mode, step>>

(* The retired chart's Deployments of the models are deleted and their     *)
(* pods waited for.                                                        *)
RemoveModelServers(models) ==
  /\ legacy' = legacy \ models
  /\ pods' = pods \ ((legacy \cap models) \ servers)

(* The program starts: it loads and validates its config, and frees the    *)
(* GPUs of every model to deploy before it deploys any.                    *)
removeLegacyModelServers ==
  /\ phase = "load"
  /\ validateServing(file, \E m \in DOMAIN config : HasSource(m))
  /\ RemoveModelServers(DOMAIN config)
  /\ step' = [m \in DOMAIN config |-> "front"]
  /\ Goto("up")
  /\ UNCHANGED <<selectionVars, harbor, stackVars, volumes, jobs, servers,
                 endpoints, orphaned, mode>>

(* Pulumi brings the models up side by side, each one in this order.       *)
At(m, s) == phase = "up" /\ m \in DOMAIN step /\ step[m] = s
Advance(m, s) ==
  /\ step' = [step EXCEPT ![m] = s]
  /\ UNCHANGED <<selectionVars, harbor, stackVars, orphaned, legacy, mode,
                 phase, runs, faults>>

deployFront(m) ==
  /\ At(m, "front")
  /\ endpoints' = endpoints \cup FrontOf(m)
  /\ Advance(m, "volume")
  /\ UNCHANGED <<volumes, jobs, servers, pods>>

(* applyDefaults, the class of the claim, and the one Kubernetes gives a   *)
(* claim that asks for none.                                               *)
ClassOf(m) ==
  IF platform = OnPrem THEN "hostpath"
  ELSE OrElse(OrElse(config[m].class, Get(file, "modelStorageClass")), DefaultClass)

EmptyVolume(m) == [class |-> ClassOf(m), size |-> config[m].size,
                   content |-> None, pulled |-> FALSE]

(* The claim of a model: created, resized in place, or, when its class is  *)
(* another one, replaced, which deletes it with its content.               *)
createVolume(m) ==
  /\ At(m, "volume")
  /\ volumes' =
       IF ~HasSource(m) THEN volumes
       ELSE IF Existing(m) /\ volumes[m].class = ClassOf(m)
            THEN [volumes EXCEPT ![m].size = config[m].size]
            ELSE Having(volumes, m, EmptyVolume(m))
  /\ Advance(m, "job")
  /\ UNCHANGED <<jobs, servers, endpoints, pods>>

(* The Job is replaced when its spec changes; one that has run is not run  *)
(* again.                                                                  *)
SameJob(m) == m \in DOMAIN jobs /\ jobs[m].tag = config[m].tag

createJob(m) ==
  /\ At(m, "job")
  /\ jobs' = IF ~HasSource(m) \/ SameJob(m) THEN jobs
             ELSE Having(jobs, m, [tag |-> config[m].tag, status |-> "running"])
  /\ Advance(m, "pull")
  /\ UNCHANGED <<volumes, servers, endpoints, pods>>

(* A Job whose volume exists runs, whether or not the installer waits.     *)
Pulling(m) == m \in DOMAIN jobs /\ Existing(m) /\ jobs[m].status = "running"

(* The volume with the artifact of the Job and the marker. *)
FullVolume(m) == [class |-> volumes[m].class, size |-> volumes[m].size,
                  content |-> jobs[m].tag, pulled |-> TRUE]

(* The command of the Job: the marker ends it at once, else the artifact   *)
(* is pulled and the marker written.                                       *)
pullCmd(m) ==
  /\ Pulling(m)
  /\ volumes[m].pulled \/ <<m, jobs[m].tag>> \in harbor
  /\ volumes' = IF volumes[m].pulled THEN volumes
                ELSE [volumes EXCEPT ![m] = FullVolume(m)]
  /\ jobs' = [jobs EXCEPT ![m].status = "complete"]
  /\ UNCHANGED <<selectionVars, harbor, stackVars, servers, endpoints, pods,
                 orphaned, legacy, mode, step, phase, runs, faults>>

(* Mutant: the server does not wait for the Job. *)
MutServerDeps(m) == HasSource(m) => m \in DOMAIN jobs

(* serverDeps: the server starts once the Job is complete.                 *)
serverDeps(m) ==
  HasSource(m) => m \in DOMAIN jobs /\ jobs[m].status = "complete"

deployServer(m) ==
  /\ At(m, "pull") /\ serverDeps(m)
  /\ servers' = servers \cup {m}
  /\ pods' = pods \cup PodsOf(m)
  /\ Advance(m, "server")
  /\ UNCHANGED <<volumes, jobs, endpoints>>

deployRoutes(m) ==
  /\ At(m, "server")
  /\ endpoints' = endpoints \cup Routes(m)
  /\ Advance(m, "served")
  /\ UNCHANGED <<volumes, jobs, servers, pods>>

deployModel(m) ==
  \/ deployFront(m) \/ createVolume(m) \/ createJob(m) \/ deployServer(m)
  \/ deployRoutes(m)

deployModels == \E m \in DOMAIN step : deployModel(m)

AllServed == phase = "up" /\ \A m \in DOMAIN step : step[m] = "served"

(* After everything else Pulumi deletes what the program no longer has.    *)
Obsolete == Deployed \ DOMAIN config
ObsoleteStorage ==
  (DOMAIN jobs \cup DOMAIN volumes) \ {m \in DOMAIN config : HasSource(m)}

pruneModels ==
  /\ AllServed
  /\ \/ \E m \in Obsolete : removeEndpoints(m)
     \/ \E m \in Obsolete : removeServer(m)
     \/ \E m \in ObsoleteStorage : m \notin servers /\ removeStorage(m)
     \/ removeRetiredChart
  /\ UNCHANGED <<selectionVars, harbor, stackVars, mode, step, phase, runs, faults>>

deployed ==
  /\ AllServed /\ Obsolete = {} /\ ObsoleteStorage = {} /\ legacy = {}
  /\ Goto("done")
  /\ UNCHANGED <<selectionVars, harbor, stackVars, clusterVars, mode, step>>

----------------------------------------------------------------------------
(* Faults                                                                  *)

InServing == {"serving", "destroy", "load", "up"}
Working == {"models", "mirror", "delete"} \cup InServing

(* DeployAppServing fails, or its wait for something does, and is retried  *)
(* from its beginning; every question is asked again.                      *)
Retry ==
  /\ phase \in InServing
  /\ faults < MaxFaults
  /\ phase' = "serving" /\ step' = <<>> /\ mode' = None
  /\ faults' = faults + 1
  /\ UNCHANGED <<selectionVars, harbor, stackVars, clusterVars, runs>>

(* The run is aborted or killed. *)
Crash ==
  /\ phase \in Working
  /\ faults < MaxFaults
  /\ phase' = "idle" /\ step' = <<>> /\ mode' = None
  /\ faults' = faults + 1
  /\ UNCHANGED <<selectionVars, harbor, stackVars, clusterVars, runs>>

(* Only some of the models were mirrored, or deleted. *)
mirroredInPart ==
  /\ phase \in {"mirror", "delete"}
  /\ faults < MaxFaults
  /\ faults' = faults + 1
  /\ phase' = "idle"
  /\ \/ phase = "mirror" /\ \E some \in SUBSET Missing :
          harbor' = harbor \cup {HarborRef(m) : m \in some}
     \/ phase = "delete" /\ \E some \in SUBSET Unwanted :
          harbor' = {ref \in harbor : ref[1] \notin some}
  /\ UNCHANGED <<selectionVars, stackVars, clusterVars, mode, step, runs>>

(* The pull breaks off: the volume holds a part of the artifact.  The Job  *)
(* tries again, until its backoffLimit is reached.                         *)
pullFails(m) ==
  /\ Pulling(m) /\ ~volumes[m].pulled
  /\ faults < MaxFaults
  /\ faults' = faults + 1
  /\ volumes' = [volumes EXCEPT ![m].content = "partial"]
  /\ \E s \in {"running", "failed"} : jobs' = [jobs EXCEPT ![m].status = s]
  /\ UNCHANGED <<selectionVars, harbor, stackVars, servers, endpoints, pods, orphaned,
                 legacy, mode, step, phase, runs>>

(* What the operator is told to do then, before the next update.           *)
deletesPullByHand ==
  /\ phase \in {"idle", "serving"}
  /\ \E m \in DOMAIN jobs : jobs[m].status = "failed" /\ removeStorage(m)
  /\ UNCHANGED <<selectionVars, harbor, stackVars, mode, step, phase, runs, faults>>

(* ttlSecondsAfterFinished: a finished Job is gone a day later.            *)
jobExpires ==
  /\ phase = "idle"
  /\ \E m \in DOMAIN jobs : jobs[m].status # "running" /\ jobs' = Without(jobs, m)
  /\ UNCHANGED <<selectionVars, harbor, stackVars, volumes, servers, endpoints, pods,
                 orphaned, legacy, mode, step, phase, runs, faults>>

(* A node goes away while the pods on it are being deleted. *)
nodeLost ==
  /\ faults < MaxFaults
  /\ \E m \in (servers \cap pods) \ orphaned : orphaned' = orphaned \cup {m}
  /\ faults' = faults + 1
  /\ UNCHANGED <<selectionVars, harbor, stackVars, volumes, jobs, servers, endpoints, pods,
                 legacy, mode, step, phase, runs>>

KubernetesNext ==
  \E m \in DOMAIN jobs : pullCmd(m) \/ pullFails(m)

Next ==
  \/ StartRun \/ selectModels \/ mirrorModels \/ deleteUninstalledModels
  \/ skipDelete \/ skipServing \/ deployAppServing \/ destroyAppServing
  \/ destroyStack \/ destroyed \/ removeLegacyModelServers \/ deployModels
  \/ pruneModels \/ deployed \/ KubernetesNext \/ Retry \/ Crash
  \/ mirroredInPart \/ deletesPullByHand \/ jobExpires \/ nodeLost

Spec == Init /\ [][Next]_vars

----------------------------------------------------------------------------
(* Properties                                                              *)

(* A Job a server waits for finds its artifact in Harbor, in every state:  *)
(* no deletion of an uninstalled model, in this run or in one that broke   *)
(* off, takes away what a model that is served, kept or recreated still    *)
(* needs (deleteUninstalledModels runs before the serving stack is         *)
(* updated).                                                               *)
PullFindsArtifact ==
  \A m \in DOMAIN step :
    At(m, "pull") /\ HasSource(m) /\ Pulling(m) /\ ~volumes[m].pulled
      => <<m, jobs[m].tag>> \in harbor

(* An update keeps the volume of every model it serves: it is not deleted, *)
(* not replaced for another class, never asked to shrink, and weights once *)
(* pulled stay ("Update - keep model volumes").                            *)
VolumesKept ==
  [][mode = "update" /\ mode' = "update" =>
       \A m \in DOMAIN volumes \cap DOMAIN config :
         HasSource(m) =>
           /\ m \in DOMAIN volumes'
           /\ volumes'[m].class = volumes[m].class
           /\ volumes'[m].size >= volumes[m].size
           /\ volumes[m].pulled => volumes'[m].content = volumes[m].content]_vars

(* A model that can be reached is ready: requests are routed only to a     *)
(* model server that exists, and one that this run brought up with weights *)
(* runs on a volume that holds all of them.  With HF_HUB_OFFLINE=1 it would *)
(* otherwise find an empty cache and exit (the comment in deployModel).    *)
RoutedMeansReady ==
  /\ \A r \in endpoints : r[2] \in {"route", "embedding"} => r[1] \in servers
  /\ \A m \in servers \cap DOMAIN step :
       step[m] \in {"server", "served"} /\ readsVolume(m)
         => Existing(m) /\ volumes[m].pulled

(* What the installer guide promises of a new pin: when a run is done,     *)
(* every model it serves is served with the weights of the release.        *)
ServesPinned ==
  phase = "done" => \A m \in WithWeights(serve) :
                      m \in servers => volumes[m].content = release[m].tag

----------------------------------------------------------------------------
(***************************************************************************)
(* Why the properties hold.  What this run serves is in Harbor before the  *)
(* stack is touched; the config asks of a volume that is there for the     *)
(* class it has and for no smaller size, so that a volume is never         *)
(* replaced and a Job that is complete stands for a volume that is filled; *)
(* and a server goes only after what leads to it.                          *)
(***************************************************************************)

VolumeOK(v) ==
  /\ v = [class |-> v.class, size |-> v.size, content |-> v.content, pulled |-> v.pulled]
  /\ v.class # Empty /\ v.size \in Nat /\ v.pulled \in BOOLEAN

JobOK(j) ==
  j = [tag |-> j.tag, status |-> j.status] /\ j.status \in {"running", "complete", "failed"}

(* A claim always ends up with a class. *)
ASSUME ClusterAssumption ==
  /\ Sizes \subseteq Nat /\ DefaultClass # Empty
  /\ None \notin {"update", "recreate", "destroy"}
  /\ \A c \in Inherited : \A m \in DOMAIN c.volumes : VolumeOK(c.volumes[m])

TypeOK ==
  /\ platform \in Platforms
  /\ \A m \in DOMAIN volumes :
       VolumeOK(volumes[m]) /\ (platform = OnPrem => volumes[m].class = "hostpath")
  /\ \A m \in DOMAIN jobs : JobOK(jobs[m])
  /\ serve \cap uninstall = {} /\ \A m \in serve : m \in Catalog
  /\ phase \in Working \cup {"idle", "done"}
  /\ mode \in {None, "update", "recreate", "destroy"}
  /\ \A m \in DOMAIN step : step[m] \in {"front", "volume", "job", "pull", "server", "served"}

(* Which part of the run has what. *)
Staged ==
  /\ mode # None => phase \in {"destroy", "load", "up", "done"}
  /\ phase = "destroy" => mode \in {"recreate", "destroy"}
  /\ phase \notin {"up", "done"} => DOMAIN step = {}

Mirrored ==
  phase \in {"delete"} \cup InServing =>
    \A m \in WithWeights(serve) : HarborRef(m) \in harbor

(* The config is of this run's selection and release. *)
Configured ==
  phase \in {"load", "up"} \/ (phase = "destroy" /\ mode = "recreate") =>
    /\ DOMAIN config \subseteq serve
    /\ \A m \in DOMAIN config :
         config[m].tag = release[m].tag /\ (HasSource(m) => config[m].size \in Nat)

Fitting ==
  phase \in {"load", "up"} =>
    \A m \in DOMAIN volumes \cap DOMAIN config :
      HasSource(m) => volumes[m].class = ClassOf(m) /\ volumes[m].size <= config[m].size

Filled ==
  \A m \in DOMAIN jobs :
    jobs[m].status = "complete" => Existing(m) /\ volumes[m].pulled

(* How far Pulumi is with a model, and what it has made of it. *)
Progress ==
  \A m \in DOMAIN step :
    /\ m \in DOMAIN config
    /\ HasSource(m) /\ step[m] \in {"job", "pull", "server", "served"} => Existing(m)
    /\ HasSource(m) /\ step[m] = "pull" =>
         m \in DOMAIN jobs /\ jobs[m].tag = config[m].tag
    /\ step[m] \in {"server", "served"} =>
         m \in servers /\ (HasSource(m) => volumes[m].pulled)

Routed == \A r \in endpoints : r[2] \in {"route", "embedding"} => r[1] \in servers

IndInv == /\ TypeOK /\ Staged /\ Mirrored /\ Configured /\ Fitting /\ Filled
          /\ Progress /\ Routed

============================================================================
