# A verification of the SHAIDE installer

SHAIDE is a platform for running language models on a Kubernetes cluster that
may be cut off from the internet.  The repository holds a terminal installer
(`installer/`), the Pulumi programs it deploys (`pkg/iac/`, with thin mains in
`harbor/`, `infra/`, `app_serving/`, `app_shaide/`, `app_mcp/`, `monitoring/`),
and a small Kubernetes library (`pkg/kube/`).  This directory holds TLA+
modules of the parts with state, concurrency and failure handling of their own,
the TLC runs that check them on small instances, and TLAPS proofs of the most
important properties for all instances.

## Inventory

| Component | State | Operations | Hard behaviour | What makes it correct |
|---|---|---|---|---|
| Workflow runner (`installer/internal/workflow`) | stage, step index, stage Data | begin, run, skip, recover (continue, retry, restart, fail), cleanup | long series of retries; cleanup on every exit | no step left out or run with stale Data; cleanup always happens |
| TUI (`installer/internal/ui`) | mode, prompt's reply channel, log channel | prompts, keys, log lines, end of the workflow | goroutines meet over channels of bounded capacity | nobody waits forever; the outcome shown is the true one |
| Port-forward (`pkg/kube/forward.go`) | sessions, local port, stop and done channels | start, supervise, reconnect, Close | drop against Close, port reuse, dials that cannot be cancelled | one session, one address, nothing left after Close |
| Chunked upload (`installer/internal/oras/repository`) | offset, read-ahead, state file, registry session | POST, PATCH, PUT, status, retry, resume | lost answers, late requests, expiry, crashes, full disk | the registry gets the blob's bytes once and in order; uploads end |
| Model and image uploader (`oras/uploader`, `oras/oras.go`) | local artifact cache, tags | pack, push, verify, prune | a step cut off; a new pin | a tag names a complete artifact of its pin |
| Hugging Face download (`huggingface`) | cache directory, completion marker | prepare, download, resume, mark, prune | interrupted downloads, changed pins, files of earlier installers | a model taken as present is complete |
| Stack deployer and cluster guard (`installer/internal/iac`) | stack state, config, lock | deploy, destroy, check, ask, cancel a lock | kubeconfig changes, killed updates, two installers | nothing is changed on a cluster that was not chosen |
| Stack configuration (`pkg/stack/config`, `pkg/iac/*/internal/config`) | stack files, which outlive a run | resolve entries, ask, write, load | keys of earlier runs and hand edits that nobody removes | what is deployed follows from this run's answers |
| Stack steps (`stages/pulumi/stacks`, `stages/knowledgecenter`, `stages/webapp`) | stack files, credentials, cluster | deploy and remove stacks, look at the cluster, create an account | steps that fail between two halves of one decision | halves agree; an update with the preselected answers changes nothing |
| Discovery (`stages/discovery`) | Harbor target, credentials, client | find, choose, create projects, wait | stale pod, registry not ready | no second Harbor without a question |
| Artifact stage (`stages/artifact`) | models to upload, to delete | check, download, upload, delete | one of several models fails | what is pushed is what is pinned |
| Model selection and serving stack (`stages/models`, `stacks/serving.go`, `pkg/iac/serving`) | selection, volumes, pull Jobs, servers, routes | install, update, recreate, remove | half-done updates, lost nodes, other releases | a pull finds its artifact, volumes survive, routes lead to servers |
| Node pools (`stages/nodes`, `placement`, `ui/model/choice.go`) | stored assignment, node labels, the list | list, choose, save, migrate | a migration cut off, nodes that come and go | every node runs the workload of its pool |
| Harbor API (`harbor/api`), HTTP errors (`httpapi`) | none | requests | conflict means already there | error kinds lead to the right recovery |
| Preloader (`preloader`) | jobs on the nodes | copy images to nodes | nodes without registry access | every node has every image |

Components and their status are listed in `PROJECT.json`, with every hazard at
its line of code.

## Modules

### ChunkedUpload

Models `Repository.Push` of a blob larger than one chunk.  `pc` is the position
in `pushBlobChunked` and what it calls; `cur` is `*chunk`; `pending` is the
channel of the read-ahead goroutine; `file` is the JSON record under the upload
state directory.  A byte is its position, so that `SessionsHoldPrefix` can say
that the registry holds the *right* bytes.  The registry (`data`, `open`,
`late`) accepts a PATCH that starts at its end; it may take part of it, answer
too late, or forget the session.  Each call of the registry is one action with
its outcomes; saving the state file is an action of its own because a crash or
a full disk in it is what leaves a corrupt file.  The operator's choices come
from `recoverArtifactUpload`.

Left out: Location headers that change between answers (the model's session
stands for all its locations), credentials, and the text of errors other than
the kind that decides the recovery.

### PortForward and Tunnel

`PortForward` models `pkg/kube/forward.go`: `sessions` are the goroutines of
`startForwardSession` with their channels, `pc` is `StartPortForward` followed
by `supervise`, `closer` are the callers of `Close`.  `Tunnel` says what a
caller may rely on: an address that is chosen once, served on and off, until
Close returns.  `ImplementsTunnel` is the refinement.

Left out: delays between attempts (any delay is possible), the text of logs.

### Deployer

Models `installer/internal/iac` for one stack: `prepareStack` writes the config,
`checkClusterTarget` compares the recorded provider with the selected context,
by name, by API server and by object UIDs, and asks; `withLockRetry` runs
destroy and up.  Pulumi's plan, replacing every resource when a provider reaches
another cluster and deleting the originals through their own provider, is
modelled from what the comments and the guard assume of it and marked external.
Crashes, edits of the kubeconfig and objects made anew happen between any two
steps.  An edit removes a context, brings it back, or gives its name to another
cluster; the history variable `reused` holds the recorded names to which that has
happened, and a resource pending deletion carries the cluster (`home`) it was made
on.  The properties except those states and no others.

Left out: several providers in one stack (the guard treats each like the one
here), the cap of 20 UID look-ups, refresh.

### Workflow

Composes the runner, the event loop of the TUI, the log channel and the
goroutine of the Harbor port-forward.  Steps are opaque: each may be skipped,
ask, fail before or after it wrote to its Data or opened the tunnel, and be
recovered in each of the ways `core.RecoveryAction` names.

### Discovery

Models the discovery stage and what the steps of the artifact stage do with the
session it sets up (`rt.Discovery`, `Config.Harbor`).  `pc` is the step or the
call inside it that comes next, `at` the place where a retry goes.  A namespace
of the cluster is a record of the Harbor in it: Service, readiness, pod, pull
secret with the robot password it holds, password Harbor takes, whether the robot
may list projects, whether the admin password in `harbor-core` holds, projects.
`EnsureHarborProjects` passes when the robot's list has everything, or creates
what is missing as the admin; without a password that Harbor takes,
`harborAdminClient` asks (`err` = "admin").  After a refused push the list is read
again, and when it cannot be, the credentials are asked for (`workRefused`).  The
operator gives every answer the recover functions offer.  Between any two steps
a pod may be lost, come back or be replaced, and the robot's password may be
rotated.  The Harbor stack (`pkg/iac/harbor`) is the sequence of what its
resources make of the namespace, cut short when it fails; Helm's refusal to
reuse a name, Harbor's authorisation and Kubernetes are external.

The mutant of `CurrentTarget` shows why `RestartComesBack` (see the
observations) is not repaired by looking the pod up anew alone: the
operator may have entered another namespace in the stage's last step, and the
uploads would then go to a Harbor that the nodes are not configured for
(`OneHarbor`).

Two more things the model shows that no run is kept for.  "Fresh install" in the
stage's last step (the pull secret cannot be read) sets Install mode and goes on
with the next stage: nothing is installed, and the uploads use the credentials
that were read earlier, or none, although the step is there to "always reload"
them (`discovery.go:77`).  And after a failed lookup an operator may enter a
namespace that does not exist: the log then announces the installation "in
namespace" of that name (`discovery.go:167`), while the stack installs in its
own default, because `DeployHarbor` hands it no namespace; the next check fails.

Abstractions.  Credentials that Harbor takes may push into every project, as the
robot the stack makes may (`setup.go:97-130`).  A project list is read in full: the
code reads one page of 100.  A wrong admin password is asked for again up to three
times, which changes nothing here; the last attempt ends the step like Abort.  A
401 of a token service that is still warming up, a list, a secret or a log-in that
fails for once use up a fault.

Left out: side-loading of images (a step that succeeds or fails), a Service that
changes its port.

### StackConfig, StackDefinitions and Stacks

`StackConfig` is the engine of `pkg/stack/config` as operators: an entry is a
record with its source, default, prompt, condition and validation; `Resolve`
takes entries, supplied values and answers to the keys that are written, and
`Load` is what a program reads back.  A key that is not written keeps its value.
`StackDefinitions` has the entries of the six stacks and their checks.
`Stacks` runs the deployment steps over them, run after run: selection of web
app and Knowledge Center, gateway, Harbor's own settings, monitoring, MCP,
shaide, account.  `files` are the stack files, `live` is what runs in the cluster
(stacks with what they were last brought up with, Gateway, volumes, account), `rt`
the answers and credentials of this run.  The operator may edit a stack file between runs, a step may fail
before, in or after Pulumi, and the process may stop anywhere.  The four look-ups
behind the Gateway's prompts, of the live Gateway, of the accepted classes, of the
ClusterIssuers and of the load balancers, each find what there is at that moment
or fail, independently (`Lookups`); from them follow what is offered and what is
pre-selected.  The class of a platform other than Istio's runs on that platform,
AGC's on Azure only; other controllers (`OtherClasses`) are part of the site.
`rt.accepted` is a history variable: whether the operator took the pre-selected
answers, and whether what the live Gateway uses was among the options.

Left out: entries that are constants of a release, texts of prompts, and what
the programs create beyond what a later step reads.

### HubFiles and ModelArtifacts

`HubFiles` says which files of a repository a model takes.  `ModelArtifacts`
models the stage "populate Harbor" over several runs: the Hugging Face cache
(`hub`: `snapshots`, `blobs`, `ref`, `marker` of each repository), the OCI cache
(`oci` its tags, `copies` the artifacts whose blobs it holds, tagged or not),
Harbor's tags (`harbor`), and the steps that check, download, mark, prune, untag,
collect, pack, push, verify and delete.  Content is tracked as the set of blobs,
so that the properties can say that a tag holds exactly the pinned files.  Steps
fail half-way or are killed, and a later run may be of another release.  The first
run may find the cache of an older installer, with a marker that names a revision
or an empty one.  The history variable `doubtful` holds the repositories that were
cut off while their marker named no revision, or whose marker was cut off itself:
of these `complete` cannot tell whether they are whole.

Left out: bytes of a file (a blob is there or not), layers of an artifact, the
HTTP client.

### Serving

Models the choice of models, the deletion of unwanted ones in Harbor, and the
serving stack: `volumes` with their class, size, content and marker, `jobs`,
`servers` and `endpoints`, created resource by resource in the order of the programs'
dependencies.  The run starts on a new cluster or on one of the retired chart.
Mirroring is one action here; its detail is ModelArtifacts.

Left out: container arguments, probes, monitors; the scheduler (a pod runs when
its volume is filled and its node is there).

### ChoiceList and NodePools

`ChoiceList` is the list of rows of `choice.go`: each key is an operator on the
record of the list.  The lines on the screen are in the order of the prompt's
groups; the cursor may move to any line, and the dropdown is the set of options
that all selected rows share.  Columns and scrolling are left out.  `NodePools`
models the stage that uses it: nodes grouped into pools by `PoolOf`, in an
arbitrary order, the prompt with what is preselected, `checkAssignment`, the
ConfigMap, the removal of the labels that earlier installers used, and the
placement that the stacks get.  The models of a run are a sequence, in the order
of the catalog, which decides between two that could both be preselected.  Nodes
join and leave at any time.  `LabelsAssumption` says what the platforms
guarantee: a node that bears the key of a cloud's pool label has its pool from
it, and no two nodes share a hostname.

## Runs

| Run | Bounds | Shows |
|---|---|---|
| `chunked_upload` | 5 bytes, chunks of 2, 2 attempts, 3 faults, spooled | three chunks with a short last one, so a prefetch, a moved range and the end are all met; three faults allow a loss, a loss in its recovery and a crash; every upload ends |
| `port_forward` | 2 ports, 2 closers, 2 attempts, 5 faults | five faults end two tunnels and use up all attempts of one reconnect; Close returns, the tunnel comes back |
| `deployer` | 3 contexts of 2 clusters (one an alias), 2 objects, 2 faults | the guard on every recorded state, with names given to another cluster; a stack elsewhere passes unasked only under such a name; deletions only where asked while recorded names stand; stale locks go (415,000 states) |
| `workflow_runner` | 3 stages of 2, 2 and 1 steps, log capacity 2, 2 retries, 2 drops | the runner against a full channel and a dropping tunnel |
| `workflow_panic` | the same | finding |
| `discovery` | 2 namespaces, 2 names each for Service and secret, 5 kinds of namespace, 3 projects (one only in the image manifest), 4 steps, 2 faults, both platforms | every pair of found states with every answer, among them robots that may not list projects and admin passwords that do not hold; two faults allow a rotation and a replaced pod, or a failed lookup and a failed deployment; a missing project of a found Harbor never reads as bad credentials; a good Harbor is used without a question if `harbor-core` has the admin password or nothing is missing (1,570,000 states) |
| `stacks` | 4 sites that vary one group of choices each, on Azure, GCP and on-prem, one with a third Gateway class, 3 generated credentials, 1 hand edit | credentials on both sides agree and are kept, nothing stays of a declined part, an accepted preselection changes no volume, and no Gateway whose class and issuer are on offer |
| `model_artifacts` | 2 models that share a dependency, 2 pins, 3 runs, 2 faults | three runs allow a pin, another and the first again, from an empty cache or one of an older installer with either marker; two faults cut off a download and a removal, or a collection and a build |
| `model_artifacts_marker` | the same, a write of the marker cut off | finding |
| `serving` | 2 models with weights and a simulated one, 2 releases, 2 runs, 2 faults | a selection, another one after it, with a fault in each |
| `serving_old_weights` | 2 runs without faults | finding |
| `node_pools` | 5 nodes in 3 pools, 2 models | a pool with a smaller node that comes and goes, a single node with the name of that pool, a reserved node; any number of runs and keys |

Safety of an update in `Serving` does not depend on the number of runs beyond
two: a run sees of the earlier ones only the cluster, Harbor and the stack file,
and the two inherited clusters add what a longer past leaves.

`Stacks` may run on all four platforms of `cluster.Provider`; `Serving` starts on
Azure or on-prem, since its stack treats the three clouds alike.

The proofs cover what these instances fix: fixed and chosen local ports, spooled
and streamed chunks, registries that answer `0-0`, and any number of nodes, models,
releases, runs and faults.

Deadlock is not checked for the port-forward, which really stops (its doneCh is
closed), for `ModelArtifacts` and `Serving`, which stop after the last run they
are allowed, and in the runs that look for one counterexample.

### Fairness

* `ChunkedUpload`: weak fairness of the push, since the transport bounds every
  wait; the operator answers, and does not refuse forever the preselected
  "Clear upload state and retry" (strong fairness).
* `PortForward`: goroutines run, and a dial ends.  Nothing is assumed of Close.
* `Deployer`: weak fairness of the deployer; none of the operator.
* `Workflow`: goroutines run, a step ends, the operator answers a prompt.
* `Discovery`: the installer's steps end, since each call has a timeout, and the
  operator answers.

## Proofs

Eight modules prove, for every value of the constants that satisfies the named
assumptions, what the runs check on small instances: `ChunkedUploadProofs`,
`WorkflowProofs` (the runner and the port-forward), `DiscoveryProofs`,
`DeployerProofs`, `NodePoolsProofs`, `ModelArtifactsProofs`, `ServingProofs` and
`StacksProofs`.  Besides, they prove type correctness and a few facts that no run
repeats: one reader of the blob at a time (`OneReader`), no empty range in a
request (`NoEmptyRange`),
nothing served after Close (`QuietWhenClosed`), an address that never moves
(`AddressNeverMoves`).  Each rests on an inductive invariant at the end of its
component's module, which TLC checked before it was proved.  The layout is the
same everywhere: `InitInv`, one lemma per action or group of like actions, a
lemma `StepInv` over the disjuncts of Next, and PTL.  The names of `Workflow`
begin with `Workflow` where they would be those of `PortForward`, because one
module extends both.

* ChunkedUpload: the offset in hand is what the session holds (or 1, read from
  `0-0`), the body of a request carries the bytes its range names, and each
  temporary file belongs to the chunk in hand or to the read-ahead.  Without the
  second fact a late request could break `SessionsHoldPrefix`; without the third
  `TempFilesBounded` is not inductive.
* PortForward: sessions before the one in hand have ended, later ones have not
  begun; the port is the first session's; only the first Close waits for the
  supervisor.  `Refinement` maps every step to one of Tunnel or a stutter.
* Workflow: the steps passed are exactly those before the step index, an error
  is kept to the end, and the tunnel is closed once its stage is over.
* Discovery: the tunnel in hand leads to the pod looked up first; while that pod
  is in use it belongs to the configured namespace, and the nodes were configured
  for its Harbor (`TargetCurrent`, `NodesCurrent`); pushes go nowhere else, and the
  steps left still hold a push until one is made (`PushedToTarget`, `PushesLeft`).
  `PushPromptRight` rests on `CreatedUpFront`: a Harbor that CheckResources found
  has every project before the first push, whoever had to be asked for the admin
  password, and nobody removes one.  For a Harbor that this run installed, the list
  that was read when the question was chosen could only have become readable since
  by a change that counts as a fault.  `NoUnaskedSecondHarbor` needs that a Harbor that was there is
  not removed during the run.
* Deployer: the theorems assume one installer; `DeployerTwo.cfg` shows two updates
  at once without it.  What the guard found (`Verified`, or a question
  asked) stays true until the operation it let pass has changed the stack,
  since nobody else changes what is recorded.  Names may be given to other
  clusters: a recorded name that is not in `reused` stands for its cluster or for
  none (`LiveStands`, `PendingStands`), which is all the guard relies on.  Only a
  name in `reused` is excepted, by `RefusesUnlessReused` and `RefusalIsRight` the
  one the stack recorded, by `RecordedDeletesWhereAsked` those of pending
  deletions too.  `RefusalIsRight` needs
  `LaterGenerations`: an object made anew is never taken for the recorded one.
  `RecordedDeletesWhereAsked`, an action property, needs `ReplacedAsked`: the
  originals an update has replaced are deleted by a later step than the one the
  guard looked at.
* NodePools: what is stored is the assignment saved last, and it could be
  submitted (`StoreSaved` with `Settled`); what a run read is what is stored until
  it saves; the list on the screen belongs to the prompt of this run (`ListOpen`).
  `RerunIsOneConfirm` then compares the list's first values with the saved
  assignment, pool by pool; that the models offered for a pool keep their order
  follows from a least counterexample over the positions of the sequence, not
  from induction.  `NodesFollowTheirPool` needs `LabelsAssumption`.
* ModelArtifacts: `CatalogAssumption` says that a pinned commit exists and has
  files to load, and that a revision which names a commit resolves to it;
  `EarlierAssumption` that the markers an earlier installer left were true when
  it wrote them, the empty ones of older installers among them: whatever snapshot
  stands under an empty marker is whole.  `StageInv` relates each loop to what it has dealt
  with, the markers to complete snapshots, and what is not in Harbor to what is
  still ahead; the lemma `SelectStable` shows that `RemoveUnselected` chooses the
  files that `planDownload` chose, which is why no marker loses its files.
  An empty marker ceases to say anything when a download or a removal under it is
  cut off; from then on the repository is in `doubtful`.  `ArtifactIsPin` fails for
  those (the finding of `model_artifacts_marker`), `ArtifactIsPinOrDoubtful` is
  proved for all others; it takes a second layer, `ReleaseInv`: `refs/main` leads to the
  pinned commit once it was written, and a repository holds its pin until it is
  packed.  `OneCachedArtifact` counts: every untagged copy that a collection has
  not removed is paid for by a step that failed or was killed (`Copying`).  It has three hypotheses, each the converse of an observation below: a release
  pins a repository once (`OnePinPerRelease`), an abbreviated pin never changes
  (`AbbreviatedPinsStay`), releases that give a model one tag pin the same of it
  (`TagNamesPins`).  The code checks none of them; the definitions the repository
  ships, which pin full commits and have no dependencies, satisfy them.
* Serving: `ClusterAssumption` says that sizes are numbers and that every claim
  ends up with a class.  What this run serves is in Harbor before the stack is
  touched and stays there, since no model is served and uninstalled at once
  (`Mirrored`), and the config names exactly the tags of this release
  (`Configured`): hence `PullFindsArtifact`.  It speaks of the Jobs a server waits
  for: a model that was replaced by a simulated one may keep an old Job until it is pruned,
  whose artifact may be gone.  The config asks for the class a volume has and for
  no smaller size (`Fitting`), so an update never replaces a volume; a Job that is
  complete therefore stands for a volume that is filled (`Filled`), also when
  the Job is of an earlier run.  This gives `RoutedMeansReady` and the
  action property `VolumesKept`.
* Stacks: first `ResolveHonours`, a fact about the engine that holds for every
  definition `Config.Validate` accepts, of any length: when Resolve succeeds, a key
  is written exactly when the entry's condition holds of the values that end up in
  the file and a value was found, and the value is the one `Entry.resolve` chose
  and the policy let pass.  A later entry cannot undo this, because Validate lets
  no key be declared twice and no condition look ahead.  The proof takes a least
  entry that is not honoured, and shows by the same argument that the recursive
  function of Resolve exists.  Then the invariant.  A file outlives the run that
  wrote it, so only what this run has just written may be relied on: between the
  write and the program the file of app-shaide holds this run's credentials, or
  says that the Knowledge Center is off (`ShaideFile`), app-mcp's holds the same
  ones (`MCPFile`), the Gateway's describes what was chosen (`GatewayFile`); and
  from the step that deployed it to the end of the run each of them runs with
  those values (`ShaideLive`, `AccountLive`, `MCPLive`).  `AssociationKept` needs
  that no Gateway has a blank subnet or a class its platform does not offer
  (`GatewayLive`): otherwise what an update pre-selects could be trimmed away.
  `ClassKept` needs that no claim has a class which the entries take for none
  (`ClaimsNamed`): a blank one would be left out of the file and the claim would
  be asked for another.  The API server refuses such a class, and `UpMonitoring`
  says so; one of the hand edits of `MCStacks` tries it.  A claim that
  names no class at all (`storage.go:93-95`) does not occur: `ClusterDefault` is the
  class the API server fills in.  `StacksAssumption` says
  that no issuer and no default class is named like the mark of a missing value, and
  that credentials can be told from nothing deployed; `DefinitionsAssumption`,
  that the definitions of the stacks pass Validate, is what the code checks at
  the start of Resolve, and TLC evaluates it.  The action properties
  `CredentialsKept`, which is about the installer's own steps and leaves hand
  edits out, and `AcceptingOfferedKeeps` follow from the same invariant.

Only model-checked: liveness under fairness, which this prover does not do
(`EventuallyUploaded`, `CloseAlwaysReturns`, `ComesBack`, `StaleLockReleased`,
`WorkflowEnds`, `HealthyRunCompletes`).
The violations that are findings are counterexamples and need no proof.

## Findings without a run of their own

Four sentences of the repository's comments and docs claim more than the code does.
The runs check, and the theorems prove, what does hold; the claim as it is written
is kept as a property that TLC refutes with the configuration named.

| The claim | Where it fails | Configuration | What holds |
|---|---|---|---|
| a stack that belongs to another cluster is refused (`cluster_guard.go:78`, `iac.go:46`) | its recorded context name was given to another cluster (`cluster_guard.go:325`) | `DeployerReuse.cfg`, `RefusesOtherCluster` | `RefusesUnlessReused` |
| accepting the defaults keeps the Gateway as is (`gateway_choice.go:50`) | its class is not accepted or listed at the moment, or its issuer is gone | `StacksAcceptingKeeps.cfg`, `AcceptingKeeps` | `AcceptingOfferedKeeps` |
| removing superseded artifacts first lets the build fit (`model_upload.go:98`) | a run is cut off between Untag and GC: the retry finds no tag and returns before GC (`:115`) | `ModelArtifactsCollect.cfg`, `BuildFits` | `OneCachedArtifact` |
| credentials are asked for only when the project exists (`troubleshooting.md:51`) | the project list cannot be read and Harbor was installed by this run (`recovery.go:156`) | `DiscoveryProjectFirst.cfg`, `CredentialsOnlyIfProject` | `PushPromptRight` |

## Observations

What the models show beyond the findings of `PROJECT.json`.  Where a
configuration is named, TLC reproduces the behaviour with it.

* Upload: a registry that answers `Range: 0-0` for an empty session makes a chunk
  count as recovered of which nothing arrived; the push goes on at byte 1, which the
  registry refuses, in later runs too until it purges the session
  (`ChunkedUploadRecovered.cfg`).
* Deployer: the lock of a second
  installer is cancelled like a stale one (`DeployerTwo.cfg`); a provider recorded
  without a context is settled by the UIDs, but Pulumi acts through it on the
  kubeconfig's current context, so a destroy or a pending deletion may run on a
  cluster that was not selected (`DeployerDeletes.cfg`).  `prepareStack` writes the config before the guard
  decides.
* Discovery: without a robot password the install path creates no projects, and the
  probe for a token of a missing one is taken for bad credentials, which are asked
  for again whatever is entered (`DiscoveryProbe.cfg`); `RefreshPortForward` resolves
  the pod once, so after the pod was replaced every retry dials the old one
  (`DiscoveryRestart.cfg`).
  `waitForNodeRegistryDaemonSet` does not look at `observedGeneration`.
* Stacks: an empty monitoring class "leaves the key unwritten, so the chart falls
  back to the cluster's default StorageClass" (`monitoring/internal/config/definition.go:70`), but a
  class written by an earlier failed run lingers (`StacksDefaultClassUsed.cfg`).
  "Empty deploys no shared Gateway", yet the remembered hostname stays in shaide's
  file (`StacksRoutesHaveGateway.cfg`).  The Gateway's hostname is never pre-filled,
  so Enter on an update removes the Gateway; an on-prem Harbor without node hostname
  is accepted by Resolve and refused by Load; when the live Gateway cannot be read
  the class falls back to the platform's, without a word in the prompt.
* ModelArtifacts: an abbreviated pin that changes keeps `refs/main` and prunes
  nothing, so old weights get the new tag; the tag follows the model's own revision
  only, so a changed pin of a dependency is "already in Harbor"; two models that
  share a repository at different revisions prune each other's; the storage check
  counts bytes of the old revision as reusable and cannot be recovered when Hugging
  Face is out of reach.
* Serving: a model without pods counts as not installed and is dropped with its
  volume by the default answer; a model the release no longer packages is removed by
  an update; a destroy that fails after the pods are gone leaves volumes that no run
  cleans; a retained on-prem volume keeps its marker across a recreate; a failed pull
  Job is removed by hand only; shaide-server sees a model before its server runs.
* NodePools: a pool scaled to zero is not listed, so the assignment saved in that
  run drops it; a deselected model loses its pools; a cluster with one pool can never
  be assigned, since models and CPU work each need one; an unreadable ConfigMap leads
  to the first guess; a node that bore two pool labels would match two workloads
  (excluded by `LabelsAssumption`).
* Workflow: the error of a workflow is shown but the process exits with 0; ctrl+c in
  idle mode quits without the stages' cleanup.

## Plan

1. *done*: ChunkedUpload, PortForward with Tunnel, Deployer, Workflow; proofs of
   the first, second and fourth.
2. *done*: Discovery and its proofs.
3. *done*: StackConfig, StackDefinitions and Stacks.
4. *done*: ModelArtifacts with HubFiles; Serving.
5. *done*: NodePools with ChoiceList.
6. *done*: proofs of Deployer, NodePools, ModelArtifacts and Serving.
7. *done*: proofs of StackConfig's Resolve and of Stacks.
8. *open*: Ownership of gateway resources, preloader.

## Not modelled

* Rendering of the TUI, progress bars, log files: layout.
* Dashboards and manifests of the Pulumi programs: data without control.
* Bootstrap and Kubernetes stages: each looks once at the host or the cluster; they
  are opaque steps of Workflow.
* Stack outputs and the reader of Pulumi's state: their answers are inputs.
* Preloader and Harbor's mirror Jobs: commands run on other machines; a step that
  succeeds or fails.
* The sweep of foreign gateway objects, CRD and Istio installation: calls of kubectl
  and Helm in sequence.
* HTTP transport, YAML and JSON, scripts, documentation, third-party code.
