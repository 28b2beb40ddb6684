--------------------------- MODULE ModelArtifacts ---------------------------
(***************************************************************************)
(* The stage "populate Harbor" (installer/internal/workflow/stages/        *)
(* artifact): the models to serve are downloaded into a Hugging Face cache *)
(* on the provisioning host, packed into an OCI cache beside it, pushed to *)
(* Harbor, and the models that are no longer wanted are deleted there.     *)
(* Every step may fail half-way or be killed, the operator may retry it,   *)
(* and a later run, possibly of a release with other pins, starts from     *)
(* what the earlier ones left on disk.                                     *)
(*                                                                         *)
(* A model is a sequence of pinned repositories, its own first, then its   *)
(* dependencies.  An artifact is named by the model and a tag that is cut  *)
(* from the revision of its own repository.                                *)
(***************************************************************************)
EXTENDS HubFiles, Naturals, FiniteSets, Sequences, SequencesExt

CONSTANTS
  Models,       \* the models with weights, in the order of the catalog
  Simulated,    \* the simulated models: nothing to mirror
  Catalogs,     \* the releases: [model -> sequence of pinned repositories]
  Commit,       \* the commit Hugging Face resolves a revision to
  Tag,          \* what harborTag cuts from a revision
  Hub,          \* Hugging Face: [repository -> [commit -> [path -> blob]]]
  EarlierCaches,\* what earlier installers may have left: states of the cache
  Images,       \* the service images: [image -> what it is deployed for]
  Selections,   \* what runs select: records of serve, uninstall and wanted
  MaxRuns,      \* bound on the runs of the stage
  MaxFaults,    \* bound on failing steps and crashes
  None,         \* no file, no value
  Empty         \* what a file of no bytes holds

Pins == UNION {Range(catalog[m]) : catalog \in Catalogs, m \in Range(Models)}
Revisions == {pin.revision : pin \in Pins}

(* splitModels (stages/models): a model is kept or uninstalled. *)
ASSUME SelectionAssumption ==
  \A s \in Selections :
    s.serve \cap s.uninstall = {} /\ s.serve \subseteq Range(Models) \cup Simulated

(* Twelve characters of a commit sha are unambiguous (catalog.go): two      *)
(* revisions with one tag are two spellings of one commit.                 *)
ASSUME TagAssumption ==
  \A r, s \in Revisions : Tag[r] = Tag[s] => Commit[r] = Commit[s]

VARIABLES
  hub,      \* the Hugging Face cache: a model directory per repository
  oci,      \* the tags of the OCI cache: [<<model, tag>> -> layers]
  copies,   \* the artifacts whose blobs are in it, with a tag or without
  harbor,   \* Harbor's project ai-models, the same way
  images,   \* the service images in Harbor
  catalog,  \* the release that runs
  serve,    \* rt.Models.Serve
  uninstall,\* rt.Models.Uninstall
  wanted,   \* the optional parts this run installs
  toUpload, \* rt.Artifact.ToUpload
  phase,    \* where the run is
  todo,     \* what the loop of the step has left, the current one first
  doomed,   \* what the removal that runs has left to remove
  failed,   \* the phase that failed, while the operator is asked
  doubtful, \* history: the repositories that were cut off under a marker
            \* that names no revision
  runs, faults

ociVars == <<oci, copies>>
cacheVars == <<hub, oci, copies>>
registryVars == <<harbor, images>>
runVars == <<catalog, serve, uninstall, wanted>>
vars == <<hub, oci, copies, harbor, images, catalog, serve, uninstall, wanted,
          toUpload, phase, todo, doomed, failed, doubtful, runs, faults>>

----------------------------------------------------------------------------
(* The model directory of the cache                                        *)

EmptyDir == [snapshots |-> <<>>, blobs |-> {}, ref |-> None, marker |-> None]

Init ==
  /\ hub \in EarlierCaches
  /\ oci = <<>> /\ copies = {} /\ harbor = <<>> /\ images = {}
  /\ catalog \in Catalogs
  /\ serve = {} /\ uninstall = {} /\ wanted = {}
  /\ toUpload = <<>> /\ todo = <<>> /\ doomed = {}
  /\ phase = "idle" /\ failed = None /\ doubtful = {}
  /\ runs = 0 /\ faults = 0

HasSnapshot(dir, revision) == revision \in DOMAIN dir.snapshots

(* Mutant: any marker counts, whatever revision it was written for. *)
MutComplete(dir, revision) == dir.marker # None

(* The marker names the revision it was written for; an empty one, which   *)
(* older installers wrote, counts when the snapshot directory exists.      *)
complete(dir, revision) ==
  \/ dir.marker = revision
  \/ dir.marker = Empty /\ HasSnapshot(dir, revision)

(* What refs/main may hold after EnsureRef; nothing when it fails.         *)
EnsureRef(dir, revision) ==
  IF HasSnapshot(dir, revision) THEN {revision}
  ELSE IF dir.ref \notin {None, Empty} THEN {dir.ref}
  ELSE DOMAIN dir.snapshots

BlobsOf(id, commit, paths) == {Hub[id][commit][p] : p \in paths}

(* planDownload: the files of the revision that the model server loads.    *)
planDownload(pin) == Select(DOMAIN Hub[pin.id][Commit[pin.revision]])

(* A definition pins a repository by the sha of a commit, possibly cut     *)
(* short, and the commit has files to load.                                *)
ASSUME CatalogAssumption ==
  /\ Models \in Seq(Range(Models))
  /\ \A c \in Catalogs : c \in [Range(Models) -> Seq(Pins) \ {<<>>}]
  /\ \A pin \in Pins :
       /\ pin.id \in DOMAIN Hub /\ Commit[pin.revision] \in DOMAIN Hub[pin.id]
       /\ pin.revision \in DOMAIN Hub[pin.id] => Commit[pin.revision] = pin.revision
       /\ planDownload(pin) # {}
  /\ Empty \notin Revisions /\ None \notin Revisions \cup {Empty}
  /\ \A id \in DOMAIN Hub : DOMAIN Hub[id] \cap {None, Empty} = {}

(* The paths of a snapshot that has a directory. *)
Linked(dir, commit) ==
  IF HasSnapshot(dir, commit) THEN dir.snapshots[commit] ELSE {}

(* Mutant: a snapshot directory counts as a finished download. *)
MutPending(dir, pin) ==
  IF HasSnapshot(dir, Commit[pin.revision]) THEN {} ELSE planDownload(pin)

(* The files the CLI still has to fetch or to link. *)
Pending(dir, pin) ==
  LET commit == Commit[pin.revision] IN
  {p \in planDownload(pin) : \/ p \notin Linked(dir, commit)
                             \/ Hub[pin.id][commit][p] \notin dir.blobs}

----------------------------------------------------------------------------
(* The runner                                                              *)

Pin == Head(todo)
Dir == hub[Pin.id]
SetDir(dir) == hub' = [hub EXCEPT ![Pin.id] = dir]

(* A sequence of the members of S in the order of the catalog. *)
InOrder(S) ==
  FlattenSeq([i \in DOMAIN Models |-> IF Models[i] \in S THEN <<Models[i]>> ELSE <<>>])

(* convertModel over ToUpload: what downloadModels goes through.           *)
convertModels(models) == FlattenSeq([i \in DOMAIN models |-> catalog[models[i]]])

Ref(m) == <<m, Tag[catalog[m][1].revision]>>

(* imagesToUpload: what this run deploys. *)
imagesToUpload ==
  {i \in DOMAIN Images :
     \/ Images[i] = "always"
     \/ Images[i] \in wanted
     \/ Images[i] = "simulator" /\ serve \cap Simulated # {}}

Goto(p) == phase' = p /\ UNCHANGED <<failed, runs, faults>>

(* The step a phase belongs to, entered anew. *)
EnterDownload ==
  /\ todo' = convertModels(toUpload)
  /\ doomed' = {}
  /\ Goto(IF toUpload = <<>> THEN "images" ELSE "prepare")

EnterUpload ==
  /\ todo' = toUpload
  /\ doomed' = {}
  /\ Goto("resolve")

NextRepository ==
  IF Len(todo) > 1 THEN todo' = Tail(todo) /\ Goto("prepare") /\ doomed' = {}
                   ELSE EnterUpload

NextModel ==
  /\ todo' = Tail(todo)
  /\ doomed' = {}
  /\ Goto(IF Len(todo) > 1 THEN "resolve" ELSE "images")

(* A run of any release, for a selection of models and optional parts.     *)
StartRun ==
  /\ phase \in {"idle", "done"}
  /\ runs < MaxRuns
  /\ catalog' \in Catalogs
  /\ \E s \in Selections :
       serve' = s.serve /\ uninstall' = s.uninstall /\ wanted' = s.wanted
  /\ toUpload' = <<>> /\ todo' = <<>> /\ doomed' = {}
  /\ phase' = "check" /\ failed' = None
  /\ runs' = runs + 1
  /\ UNCHANGED <<cacheVars, registryVars, doubtful, faults>>

(* Mutant: any artifact of the model counts. *)
MutModelExists(m) == \E ref \in DOMAIN harbor : ref[1] = m

(* The tag is asked for, so that a new pin is a new artifact. *)
modelExistsInHarbor(m) == Ref(m) \in DOMAIN harbor

checkModelArtifacts ==
  /\ phase = "check"
  /\ toUpload' = InOrder({m \in serve \ Simulated : ~modelExistsInHarbor(m)})
  /\ Goto("report")
  /\ UNCHANGED <<cacheVars, registryVars, runVars, doubtful, todo, doomed>>

(* reportModelStorage asks Hugging Face for sizes and decides nothing.     *)
reportModelStorage ==
  /\ phase = "report"
  /\ EnterDownload
  /\ UNCHANGED <<cacheVars, registryVars, runVars, doubtful, toUpload>>

----------------------------------------------------------------------------
(* Download models                                                         *)

Prepare ==
  /\ phase = "prepare"
  /\ Goto(IF complete(Dir, Pin.revision) THEN "reuse" ELSE "fetch")
  /\ UNCHANGED <<cacheVars, registryVars, runVars, doubtful, toUpload, todo, doomed>>

Linking(dir, commit, p) ==
  [c \in DOMAIN dir.snapshots \cup {commit} |->
     IF c = commit THEN Linked(dir, commit) \cup {p} ELSE dir.snapshots[c]]

(* The Hugging Face CLI, which fetches the blobs and links them into the   *)
(* snapshot of the commit, in any order.                                   *)
fetchFile ==
  /\ phase = "fetch"
  /\ \E p \in Pending(Dir, Pin) :
       LET commit == Commit[Pin.revision]
           blob == Hub[Pin.id][commit][p] IN
       SetDir(IF blob \in Dir.blobs
              THEN [Dir EXCEPT !.snapshots = Linking(Dir, commit, p)]
              ELSE [Dir EXCEPT !.blobs = Dir.blobs \cup {blob}])
  /\ UNCHANGED <<ociVars, registryVars, runVars, doubtful, toUpload, phase, todo, doomed,
                 failed, runs, faults>>

downloaded ==
  /\ phase = "fetch"
  /\ Pending(Dir, Pin) = {}
  /\ Goto("ref")
  /\ UNCHANGED <<cacheVars, registryVars, runVars, doubtful, toUpload, todo, doomed>>

(* The paths RemoveUnselected removes; nothing without a snapshot of that  *)
(* name.                                                                   *)
Unselected(dir, revision) ==
  Linked(dir, revision) \ Select(Linked(dir, revision))

(* EnsureRef, in Prepare for a model that is reused and in Complete. *)
writeRef ==
  /\ phase \in {"reuse", "ref"}
  /\ \E target \in EnsureRef(Dir, Pin.revision) :
       SetDir([Dir EXCEPT !.ref = target])
  /\ doomed' = IF phase = "reuse" THEN Unselected(Dir, Pin.revision) ELSE {}
  /\ Goto(IF phase = "reuse" THEN "unselect" ELSE "mark")
  /\ UNCHANGED <<ociVars, registryVars, runVars, doubtful, toUpload, todo>>

Complete ==
  /\ phase = "mark"
  /\ SetDir([Dir EXCEPT !.marker = Pin.revision])
  /\ doomed' = Unselected(Dir, Pin.revision)
  /\ Goto("unselect")
  /\ UNCHANGED <<ociVars, registryVars, runVars, doubtful, toUpload, todo>>

RemoveUnselected ==
  /\ phase = "unselect"
  /\ \E p \in doomed :
       /\ SetDir([Dir EXCEPT !.snapshots[Pin.revision] = @ \ {p}])
       /\ doomed' = doomed \ {p}
  /\ UNCHANGED <<ociVars, registryVars, runVars, doubtful, toUpload, phase, todo, failed,
                 runs, faults>>

(* PruneOtherRevisions removes the other snapshots, then the blobs the     *)
(* pinned one does not use; nothing without a snapshot of that name.       *)
unselectDone ==
  /\ phase = "unselect" /\ doomed = {}
  /\ IF HasSnapshot(Dir, Pin.revision)
     THEN /\ doomed' = DOMAIN Dir.snapshots \ {Pin.revision}
          /\ Goto("snapshots")
          /\ UNCHANGED todo
     ELSE NextRepository
  /\ UNCHANGED <<cacheVars, registryVars, runVars, doubtful, toUpload>>

(* os.RemoveAll of a snapshot may be cut off after any of its files. *)
removeSnapshot ==
  /\ phase = "snapshots"
  /\ \E c \in doomed :
       \/ /\ SetDir([Dir EXCEPT !.snapshots =
                       [s \in DOMAIN @ \ {c} |-> @[s]]])
          /\ doomed' = doomed \ {c}
       \/ /\ \E p \in Dir.snapshots[c] :
               SetDir([Dir EXCEPT !.snapshots[c] = @ \ {p}])
          /\ UNCHANGED doomed
  /\ UNCHANGED <<ociVars, registryVars, runVars, doubtful, toUpload, phase, todo, failed,
                 runs, faults>>

(* The blobs the symlinks of the pinned snapshot point at. *)
referencedBlobs(dir, pin) ==
  BlobsOf(pin.id, pin.revision, Linked(dir, pin.revision))

snapshotsDone ==
  /\ phase = "snapshots" /\ doomed = {}
  /\ doomed' = Dir.blobs \ referencedBlobs(Dir, Pin)
  /\ Goto("blobs")
  /\ UNCHANGED <<cacheVars, registryVars, runVars, doubtful, toUpload, todo>>

removeBlob ==
  /\ phase = "blobs"
  /\ \E b \in doomed : /\ SetDir([Dir EXCEPT !.blobs = @ \ {b}])
                       /\ doomed' = doomed \ {b}
  /\ UNCHANGED <<ociVars, registryVars, runVars, doubtful, toUpload, phase, todo, failed,
                 runs, faults>>

blobsDone ==
  /\ phase = "blobs" /\ doomed = {}
  /\ NextRepository
  /\ UNCHANGED <<cacheVars, registryVars, runVars, doubtful, toUpload>>

----------------------------------------------------------------------------
(* Upload models, upload images, delete uninstalled models                 *)

Model == Head(todo)

Superseded(m) == {ref \in DOMAIN oci : ref[1] = m /\ ref # Ref(m)}

(* The artifacts a tag reaches, and the blobs of the ones none does.       *)
Tagged == {<<ref, oci[ref]>> : ref \in DOMAIN oci}
Untagged == copies \ Tagged

(* pruneSupersededArtifacts lists the tags of the model and returns when   *)
(* there is no other one: nothing is collected then.                       *)
resolveCache ==
  /\ phase = "resolve"
  /\ IF Ref(Model) \in DOMAIN oci
     THEN doomed' = {} /\ Goto("push")
     ELSE /\ doomed' = Superseded(Model)
          /\ Goto(IF Superseded(Model) = {} THEN "build" ELSE "untag")
  /\ UNCHANGED <<cacheVars, registryVars, runVars, doubtful, toUpload, todo>>

(* Untag leaves the blobs where they are. *)
pruneSupersededArtifacts ==
  /\ phase = "untag"
  /\ \E ref \in doomed : /\ oci' = [r \in DOMAIN oci \ {ref} |-> oci[r]]
                         /\ doomed' = doomed \ {ref}
                         /\ Goto(IF doomed = {ref} THEN "gc" ELSE "untag")
  /\ UNCHANGED <<hub, copies, registryVars, runVars, doubtful, toUpload, todo>>

(* Mutant: the blobs of the untagged artifact stay. *)
MutCollect ==
  /\ phase = "gc"
  /\ Goto("build")
  /\ UNCHANGED <<cacheVars, registryVars, runVars, doubtful, toUpload, todo, doomed>>

(* cache.GC drops the blobs that no remaining tag reaches. *)
collect ==
  /\ phase = "gc"
  /\ copies' = Tagged
  /\ Goto("build")
  /\ UNCHANGED <<hub, oci, registryVars, runVars, doubtful, toUpload, todo, doomed>>

(* The layers are the whole model directories; the tag is written last.    *)
modelDirs(m) == {pin.id : pin \in Range(catalog[m])}

packStore(m) ==
  [id \in modelDirs(m) |-> [snapshots |-> hub[id].snapshots,
                            blobs |-> hub[id].blobs, ref |-> hub[id].ref]]

With(store, ref, layers) ==
  [r \in DOMAIN store \cup {ref} |-> IF r = ref THEN layers ELSE store[r]]

buildCache ==
  /\ phase = "build"
  /\ oci' = With(oci, Ref(Model), packStore(Model))
  /\ copies' = copies \cup {<<Ref(Model), packStore(Model)>>}
  /\ Goto("push")
  /\ UNCHANGED <<hub, registryVars, runVars, doubtful, toUpload, todo, doomed>>

push ==
  /\ phase = "push"
  /\ harbor' = With(harbor, Ref(Model), oci[Ref(Model)])
  /\ NextModel
  /\ UNCHANGED <<cacheVars, images, runVars, doubtful, toUpload>>

AfterImages == IF uninstall \ Simulated = {} THEN "done" ELSE "delete"

uploadImages ==
  /\ phase = "images"
  /\ images' = images \cup imagesToUpload
  /\ doomed' = uninstall \ Simulated
  /\ Goto(AfterImages)
  /\ UNCHANGED <<cacheVars, harbor, runVars, doubtful, toUpload, todo>>

(* A repository of Harbor goes with all its tags; one that is not there    *)
(* counts as deleted.                                                      *)
deleteUninstalledModels ==
  /\ phase = "delete"
  /\ \E m \in doomed :
       /\ harbor' = [r \in {x \in DOMAIN harbor : x[1] # m} |-> harbor[r]]
       /\ doomed' = doomed \ {m}
       /\ Goto(IF doomed = {m} THEN "done" ELSE "delete")
  /\ UNCHANGED <<cacheVars, images, runVars, doubtful, toUpload, todo>>

----------------------------------------------------------------------------
(* Faults                                                                  *)

Downloading == {"prepare", "fetch", "reuse", "ref", "mark", "unselect",
                "snapshots", "blobs"}
Uploading == {"resolve", "untag", "gc", "build", "push"}
Working == {"check", "report", "images", "delete"} \cup Downloading \cup Uploading

(* How a failing step is classified, and the kinds after which "Retry" is  *)
(* offered.  "report provisioning host storage" has no recovery.           *)
Kinds == {"auth", "notfound", "network", "local", "unknown"}

recoverCheckModelArtifacts == {"auth", "network"}
recoverDownloadModels == {"auth", "network", "local"}
recoverArtifactUpload == Kinds \ {"unknown"}
recoverDeleteModels == Kinds

Retryable(p) ==
  CASE p = "check" -> recoverCheckModelArtifacts
    [] p \in Downloading -> recoverDownloadModels
    [] p \in Uploading \cup {"images"} -> recoverArtifactUpload
    [] p = "delete" -> recoverDeleteModels
    [] OTHER -> {}

Failing(kind) ==
  /\ faults < MaxFaults
  /\ faults' = faults + 1
  /\ phase' = IF kind \in Retryable(phase) THEN "recover" ELSE "idle"
  /\ failed' = IF kind \in Retryable(phase) THEN phase ELSE None
  /\ UNCHANGED <<runVars, toUpload, todo, doomed, runs>>

(* What is cut off under a marker that names no revision: a snapshot that  *)
(* is half there or half removed, which that marker vouches for.           *)
CutOff ==
  IF phase \in {"fetch", "snapshots"} /\ Dir.marker = Empty THEN {Pin.id} ELSE {}

(* A step fails: the storage is short, Hugging Face or Harbor does not     *)
(* answer, a removal is refused.  A collection that fails leaves all.      *)
StepFails ==
  /\ phase \in Working
  /\ \E kind \in Kinds : Failing(kind)
  /\ doubtful' = doubtful \cup CutOff
  /\ UNCHANGED <<cacheVars, registryVars>>

(* os.WriteFile truncates first: a failing write leaves an empty file.     *)
refCut ==
  /\ phase \in {"reuse", "ref"}
  /\ Failing("local")
  /\ SetDir([Dir EXCEPT !.ref = Empty])
  /\ UNCHANGED <<ociVars, registryVars, doubtful>>

markerIsCut ==
  /\ phase = "mark"
  /\ Failing("local")
  /\ SetDir([Dir EXCEPT !.marker = Empty])
  /\ doubtful' = doubtful \cup {Pin.id}
  /\ UNCHANGED <<ociVars, registryVars>>

(* The layers are copied into the cache before the tag is written. *)
buildInPart ==
  /\ phase = "build"
  /\ \E kind \in Kinds : Failing(kind)
  /\ copies' = copies \cup {<<Ref(Model), packStore(Model)>>}
  /\ UNCHANGED <<hub, oci, registryVars, doubtful>>

(* The manifest was pushed, but the answer is lost. *)
pushUnanswered ==
  /\ phase = "push"
  /\ Failing("network")
  /\ harbor' = With(harbor, Ref(Model), oci[Ref(Model)])
  /\ UNCHANGED <<cacheVars, images, doubtful>>

(* Some of the images are there before the step fails. *)
imagesInPart ==
  /\ phase = "images"
  /\ \E some \in SUBSET imagesToUpload : images' = images \cup some
  /\ \E kind \in Kinds : Failing(kind)
  /\ UNCHANGED <<cacheVars, harbor, doubtful>>

(* The operator retries the step, from its beginning. *)
Retry ==
  /\ phase = "recover"
  /\ failed' = None
  /\ \/ failed \in Downloading
        /\ phase' = "prepare" /\ todo' = convertModels(toUpload) /\ doomed' = {}
     \/ failed \in Uploading
        /\ phase' = "resolve" /\ todo' = toUpload /\ doomed' = {}
     \/ failed \in {"check", "images"}
        /\ phase' = failed /\ UNCHANGED <<todo, doomed>>
     \/ failed = "delete"
        /\ phase' = "delete" /\ doomed' = uninstall \ Simulated /\ UNCHANGED todo
  /\ UNCHANGED <<cacheVars, registryVars, runVars, doubtful, toUpload, runs, faults>>

(* "Skip delete models": the artifacts stay in Harbor. *)
SkipDelete ==
  /\ phase = "recover" /\ failed = "delete"
  /\ phase' = "done" /\ failed' = None /\ doomed' = {}
  /\ UNCHANGED <<cacheVars, registryVars, runVars, doubtful, toUpload, todo, runs, faults>>

Abort ==
  /\ phase = "recover"
  /\ phase' = "idle" /\ failed' = None /\ todo' = <<>> /\ doomed' = {}
  /\ UNCHANGED <<cacheVars, registryVars, runVars, doubtful, toUpload, runs, faults>>

Crash ==
  /\ phase \in Working
  /\ faults < MaxFaults
  /\ faults' = faults + 1
  /\ phase' = "idle" /\ failed' = None /\ todo' = <<>> /\ doomed' = {}
  /\ doubtful' = doubtful \cup CutOff
  /\ UNCHANGED <<cacheVars, registryVars, runVars, toUpload, runs>>

----------------------------------------------------------------------------
download == \/ Prepare \/ fetchFile \/ downloaded \/ writeRef \/ Complete
            \/ RemoveUnselected \/ unselectDone \/ removeSnapshot
            \/ snapshotsDone \/ removeBlob \/ blobsDone

upload == \/ resolveCache \/ pruneSupersededArtifacts \/ collect \/ buildCache
          \/ push \/ uploadImages \/ deleteUninstalledModels

Next ==
  \/ StartRun \/ checkModelArtifacts \/ reportModelStorage
  \/ download \/ upload
  \/ StepFails \/ refCut \/ markerIsCut \/ buildInPart \/ pushUnanswered
  \/ imagesInPart \/ Retry \/ SkipDelete \/ Abort \/ Crash

Spec == Init /\ [][Next]_vars

----------------------------------------------------------------------------
(* Properties                                                              *)

(* Layers of repository pin.id from which an offline model server loads    *)
(* exactly the pinned weights: the ref leads to the pinned commit, whose   *)
(* snapshot holds the files vLLM loads and no others, every one of them    *)
(* has its blob, and nothing else is packed.                               *)
HoldsPin(dir, pin) ==
  LET commit == Commit[pin.revision] IN
  /\ dir.ref = commit
  /\ DOMAIN dir.snapshots = {commit}
  /\ dir.snapshots[commit] = planDownload(pin)
  /\ dir.blobs = BlobsOf(pin.id, commit, planDownload(pin))

(* An artifact in the OCI cache or in Harbor holds exactly what the        *)
(* releases that ask for its tag pin, of the model's own repository and of *)
(* every dependency.  No later check looks inside an artifact again        *)
(* (cacheArtifact, checkModelArtifacts go by the tag).  The code does not  *)
(* keep this: a marker that was cut short, or that an older installer left *)
(* empty, vouches for whatever snapshot there is (complete).               *)
ArtifactIsPin ==
  \A store \in {oci, harbor} : \A ref \in DOMAIN store : \A c \in Catalogs :
    Tag[c[ref[1]][1].revision] = ref[2]
      => \A pin \in Range(c[ref[1]]) : HoldsPin(store[ref][pin.id], pin)

(* What it does keep, whatever was interrupted, retried, pruned and pinned *)
(* anew before, and whatever earlier installers left: every repository in  *)
(* an artifact is exactly the pinned one, also one that was taken over     *)
(* under an older installer's empty marker, unless a download or a removal *)
(* of this very repository was cut off while its marker named no revision, *)
(* or the write of its marker was (Prepare, Complete, trimCache).          *)
ArtifactIsPinOrDoubtful ==
  \A store \in {oci, harbor} : \A ref \in DOMAIN store : \A c \in Catalogs :
    Tag[c[ref[1]][1].revision] = ref[2]
      => \A pin \in Range(c[ref[1]]) :
           pin.id \in doubtful \/ HoldsPin(store[ref][pin.id], pin)

(* The directory has every file the model server loads of the pinned       *)
(* commit, with its blob.                                                  *)
Finished(dir, pin) ==
  LET commit == Commit[pin.revision] IN
  /\ planDownload(pin) \subseteq Linked(dir, commit)
  /\ BlobsOf(pin.id, commit, planDownload(pin)) \subseteq dir.blobs

(* A completion marker is true for as long as it stands: the snapshot of   *)
(* the revision it names has every file the model server loads, with its   *)
(* blob, also while a run for another pin downloads into the same          *)
(* directory or is killed in the middle of a removal (Prepare).            *)
MarkerTrue ==
  \A pin \in Pins : hub[pin.id].marker = pin.revision => Finished(hub[pin.id], pin)

(* Every artifact in the OCI cache is a full copy of a model.  No model    *)
(* has two tags there, and the copies that no tag reaches are at most as   *)
(* many as the steps that failed or were killed: superseded ones pile up   *)
(* only where a run is cut off between Untag and GC, or while it builds    *)
(* (pruneSupersededArtifacts, buildCache).                                 *)
OneCachedArtifact ==
  /\ \A x, y \in DOMAIN oci : x[1] = y[1] => x = y
  /\ phase # "gc" => Cardinality(Untagged) <= faults

(* "Removing them first is what lets the build fit where the superseded    *)
(* copy stood" (model_upload.go): when a model is built, no copy of it     *)
(* under an earlier pin is on the disk.  The code does not keep this       *)
(* either: a retry finds no other tag and collects nothing.                *)
BuildFits ==
  phase = "build" => ~ \E copy \in copies : copy[1][1] = Model /\ copy[1] # Ref(Model)

(* When the stage has passed, everything this run deploys is in Harbor:    *)
(* every model to serve under the tag the serving stack will ask for, and  *)
(* every image, after any retries and although this run also deleted       *)
(* models.                                                                 *)
DoneMeansMirrored ==
  phase = "done" => /\ \A m \in serve \ Simulated : Ref(m) \in DOMAIN harbor
                    /\ imagesToUpload \subseteq images

----------------------------------------------------------------------------
(***************************************************************************)
(* Why the properties hold.  The marker is written when every file is      *)
(* there and only what the pinned revision does not use is removed after   *)
(* it; an empty marker is right about every snapshot that nothing cut off; *)
(* a repository that was dealt with stays as it is until the artifacts are *)
(* packed; and what a run has to mirror is in Harbor or still ahead.       *)
(***************************************************************************)

(* The directories a repository of Hugging Face can have in the cache. *)
Paths(id) == UNION {DOMAIN Hub[id][c] : c \in DOMAIN Hub[id]}
Blobs(id) == UNION {Range(Hub[id][c]) : c \in DOMAIN Hub[id]}
Snapshots(id) ==
  {s \in UNION {[C -> SUBSET Paths(id)] : C \in SUBSET DOMAIN Hub[id]} :
     \A c \in DOMAIN s : s[c] \subseteq DOMAIN Hub[id][c]}

Directories(id) ==
  [snapshots : Snapshots(id),
   blobs : SUBSET Blobs(id),
   ref : DOMAIN Hub[id] \cup {None, Empty},
   marker : Revisions \cup {None, Empty}]

(* Earlier installers wrote a marker when everything was there: of the     *)
(* revision it names, or, when it is empty, of the snapshots that are      *)
(* there.                                                                  *)
ASSUME EarlierAssumption ==
  \A h \in EarlierCaches :
    /\ DOMAIN h = DOMAIN Hub /\ \A id \in DOMAIN Hub : h[id] \in Directories(id)
    /\ \A pin \in Pins :
         \/ h[pin.id].marker = pin.revision
         \/ h[pin.id].marker = Empty /\ HasSnapshot(h[pin.id], pin.revision)
         => Finished(h[pin.id], pin)

(* The step that runs, or that the operator may retry. *)
Doing == IF phase = "recover" THEN failed ELSE phase

PinsOf(models) == UNION {Range(catalog[m]) : m \in Range(models)}

TypeOK ==
  /\ DOMAIN hub = DOMAIN Hub /\ \A id \in DOMAIN Hub : hub[id] \in Directories(id)
  /\ catalog \in Catalogs
  /\ serve \cap uninstall = {} /\ serve \subseteq Range(Models) \cup Simulated
  /\ toUpload \in Seq(Range(Models))
  /\ Doing \in Working \cup {"idle", "done"}
  /\ phase # "recover" => failed = None
  /\ \A store \in {oci, harbor} : \A ref \in DOMAIN store : ref = <<ref[1], ref[2]>> /\ ref[1] \in Range(Models)

(* What the loops of the steps go through. *)
Looping ==
  /\ Doing \in Downloading \cup Uploading => toUpload # <<>>
  /\ phase \in Downloading => todo \in Seq(PinsOf(toUpload)) \ {<<>>}
  /\ phase \in Uploading => todo \in Seq(Range(toUpload)) \ {<<>>}

(* The marker is about the pinned revision, and right. *)
Vouched == Dir.marker = Pin.revision \/ Pin.id \notin doubtful

(* Nothing the pinned revision uses is removed, and all the rest is. *)
Trimming ==
  /\ phase \in {"ref", "mark"} => Finished(Dir, Pin)
  /\ phase \in {"reuse", "unselect", "snapshots", "blobs"} => complete(Dir, Pin.revision)
  /\ phase = "unselect" =>
       /\ doomed \subseteq Linked(Dir, Pin.revision)
       /\ Vouched => doomed = Linked(Dir, Pin.revision) \ planDownload(Pin)
  /\ phase \in {"snapshots", "blobs"} =>
       /\ HasSnapshot(Dir, Pin.revision)
       /\ Vouched => Linked(Dir, Pin.revision) = planDownload(Pin)
  /\ phase = "snapshots" => doomed = DOMAIN Dir.snapshots \ {Pin.revision}
  /\ phase = "blobs" =>
       /\ DOMAIN Dir.snapshots = {Pin.revision}
       /\ doomed = Dir.blobs \ referencedBlobs(Dir, Pin)

(* The snapshot that the run is filling or removing. *)
Underway(pin) ==
  \/ phase = "fetch" /\ pin.id = Pin.id /\ pin.revision = Commit[Pin.revision]
  \/ phase = "snapshots" /\ pin.id = Pin.id /\ pin.revision \in doomed

(* An empty marker is right about the other snapshots. *)
NamelessTrue ==
  \A pin \in Pins :
    /\ hub[pin.id].marker = Empty /\ HasSnapshot(hub[pin.id], pin.revision)
    /\ pin.id \notin doubtful
    /\ ~ Underway(pin)
    => Finished(hub[pin.id], pin)

(* What is not in Harbor is still ahead. *)
Mirroring ==
  /\ Doing \in Working \ {"check"} =>
       \A m \in serve \ Simulated : Ref(m) \in DOMAIN harbor \/ m \in Range(toUpload)
  /\ phase \in Uploading =>
       \A m \in serve \ Simulated : Ref(m) \in DOMAIN harbor \/ m \in Range(todo)
  /\ Doing \in {"images", "delete", "done"} =>
       \A m \in serve \ Simulated : Ref(m) \in DOMAIN harbor
  /\ Doing \in {"delete", "done"} => imagesToUpload \subseteq images
  /\ phase = "delete" => doomed \subseteq uninstall

(* The artifacts of earlier pins go before the new one is written. *)
Caching ==
  /\ phase = "untag" =>
       /\ Ref(Model) \notin DOMAIN oci /\ doomed # {}
       /\ doomed = {ref \in DOMAIN oci : ref[1] = Model}
  /\ phase \in {"gc", "build"} => \A ref \in DOMAIN oci : ref[1] # Model
  /\ phase = "push" => Ref(Model) \in DOMAIN oci

(* One copy is without a tag while it is to be collected. *)
Copying ==
  /\ Tagged \subseteq copies /\ IsFiniteSet(copies) /\ faults \in Nat
  /\ Cardinality(Untagged) <= IF phase = "gc" THEN faults + 1 ELSE faults

StageInv == /\ TypeOK /\ Looping /\ Trimming /\ MarkerTrue /\ NamelessTrue
            /\ Mirroring /\ Caching /\ Copying /\ OneCachedArtifact

(* What the packaged definitions and earlier caches have to agree on for   *)
(* an artifact to hold its pins; the code does not check it.  A release    *)
(* pins a repository once; a repository whose pin is cut short, which the  *)
(* cache does not trim, never has another pin, nor other files.            *)
Abbreviated(pin) == Commit[pin.revision] # pin.revision

Untrimmed(dir, pin) ==
  LET commit == Commit[pin.revision] IN
  /\ dir.ref \in {None, Empty, commit}
  /\ DOMAIN dir.snapshots \subseteq {commit}
  /\ Linked(dir, commit) \subseteq planDownload(pin)
  /\ dir.blobs \subseteq BlobsOf(pin.id, commit, planDownload(pin))

OnePinPerRelease ==
  \A c \in Catalogs : \A m, n \in Range(Models) :
    \A p \in Range(c[m]), q \in Range(c[n]) : p.id = q.id => p = q

AbbreviatedPinsStay ==
  \A p \in Pins : Abbreviated(p) =>
    /\ \A q \in Pins : q.id = p.id => q = p
    /\ \A h \in EarlierCaches : Untrimmed(h[p.id], p)

(* Two releases that give a model one tag pin the same of it. *)
TagNamesPins ==
  \A c, d \in Catalogs : \A m \in Range(Models) :
    Tag[c[m][1].revision] = Tag[d[m][1].revision] =>
      \A p \in Range(c[m]) : \E q \in Range(d[m]) :
        q.id = p.id /\ Commit[q.revision] = Commit[p.revision]

Steady == \A pin \in Pins : Abbreviated(pin) => Untrimmed(hub[pin.id], pin)

RefWritten ==
  phase \in {"mark", "unselect", "snapshots", "blobs"} => Dir.ref = Commit[Pin.revision]

Held ==
  /\ phase \in Downloading => \A pin \in PinsOf(toUpload) :
       pin \in Range(todo) \/ pin.id \in doubtful \/ HoldsPin(hub[pin.id], pin)
  /\ Doing \in Uploading => \A pin \in PinsOf(toUpload) :
       pin.id \in doubtful \/ HoldsPin(hub[pin.id], pin)

(* Every artifact holds what a release with its tag pins, apart from some  *)
(* repositories.                                                           *)
PackedIn(store, apart) ==
  \A ref \in DOMAIN store : \E c \in Catalogs :
    /\ Tag[c[ref[1]][1].revision] = ref[2]
    /\ \A pin \in Range(c[ref[1]]) :
         pin.id \in apart \/ HoldsPin(store[ref][pin.id], pin)

Packed == PackedIn(oci, doubtful) /\ PackedIn(harbor, doubtful)

(* A repository that was dealt with stays as it is until it is packed. *)
ReleaseInv == Steady /\ RefWritten /\ Held /\ Packed

IndInv == StageInv /\ ReleaseInv
=============================================================================
