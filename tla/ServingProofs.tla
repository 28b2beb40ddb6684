---------------------------- MODULE ServingProofs ----------------------------
(***************************************************************************)
(* Proofs of the safety of the serving stack, for any models, releases,    *)
(* inherited clusters and number of runs and faults.                       *)
(***************************************************************************)
EXTENDS Serving, TLAPS

\* What depends on the release alone.
LEMMA ReleaseSame ==
  ASSUME UNCHANGED release
  PROVE  /\ Catalog' = Catalog
         /\ \A m : HarborRef(m)' = HarborRef(m) /\ (HasWeights(m)' <=> HasWeights(m))
BY DEF Catalog, HarborRef, HasWeights, LoadModels

\* What depends on the config, the stack file and the platform.
LEMMA ConfigSame ==
  ASSUME UNCHANGED <<platform, file, config>>
  PROVE  \A m : ClassOf(m)' = ClassOf(m) /\ (HasSource(m)' <=> HasSource(m))
<1>1. file' = file /\ config' = config /\ platform' = platform
  OBVIOUS
<1> QED BY <1>1, SMT DEF ClassOf, HasSource

\* A step outside an update that leaves volumes, Jobs, servers and routes.
LEMMA Outside ==
  ASSUME IndInv, UNCHANGED <<platform, volumes, jobs, servers, endpoints>>, DOMAIN step' = {},
         phase' \in {"models", "mirror", "delete", "serving", "idle", "done"},
         mode' = None \/ (phase' = "done" /\ mode' = mode),
         serve' \cap uninstall' = {}, \A m \in serve' : m \in Catalog', Mirrored'
  PROVE  IndInv'
<1>1. TypeOK /\ Filled /\ Routed
  BY DEF IndInv
<1>2. phase' \in Working \cup {"idle", "done"}
  BY DEF Working, InServing
<1>3. TypeOK'
  <2>1. mode' \in {None, "update", "recreate", "destroy"}
    BY <1>1 DEF TypeOK
  <2> QED BY <1>1, <1>2, <2>1 DEF TypeOK
<1>4. Staged' /\ Configured' /\ Fitting' /\ Progress'
  BY DEF Staged, Configured, Fitting, Progress
<1>5. Filled' /\ Routed'
  BY <1>1 DEF Filled, Routed, Existing
<1> QED BY <1>3, <1>4, <1>5 DEF IndInv

-----------------------------------------------------------------------------
(* The run around the serving stack                                        *)

\* A run starts with nothing selected.
LEMMA StartRunInv == ASSUME IndInv, StartRun PROVE IndInv'
<1>1. /\ UNCHANGED <<platform, volumes, jobs, servers, endpoints>> /\ step' = <<>>
      /\ phase' = "models" /\ mode' = None /\ serve' = {} /\ uninstall' = {}
  BY DEF StartRun, clusterVars
<1>2. Mirrored'
  BY <1>1 DEF Mirrored, InServing
<1> QED BY <1>1, <1>2, Outside

\* A model is kept or uninstalled.
LEMMA SelectInv == ASSUME IndInv, selectModels PROVE IndInv'
<1>1. /\ UNCHANGED <<platform, release, volumes, jobs, servers, endpoints, mode, step>>
      /\ phase = "models" /\ phase' = "mirror"
  BY DEF selectModels, clusterVars, Goto
<1>2. mode = None /\ DOMAIN step = {}
  BY <1>1 DEF IndInv, Staged
<1>3. PICK actions : applyActions(actions)
  BY DEF selectModels
<1>4. serve' \cap uninstall' = {} /\ \A m \in serve' : m \in Catalog
  BY <1>3 DEF applyActions
<1>5. Mirrored'
  BY <1>1 DEF Mirrored, InServing
<1> QED BY <1>1, <1>2, <1>4, <1>5, ReleaseSame, Outside

\* What is served is in Harbor, and deleting what is not leaves it there.
LEMMA MirrorInv ==
  ASSUME IndInv, mirrorModels \/ deleteUninstalledModels \/ skipDelete \/ mirroredInPart
                 \/ skipServing
  PROVE  IndInv'
<1>1. /\ UNCHANGED <<platform, release, serve, uninstall, volumes, jobs, servers, endpoints,
                     mode, step>>
      /\ phase \in {"mirror", "delete", "serving"}
      /\ phase' \in {"delete", "serving", "idle", "done"}
  BY DEF mirrorModels, deleteUninstalledModels, skipDelete, mirroredInPart, skipServing,
         selectionVars, clusterVars, Goto
<1>2. mode = None /\ DOMAIN step = {} /\ serve \cap uninstall = {} /\ \A m \in serve : m \in Catalog
  BY <1>1 DEF IndInv, Staged, TypeOK
<1>3. WithWeights(serve)' = WithWeights(serve)
  BY <1>1 DEF WithWeights, HasWeights
<1>4. \A m : HarborRef(m)' = HarborRef(m) /\ HarborRef(m)[1] = m
  BY <1>1 DEF HarborRef
<1>5. CASE mirrorModels
  <2>1. \A m \in WithWeights(serve) : HarborRef(m) \in harbor'
    BY <1>5 DEF mirrorModels, Missing
  <2>2. Mirrored'
    BY <1>3, <1>4, <2>1 DEF Mirrored
  <2> QED BY <1>1, <1>2, <2>2, ReleaseSame, Outside
<1>6. CASE deleteUninstalledModels
  <2>1. \A m \in WithWeights(serve) : HarborRef(m) \in harbor
    BY <1>6 DEF IndInv, Mirrored, deleteUninstalledModels
  <2>2. \A m \in WithWeights(serve) : m \notin Unwanted
    BY <1>2 DEF Unwanted, WithWeights
  <2>3. \A m \in WithWeights(serve) : HarborRef(m) \in harbor'
    BY <1>4, <1>6, <2>1, <2>2 DEF deleteUninstalledModels
  <2>4. Mirrored'
    BY <1>3, <1>4, <2>3 DEF Mirrored
  <2> QED BY <1>1, <1>2, <2>4, ReleaseSame, Outside
<1>7. CASE skipDelete
  <2>1. harbor' = harbor /\ phase = "delete"
    BY <1>7 DEF skipDelete
  <2>2. Mirrored'
    BY <1>3, <1>4, <2>1 DEF IndInv, Mirrored
  <2> QED BY <1>1, <1>2, <2>2, ReleaseSame, Outside
<1>8. CASE mirroredInPart \/ skipServing
  <2>1. phase' \in {"idle", "done"}
    BY <1>8 DEF mirroredInPart, skipServing, Goto
  <2>2. Mirrored'
    BY <2>1 DEF Mirrored, InServing
  <2> QED BY <1>1, <1>2, <2>2, ReleaseSame, Outside
<1> QED BY <1>5, <1>6, <1>7, <1>8

\* A step that fails is retried from its beginning, or the run ends.
LEMMA FaultInv == ASSUME IndInv, Retry \/ Crash PROVE IndInv'
<1>1. /\ UNCHANGED <<platform, release, serve, uninstall, volumes, jobs, servers, endpoints,
                     harbor>>
      /\ step' = <<>> /\ mode' = None /\ phase' \in {"serving", "idle"}
      /\ phase' = "serving" => phase \in InServing
  BY DEF Retry, Crash, selectionVars, clusterVars
<1>2. serve \cap uninstall = {} /\ \A m \in serve : m \in Catalog
  BY DEF IndInv, TypeOK
<1>3. WithWeights(serve)' = WithWeights(serve) /\ \A m : HarborRef(m)' = HarborRef(m)
  BY <1>1 DEF WithWeights, HasWeights, HarborRef
<1>4. Mirrored'
  BY <1>1, <1>3 DEF IndInv, Mirrored, InServing
<1> QED BY <1>1, <1>2, <1>4, ReleaseSame, Outside

\* A volume that is updated keeps its class and does not shrink.
LEMMA DeployInv == ASSUME IndInv, deployAppServing PROVE IndInv'
<1>1. /\ UNCHANGED <<platform, release, serve, uninstall, volumes, jobs, servers, endpoints,
                     harbor, step>>
      /\ phase = "serving"
  BY DEF deployAppServing, selectionVars
<1>2. PICK answer \in {"update", "recreate"}, selected \in Classes :
        /\ config' = modelsInput(serve, answer = "recreate", selected)
        /\ mode' = answer /\ phase' = IF answer = "recreate" THEN "destroy" ELSE "load"
  BY DEF deployAppServing, Goto
<1>3. TypeOK /\ Staged /\ Mirrored /\ Filled /\ Routed /\ DOMAIN step = {}
  BY <1>1 DEF IndInv, Staged
<1>4. Catalog' = Catalog /\ \A m : HarborRef(m)' = HarborRef(m) /\ (HasWeights(m)' <=> HasWeights(m))
  BY <1>1, ReleaseSame
<1>5. TypeOK'
  BY <1>1, <1>2, <1>3, <1>4 DEF TypeOK, Working, InServing
<1>6. Staged' /\ Progress'
  BY <1>1, <1>2, <1>3 DEF Staged, Progress
<1>7. Mirrored'
  <2>1. WithWeights(serve)' = WithWeights(serve)
    BY <1>1 DEF WithWeights, HasWeights
  <2> QED BY <1>1, <1>3, <1>4, <2>1 DEF Mirrored, InServing
<1>8. /\ DOMAIN config' \subseteq serve
      /\ \A m \in DOMAIN config' :
           config'[m] = selectedModel(m, answer = "recreate", selected)
  BY <1>2 DEF modelsInput
<1>9. \A m \in DOMAIN config' :
        /\ config'[m].tag = release[m].tag
        /\ release[m].tag # None =>
             config'[m].size = modelStorageSize(m, answer = "recreate")
        /\ release[m].tag # None =>
             config'[m].class = modelStorageClass(m, answer = "recreate", selected)
  BY <1>8 DEF selectedModel, HasWeights, NoSource
<1>10. \A m \in DOMAIN config' : release[m].tag # None =>
         /\ config'[m].size \in Nat
         /\ answer = "update" /\ m \in DOMAIN volumes => volumes[m].size <= config'[m].size
  <2> SUFFICES ASSUME NEW m \in DOMAIN config', release[m].tag # None
               PROVE  /\ config'[m].size \in Nat
                      /\ answer = "update" /\ m \in DOMAIN volumes =>
                           volumes[m].size <= config'[m].size
    OBVIOUS
  <2>1. release[m].size \in Nat
    BY <1>3, <1>8, ClusterAssumption DEF TypeOK, Catalog, LoadModels, loadModel, validPin
  <2>2. m \in DOMAIN volumes => volumes[m].size \in Nat
    BY <1>3 DEF TypeOK, VolumeOK
  <2> QED BY <1>9, <2>1, <2>2 DEF modelStorageSize, Existing
<1>11. \A m : HasSource(m)' <=> config'[m].tag # None
  BY DEF HasSource
<1>12. Configured'
  BY <1>1, <1>8, <1>9, <1>10, <1>11 DEF Configured
<1>13. Fitting'
  <2> SUFFICES ASSUME phase' = "load", NEW m \in DOMAIN volumes, m \in DOMAIN config',
                      config'[m].tag # None
               PROVE  volumes[m].class = ClassOf(m)' /\ volumes[m].size <= config'[m].size
    BY <1>1, <1>2, <1>11, SMT DEF Fitting
  <2>1. answer = "update" /\ release[m].tag # None
    BY <1>2, <1>9
  <2>2. volumes[m].size <= config'[m].size
    BY <1>10, <2>1
  <2>3. volumes[m].class # Empty /\ (platform = OnPrem => volumes[m].class = "hostpath")
    BY <1>3, SMT DEF TypeOK, VolumeOK
  <2>4. platform # OnPrem => config'[m].class = volumes[m].class
    BY <1>9, <2>1, SMT DEF modelStorageClass, Existing
  <2>5. volumes[m].class = ClassOf(m)'
    BY <1>1, <2>3, <2>4, SMT DEF ClassOf, OrElse
  <2> QED BY <2>2, <2>5
<1>14. Filled' /\ Routed'
  BY <1>1, <1>3 DEF Filled, Routed, Existing
<1> QED BY <1>5, <1>6, <1>7, <1>12, <1>13, <1>14 DEF IndInv

-----------------------------------------------------------------------------
(* Pulumi removes                                                          *)

\* Nothing is deleted before what depends on it, so that routes never lead to
\* a server that is gone, and a Job goes with its volume.
LEMMA RemovalKeeps ==
  ASSUME TypeOK, Filled, Routed, NEW m, UNCHANGED platform,
         removeEndpoints(m) \/ removeServer(m) \/ removeStorage(m) \/ removeRetiredChart
  PROVE  /\ Filled' /\ Routed'
         /\ \A x \in DOMAIN volumes' : VolumeOK(volumes'[x])
              /\ (platform = OnPrem => volumes'[x].class = "hostpath")
         /\ \A x \in DOMAIN jobs' : JobOK(jobs'[x])
         /\ DOMAIN volumes' \subseteq DOMAIN volumes
         /\ \A x \in DOMAIN volumes' : volumes'[x] = volumes[x]
<1>1. CASE removeEndpoints(m)
  BY <1>1 DEF removeEndpoints, TypeOK, Filled, Routed, Existing
<1>2. CASE removeServer(m)
  <2>1. \A r \in endpoints' : r[2] \in {"route", "embedding"} => r[1] \in servers'
    BY <1>2 DEF removeServer, Routed, EndpointsOf
  <2> QED BY <1>2, <2>1 DEF removeServer, TypeOK, Filled, Routed, Existing
<1>3. CASE removeStorage(m)
  <2>1. /\ DOMAIN volumes' = DOMAIN volumes \ {m} /\ DOMAIN jobs' = DOMAIN jobs \ {m}
        /\ \A x \in DOMAIN volumes' : volumes'[x] = volumes[x]
        /\ \A x \in DOMAIN jobs' : jobs'[x] = jobs[x]
        /\ endpoints' = endpoints /\ servers' = servers
    BY <1>3 DEF removeStorage, Without
  <2>2. Filled' /\ Routed'
    BY <2>1 DEF Filled, Routed, Existing
  <2> QED BY <2>1, <2>2 DEF TypeOK
<1>4. CASE removeRetiredChart
  BY <1>4 DEF removeRetiredChart, TypeOK, Filled, Routed, Existing
<1> QED BY <1>1, <1>2, <1>3, <1>4

\* The parts of the invariant that a step keeps which changes neither the
\* selection, nor Harbor, nor the stack file, nor where the run is.
LEMMA SameRun ==
  ASSUME IndInv,
         UNCHANGED <<selectionVars, harbor, stackVars, mode, phase>>, DOMAIN step' = DOMAIN step,
         \A m \in DOMAIN step : step'[m] \in {"front", "volume", "job", "pull", "server", "served"},
         \A m \in DOMAIN volumes' : VolumeOK(volumes'[m])
           /\ (platform = OnPrem => volumes'[m].class = "hostpath"),
         \A m \in DOMAIN jobs' : JobOK(jobs'[m])
  PROVE  TypeOK' /\ Staged' /\ Mirrored' /\ Configured'
<1>1. TypeOK /\ Staged /\ Mirrored /\ Configured
  BY DEF IndInv
<1>2. /\ platform' = platform /\ release' = release /\ serve' = serve /\ uninstall' = uninstall
      /\ file' = file /\ config' = config /\ harbor' = harbor /\ mode' = mode /\ phase' = phase
  BY DEF selectionVars, stackVars
<1>3. /\ Catalog' = Catalog
      /\ \A m : HarborRef(m)' = HarborRef(m) /\ (HasSource(m)' <=> HasSource(m))
  BY <1>2, ReleaseSame, ConfigSame
<1>4. TypeOK'
  BY <1>1, <1>2, <1>3 DEF TypeOK
<1>5. Staged'
  BY <1>1, <1>2 DEF Staged
<1>6. Mirrored'
  <2>1. WithWeights(serve)' = WithWeights(serve)
    BY <1>2 DEF WithWeights, HasWeights
  <2> QED BY <1>1, <1>2, <1>3, <2>1 DEF Mirrored
<1>7. Configured'
  BY <1>1, <1>2, <1>3 DEF Configured
<1> QED BY <1>4, <1>5, <1>6, <1>7

\* A destroy takes everything away, and nothing else waits for it.
LEMMA DestroyInv == ASSUME IndInv, destroyStack PROVE IndInv'
<1>1. /\ phase = "destroy" /\ phase' = "destroy" /\ platform' = platform
      /\ UNCHANGED <<selectionVars, harbor, stackVars, mode, step, phase>>
  BY DEF destroyStack, selectionVars
<1>2. TypeOK /\ Filled /\ Routed /\ DOMAIN step = {}
  BY <1>1 DEF IndInv, Staged
<1>3. PICK m : removeEndpoints(m) \/ removeServer(m) \/ removeStorage(m) \/ removeRetiredChart
  BY DEF destroyStack
<1>4. /\ Filled' /\ Routed'
      /\ \A x \in DOMAIN volumes' : VolumeOK(volumes'[x])
           /\ (platform = OnPrem => volumes'[x].class = "hostpath")
      /\ \A x \in DOMAIN jobs' : JobOK(jobs'[x])
  BY <1>1, <1>2, <1>3, RemovalKeeps
<1>5. TypeOK' /\ Staged' /\ Mirrored' /\ Configured'
  BY <1>1, <1>2, <1>4, SameRun
<1>6. Fitting' /\ Progress'
  BY <1>1, <1>2 DEF Fitting, Progress
<1> QED BY <1>4, <1>5, <1>6 DEF IndInv

\* After a destroy there is no volume for the new config to fit.
LEMMA DestroyedInv == ASSUME IndInv, destroyed PROVE IndInv'
<1>1. /\ UNCHANGED <<platform, release, serve, uninstall, harbor, file, config, volumes, jobs,
                     servers, endpoints, mode, step>>
      /\ phase = "destroy" /\ DOMAIN volumes = {}
      /\ phase' = IF mode = "recreate" THEN "load" ELSE "done"
  BY DEF destroyed, selectionVars, stackVars, clusterVars, Goto, Deployed
<1>2. /\ TypeOK /\ Mirrored /\ Configured /\ Filled /\ Routed /\ DOMAIN step = {}
      /\ mode \in {"recreate", "destroy"}
  BY <1>1 DEF IndInv, Staged
<1>3. /\ Catalog' = Catalog
      /\ \A m : HarborRef(m)' = HarborRef(m) /\ (HasSource(m)' <=> HasSource(m))
  BY <1>1, ReleaseSame, ConfigSame
<1>4. TypeOK'
  BY <1>1, <1>2, <1>3 DEF TypeOK, Working, InServing
<1>5. Staged' /\ Progress' /\ Fitting'
  BY <1>1, <1>2 DEF Staged, Progress, Fitting
<1>6. Mirrored'
  <2>1. WithWeights(serve)' = WithWeights(serve)
    BY <1>1 DEF WithWeights, HasWeights
  <2> QED BY <1>1, <1>2, <1>3, <2>1 DEF Mirrored, InServing
<1>7. Configured'
  BY <1>1, <1>2, <1>3 DEF Configured
<1>8. Filled' /\ Routed'
  BY <1>1, <1>2 DEF Filled, Routed, Existing
<1> QED BY <1>4, <1>5, <1>6, <1>7, <1>8 DEF IndInv

\* The old config is of no use to a destroy.
LEMMA EnterDestroyInv == ASSUME IndInv, destroyAppServing PROVE IndInv'
<1>1. /\ UNCHANGED <<platform, release, serve, uninstall, harbor, volumes, jobs, servers,
                     endpoints, step>>
      /\ phase = "serving" /\ phase' = "destroy" /\ mode' = "destroy"
  BY DEF destroyAppServing, selectionVars, Goto
<1>2. TypeOK /\ Mirrored /\ Filled /\ Routed /\ DOMAIN step = {}
  BY <1>1 DEF IndInv, Staged
<1>3. Catalog' = Catalog /\ \A m : HarborRef(m)' = HarborRef(m)
  BY <1>1, ReleaseSame
<1>4. TypeOK'
  BY <1>1, <1>2, <1>3 DEF TypeOK, Working, InServing
<1>5. Staged' /\ Progress' /\ Fitting' /\ Configured'
  BY <1>1, <1>2 DEF Staged, Progress, Fitting, Configured
<1>6. Mirrored'
  <2>1. WithWeights(serve)' = WithWeights(serve)
    BY <1>1 DEF WithWeights, HasWeights
  <2> QED BY <1>1, <1>2, <1>3, <2>1 DEF Mirrored, InServing
<1>7. Filled' /\ Routed'
  BY <1>1, <1>2 DEF Filled, Routed, Existing
<1> QED BY <1>4, <1>5, <1>6, <1>7 DEF IndInv

\* Pulumi prunes what the config does not have.
LEMMA PruneInv == ASSUME IndInv, pruneModels PROVE IndInv'
<1>1. /\ phase = "up" /\ platform' = platform /\ config' = config /\ step' = step /\ file' = file
      /\ UNCHANGED <<selectionVars, harbor, stackVars, mode, step, phase>>
  BY DEF pruneModels, selectionVars, stackVars, AllServed
<1>2. TypeOK /\ Filled /\ Routed /\ Fitting /\ Progress
  BY DEF IndInv
<1>3. PICK m : \/ m \notin DOMAIN config /\ removeEndpoints(m)
               \/ m \notin DOMAIN config /\ removeServer(m)
               \/ m \notin {x \in DOMAIN config : HasSource(x)} /\ removeStorage(m)
               \/ removeRetiredChart
  BY DEF pruneModels, Obsolete, ObsoleteStorage
<1>4. /\ Filled' /\ Routed'
      /\ \A x \in DOMAIN volumes' : VolumeOK(volumes'[x])
           /\ (platform = OnPrem => volumes'[x].class = "hostpath")
      /\ \A x \in DOMAIN jobs' : JobOK(jobs'[x])
      /\ DOMAIN volumes' \subseteq DOMAIN volumes
      /\ \A x \in DOMAIN volumes' : volumes'[x] = volumes[x]
  BY <1>1, <1>2, <1>3, RemovalKeeps
<1>5. TypeOK' /\ Staged' /\ Mirrored' /\ Configured'
  BY <1>1, <1>2, <1>4, SameRun DEF TypeOK
<1>6. \A x : ClassOf(x)' = ClassOf(x) /\ (HasSource(x)' <=> HasSource(x))
  BY <1>1, ConfigSame
<1>7. Fitting'
  BY <1>1, <1>2, <1>4, <1>6 DEF Fitting
<1>8. \A x \in DOMAIN config : x \in servers => x \in servers'
  BY <1>3 DEF removeEndpoints, removeServer, removeStorage, removeRetiredChart
<1>9. \A x \in DOMAIN config : HasSource(x) =>
        /\ x \in DOMAIN volumes => x \in DOMAIN volumes'
        /\ x \in DOMAIN jobs => x \in DOMAIN jobs' /\ jobs'[x] = jobs[x]
  BY <1>3 DEF removeEndpoints, removeServer, removeStorage, removeRetiredChart, Without
<1>10. Progress'
  BY <1>1, <1>2, <1>4, <1>6, <1>8, <1>9 DEF Progress, Existing
<1> QED BY <1>4, <1>5, <1>7, <1>10 DEF IndInv

-----------------------------------------------------------------------------
(* Pulumi brings up                                                        *)

\* The program starts with every model at its beginning.
LEMMA LoadInv == ASSUME IndInv, removeLegacyModelServers PROVE IndInv'
<1>1. /\ UNCHANGED <<platform, release, serve, uninstall, harbor, file, config, volumes, jobs,
                     servers, endpoints, mode>>
      /\ phase = "load" /\ phase' = "up"
      /\ step' = [m \in DOMAIN config |-> "front"]
  BY DEF removeLegacyModelServers, selectionVars, stackVars, Goto
<1>2. TypeOK /\ Staged /\ Mirrored /\ Configured /\ Fitting /\ Filled /\ Routed
  BY DEF IndInv
<1>3. /\ Catalog' = Catalog /\ \A m : HarborRef(m)' = HarborRef(m)
      /\ \A m : ClassOf(m)' = ClassOf(m) /\ (HasSource(m)' <=> HasSource(m))
  BY <1>1, ReleaseSame, ConfigSame
<1>4. DOMAIN step' = DOMAIN config /\ \A m \in DOMAIN step' : step'[m] = "front"
  BY <1>1
<1>5. TypeOK'
  BY <1>1, <1>2, <1>3, <1>4 DEF TypeOK, Working, InServing
<1>6. Staged'
  BY <1>1, <1>2 DEF Staged
<1>7. Mirrored'
  <2>1. WithWeights(serve)' = WithWeights(serve)
    BY <1>1 DEF WithWeights, HasWeights
  <2> QED BY <1>1, <1>2, <1>3, <2>1 DEF Mirrored, InServing
<1>8. Configured' /\ Fitting'
  BY <1>1, <1>2, <1>3 DEF Configured, Fitting
<1>9. Progress'
  BY <1>1, <1>4 DEF Progress
<1>10. Filled' /\ Routed'
  BY <1>1, <1>2 DEF Filled, Routed, Existing
<1> QED BY <1>5, <1>6, <1>7, <1>8, <1>9, <1>10 DEF IndInv

\* A step of one model leaves how far the others are.
LEMMA Advances ==
  ASSUME IndInv, NEW m, NEW s, NEW t, At(m, s), Advance(m, t),
         t \in {"front", "volume", "job", "pull", "server", "served"}
  PROVE  /\ UNCHANGED <<selectionVars, harbor, stackVars, mode, phase>>
         /\ platform' = platform /\ file' = file /\ config' = config /\ phase = "up"
         /\ DOMAIN step' = DOMAIN step /\ m \in DOMAIN step /\ step[m] = s /\ step'[m] = t
         /\ \A x \in DOMAIN step \ {m} : step'[x] = step[x]
         /\ \A x \in DOMAIN step : step'[x] \in {"front", "volume", "job", "pull", "server", "served"}
         /\ m \in DOMAIN config
         /\ \A x : ClassOf(x)' = ClassOf(x) /\ (HasSource(x)' <=> HasSource(x))
<1>1. /\ UNCHANGED <<selectionVars, harbor, stackVars, mode, phase>>
      /\ platform' = platform /\ file' = file /\ config' = config
      /\ step' = [step EXCEPT ![m] = t]
  BY DEF Advance, selectionVars, stackVars
<1>2. m \in DOMAIN step /\ step[m] = s /\ phase = "up"
  BY DEF At
<1>3. \A x \in DOMAIN step : step[x] \in {"front", "volume", "job", "pull", "server", "served"}
  BY DEF IndInv, TypeOK
<1>4. m \in DOMAIN config
  BY <1>2 DEF IndInv, Progress
<1>5. \A x : ClassOf(x)' = ClassOf(x) /\ (HasSource(x)' <=> HasSource(x))
  BY <1>1, ConfigSame
<1>6. /\ DOMAIN step' = DOMAIN step /\ step'[m] = t
      /\ \A x \in DOMAIN step \ {m} : step'[x] = step[x]
  BY <1>1, <1>2
<1> QED BY <1>1, <1>2, <1>3, <1>4, <1>5, <1>6

\* What leads to a model's Service needs no server.
LEMMA FrontInv == ASSUME IndInv, NEW m, deployFront(m) PROVE IndInv'
<1>1. /\ At(m, "front") /\ Advance(m, "volume") /\ endpoints' = endpoints \cup FrontOf(m)
      /\ volumes' = volumes /\ jobs' = jobs /\ servers' = servers
  BY DEF deployFront
<1>2. /\ UNCHANGED <<selectionVars, harbor, stackVars, mode, phase>>
      /\ DOMAIN step' = DOMAIN step /\ step'[m] = "volume" /\ m \in DOMAIN step
      /\ \A x \in DOMAIN step \ {m} : step'[x] = step[x]
      /\ \A x \in DOMAIN step : step'[x] \in {"front", "volume", "job", "pull", "server", "served"}
      /\ config' = config
      /\ \A x : ClassOf(x)' = ClassOf(x) /\ (HasSource(x)' <=> HasSource(x))
  BY <1>1, Advances
<1>3. TypeOK /\ Fitting /\ Filled /\ Progress /\ Routed
  BY DEF IndInv
<1>4. TypeOK' /\ Staged' /\ Mirrored' /\ Configured'
  BY <1>1, <1>2, <1>3, SameRun DEF TypeOK
<1>5. Fitting' /\ Filled'
  BY <1>1, <1>2, <1>3 DEF Fitting, Filled, Existing
<1>6. Progress'
  BY <1>1, <1>2, <1>3 DEF Progress, Existing
<1>7. \A r \in FrontOf(m) : r[2] \notin {"route", "embedding"}
  BY DEF FrontOf, Gateway, Router, PullSecret
<1>8. Routed'
  BY <1>1, <1>3, <1>7 DEF Routed
<1> QED BY <1>4, <1>5, <1>6, <1>8 DEF IndInv

\* A claim always gets a class.
LEMMA ClassGiven ==
  ASSUME NEW m
  PROVE  ClassOf(m) # Empty \/ platform = OnPrem
BY ClusterAssumption DEF ClassOf, OrElse

\* A volume that is there keeps its class and its content, so that a Job that
\* is complete stays true; a new one is empty and no Job is complete for it.
LEMMA VolumeStep ==
  ASSUME IndInv, NEW m, createVolume(m)
  PROVE  /\ \A x \in DOMAIN volumes' : VolumeOK(volumes'[x])
              /\ (platform = OnPrem => volumes'[x].class = "hostpath")
         /\ DOMAIN volumes \subseteq DOMAIN volumes'
         /\ DOMAIN volumes' \subseteq DOMAIN volumes \cup {m}
         /\ \A x \in DOMAIN volumes \ {m} : volumes'[x] = volumes[x]
         /\ HasSource(m) => /\ m \in DOMAIN volumes' /\ volumes'[m].class = ClassOf(m)
                            /\ volumes'[m].size = config[m].size
         /\ m \in DOMAIN volumes =>
              /\ volumes'[m].pulled = volumes[m].pulled /\ volumes'[m].content = volumes[m].content
              /\ volumes'[m].class = volumes[m].class
              /\ ~HasSource(m) => volumes'[m] = volumes[m]
<1>1. /\ phase = "up" /\ m \in DOMAIN step /\ m \in DOMAIN config
      /\ TypeOK /\ Configured /\ Fitting /\ Filled
  BY DEF createVolume, At, IndInv, Progress
<1>2. CASE ~HasSource(m)
  <2>1. volumes' = volumes
    BY <1>2 DEF createVolume
  <2> QED BY <1>1, <1>2, <2>1 DEF TypeOK
<1>3. CASE HasSource(m) /\ m \in DOMAIN volumes
  <2>1. /\ volumes[m].class = ClassOf(m) /\ config[m].size \in Nat /\ VolumeOK(volumes[m])
        /\ (platform = OnPrem => volumes[m].class = "hostpath")
    BY <1>1, <1>3 DEF Fitting, Configured, TypeOK
  <2>2. volumes' = [volumes EXCEPT ![m].size = config[m].size]
    BY <1>3, <2>1 DEF createVolume, Existing
  <2> DEFINE v == [volumes[m] EXCEPT !.size = config[m].size]
  <2>3. /\ v.class = volumes[m].class /\ v.content = volumes[m].content
        /\ v.pulled = volumes[m].pulled /\ v.size = config[m].size /\ VolumeOK(v)
    BY <2>1 DEF VolumeOK
  <2>4. /\ DOMAIN volumes' = DOMAIN volumes /\ volumes'[m] = v
        /\ \A x \in DOMAIN volumes \ {m} : volumes'[x] = volumes[x]
    BY <1>3, <2>2
  <2> HIDE DEF v
  <2> QED BY <1>1, <1>3, <2>1, <2>3, <2>4 DEF TypeOK
<1>4. CASE HasSource(m) /\ m \notin DOMAIN volumes
  <2>1. volumes' = Having(volumes, m, EmptyVolume(m))
    BY <1>4 DEF createVolume, Existing
  <2> DEFINE v == EmptyVolume(m)
  <2>2. /\ DOMAIN volumes' = DOMAIN volumes \cup {m} /\ volumes'[m] = v
        /\ \A x \in DOMAIN volumes \ {m} : volumes'[x] = volumes[x]
    BY <1>4, <2>1 DEF Having
  <2>3. config[m].size \in Nat
    BY <1>1, <1>4 DEF Configured
  <2>4. platform = OnPrem => ClassOf(m) = "hostpath"
    BY DEF ClassOf
  <2>5. ClassOf(m) # Empty
    <3>1. "hostpath" # Empty
      BY SMT DEF Empty
    <3> QED BY <2>4, <3>1, ClassGiven
  <2>6. v.class = ClassOf(m) /\ v.size = config[m].size /\ VolumeOK(v)
    BY <2>3, <2>5 DEF EmptyVolume, VolumeOK
  <2> HIDE DEF v
  <2> QED BY <1>1, <1>4, <2>2, <2>4, <2>6 DEF TypeOK
<1> QED BY <1>2, <1>3, <1>4

\* The claim of a model is created or resized.
LEMMA VolumeInv == ASSUME IndInv, NEW m, createVolume(m) PROVE IndInv'
<1>1. /\ At(m, "volume") /\ Advance(m, "job") /\ endpoints' = endpoints
      /\ jobs' = jobs /\ servers' = servers
  BY DEF createVolume
<1>2. /\ UNCHANGED <<selectionVars, harbor, stackVars, mode, phase>>
      /\ DOMAIN step' = DOMAIN step /\ step'[m] = "job" /\ m \in DOMAIN step
      /\ \A x \in DOMAIN step \ {m} : step'[x] = step[x]
      /\ \A x \in DOMAIN step : step'[x] \in {"front", "volume", "job", "pull", "server", "served"}
      /\ config' = config /\ m \in DOMAIN config /\ phase = "up"
      /\ \A x : ClassOf(x)' = ClassOf(x) /\ (HasSource(x)' <=> HasSource(x))
  BY <1>1, Advances
<1>3. TypeOK /\ Configured /\ Fitting /\ Filled /\ Progress /\ Routed
  BY DEF IndInv
<1>4. /\ \A x \in DOMAIN volumes' : VolumeOK(volumes'[x])
           /\ (platform = OnPrem => volumes'[x].class = "hostpath")
      /\ DOMAIN volumes \subseteq DOMAIN volumes'
      /\ DOMAIN volumes' \subseteq DOMAIN volumes \cup {m}
      /\ \A x \in DOMAIN volumes \ {m} : volumes'[x] = volumes[x]
      /\ HasSource(m) => /\ m \in DOMAIN volumes' /\ volumes'[m].class = ClassOf(m)
                         /\ volumes'[m].size = config[m].size
      /\ m \in DOMAIN volumes => volumes'[m].pulled = volumes[m].pulled
  BY VolumeStep
<1>5. TypeOK' /\ Staged' /\ Mirrored' /\ Configured'
  <2>1. \A x \in DOMAIN jobs' : JobOK(jobs'[x])
    BY <1>1, <1>3 DEF TypeOK
  <2> QED BY <1>2, <1>4, <2>1, SameRun
<1>6. HasSource(m) => config[m].size \in Nat
  BY <1>2, <1>3 DEF Configured
<1>7. Fitting'
  <2> SUFFICES ASSUME NEW x \in DOMAIN volumes', x \in DOMAIN config, HasSource(x)
               PROVE  volumes'[x].class = ClassOf(x) /\ volumes'[x].size <= config[x].size
    BY <1>2 DEF Fitting
  <2>1. CASE x = m
    BY <1>4, <1>6, <2>1
  <2>2. CASE x # m
    BY <1>2, <1>3, <1>4, <2>2 DEF Fitting
  <2> QED BY <2>1, <2>2
<1>8. Filled'
  BY <1>1, <1>3, <1>4 DEF Filled, Existing
<1>9. Progress'
  BY <1>1, <1>2, <1>3, <1>4 DEF Progress, Existing
<1>10. Routed'
  BY <1>1, <1>3 DEF Routed
<1> QED BY <1>5, <1>7, <1>8, <1>9, <1>10 DEF IndInv

\* A Job is left alone while its spec is the same, and otherwise runs anew.
LEMMA JobInv == ASSUME IndInv, NEW m, createJob(m) PROVE IndInv'
<1>1. /\ At(m, "job") /\ Advance(m, "pull") /\ endpoints' = endpoints
      /\ volumes' = volumes /\ servers' = servers
  BY DEF createJob
<1>2. /\ UNCHANGED <<selectionVars, harbor, stackVars, mode, phase>>
      /\ DOMAIN step' = DOMAIN step /\ step[m] = "job" /\ step'[m] = "pull" /\ m \in DOMAIN step
      /\ \A x \in DOMAIN step \ {m} : step'[x] = step[x]
      /\ \A x \in DOMAIN step : step'[x] \in {"front", "volume", "job", "pull", "server", "served"}
      /\ config' = config /\ m \in DOMAIN config
      /\ \A x : ClassOf(x)' = ClassOf(x) /\ (HasSource(x)' <=> HasSource(x))
  BY <1>1, Advances
<1>3. TypeOK /\ Fitting /\ Filled /\ Progress /\ Routed
  BY DEF IndInv
<1>4. /\ \A x \in DOMAIN jobs \ {m} : x \in DOMAIN jobs' /\ jobs'[x] = jobs[x]
      /\ \A x \in DOMAIN jobs' : \/ x \in DOMAIN jobs /\ jobs'[x] = jobs[x]
                                 \/ jobs'[x] = [tag |-> config[m].tag, status |-> "running"]
      /\ HasSource(m) => m \in DOMAIN jobs' /\ jobs'[m].tag = config[m].tag
  BY DEF createJob, SameJob, Having
<1>5. TypeOK' /\ Staged' /\ Mirrored' /\ Configured'
  <2>1. \A x \in DOMAIN jobs' : JobOK(jobs'[x])
    BY <1>3, <1>4 DEF TypeOK, JobOK
  <2>2. \A x \in DOMAIN volumes' : VolumeOK(volumes'[x])
          /\ (platform = OnPrem => volumes'[x].class = "hostpath")
    BY <1>1, <1>3 DEF TypeOK
  <2> QED BY <1>2, <2>1, <2>2, SameRun
<1>6. Fitting'
  BY <1>1, <1>2, <1>3 DEF Fitting
<1>7. Filled'
  BY <1>1, <1>3, <1>4 DEF Filled, Existing
<1>8. Progress'
  BY <1>1, <1>2, <1>3, <1>4 DEF Progress, Existing
<1>9. Routed'
  BY <1>1, <1>3 DEF Routed
<1> QED BY <1>5, <1>6, <1>7, <1>8, <1>9 DEF IndInv

\* The server starts once the Job is complete, which stands for a full volume.
LEMMA ServerInv == ASSUME IndInv, NEW m, deployServer(m) PROVE IndInv'
<1>1. /\ At(m, "pull") /\ Advance(m, "server") /\ endpoints' = endpoints /\ serverDeps(m)
      /\ volumes' = volumes /\ jobs' = jobs /\ servers' = servers \cup {m}
  BY DEF deployServer
<1>2. /\ UNCHANGED <<selectionVars, harbor, stackVars, mode, phase>>
      /\ DOMAIN step' = DOMAIN step /\ step'[m] = "server" /\ m \in DOMAIN step
      /\ \A x \in DOMAIN step \ {m} : step'[x] = step[x]
      /\ \A x \in DOMAIN step : step'[x] \in {"front", "volume", "job", "pull", "server", "served"}
      /\ config' = config /\ m \in DOMAIN config
      /\ \A x : ClassOf(x)' = ClassOf(x) /\ (HasSource(x)' <=> HasSource(x))
  BY <1>1, Advances
<1>3. TypeOK /\ Fitting /\ Filled /\ Progress /\ Routed
  BY DEF IndInv
<1>4. HasSource(m) => Existing(m) /\ volumes[m].pulled
  BY <1>1, <1>3 DEF serverDeps, Filled
<1>5. TypeOK' /\ Staged' /\ Mirrored' /\ Configured'
  BY <1>1, <1>2, <1>3, SameRun DEF TypeOK
<1>6. Fitting' /\ Filled'
  BY <1>1, <1>2, <1>3 DEF Fitting, Filled, Existing
<1>7. Progress'
  BY <1>1, <1>2, <1>3, <1>4 DEF Progress, Existing
<1>8. Routed'
  BY <1>1, <1>3 DEF Routed
<1> QED BY <1>5, <1>6, <1>7, <1>8 DEF IndInv

\* Routes are made last, to a server that is there.
LEMMA RoutesInv == ASSUME IndInv, NEW m, deployRoutes(m) PROVE IndInv'
<1>1. /\ At(m, "server") /\ Advance(m, "served") /\ endpoints' = endpoints \cup Routes(m)
      /\ volumes' = volumes /\ jobs' = jobs /\ servers' = servers
  BY DEF deployRoutes
<1>2. /\ UNCHANGED <<selectionVars, harbor, stackVars, mode, phase>>
      /\ DOMAIN step' = DOMAIN step /\ step[m] = "server" /\ step'[m] = "served"
      /\ m \in DOMAIN step
      /\ \A x \in DOMAIN step \ {m} : step'[x] = step[x]
      /\ \A x \in DOMAIN step : step'[x] \in {"front", "volume", "job", "pull", "server", "served"}
      /\ config' = config /\ m \in DOMAIN config
      /\ \A x : ClassOf(x)' = ClassOf(x) /\ (HasSource(x)' <=> HasSource(x))
  BY <1>1, Advances
<1>3. TypeOK /\ Fitting /\ Filled /\ Progress /\ Routed
  BY DEF IndInv
<1>4. m \in servers
  BY <1>2, <1>3 DEF Progress
<1>5. TypeOK' /\ Staged' /\ Mirrored' /\ Configured'
  BY <1>1, <1>2, <1>3, SameRun DEF TypeOK
<1>6. Fitting' /\ Filled'
  BY <1>1, <1>2, <1>3 DEF Fitting, Filled, Existing
<1>7. Progress'
  BY <1>1, <1>2, <1>3 DEF Progress, Existing
<1>8. \A r \in Routes(m) : r[1] = m
  BY DEF Routes, HTTPRoute, EmbeddingService
<1>9. Routed'
  BY <1>1, <1>3, <1>4, <1>8 DEF Routed
<1> QED BY <1>5, <1>6, <1>7, <1>9 DEF IndInv

\* The update ends when every model is served and nothing else is left.
LEMMA DeployedInv == ASSUME IndInv, deployed PROVE IndInv'
<1>1. /\ UNCHANGED <<platform, release, serve, uninstall, harbor, file, config, volumes, jobs,
                     servers, endpoints, mode, step>>
      /\ phase' = "done"
  BY DEF deployed, selectionVars, stackVars, clusterVars, Goto
<1>2. TypeOK /\ Staged /\ Filled /\ Progress /\ Routed
  BY DEF IndInv
<1>3. /\ Catalog' = Catalog
      /\ \A x : ClassOf(x)' = ClassOf(x) /\ (HasSource(x)' <=> HasSource(x))
  BY <1>1, ReleaseSame, ConfigSame
<1>4. TypeOK'
  BY <1>1, <1>2, <1>3 DEF TypeOK
<1>5. Staged' /\ Mirrored' /\ Configured' /\ Fitting'
  BY <1>1, <1>2 DEF Staged, Mirrored, InServing, Configured, Fitting
<1>6. Filled' /\ Routed'
  BY <1>1, <1>2 DEF Filled, Routed, Existing
<1>7. Progress'
  BY <1>1, <1>2, <1>3 DEF Progress, Existing
<1> QED BY <1>4, <1>5, <1>6, <1>7 DEF IndInv

-----------------------------------------------------------------------------
(* Kubernetes and the operator                                             *)

\* A pull fills a volume or part of it; a full volume is left as it is.
LEMMA PullStep ==
  ASSUME IndInv, NEW m, pullCmd(m) \/ pullFails(m)
  PROVE  /\ UNCHANGED <<selectionVars, harbor, stackVars, servers, endpoints, mode, step, phase>>
         /\ DOMAIN volumes' = DOMAIN volumes /\ DOMAIN jobs' = DOMAIN jobs
         /\ m \in DOMAIN volumes /\ m \in DOMAIN jobs
         /\ \A x \in DOMAIN volumes \ {m} : volumes'[x] = volumes[x]
         /\ \A x \in DOMAIN jobs \ {m} : jobs'[x] = jobs[x]
         /\ volumes'[m].class = volumes[m].class /\ volumes'[m].size = volumes[m].size
         /\ volumes[m].pulled => volumes'[m] = volumes[m]
         /\ VolumeOK(volumes'[m])
         /\ jobs'[m].tag = jobs[m].tag /\ JobOK(jobs'[m])
         /\ jobs'[m].status = "complete" => volumes'[m].pulled
<1>1. /\ m \in DOMAIN volumes /\ m \in DOMAIN jobs /\ VolumeOK(volumes[m]) /\ JobOK(jobs[m])
      /\ UNCHANGED <<selectionVars, harbor, stackVars, servers, endpoints, mode, step, phase>>
  BY DEF pullCmd, pullFails, Pulling, Existing, IndInv, TypeOK
<1>2. PICK s \in {"running", "failed", "complete"} :
        /\ jobs' = [jobs EXCEPT ![m].status = s]
        /\ s = "complete" => pullCmd(m)
  BY DEF pullCmd, pullFails
<1> DEFINE j == [jobs[m] EXCEPT !.status = s]
<1>3. j.tag = jobs[m].tag /\ j.status = s /\ JobOK(j)
  BY <1>1 DEF JobOK
<1>4. /\ DOMAIN jobs' = DOMAIN jobs /\ jobs'[m] = j
      /\ \A x \in DOMAIN jobs \ {m} : jobs'[x] = jobs[x]
  BY <1>1, <1>2
<1> HIDE DEF j
<1>5. CASE pullCmd(m) /\ volumes[m].pulled
  <2>1. volumes' = volumes
    BY <1>5 DEF pullCmd
  <2> QED BY <1>1, <1>3, <1>4, <1>5, <2>1
<1>6. CASE pullCmd(m) /\ ~volumes[m].pulled
  <2>1. volumes' = [volumes EXCEPT ![m] = FullVolume(m)]
    BY <1>6 DEF pullCmd
  <2> DEFINE v == FullVolume(m)
  <2>2. /\ v.class = volumes[m].class /\ v.size = volumes[m].size /\ v.pulled
        /\ VolumeOK(v)
    BY <1>1 DEF VolumeOK, FullVolume
  <2>3. /\ DOMAIN volumes' = DOMAIN volumes /\ volumes'[m] = v
        /\ \A x \in DOMAIN volumes \ {m} : volumes'[x] = volumes[x]
    BY <1>1, <2>1
  <2> HIDE DEF v
  <2> QED BY <1>1, <1>3, <1>4, <1>6, <2>2, <2>3
<1>7. CASE pullFails(m)
  <2> DEFINE v == [volumes[m] EXCEPT !.content = "partial"]
  <2>1. v.class = volumes[m].class /\ v.size = volumes[m].size /\ VolumeOK(v)
    BY <1>1 DEF VolumeOK
  <2>2. volumes' = [volumes EXCEPT ![m].content = "partial"] /\ ~volumes[m].pulled
    BY <1>7 DEF pullFails
  <2>3. /\ DOMAIN volumes' = DOMAIN volumes /\ volumes'[m] = v
        /\ \A x \in DOMAIN volumes \ {m} : volumes'[x] = volumes[x]
    BY <1>1, <2>2
  <2>4. jobs'[m].status # "complete"
    <3>1. PICK t \in {"running", "failed"} : jobs' = [jobs EXCEPT ![m].status = t]
      BY <1>7 DEF pullFails
    <3>2. jobs'[m].status = t
      BY <1>1, <3>1 DEF JobOK
    <3> QED BY <3>1, <3>2
  <2> HIDE DEF v
  <2> QED BY <1>1, <1>3, <1>4, <2>1, <2>2, <2>3, <2>4
<1> QED BY <1>5, <1>6, <1>7

\* The Job of a model runs on while the installer does something else.
LEMMA PullInv == ASSUME IndInv, KubernetesNext PROVE IndInv'
<1>1. PICK m : pullCmd(m) \/ pullFails(m)
  BY DEF KubernetesNext
<1>2. /\ UNCHANGED <<selectionVars, harbor, stackVars, servers, endpoints, mode, step, phase>>
      /\ DOMAIN volumes' = DOMAIN volumes /\ DOMAIN jobs' = DOMAIN jobs
      /\ m \in DOMAIN volumes /\ m \in DOMAIN jobs
      /\ \A x \in DOMAIN volumes \ {m} : volumes'[x] = volumes[x]
      /\ \A x \in DOMAIN jobs \ {m} : jobs'[x] = jobs[x]
      /\ volumes'[m].class = volumes[m].class /\ volumes'[m].size = volumes[m].size
      /\ volumes[m].pulled => volumes'[m] = volumes[m]
      /\ VolumeOK(volumes'[m])
      /\ jobs'[m].tag = jobs[m].tag /\ JobOK(jobs'[m])
      /\ jobs'[m].status = "complete" => volumes'[m].pulled
  BY <1>1, PullStep
<1>3. TypeOK /\ Fitting /\ Filled /\ Progress /\ Routed
  BY DEF IndInv
<1>4. /\ platform' = platform /\ file' = file /\ config' = config /\ phase' = phase
      /\ servers' = servers /\ step' = step
      /\ \A x : ClassOf(x)' = ClassOf(x) /\ (HasSource(x)' <=> HasSource(x))
  <2>1. /\ platform' = platform /\ file' = file /\ config' = config /\ phase' = phase
        /\ servers' = servers /\ step' = step
    BY <1>2 DEF selectionVars, stackVars
  <2> QED BY <2>1, ConfigSame
<1>5. TypeOK' /\ Staged' /\ Mirrored' /\ Configured'
  <2>1. \A x \in DOMAIN jobs' : JobOK(jobs'[x])
    BY <1>2, <1>3 DEF TypeOK
  <2>2. \A x \in DOMAIN volumes' : VolumeOK(volumes'[x])
          /\ (platform = OnPrem => volumes'[x].class = "hostpath")
    BY <1>2, <1>3 DEF TypeOK
  <2>3. /\ DOMAIN step' = DOMAIN step
        /\ \A x \in DOMAIN step : step'[x] \in {"front", "volume", "job", "pull", "server", "served"}
    BY <1>3, <1>4 DEF TypeOK
  <2> QED BY <1>2, <2>1, <2>2, <2>3, SameRun
<1>6. Fitting'
  BY <1>2, <1>3, <1>4 DEF Fitting
<1>7. Filled'
  BY <1>2, <1>3 DEF Filled, Existing
<1>8. Progress'
  BY <1>2, <1>3, <1>4 DEF Progress, Existing
<1>9. Routed'
  BY <1>2, <1>3 DEF Routed
<1> QED BY <1>5, <1>6, <1>7, <1>8, <1>9 DEF IndInv

\* By hand a failed Job goes together with its volume, and only between updates.
LEMMA ByHandInv == ASSUME IndInv, deletesPullByHand PROVE IndInv'
<1>1. /\ phase \in {"idle", "serving"} /\ platform' = platform
      /\ UNCHANGED <<selectionVars, harbor, stackVars, mode, step, phase>>
      /\ step' = step /\ phase' = phase
  BY DEF deletesPullByHand, selectionVars
<1>2. TypeOK /\ Filled /\ Routed /\ DOMAIN step = {}
  BY <1>1 DEF IndInv, Staged
<1>3. PICK m : removeStorage(m)
  BY DEF deletesPullByHand
<1>4. /\ Filled' /\ Routed'
      /\ \A x \in DOMAIN volumes' : VolumeOK(volumes'[x])
           /\ (platform = OnPrem => volumes'[x].class = "hostpath")
      /\ \A x \in DOMAIN jobs' : JobOK(jobs'[x])
  BY <1>1, <1>2, <1>3, RemovalKeeps
<1>5. TypeOK' /\ Staged' /\ Mirrored' /\ Configured'
  BY <1>1, <1>2, <1>4, SameRun
<1>6. Fitting' /\ Progress'
  BY <1>1, <1>2 DEF Fitting, Progress
<1> QED BY <1>4, <1>5, <1>6 DEF IndInv

\* A finished Job expires; a node goes away.
LEMMA EnvironmentInv == ASSUME IndInv, jobExpires \/ nodeLost \/ UNCHANGED vars PROVE IndInv'
<1>1. /\ UNCHANGED <<selectionVars, harbor, stackVars, volumes, servers, endpoints, mode, step, phase>>
      /\ DOMAIN jobs' \subseteq DOMAIN jobs /\ \A x \in DOMAIN jobs' : jobs'[x] = jobs[x]
      /\ jobs' = jobs \/ phase = "idle"
  BY DEF jobExpires, nodeLost, vars, clusterVars, Without
<1>2. TypeOK /\ Staged /\ Fitting /\ Filled /\ Progress /\ Routed
  BY DEF IndInv
<1>3. /\ platform' = platform /\ file' = file /\ config' = config /\ phase' = phase
      /\ servers' = servers /\ step' = step /\ volumes' = volumes
      /\ \A x : ClassOf(x)' = ClassOf(x) /\ (HasSource(x)' <=> HasSource(x))
  <2>1. /\ platform' = platform /\ file' = file /\ config' = config /\ phase' = phase
        /\ servers' = servers /\ step' = step /\ volumes' = volumes
    BY <1>1 DEF selectionVars, stackVars
  <2> QED BY <2>1, ConfigSame
<1>4. TypeOK' /\ Staged' /\ Mirrored' /\ Configured'
  BY <1>1, <1>2, <1>3, SameRun DEF TypeOK
<1>5. Fitting' /\ Filled'
  BY <1>1, <1>2, <1>3 DEF Fitting, Filled, Existing
<1>6. Progress'
  BY <1>1, <1>2, <1>3 DEF Progress, Staged, Existing
<1>7. Routed'
  BY <1>1, <1>2 DEF Routed
<1> QED BY <1>4, <1>5, <1>6, <1>7 DEF IndInv

-----------------------------------------------------------------------------
(* The invariant, and what it says                                         *)

\* The first run meets no Job and no route of this stack.
LEMMA InitInv == ASSUME Init PROVE IndInv
<1>1. /\ platform \in Platforms /\ serve = {} /\ uninstall = {} /\ mode = None /\ phase = "idle"
      /\ step = <<>> /\ jobs = <<>> /\ endpoints = {}
  BY DEF Init, Platforms
<1>2. PICK c \in Inherited :
        volumes = [m \in DOMAIN c.volumes |->
                     [c.volumes[m] EXCEPT !.class = IF platform = OnPrem THEN "hostpath" ELSE @]]
  BY DEF Init
<1>3. ASSUME NEW m \in DOMAIN volumes
      PROVE  VolumeOK(volumes[m]) /\ (platform = OnPrem => volumes[m].class = "hostpath")
  <2>1. m \in DOMAIN c.volumes /\ VolumeOK(c.volumes[m])
    BY <1>2, <1>3, ClusterAssumption
  <2> DEFINE v == c.volumes[m]
             k == IF platform = OnPrem THEN "hostpath" ELSE v.class
  <2>2. volumes[m] = [v EXCEPT !.class = k]
    BY <1>2, <2>1
  <2>3. k # Empty
    <3>1. "hostpath" # Empty
      BY SMT DEF Empty
    <3>2. v.class # Empty
      BY <2>1 DEF VolumeOK
    <3> QED BY <3>1, <3>2
  <2>4. platform = OnPrem => k = "hostpath"
    OBVIOUS
  <2>5. VolumeOK(v)
    BY <2>1
  <2> HIDE DEF v, k
  <2>6. volumes[m].class = k /\ VolumeOK(volumes[m])
    BY <2>2, <2>3, <2>5 DEF VolumeOK
  <2> QED BY <2>4, <2>6
<1>4. DOMAIN step = {} /\ DOMAIN jobs = {}
  BY <1>1
<1>5. TypeOK
  BY <1>1, <1>3, <1>4 DEF TypeOK
<1>6. Staged /\ Mirrored /\ Configured /\ Fitting
  BY <1>1, <1>4 DEF Staged, Mirrored, InServing, Configured, Fitting
<1>7. Filled /\ Progress /\ Routed
  BY <1>1, <1>4 DEF Filled, Progress, Routed
<1> QED BY <1>5, <1>6, <1>7 DEF IndInv

\* Every step keeps the invariant.
LEMMA StepInv == ASSUME IndInv, [Next]_vars PROVE IndInv'
<1>1. CASE StartRun \/ selectModels \/ Retry \/ Crash
  BY <1>1, StartRunInv, SelectInv, FaultInv
<1>2. CASE mirrorModels \/ deleteUninstalledModels \/ skipDelete \/ mirroredInPart \/ skipServing
  BY <1>2, MirrorInv
<1>3. CASE deployAppServing \/ destroyAppServing \/ destroyStack \/ destroyed
  BY <1>3, DeployInv, EnterDestroyInv, DestroyInv, DestroyedInv
<1>4. CASE removeLegacyModelServers \/ pruneModels \/ deployed
  BY <1>4, LoadInv, PruneInv, DeployedInv
<1>5. CASE deployModels
  BY <1>5, FrontInv, VolumeInv, JobInv, ServerInv, RoutesInv DEF deployModels, deployModel
<1>6. CASE KubernetesNext \/ deletesPullByHand
  BY <1>6, PullInv, ByHandInv
<1>7. CASE jobExpires \/ nodeLost \/ UNCHANGED vars
  BY <1>7, EnvironmentInv
<1> QED BY <1>1, <1>2, <1>3, <1>4, <1>5, <1>6, <1>7 DEF Next

\* The config of a run is of its release and its artifacts are in Harbor; a
\* volume fits its config, a complete Job has filled its volume, a model that
\* is brought up has what its step needs, and routes lead to servers.
THEOREM Invariant == Spec => []IndInv
<1>1. Init => IndInv
  BY InitInv
<1>2. IndInv /\ [Next]_vars => IndInv'
  BY StepInv
<1> QED BY <1>1, <1>2, PTL DEF Spec

\* The types of the volumes, the Jobs, the selection and the place of a run.
THEOREM TypeCorrect == Spec => []TypeOK
<1>1. IndInv => TypeOK
  BY DEF IndInv
<1> QED BY <1>1, Invariant, PTL

\* A Job a server waits for finds its artifact in Harbor: whatever was
\* uninstalled, deleted in part or retried before, no deletion of a model in
\* Harbor takes away what the config of the stack asks for.
THEOREM PullsFind == Spec => []PullFindsArtifact
<1>1. ASSUME IndInv PROVE PullFindsArtifact
  <2> SUFFICES ASSUME NEW m \in DOMAIN step, At(m, "pull"), HasSource(m)
               PROVE  <<m, jobs[m].tag>> \in harbor
    BY DEF PullFindsArtifact
  <2>1. phase = "up" /\ step[m] = "pull"
    BY DEF At
  <2>2. m \in DOMAIN config /\ jobs[m].tag = config[m].tag
    BY <1>1, <2>1 DEF IndInv, Progress
  <2>3. m \in serve /\ config[m].tag = release[m].tag
    BY <1>1, <2>1, <2>2 DEF IndInv, Configured
  <2>4. m \in WithWeights(serve)
    BY <2>3 DEF WithWeights, HasWeights, HasSource
  <2>5. HarborRef(m) \in harbor
    BY <1>1, <2>1, <2>4 DEF IndInv, Mirrored, InServing
  <2> QED BY <2>2, <2>3, <2>5 DEF HarborRef
<1> QED BY <1>1, Invariant, PTL

\* Requests are routed only to a model server that exists, and a server this
\* run brought up with weights has all of them on its volume.
THEOREM RoutedReady == Spec => []RoutedMeansReady
<1>1. ASSUME IndInv PROVE RoutedMeansReady
  BY <1>1 DEF IndInv, Routed, Progress, RoutedMeansReady, readsVolume
<1> QED BY <1>1, Invariant, PTL

-----------------------------------------------------------------------------
(* What an update may never do                                             *)

\* A step of the serving stack during an update keeps the volumes it serves.
LEMMA UpdateKeeps ==
  ASSUME IndInv, [Next]_vars, mode = "update", mode' = "update",
         NEW m \in DOMAIN volumes, m \in DOMAIN config, HasSource(m)
  PROVE  /\ m \in DOMAIN volumes'
         /\ volumes'[m].class = volumes[m].class
         /\ volumes'[m].size >= volumes[m].size
         /\ volumes[m].pulled => volumes'[m].content = volumes[m].content
<1>1. phase \in {"load", "up", "done"}
  BY ClusterAssumption DEF IndInv, Staged
<1>2. volumes[m].size \in Nat
  BY DEF IndInv, TypeOK, VolumeOK
<1>3. CASE volumes' = volumes
  BY <1>2, <1>3
<1>4. CASE pruneModels
  <2>1. volumes' = volumes \/ \E x : x # m /\ removeStorage(x)
    BY <1>4 DEF pruneModels, ObsoleteStorage, removeEndpoints, removeServer, removeRetiredChart
  <2>2. m \in DOMAIN volumes' /\ volumes'[m] = volumes[m]
    BY <2>1 DEF removeStorage, Without
  <2> QED BY <1>2, <2>2
<1>5. CASE KubernetesNext
  <2>1. PICK x : pullCmd(x) \/ pullFails(x)
    BY <1>5 DEF KubernetesNext
  <2>2. /\ DOMAIN volumes' = DOMAIN volumes
        /\ \A y \in DOMAIN volumes \ {x} : volumes'[y] = volumes[y]
        /\ volumes'[x].class = volumes[x].class /\ volumes'[x].size = volumes[x].size
        /\ volumes[x].pulled => volumes'[x] = volumes[x]
    BY <2>1, PullStep
  <2> QED BY <1>2, <2>2
<1>6. CASE \E x : createVolume(x)
  <2>1. PICK x : createVolume(x)
    BY <1>6
  <2>2. /\ DOMAIN volumes \subseteq DOMAIN volumes'
        /\ \A y \in DOMAIN volumes \ {x} : volumes'[y] = volumes[y]
        /\ HasSource(x) => volumes'[x].size = config[x].size
        /\ x \in DOMAIN volumes =>
             /\ volumes'[x].content = volumes[x].content
             /\ volumes'[x].class = volumes[x].class
    BY <2>1, VolumeStep
  <2>3. phase = "up"
    BY <2>1 DEF createVolume, At
  <2>4. volumes[m].size <= config[m].size /\ config[m].size \in Nat
    BY <2>3 DEF IndInv, Fitting, Configured
  <2> QED BY <1>2, <2>2, <2>4
<1>7. CASE Next /\ ~pruneModels /\ ~KubernetesNext /\ ~\E x : createVolume(x)
  <2>1. mode # None
    BY ClusterAssumption
  <2>2. ~StartRun /\ ~Retry /\ ~Crash
    BY ClusterAssumption DEF StartRun, Retry, Crash
  <2>3. ~destroyStack /\ ~deletesPullByHand
    BY <1>1 DEF destroyStack, deletesPullByHand
  <2>4. deployModels => volumes' = volumes
    BY <1>7 DEF deployModels, deployModel, deployFront, createJob, deployServer, deployRoutes
  <2>5. CASE selectModels \/ mirrorModels \/ deleteUninstalledModels \/ skipDelete
             \/ skipServing \/ deployAppServing \/ destroyAppServing \/ destroyed
    BY <1>3, <2>5 DEF selectModels, mirrorModels, deleteUninstalledModels, skipDelete,
         skipServing, deployAppServing, destroyAppServing, destroyed, clusterVars
  <2>6. CASE removeLegacyModelServers \/ deployed \/ mirroredInPart \/ jobExpires \/ nodeLost
    BY <1>3, <2>6 DEF removeLegacyModelServers, deployed, mirroredInPart, jobExpires, nodeLost,
         clusterVars
  <2> QED BY <1>3, <1>7, <2>2, <2>3, <2>4, <2>5, <2>6 DEF Next
<1>8. CASE UNCHANGED vars
  BY <1>3, <1>8 DEF vars, clusterVars
<1> QED BY <1>4, <1>5, <1>6, <1>7, <1>8

\* "Update - keep model volumes": the volume of a model the update serves is
\* not deleted, not replaced, never asked to shrink, and keeps its weights.
THEOREM VolumesSurvive == Spec => VolumesKept
<1>1. IndInv /\ [Next]_vars =>
        [mode = "update" /\ mode' = "update" =>
           \A m \in DOMAIN volumes \cap DOMAIN config :
             HasSource(m) =>
               /\ m \in DOMAIN volumes'
               /\ volumes'[m].class = volumes[m].class
               /\ volumes'[m].size >= volumes[m].size
               /\ volumes[m].pulled => volumes'[m].content = volumes[m].content]_vars
  BY UpdateKeeps
<1> QED BY <1>1, Invariant, PTL DEF Spec, VolumesKept

=============================================================================
