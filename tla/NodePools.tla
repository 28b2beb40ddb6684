------------------------------ MODULE NodePools ------------------------------
(***************************************************************************)
(* The stage "assign node pools" (installer/internal/workflow/stages/nodes *)
(* and internal/placement), run after run: the nodes are grouped into      *)
(* pools, the operator assigns each pool to a model, to CPU work or to     *)
(* nothing in the list of module ChoiceList, the assignment is stored in a *)
(* ConfigMap, the labels of earlier installers are removed, and the stacks *)
(* get the placement.  Any call may fail, which ends the run, the          *)
(* installer may be killed, and nodes come and go all the while.           *)
(***************************************************************************)
EXTENDS ChoiceList, FiniteSets

CONSTANTS
  Specs,       \* the nodes there may be: [node -> labels, taints, gpus, product, controlPlane]
  Steady,      \* the nodes that never leave
  Catalog,     \* the models of the catalog
  GPUsPerPod,  \* what a pod of each needs
  Selections,  \* the models a run may serve, in the order of the catalog
  EarlierLabels, \* what earlier installers may have labelled: [node -> workloads]
  CPU, Unassigned, \* the options besides the models
  None, Broken \* no ConfigMap, one that cannot be decoded

Nodes == DOMAIN Specs
Workloads == Catalog \cup {CPU}

ASSUME ModelsAssumption ==
  /\ Selections \subseteq Seq(Catalog)
  /\ CPU \notin Catalog /\ Unassigned \notin Workloads

VARIABLES
  nodes,     \* the nodes of the cluster
  legacy,    \* the labels of earlier installers on them: [node -> workloads]
  store,     \* ConfigMap shaide-placement: [workload -> pools], None or Broken
  serve,     \* rt.Models.Serve
  listed,    \* state.pools: the nodes offered, with their legacy labels
  stored,    \* state.stored, None when state.found is false
  prompt,    \* the ChoicePrompt that is open
  choice,    \* the list on the screen
  placement, \* rt.Placement
  todo,      \* the nodes whose labels are still to be removed
  phase,
  earlier,   \* what earlier installers labelled, never removed
  saved      \* the last assignment saved, with the nodes and models it was for

stageVars == <<serve, listed, stored, prompt, choice, placement>>
clusterVars == <<nodes, legacy, store>>
historyVars == <<earlier, saved>>
vars == <<clusterVars, stageVars, todo, phase, historyVars>>

-----------------------------------------------------------------------------
(* Pools                                                                   *)

PoolKeys == <<"agentpool", "eks", "gke", "nodegroup">>
HostnameKey == "hostname"

\* The platform's own name of the node's pool, or the node on its own.
PoolOf(n) ==
  LET labels == Specs[n].labels
      keys == PoolKeys \o <<HostnameKey>>
      at == SelectInSeq(keys, LAMBDA k : k \in DOMAIN labels)
  IN  IF at = 0 THEN [key |-> HostnameKey, name |-> n]
      ELSE [key |-> keys[at], name |-> labels[keys[at]]]

\* The pools of some nodes, in an order of their own (listPools sorts them).
PoolsOf(ns) == {PoolOf(n) : n \in ns}
Pools(ns) == SetToSeq(PoolsOf(ns))

ASSUME NodesAssumption ==
  /\ IsFiniteSet(Nodes)
  /\ Steady \subseteq Nodes
  /\ EarlierLabels \subseteq [Nodes -> SUBSET Workloads]
  /\ None # Broken /\ {None, Broken} \cap [Workloads -> SUBSET PoolsOf(Nodes)] = {}

(* The platform labels all nodes of a cluster or none, and every kubelet   *)
(* sets the hostname, which no two nodes share: a node that carries the    *)
(* label of a pool is in it.                                               *)
ASSUME LabelsAssumption ==
  /\ \A n \in Nodes : \A p \in PoolsOf(Nodes) :
       /\ HostnameKey \in DOMAIN Specs[n].labels
       /\ p.key # HostnameKey /\ p.key \in DOMAIN Specs[n].labels => PoolOf(n).key = p.key
  /\ \A m, n \in Nodes :
       Specs[m].labels[HostnameKey] = Specs[n].labels[HostnameKey] => m = n

\* A taint reserves a node unless it is GPUTaintKey, which model servers
\* tolerate, a condition Kubernetes sets itself, or only a preference.
ExclusiveTaint(n) ==
  \E t \in Specs[n].taints : /\ t.effect \in {"NoSchedule", "NoExecute"}
                             /\ t.key \notin {"gpu", "condition"}

\* Mutant: all names of the pools under each of their keys.
MutTerms(ps) ==
  {[key |-> k, names |-> {p.name : p \in ps}] : k \in {p.key : p \in ps}}

\* One term per pool label; a node that matches one of them qualifies.
Terms(ps) ==
  {[key |-> k, names |-> {p.name : p \in {q \in ps : q.key = k}}] : k \in {p.key : p \in ps}}

\* The node affinity the stacks make of the terms: a model's pods require
\* it, CPU work only prefers it.
Admits(terms, n) ==
  \E t \in terms : t.key \in DOMAIN Specs[n].labels /\ Specs[n].labels[t.key] \in t.names

\* The nodes of a pool among those given.
NodesOf(ns, p) == {n \in ns : PoolOf(n) = p}

-----------------------------------------------------------------------------
(* The prompt                                                              *)

\* The elements of s that are in S, in their order: SelectSeq, spelled out for
\* the proofs.
Kept(s, S) ==
  LET kept[i \in 0 .. Len(s)] ==
        IF i = 0 THEN <<>>
        ELSE IF s[i] \in S THEN Append(kept[i - 1], s[i]) ELSE kept[i - 1]
  IN  kept[Len(s)]

\* A pod of the model fits on every node of the pool, given its nodes.
fits(pool, m) == \A n \in pool : Specs[n].gpus >= GPUsPerPod[m]

fitting(pool) == {m \in Catalog : fits(pool, m)}

poolOptions(pool) == Kept(serve, fitting(pool)) \o <<CPU, Unassigned>>

allNodesLabelled(pool, w) == \A n \in pool : w \in listed[n]
hasGPU(pool) == \E n \in pool : Specs[n].gpus > 0
allControlPlane(pool) == \A n \in pool : Specs[n].controlPlane

\* Where the pool p already is: the stored assignment, else the labels of an
\* earlier installer, else a first guess.
initialOption(p, pool) ==
  LET at(w) == IF stored # None THEN p \in stored[w] ELSE allNodesLabelled(pool, w)
      homes == serve \o <<CPU>>
      home == SelectInSeq(homes, LAMBDA w : at(w) /\ (w = CPU \/ fits(pool, w)))
      guess == stored = None /\ ~hasGPU(pool) /\ ~allControlPlane(pool)
  IN  IF home # 0 THEN homes[home] ELSE IF guess THEN CPU ELSE Unassigned

assignmentPrompt ==
  LET ns == DOMAIN listed
      pools == Pools(ns)
  IN  [rows |-> [i \in DOMAIN pools |->
                   [options |-> poolOptions(NodesOf(ns, pools[i])),
                    current |-> initialOption(pools[i], NodesOf(ns, pools[i]))]],
       groups |-> serve \o <<CPU, Unassigned>>,
       clear |-> {Unassigned}]

gpuProduct(n) ==
  IF Specs[n].product = "" /\ Specs[n].gpus > 0 THEN "unknown GPU" ELSE Specs[n].product

gpuProducts(ns) == {gpuProduct(n) : n \in ns} \ {""}

\* The pools of each workload, from the values chosen for the pools of ns.
assignmentOf(ns, vals) ==
  LET pools == Pools(ns)
  IN  [w \in Workloads |-> {pools[i] : i \in {j \in DOMAIN pools : vals[j] = w}}]

\* checkAssignment: something keeps the assignment a of the pools of ns from
\* being submitted.
Blocking(ns, models, a) ==
  \/ \E m \in models : \/ a[m] = {}
                        \/ Cardinality(gpuProducts(UNION {NodesOf(ns, p) : p \in a[m]})) > 1
                        \/ \E p \in a[m] : ~fits(NodesOf(ns, p), m)
  \/ a[CPU] = {}

-----------------------------------------------------------------------------
(* The stage                                                               *)

Nowhere == [w \in Workloads |-> {}]

Init ==
  /\ nodes = Steady
  /\ earlier \in EarlierLabels
  /\ legacy = earlier
  /\ store = None /\ stored = None /\ saved = None
  /\ prompt = None /\ choice = None
  /\ serve = <<>> /\ listed = <<>> /\ placement = Nowhere /\ todo = {}
  /\ phase = "idle"

\* A run has selected its models and comes to this stage with a new state.
StartRun ==
  /\ phase = "idle"
  /\ serve' \in Selections
  /\ phase' = "list"
  /\ UNCHANGED <<clusterVars, listed, stored, prompt, choice, placement, todo, historyVars>>

readAssignment == IF store = Broken THEN None ELSE store

listPools ==
  /\ phase = "list"
  /\ \E n \in nodes : ~ExclusiveTaint(n)
  /\ listed' = [n \in {x \in nodes : ~ExclusiveTaint(x)} |-> legacy[n]]
  /\ stored' = readAssignment
  /\ phase' = "prompt"
  /\ UNCHANGED <<clusterVars, serve, prompt, choice, placement, todo, historyVars>>

assignPools ==
  /\ phase = "prompt"
  /\ prompt' = assignmentPrompt
  /\ choice' = newChoiceModel(assignmentPrompt)
  /\ phase' = "choose"
  /\ UNCHANGED <<clusterVars, serve, listed, stored, placement, todo, historyVars>>

pressKey ==
  /\ phase = "choose"
  /\ choice' \in update(prompt, choice)
  /\ UNCHANGED <<clusterVars, serve, listed, stored, prompt, placement, todo, phase, historyVars>>

submit ==
  /\ phase = "choose"
  /\ submits(prompt, choice)
  /\ placement' = assignmentOf(DOMAIN listed, values(prompt, choice))
  /\ ~Blocking(DOMAIN listed, ToSet(serve), placement')
  /\ prompt' = None /\ choice' = None
  /\ phase' = "save"
  /\ UNCHANGED <<clusterVars, serve, listed, stored, todo, historyVars>>

\* Mutant: the CPU pools are left out of the comparison.
MutSameAssignment(a, b) == \A w \in Workloads \ {CPU} : a[w] = b[w]

sameAssignment(a, b) == a = b

Labelled == {n \in DOMAIN listed : listed[n] # {}}

\* WriteConfigMapData replaces what is there; an unchanged assignment is not
\* written.
stores ==
  store' = IF stored # None /\ sameAssignment(stored, placement) THEN store ELSE placement

\* Mutant: the labels are removed before the assignment is stored.
MutSaveAssignment ==
  /\ phase = "save"
  /\ IF Labelled \cap {n \in nodes : legacy[n] # {}} # {}
     THEN /\ \E n \in Labelled \cap nodes : legacy' = [legacy EXCEPT ![n] = {}]
          /\ UNCHANGED <<store, saved, todo, phase>>
     ELSE /\ stores
          /\ saved' = [nodes |-> DOMAIN listed, serve |-> serve, placement |-> placement]
          /\ todo' = {} /\ phase' = "unlabel"
          /\ UNCHANGED legacy
  /\ UNCHANGED <<nodes, stageVars, earlier>>

saveAssignment ==
  /\ phase = "save"
  /\ stores
  /\ saved' = [nodes |-> DOMAIN listed, serve |-> serve, placement |-> placement]
  /\ todo' = Labelled
  /\ phase' = "unlabel"
  /\ UNCHANGED <<nodes, legacy, stageVars, earlier>>

\* PatchNodeLabels for the next node; the node may be gone, which fails.
removeLegacyLabels ==
  /\ phase = "unlabel"
  /\ \E n \in todo \cap nodes : /\ legacy' = [legacy EXCEPT ![n] = @ \ listed[n]]
                                /\ todo' = todo \ {n}
  /\ UNCHANGED <<nodes, store, stageVars, phase, historyVars>>

stageDone ==
  /\ phase = "unlabel" /\ todo = {}
  /\ phase' = "deploy"
  /\ UNCHANGED <<clusterVars, stageVars, todo, historyVars>>

\* What the stacks get of the placement (servingPlacement, shaidePlacement,
\* mcpPlacement).
placementTerms(w) == Terms(placement[w])

\* The run ends: its state goes with the process.
EndRun ==
  /\ serve' = <<>> /\ listed' = <<>> /\ stored' = None /\ placement' = Nowhere
  /\ prompt' = None /\ choice' = None /\ todo' = {}
  /\ phase' = "idle"

deployed ==
  /\ phase = "deploy"
  /\ EndRun
  /\ UNCHANGED <<clusterVars, historyVars>>

-----------------------------------------------------------------------------
(* Failure                                                                 *)

\* No step of the stage recovers: a call that fails, a prompt that is
\* cancelled or a kill ends the run.
Fail ==
  /\ phase \notin {"idle", "deploy"}
  /\ EndRun
  /\ UNCHANGED <<clusterVars, historyVars>>

\* The ConfigMap is written but the answer is lost.
writeUnanswered ==
  /\ phase = "save"
  /\ stores
  /\ saved' = [nodes |-> DOMAIN listed, serve |-> serve, placement |-> placement]
  /\ EndRun
  /\ UNCHANGED <<nodes, legacy, earlier>>

\* A node joins a pool, or a pool is scaled down: a new node has no labels of
\* an earlier installer.
nodeJoins ==
  /\ \E n \in Nodes \ nodes : /\ nodes' = nodes \cup {n}
                              /\ legacy' = [legacy EXCEPT ![n] = {}]
                              /\ earlier' = [earlier EXCEPT ![n] = {}]
  /\ UNCHANGED <<store, stageVars, todo, phase, saved>>

nodeLeaves ==
  /\ \E n \in nodes \ Steady : nodes' = nodes \ {n}
  /\ UNCHANGED <<legacy, store, stageVars, todo, phase, historyVars>>

\* The ConfigMap is edited by hand into something that cannot be read.
handEdit ==
  /\ phase = "idle" /\ store \notin {None, Broken}
  /\ store' = Broken
  /\ UNCHANGED <<nodes, legacy, stageVars, todo, phase, historyVars>>

Next ==
  \/ StartRun \/ listPools \/ assignPools \/ pressKey \/ submit
  \/ saveAssignment \/ removeLegacyLabels \/ stageDone \/ deployed
  \/ Fail \/ writeUnanswered \/ nodeJoins \/ nodeLeaves \/ handEdit

Spec == Init /\ [][Next]_vars

-----------------------------------------------------------------------------
(* Properties                                                              *)

Untouched == phase = "choose" /\ choice.chosen = choice.initial
Preselected == values(prompt, choice)

\* "A rerun that changes nothing is a single confirm": with the nodes and the
\* models of the last assignment that was saved, the list starts at it and
\* can be submitted as it is, whatever failed in the runs between
\* (initialOption, sameAssignment).
RerunIsOneConfirm ==
  Untouched /\ stored # None /\ DOMAIN listed = saved.nodes /\ serve = saved.serve =>
    LET a == assignmentOf(DOMAIN listed, Preselected)
    IN  a = saved.placement /\ ~Blocking(DOMAIN listed, ToSet(serve), a)

\* Until an assignment is stored, a pool starts where the earlier installer
\* had put all of its nodes, also when a run failed while it migrated them
\* (saveAssignment stores before it removes the labels).
LegacyHonoured ==
  Untouched /\ store = None =>
    \A i \in DOMAIN prompt.rows : \A w \in ToSet(prompt.rows[i].options) \ {Unassigned} :
      (\A n \in NodesOf(DOMAIN listed, Pools(DOMAIN listed)[i]) : earlier[n] = {w}) =>
        Preselected[i] = w

\* Every node, also one that joined after the assignment, matches the
\* affinity of exactly the workload its pool was assigned to: of no other,
\* and not of two (PoolOf, Terms).
NodesFollowTheirPool ==
  phase = "deploy" => \A n \in nodes :
    /\ \A w \in Workloads : Admits(placementTerms(w), n) <=> PoolOf(n) \in placement[w]
    /\ \A v, w \in Workloads :
         Admits(placementTerms(v), n) /\ Admits(placementTerms(w), n) => v = w

\* What the dropdown shows applies to every selected row: none of them keeps
\* its option silently when one is chosen (openDropdown, apply).
DropdownAppliesToAll ==
  phase = "choose" =>
    \A o \in choice.dropdown :
      LET chosen == apply(prompt, choice, o).chosen
      IN  \A i, j \in targets(prompt, choice) :
            option(prompt, chosen, i) = option(prompt, chosen, j)

-----------------------------------------------------------------------------
(***************************************************************************)
(* Why the properties hold.  One run at a time changes the ConfigMap, so   *)
(* what a run read is what is stored until it saves; what is stored is the *)
(* assignment saved last, unless someone broke it; and the labels of       *)
(* earlier installers are untouched until something is stored.             *)
(***************************************************************************)

Assignments == [Workloads -> SUBSET PoolsOf(Nodes)]
Labellings == UNION {[S -> SUBSET Workloads] : S \in SUBSET Nodes}

\* Every variable has its type; the prompt and its list are those of ListOpen.
TypeOK ==
  /\ nodes \in SUBSET Nodes
  /\ legacy \in [Nodes -> SUBSET Workloads] /\ earlier \in [Nodes -> SUBSET Workloads]
  /\ store \in Assignments \cup {None, Broken} /\ stored \in Assignments \cup {None}
  /\ serve \in Selections \cup {<<>>}
  /\ listed \in Labellings
  /\ placement \in Assignments
  /\ todo \in SUBSET Nodes
  /\ phase \in {"idle", "list", "prompt", "choose", "save", "unlabel", "deploy"}

\* An assignment the operator could submit for the pools of ns: every pool is
\* with one workload of the run at most.
Settled(ns, models, a) ==
  /\ \A w \in Workloads : a[w] \subseteq PoolsOf(ns)
  /\ \A v, w \in Workloads : a[v] \cap a[w] # {} => v = w
  /\ \A w \in Workloads \ (models \cup {CPU}) : a[w] = {}
  /\ ~Blocking(ns, models, a)

StoreSaved ==
  store \notin {None, Broken} =>
    store = saved.placement /\ Settled(saved.nodes, ToSet(saved.serve), saved.placement)

StoredRead == phase \in {"prompt", "choose", "save"} => stored = readAssignment

ListOpen ==
  phase = "choose" =>
    /\ prompt = assignmentPrompt
    /\ choice \in Lists(prompt)
    /\ choice.initial = newChoiceModel(prompt).initial
    /\ DropdownShared(prompt, choice)

Placed ==
  phase \in {"save", "unlabel", "deploy"} => Settled(DOMAIN listed, ToSet(serve), placement)

\* A node that left and came back has lost its labels.
LabelsKept ==
  store = None =>
    /\ phase # "unlabel"
    /\ legacy = earlier
    /\ \A n \in DOMAIN listed : earlier[n] \in {listed[n], {}}

IndInv == TypeOK /\ StoreSaved /\ StoredRead /\ ListOpen /\ Placed /\ LabelsKept
=============================================================================
