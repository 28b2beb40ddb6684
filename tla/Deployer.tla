------------------------------ MODULE Deployer ------------------------------
(***************************************************************************)
(* One Pulumi stack deployed by installer/internal/iac: the stack's config *)
(* is written, checkClusterTarget compares the recorded state with the     *)
(* selected cluster and may ask the operator, then destroy and up run      *)
(* under the stack's lock.  Pulumi would move a stack whose provider       *)
(* points elsewhere: create every resource on the selected cluster, then   *)
(* delete the originals.                                                   *)
(*                                                                         *)
(* A cluster stands for its API server, and has one; an object's UID is    *)
(* its cluster and a generation.  Pulumi, the kubeconfig, the clusters and *)
(* the operator are the environment.                                       *)
(***************************************************************************)
EXTENDS Naturals, Sequences, FiniteSets

CONSTANTS
    Installers,     \* installer processes that share the state directory
    Contexts,       \* context names
    Clusters,
    Meaning,        \* the cluster a context name stands for at first
    CurrentContext, \* the kubeconfig's current-context
    Objects,        \* the objects of the stack
    None,           \* no context, no cluster, no lock holder
    OlderStates,    \* earlier releases recorded providers without a context
    MaxFaults       \* bound: crashes and changes made behind the installer

ASSUME DeployerAssumption ==
    /\ Meaning \in [Contexts -> Clusters]
    /\ CurrentContext \in Contexts
    /\ None \notin Contexts \cup Clusters \cup Installers
    /\ OlderStates \in BOOLEAN
    /\ MaxFaults \in Nat

VARIABLES
    kubeconfig, \* context -> cluster, None for a name it does not define
    objects,    \* per cluster, the generation of each object, 0 if absent
    live,       \* recorded: the live provider's context, where its objects
                \* really are, and their UIDs (0: none recorded)
    pending,    \* recorded: resources pending deletion, their provider's context
                \* and where they really are
    config,     \* the context in Pulumi.<stack>.yaml
    lock,       \* the process that holds the stack's lock
    pc,         \* where Deploy or DestroyOnly stands in each process
    target,     \* Target.Context and the cluster it stood for at the check
    todo,       \* the Pulumi operations still to run
    need,       \* the questions still to ask
    asked,      \* the questions answered with Continue
    canceled,   \* withLockRetry has canceled a lock
    reused,     \* history: the recorded context names that have come to stand
                \* for another cluster
    faults

state == <<live, pending, config>>
control == <<target, todo, need, asked, canceled>>
vars == <<kubeconfig, objects, state, lock, pc, control, reused, faults>>

NoState == [ctx |-> None, home |-> None, uid |-> [o \in Objects |-> 0]]
NoTarget == [ctx |-> None, cluster |-> None]
MaxGen == 2

Fault == faults < MaxFaults /\ faults' = faults + 1

States == {NoState} \cup [ctx : Contexts \cup {None}, home : Clusters, uid : [Objects -> 0 .. MaxGen]]

\* A provider with a context was deployed to what the name stands for; one
\* without used the current-context of its time.  Either its objects' UIDs
\* are recorded or, by an older provider, none.
Init ==
    /\ kubeconfig = Meaning
    /\ live \in {NoState} \cup
          {[ctx |-> x, home |-> c, uid |-> [o \in Objects |-> g]] :
              x \in Contexts \cup (IF OlderStates THEN {None} ELSE {}), c \in Clusters, g \in {0, 1}}
    /\ live.ctx # None => live.home = Meaning[live.ctx]
    /\ objects \in [Clusters -> {[o \in Objects |-> g] : g \in {0, 1}}]
    /\ live # NoState => \A o \in Objects : objects[live.home][o] = 1
    /\ pending = {}
    /\ config = None
    /\ lock = None
    /\ pc = [i \in Installers |-> "idle"]
    /\ target = [i \in Installers |-> NoTarget]
    /\ todo = [i \in Installers |-> <<>>]
    /\ need = [i \in Installers |-> {}]
    /\ asked = [i \in Installers |-> {}]
    /\ canceled = [i \in Installers |-> FALSE]
    /\ reused = {}
    /\ faults = 0

Goto(i, where) == pc' = [pc EXCEPT ![i] = where]

----------------------------------------------------------------------------
(* prepareStack                                                            *)

\* DeployAppServing and its kin: update, recreate, or nothing left to run.
Operations == {<<"up">>, <<"destroy", "up">>, <<"destroy">>}

Start(i, ctx, ops) ==
    /\ pc[i] = "idle"
    /\ kubeconfig[ctx] # None
    /\ target' = [target EXCEPT ![i] = [ctx |-> ctx, cluster |-> None]]
    /\ todo' = [todo EXCEPT ![i] = ops]
    /\ Goto(i, "prepare")
    /\ UNCHANGED <<kubeconfig, objects, state, lock, need, asked, canceled, faults, reused>>

\* SetAllConfig, before the cluster is checked.  A stack that is only torn
\* down has no config to write.
prepareStack(i) ==
    /\ pc[i] = "prepare"
    /\ config' = IF todo[i] = <<"destroy">> THEN config ELSE target[i].ctx
    /\ Goto(i, "guard")
    /\ UNCHANGED <<kubeconfig, objects, live, pending, lock, control, faults, reused>>

----------------------------------------------------------------------------
(* checkClusterTarget                                                      *)

contextServer(name) == kubeconfig[name]

\* Mutant: contexts are compared by name.
MutSameCluster(recorded, selected) ==
    IF recorded = None THEN "unknown"
    ELSE IF recorded = selected THEN "same" ELSE "different"

\* Mutant: a provider without a context is taken for the selected cluster's.
MutNoContextIsSame(recorded, selected) ==
    IF recorded = None \/ recorded = selected THEN "same"
    ELSE IF contextServer(recorded) = None THEN "unknown"
    ELSE IF contextServer(recorded) = contextServer(selected) THEN "same" ELSE "different"

sameCluster(recorded, selected) ==
    IF recorded = None THEN "unknown"
    ELSE IF recorded = selected THEN "same"
    ELSE IF None \in {contextServer(recorded), contextServer(selected)} THEN "unknown"
    ELSE IF contextServer(recorded) = contextServer(selected) THEN "same" ELSE "different"

providerObjects == {o \in Objects : live.uid[o] # 0}

\* Comparing the recorded UIDs with the objects on cluster c.  The objects
\* that can be read are a matter of luck; maxUIDLookups is larger than the
\* number of objects here.
verifyByUID(c) ==
    { LET compared == {o \in readable : objects[c][o] # 0} IN
      IF \E o \in compared : c = live.home /\ objects[c][o] = live.uid[o] THEN "same"
      ELSE IF compared # {} THEN "different" ELSE "unknown"
      : readable \in SUBSET providerObjects }

\* What is known about the recorded provider; "unknown" is to be asked about.
Verdicts(selected) ==
    IF live = NoState THEN {"same"}
    ELSE IF sameCluster(live.ctx, selected) = "unknown" /\ contextServer(selected) # None
         THEN verifyByUID(contextServer(selected))
         ELSE {sameCluster(live.ctx, selected)}

\* Mutant: pending deletions are only logged.
MutQuestions(verdict) == {"unverified" : v \in {verdict} \cap {"unknown"}}

Questions(verdict) ==
    {"unverified" : v \in {verdict} \cap {"unknown"}} \cup {"pending" : p \in pending}

checkClusterTarget(i) ==
    /\ pc[i] = "guard"
    /\ \E verdict \in Verdicts(target[i].ctx) :
         /\ need' = [need EXCEPT ![i] = IF verdict = "different" THEN {} ELSE Questions(verdict)]
         /\ Goto(i, IF verdict = "different" THEN "refused"
                    ELSE IF Questions(verdict) = {} THEN "locking" ELSE "asking")
    /\ target' = [target EXCEPT ![i].cluster = contextServer(target[i].ctx)]
    /\ UNCHANGED <<kubeconfig, objects, state, lock, todo, asked, canceled, faults, reused>>

\* The stack or the kubeconfig cannot be read or written.
prepareFails(i) ==
    /\ pc[i] \in {"prepare", "guard"}
    /\ Fault
    /\ Goto(i, "failed")
    /\ UNCHANGED <<kubeconfig, objects, state, lock, control, reused>>

\* The unverified cluster is asked about before the pending deletions, which
\* are those of the state read before the first question.
confirm(i, q) ==
    /\ pc[i] = "asking"
    /\ q \in need[i]
    /\ q = "pending" => "unverified" \notin need[i]
    /\ asked' = [asked EXCEPT ![i] = @ \cup {q}]
    /\ need' = [need EXCEPT ![i] = @ \ {q}]
    /\ Goto(i, IF need[i] = {q} THEN "locking" ELSE "asking")
    /\ UNCHANGED <<kubeconfig, objects, state, lock, target, todo, canceled, faults, reused>>

abort(i) ==
    /\ pc[i] = "asking"
    /\ Goto(i, "aborted")
    /\ UNCHANGED <<kubeconfig, objects, state, lock, control, faults, reused>>

----------------------------------------------------------------------------
(* withLockRetry and the operations of Pulumi                              *)

acquireLock(i) ==
    /\ pc[i] = "locking"
    /\ lock = None
    /\ lock' = i
    /\ Goto(i, Head(todo[i]))
    /\ UNCHANGED <<kubeconfig, objects, state, control, faults, reused>>

\* Mutant: a lock is never canceled.
MutMayCancel(i) == FALSE

MayCancel(i) == ~canceled[i]

\* The lock is held by someone: cancel it once and retry; StackLockedError when
\* that fails or the lock is held again.
stackLocked(i) ==
    /\ pc[i] = "locking"
    /\ lock # None
    /\ \/ /\ MayCancel(i)
          /\ lock' = None
          /\ canceled' = [canceled EXCEPT ![i] = TRUE]
          /\ UNCHANGED <<pc, faults>>
       \/ /\ IF MayCancel(i) THEN Fault ELSE UNCHANGED faults
          /\ Goto(i, "failed")
          /\ UNCHANGED <<lock, canceled>>
    /\ UNCHANGED <<kubeconfig, objects, state, target, todo, need, asked, reused>>

\* The cluster a recorded provider reaches now.
Reaches(ctx) == IF ctx = None THEN kubeconfig[CurrentContext] ELSE kubeconfig[ctx]

Without(c, gone) == [objects EXCEPT ![c] = [o \in Objects |-> IF o \in gone THEN 0 ELSE @[o]]]

\* A resource pending deletion is deleted through its own provider.
deletePending(i) ==
    /\ pc[i] \in {"up", "destroy"}
    /\ \E p \in pending :
         /\ Reaches(p.ctx) # None
         /\ objects' = Without(Reaches(p.ctx), {p.obj})
         /\ pending' = pending \ {p}
    /\ UNCHANGED <<kubeconfig, live, config, lock, pc, control, faults, reused>>

Recorded == {[ctx |-> live.ctx, home |-> live.home, obj |-> o] : o \in Objects}

\* pulumi up: a provider that reaches another cluster replaces every resource.
applyProgram(i) ==
    /\ pc[i] = "up"
    /\ pending = {}
    /\ LET c == kubeconfig[config]
           made == [o \in Objects |-> IF objects[c][o] = 0 THEN 1 ELSE objects[c][o]]
       IN  /\ c # None
           /\ objects' = [objects EXCEPT ![c] = made]
           /\ live' = [ctx |-> config, home |-> c, uid |-> made]
           /\ pending' = IF live = NoState \/ Reaches(live.ctx) = c THEN {} ELSE Recorded
    /\ reused' = reused \ {config}
    /\ Goto(i, "deleting")
    /\ UNCHANGED <<kubeconfig, config, lock, control, faults>>

deleteReplaced(i) ==
    /\ pc[i] = "deleting"
    /\ \E p \in pending :
         /\ Reaches(p.ctx) # None
         /\ objects' = Without(Reaches(p.ctx), {p.obj})
         /\ pending' = pending \ {p}
    /\ UNCHANGED <<kubeconfig, live, config, lock, pc, control, faults, reused>>

\* pulumi destroy.
destroyStack(i) ==
    /\ pc[i] = "destroy"
    /\ pending = {}
    /\ IF live = NoState
       THEN UNCHANGED objects
       ELSE /\ Reaches(live.ctx) # None
            /\ objects' = Without(Reaches(live.ctx), Objects)
    /\ live' = NoState
    /\ reused' = {}
    /\ Goto(i, "deleting")
    /\ UNCHANGED <<kubeconfig, pending, config, lock, control, faults>>

Unlocked(i) == lock' = IF lock = i THEN None ELSE lock

\* The operation ends and gives its lock back, if it still has it.
operationDone(i) ==
    /\ pc[i] = "deleting"
    /\ pending = {}
    /\ Unlocked(i)
    /\ todo' = [todo EXCEPT ![i] = Tail(@)]
    /\ canceled' = [canceled EXCEPT ![i] = FALSE]
    /\ Goto(i, IF Len(todo[i]) = 1 THEN "done" ELSE "locking")
    /\ UNCHANGED <<kubeconfig, objects, state, target, need, asked, faults, reused>>

\* A cluster that is to be changed is out of reach.
operationFails(i) ==
    /\ pc[i] \in {"up", "destroy", "deleting"}
    /\ \/ Fault
       \/ /\ None \in {Reaches(p.ctx) : p \in pending}
                 \cup (IF pc[i] = "up" THEN {Reaches(config)} ELSE {})
                 \cup (IF pc[i] = "destroy" /\ live # NoState THEN {Reaches(live.ctx)} ELSE {})
          /\ UNCHANGED faults
    /\ Unlocked(i)
    /\ Goto(i, "failed")
    /\ UNCHANGED <<kubeconfig, objects, state, control, reused>>

----------------------------------------------------------------------------
(* recoverStackError, the end of a run, and the environment                *)

Forget(i) ==
    /\ need' = [need EXCEPT ![i] = {}]
    /\ asked' = [asked EXCEPT ![i] = {}]
    /\ canceled' = [canceled EXCEPT ![i] = FALSE]

\* "Retry" runs the step again, with the same answers to choose from.
Retry(i) ==
    /\ pc[i] = "failed"
    /\ \E ops \in Operations : todo' = [todo EXCEPT ![i] = ops]
    /\ Goto(i, "prepare")
    /\ Forget(i)
    /\ UNCHANGED <<kubeconfig, objects, state, lock, target, faults, reused>>

\* The run is over; the installer can be started again.
End(i) ==
    /\ pc[i] \in {"done", "refused", "aborted", "failed"}
    /\ Goto(i, "idle")
    /\ Forget(i)
    /\ target' = [target EXCEPT ![i] = NoTarget]
    /\ todo' = [todo EXCEPT ![i] = <<>>]
    /\ UNCHANGED <<kubeconfig, objects, state, lock, faults, reused>>

\* The process is killed; a lock it holds stays behind.
Crash(i) ==
    /\ pc[i] \notin {"idle", "done", "refused", "aborted"}
    /\ Fault
    /\ Goto(i, "idle")
    /\ Forget(i)
    /\ target' = [target EXCEPT ![i] = NoTarget]
    /\ todo' = [todo EXCEPT ![i] = <<>>]
    /\ UNCHANGED <<kubeconfig, objects, state, lock, reused>>

\* A recorded provider of context x is on another cluster than c.
Elsewhere(x, c) ==
    \/ live.ctx = x /\ live.home # c
    \/ \E p \in pending : p.ctx = x /\ p.home # c

\* A context is removed from the kubeconfig or added again, possibly for another
\* cluster.
EditKubeconfig(x) ==
    /\ Fault
    /\ \E c \in Clusters \cup {None} :
         /\ kubeconfig' = [kubeconfig EXCEPT ![x] = c]
         /\ reused' = IF c # None /\ Elsewhere(x, c) THEN reused \cup {x} ELSE reused
    /\ UNCHANGED <<objects, state, lock, pc, control>>

\* Someone deletes an object and creates it again.
Recreate(c, o) ==
    /\ objects[c][o] \in 1 .. MaxGen - 1
    /\ Fault
    /\ objects' = [objects EXCEPT ![c][o] = @ + 1]
    /\ UNCHANGED <<kubeconfig, state, lock, pc, control, reused>>

----------------------------------------------------------------------------
Deploy(i) ==
    \/ prepareStack(i) \/ prepareFails(i) \/ checkClusterTarget(i) \/ acquireLock(i) \/ stackLocked(i)
    \/ deletePending(i) \/ applyProgram(i) \/ deleteReplaced(i) \/ destroyStack(i)
    \/ operationDone(i) \/ operationFails(i)

Operator(i) ==
    \/ \E x \in Contexts, ops \in Operations : Start(i, x, ops)
    \/ \E q \in {"unverified", "pending"} : confirm(i, q)
    \/ abort(i) \/ Retry(i) \/ End(i)

Next ==
    \/ \E i \in Installers : Deploy(i) \/ Operator(i) \/ Crash(i)
    \/ \E x \in Contexts : EditKubeconfig(x)
    \/ \E c \in Clusters, o \in Objects : Recreate(c, o)

Spec == Init /\ [][Next]_vars

\* Deploy has no unbounded wait of its own; nothing is asked of the operator.
Fairness == \A i \in Installers : WF_vars(Deploy(i))

FairSpec == Spec /\ Fairness

----------------------------------------------------------------------------
(* Properties                                                              *)

Running(i) == pc[i] \in {"up", "destroy", "deleting"}

\* Every variable has its type.
TypeOK ==
    /\ kubeconfig \in [Contexts -> Clusters \cup {None}]
    /\ objects \in [Clusters -> [Objects -> 0 .. MaxGen]]
    /\ live \in States
    /\ pending \in SUBSET [ctx : Contexts \cup {None}, home : Clusters, obj : Objects]
    /\ config \in Contexts \cup {None}
    /\ lock \in Installers \cup {None}
    /\ pc \in [Installers -> {"idle", "prepare", "guard", "asking", "locking", "up", "destroy",
                              "deleting", "done", "refused", "aborted", "failed"}]
    /\ target \in [Installers -> [ctx : Contexts \cup {None}, cluster : Clusters \cup {None}]]
    /\ todo \in [Installers -> {<<>>, <<"up">>, <<"destroy">>, <<"destroy", "up">>}]
    /\ need \in [Installers -> SUBSET {"unverified", "pending"}]
    /\ asked \in [Installers -> SUBSET {"unverified", "pending"}]
    /\ canceled \in [Installers -> BOOLEAN]
    /\ reused \in SUBSET Contexts
    /\ faults \in 0 .. MaxFaults

\* The stack is on the cluster that the selected context stood for at the check,
\* if it stood for any.
OnSelected(i) == live = NoState \/ target[i].cluster \in {live.home, None}

\* "checkClusterTarget refuses to deploy a stack whose state belongs to another
\* cluster, and asks before deploying one it cannot verify": an update that
\* starts without a question finds the stack where the operator wants it.  The
\* code does not keep this: equal context names are taken for the same cluster,
\* and recorded ones are looked up in today's kubeconfig (sameCluster), so that
\* a name that was given to another cluster in between is trusted.
RefusesOtherCluster ==
    \A i \in Installers :
        pc[i] \in {"locking", "up", "destroy"} /\ "unverified" \notin asked[i] => OnSelected(i)

\* What it does keep, whatever contexts are removed, added, given another name
\* or another cluster: an update starts on a stack of another cluster without a
\* question only when the very name that the stack recorded has come to stand
\* for another cluster since (checkClusterTarget, sameCluster, verifyByUID).
RefusesUnlessReused ==
    \A i \in Installers :
        pc[i] \in {"locking", "up", "destroy"} /\ "unverified" \notin asked[i] =>
            OnSelected(i) \/ live.ctx \in reused

\* Resources that an interrupted update left pending are not deleted before the
\* operator was asked about them.
AsksAboutPending ==
    \A i \in Installers :
        pc[i] = "locking" /\ pending # {} => "pending" \in asked[i]

DeletesWhereAsked(c, o) ==
    objects[c][o] # 0 /\ objects'[c][o] = 0 =>
        \E i \in Installers :
            Running(i) /\ (asked[i] # {} \/ c \in {target[i].cluster, kubeconfig[target[i].ctx]})

\* No object disappears from a cluster other than the selected one without a
\* question in this run, whatever was interrupted before.
DeletesOnlyWhereAsked == [][\A c \in Clusters, o \in Objects : DeletesWhereAsked(c, o)]_vars

\* Every recorded provider names a context, and none of the names has come to
\* stand for another cluster.
NamesStand ==
    /\ live = NoState \/ live.ctx \notin {None} \cup reused
    /\ \A p \in pending : p.ctx \notin {None} \cup reused

\* The same, while the names of the recorded providers stand.
RecordedDeletesWhereAsked ==
    [][NamesStand => \A c \in Clusters, o \in Objects : DeletesWhereAsked(c, o)]_vars

\* A stack refused as another cluster's is not on the selected one, unless its
\* objects were made anew there, or the name it recorded has come to stand for
\* another cluster: then the guard refuses what it could deploy.
RefusalIsRight ==
    \A i \in Installers :
        pc[i] = "refused" => \/ live.home # target[i].cluster
                             \/ \E o \in Objects : objects[live.home][o] # live.uid[o]
                             \/ live.ctx \in reused

\* The lock serialises the updates of a stack: the guide has the operator
\* inspect the state before a lock is removed.
OneUpdateAtATime == \A i, j \in Installers : Running(i) /\ Running(j) => i = j

\* A lock left by a run that was killed does not outlast the runs after it: while
\* runs keep passing the guard, the lock keeps being free or in real use.
StaleLockReleased ==
    \A i \in Installers :
        []<>(pc[i] = "locking") => []<>(lock = None \/ Running(i))
----------------------------------------------------------------------------
(***************************************************************************)
(* Why the properties hold, for one installer.  What the guard found out   *)
(* about the stack stays true until the operation that it let pass has     *)
(* changed the stack, since nobody else changes what is recorded.          *)
(***************************************************************************)

OneInstallerOnly == \A i, j \in Installers : i = j

Guarded(i) == pc[i] \in {"locking", "up", "destroy"}

\* A name that was not reused stands for the cluster it was recorded for, or for
\* nothing.
LiveStands ==
    live.ctx \notin {None} \cup reused => kubeconfig[live.ctx] \in {live.home, None}

PendingStands ==
    \A p \in pending :
        p.ctx \notin {None} \cup reused => kubeconfig[p.ctx] \in {p.home, None}

\* An object made anew has a later generation than the one recorded.
LaterGenerations ==
    live # NoState =>
        \A o \in Objects : objects[live.home][o] = 0 \/ live.uid[o] <= objects[live.home][o]

\* The operations left fit the place in the run.
TodoFits ==
    \A i \in Installers :
        /\ pc[i] # "idle" => target[i].ctx \in Contexts
        /\ pc[i] \in {"prepare", "guard", "asking", "locking", "deleting"} => todo[i] # <<>>
        /\ pc[i] = "up" => todo[i] = <<"up">>
        /\ pc[i] = "destroy" => todo[i] \in {<<"destroy">>, <<"destroy", "up">>}
        /\ pc[i] = "deleting" /\ todo[i] = <<"destroy", "up">> => live = NoState

\* A stack that will be brought up has its config.
ConfigWritten ==
    \A i \in Installers :
        /\ pc[i] \in {"guard", "asking", "locking", "up", "destroy", "deleting"}
        /\ todo[i] # <<"destroy">>
        => config # None

\* The stack is where the operator wants it, as far as the guard could tell.
Verified(i) ==
    \/ live = NoState \/ live.ctx \in reused
    \/ target[i].cluster = live.home
    \/ target[i].cluster = None /\ live.ctx = target[i].ctx

UnverifiedAsked ==
    \A i \in Installers :
        /\ pc[i] = "asking" => Verified(i) \/ "unverified" \in need[i] \cup asked[i]
        /\ Guarded(i) => Verified(i) \/ "unverified" \in asked[i]

PendingAsked ==
    \A i \in Installers :
        pending # {} =>
            /\ pc[i] = "asking" => "pending" \in need[i] \cup asked[i]
            /\ Guarded(i) => "pending" \in asked[i]

\* What an update has replaced is deleted where the operator wants it.
ReplacedAsked ==
    \A i \in Installers : \A p \in pending :
        pc[i] = "deleting" =>
            \/ asked[i] # {} \/ p.ctx \in {None, target[i].ctx} \cup reused
            \/ p.home = target[i].cluster

RefusedRightly ==
    \A i \in Installers :
        pc[i] = "refused" =>
            /\ live # NoState
            /\ \/ live.home # target[i].cluster \/ live.ctx \in reused
               \/ \E o \in Objects : live.uid[o] < objects[live.home][o]

IndInv ==
    /\ TypeOK /\ LiveStands /\ PendingStands /\ LaterGenerations /\ TodoFits /\ ConfigWritten
    /\ UnverifiedAsked /\ PendingAsked /\ ReplacedAsked /\ RefusedRightly
=============================================================================
