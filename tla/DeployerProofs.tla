--------------------------- MODULE DeployerProofs ---------------------------
(***************************************************************************)
(* The guard of Deployer is right, for any contexts, clusters and objects  *)
(* and any number of crashes and changes behind the installer, as far as   *)
(* the context names that the stack recorded stand for the clusters they   *)
(* stood for, when one installer uses the state directory.  Module         *)
(* Deployer says what goes wrong otherwise.                                *)
(***************************************************************************)
EXTENDS Deployer, TLAPS

\* What the lists of operations are made of.
LEMMA Lists ==
  /\ Head(<<"up">>) = "up" /\ Head(<<"destroy">>) = "destroy" /\ Head(<<"destroy", "up">>) = "destroy"
  /\ Tail(<<"up">>) = <<>> /\ Tail(<<"destroy">>) = <<>> /\ Tail(<<"destroy", "up">>) = <<"up">>
  /\ Len(<<"up">>) = 1 /\ Len(<<"destroy">>) = 1 /\ Len(<<"destroy", "up">>) = 2
  /\ <<"up">> # <<"destroy">> /\ <<"up">> # <<"destroy", "up">> /\ <<"destroy">> # <<"destroy", "up">>
  /\ <<>> # <<"up">> /\ <<>> # <<"destroy">> /\ <<>> # <<"destroy", "up">>
<1>1. /\ Len(<<"up">>) = 1 /\ Len(<<"destroy">>) = 1 /\ Len(<<"destroy", "up">>) = 2 /\ Len(<<>>) = 0
  OBVIOUS
<1>2. <<"up">>[1] = "up" /\ <<"destroy">>[1] = "destroy" /\ <<"destroy", "up">>[1] = "destroy"
  OBVIOUS
<1>3. Tail(<<"up">>) = <<>> /\ Tail(<<"destroy">>) = <<>> /\ Tail(<<"destroy", "up">>) = <<"up">>
  OBVIOUS
<1>4. Head(<<"up">>) = "up" /\ Head(<<"destroy">>) = "destroy" /\ Head(<<"destroy", "up">>) = "destroy"
  OBVIOUS
<1>5. <<"up">> # <<"destroy">>
  BY <1>2
<1> QED BY <1>1, <1>3, <1>4, <1>5

\* The parts of the recorded state have their types.
LEMMA LiveTyped ==
  ASSUME TypeOK
  PROVE  /\ live = NoState \/ live.home \in Clusters
         /\ live.ctx \in Contexts \cup {None}
         /\ live.uid \in [Objects -> 0 .. MaxGen]
         /\ live # NoState => live \in [ctx : Contexts \cup {None}, home : Clusters, uid : [Objects -> 0 .. MaxGen]]
         /\ NoState.ctx = None /\ NoState.home = None
  BY DEF TypeOK, States, NoState, MaxGen

\* Objects that are deleted leave the others as they were.
LEMMA WithoutTyped ==
  ASSUME TypeOK, NEW c, NEW gone
  PROVE  /\ Without(c, gone) \in [Clusters -> [Objects -> 0 .. MaxGen]]
         /\ \A d \in Clusters, o \in Objects :
               Without(c, gone)[d][o] = IF d = c /\ o \in gone THEN 0 ELSE objects[d][o]
<1>1. objects \in [Clusters -> [Objects -> 0 .. MaxGen]] /\ 0 \in 0 .. MaxGen
  BY DEF TypeOK, MaxGen
<1> DEFINE left == [o \in Objects |-> IF o \in gone THEN 0 ELSE objects[c][o]]
<1>2. Without(c, gone) = [d \in Clusters |-> IF d = c THEN left ELSE objects[d]]
  BY <1>1 DEF Without
<1>3. c \in Clusters => left \in [Objects -> 0 .. MaxGen]
  BY <1>1
<1>4. Without(c, gone) \in [Clusters -> [Objects -> 0 .. MaxGen]]
  BY <1>1, <1>2, <1>3
<1>5. ASSUME NEW d \in Clusters, NEW o \in Objects
      PROVE  Without(c, gone)[d][o] = IF d = c /\ o \in gone THEN 0 ELSE objects[d][o]
  BY <1>2
<1> QED BY <1>4, <1>5

\* Generations are natural numbers.
LEMMA GenerationsTyped ==
  ASSUME TypeOK
  PROVE  /\ \A o \in Objects : live.uid[o] \in Nat
         /\ \A c \in Clusters, o \in Objects : objects[c][o] \in Nat
<1>1. 0 .. MaxGen \subseteq Nat
  BY DEF MaxGen
<1>2. live.uid \in [Objects -> 0 .. MaxGen]
  BY LiveTyped
<1>3. objects \in [Clusters -> [Objects -> 0 .. MaxGen]]
  BY DEF TypeOK
<1> QED BY <1>1, <1>2, <1>3

\* A run starts with its operations and with no question answered yet.
LEMMA StartInv ==
  ASSUME IndInv, OneInstallerOnly,
         NEW i \in Installers, NEW x \in Contexts, NEW ops \in Operations, Start(i, x, ops)
  PROVE  IndInv'
<1> USE DeployerAssumption DEF IndInv
<1>1. TypeOK'
  BY DEF Start, Goto, state, Operations, TypeOK
<1>2. LiveStands'
  BY DEF Start, Goto, state, Operations, TypeOK, LiveStands
<1>3. PendingStands'
  BY DEF Start, Goto, state, Operations, TypeOK, PendingStands
<1>4. LaterGenerations'
  BY DEF Start, Goto, state, Operations, TypeOK, LaterGenerations
<1>5. TodoFits'
  BY Lists DEF Start, Goto, state, Operations, TypeOK, TodoFits
<1>6. ConfigWritten'
  BY DEF Start, Goto, state, Operations, TypeOK, ConfigWritten
<1>7. UnverifiedAsked'
  BY DEF Start, Goto, state, Operations, TypeOK, UnverifiedAsked, Guarded, Verified
<1>8. PendingAsked'
  BY DEF Start, Goto, state, Operations, TypeOK, PendingAsked, Guarded
<1>9. ReplacedAsked'
  BY DEF Start, Goto, state, Operations, TypeOK, ReplacedAsked
<1>10. RefusedRightly'
  BY DEF Start, Goto, state, Operations, TypeOK, RefusedRightly
<1> QED BY <1>1, <1>2, <1>3, <1>4, <1>5, <1>6, <1>7, <1>8, <1>9, <1>10

\* Writing the config before the guard makes ConfigWritten true.
LEMMA prepareStackInv ==
  ASSUME IndInv, OneInstallerOnly,
         NEW i \in Installers, prepareStack(i)
  PROVE  IndInv'
<1> USE DeployerAssumption DEF IndInv
<1>a. \A j \in Installers : j = i
  BY DEF OneInstallerOnly
<1>1. TypeOK'
  BY DEF prepareStack, Goto, control, TypeOK
<1>2. LiveStands'
  BY DEF prepareStack, Goto, control, TypeOK, LiveStands
<1>3. PendingStands'
  BY DEF prepareStack, Goto, control, TypeOK, PendingStands
<1>4. LaterGenerations'
  BY DEF prepareStack, Goto, control, TypeOK, LaterGenerations
<1>5. TodoFits'
  BY DEF prepareStack, Goto, control, TypeOK, TodoFits
<1>6. ConfigWritten'
  <2>1. target[i].ctx # None
    BY DEF prepareStack, TodoFits
  <2> QED BY <2>1, <1>a DEF prepareStack, Goto, control, TypeOK, ConfigWritten
<1>7. UnverifiedAsked'
  BY DEF prepareStack, Goto, control, TypeOK, UnverifiedAsked, Guarded, Verified
<1>8. PendingAsked'
  BY DEF prepareStack, Goto, control, TypeOK, PendingAsked, Guarded
<1>9. ReplacedAsked'
  BY DEF prepareStack, Goto, control, TypeOK, ReplacedAsked
<1>10. RefusedRightly'
  BY DEF prepareStack, Goto, control, TypeOK, RefusedRightly
<1> QED BY <1>1, <1>2, <1>3, <1>4, <1>5, <1>6, <1>7, <1>8, <1>9, <1>10

\* A stack or kubeconfig that cannot be read ends the run unguarded.
LEMMA prepareFailsInv ==
  ASSUME IndInv, OneInstallerOnly,
         NEW i \in Installers, prepareFails(i)
  PROVE  IndInv'
<1> USE DeployerAssumption DEF IndInv
<1>1. TypeOK'
  BY DEF prepareFails, Goto, state, control, Fault, TypeOK
<1>2. LiveStands'
  BY DEF prepareFails, Goto, state, control, Fault, TypeOK, LiveStands
<1>3. PendingStands'
  BY DEF prepareFails, Goto, state, control, Fault, TypeOK, PendingStands
<1>4. LaterGenerations'
  BY DEF prepareFails, Goto, state, control, Fault, TypeOK, LaterGenerations
<1>5. TodoFits'
  BY DEF prepareFails, Goto, state, control, Fault, TypeOK, TodoFits
<1>6. ConfigWritten'
  BY DEF prepareFails, Goto, state, control, Fault, TypeOK, ConfigWritten
<1>7. UnverifiedAsked'
  BY DEF prepareFails, Goto, state, control, Fault, TypeOK, UnverifiedAsked, Guarded, Verified
<1>8. PendingAsked'
  BY DEF prepareFails, Goto, state, control, Fault, TypeOK, PendingAsked, Guarded
<1>9. ReplacedAsked'
  BY DEF prepareFails, Goto, state, control, Fault, TypeOK, ReplacedAsked
<1>10. RefusedRightly'
  BY DEF prepareFails, Goto, state, control, Fault, TypeOK, RefusedRightly
<1> QED BY <1>1, <1>2, <1>3, <1>4, <1>5, <1>6, <1>7, <1>8, <1>9, <1>10

\* The guard makes Verified true or has the operator asked, and
\* a refusal is right: this is where the questions of the invariant come from.
LEMMA checkClusterTargetInv ==
  ASSUME IndInv, OneInstallerOnly,
         NEW i \in Installers, checkClusterTarget(i)
  PROVE  IndInv'
<1> USE DeployerAssumption DEF IndInv
<1>a. \A j \in Installers : j = i
  BY DEF OneInstallerOnly
<1> DEFINE sel == target[i].ctx
<1>b. sel \in Contexts /\ contextServer(sel) \in Clusters \cup {None}
  BY DEF checkClusterTarget, TodoFits, contextServer, TypeOK
<1>c. PICK verdict \in Verdicts(sel) :
        /\ need' = [need EXCEPT ![i] = IF verdict = "different" THEN {} ELSE Questions(verdict)]
        /\ pc' = [pc EXCEPT ![i] = IF verdict = "different" THEN "refused"
                                  ELSE IF Questions(verdict) = {} THEN "locking" ELSE "asking"]
  BY DEF checkClusterTarget, Goto
<1>d. target' = [target EXCEPT ![i].cluster = contextServer(sel)]
  BY DEF checkClusterTarget
<1>e. target'[i].cluster = contextServer(sel) /\ target'[i].ctx = sel
  BY <1>d DEF TypeOK
<1>f. /\ (verdict = "unknown" => "unverified" \in Questions(verdict))
      /\ (pending # {} => "pending" \in Questions(verdict))
      /\ Questions(verdict) \subseteq {"unverified", "pending"}
  BY DEF Questions
<1>g. UNCHANGED <<live, pending, objects, kubeconfig, config, todo, asked, reused>>
  BY DEF checkClusterTarget, state
\* What the verdict tells, from the contexts or from the UIDs.
<1>h. /\ verdict = "same" => Verified(i)'
      /\ verdict = "different" =>
           /\ live # NoState
           /\ \/ live.home # contextServer(sel) \/ live.ctx \in reused
              \/ \E o \in Objects : live.uid[o] < objects[live.home][o]
      /\ verdict \in {"same", "different", "unknown"}
  <2>1. CASE live = NoState
    <3>1. verdict = "same"
      BY <1>c, <2>1 DEF Verdicts
    <3> QED BY <3>1, <2>1, <1>g DEF Verified
  <2>2. CASE live # NoState /\ sameCluster(live.ctx, sel) = "unknown" /\ contextServer(sel) # None
    <3> DEFINE c == contextServer(sel)
    <3>1. verdict \in verifyByUID(c)
      BY <1>c, <2>2 DEF Verdicts
    <3>2. PICK readable \in SUBSET providerObjects :
            verdict = LET compared == {o \in readable : objects[c][o] # 0} IN
                        IF \E o \in compared : c = live.home /\ objects[c][o] = live.uid[o] THEN "same"
                        ELSE IF compared # {} THEN "different" ELSE "unknown"
      BY <3>1 DEF verifyByUID
    <3>3. verdict = "same" => c = live.home
      BY <3>2
    <3>4. ASSUME verdict = "different", c = live.home
          PROVE  \E o \in Objects : live.uid[o] < objects[live.home][o]
      <4>0. /\ {o \in readable : objects[c][o] # 0} # {}
            /\ ~ \E o \in {p \in readable : objects[c][p] # 0} : c = live.home /\ objects[c][o] = live.uid[o]
        BY <3>2, <3>4
      <4>1. PICK o \in readable : objects[c][o] # 0 /\ objects[c][o] # live.uid[o]
        BY <4>0, <3>4
      <4>2. o \in Objects /\ live.home \in Clusters
        BY <4>1, <2>2, LiveTyped DEF providerObjects
      <4>3. live.uid[o] \in Nat /\ objects[live.home][o] \in Nat
        BY <4>2, GenerationsTyped
      <4> QED BY <2>2, <3>4, <4>1, <4>2, <4>3 DEF LaterGenerations
    <3>5. verdict \in {"same", "different", "unknown"}
      BY <3>2
    <3>6. verdict = "same" => Verified(i)'
      BY <3>3, <1>e, <1>g DEF Verified
    <3> QED BY <2>2, <3>4, <3>5, <3>6
  <2>3. CASE live # NoState /\ ~(sameCluster(live.ctx, sel) = "unknown" /\ contextServer(sel) # None)
    <3>1. verdict = sameCluster(live.ctx, sel)
      BY <1>c, <2>3 DEF Verdicts
    <3>2. ASSUME verdict = "same" PROVE Verified(i)'
      <4>1. CASE live.ctx = sel
        <5>1. contextServer(sel) \in {live.home, None} \/ live.ctx \in reused
          BY <4>1, <1>b, DeployerAssumption DEF LiveStands, contextServer
        <5> QED BY <5>1, <4>1, <1>e, <1>g DEF Verified
      <4>2. CASE live.ctx # sel
        <5>1. /\ live.ctx # None /\ contextServer(live.ctx) # None /\ contextServer(sel) # None
              /\ contextServer(live.ctx) = contextServer(sel)
          BY <3>1, <3>2, <4>2 DEF sameCluster
        <5>2. contextServer(live.ctx) = live.home \/ live.ctx \in reused
          BY <5>1 DEF LiveStands, contextServer
        <5> QED BY <5>1, <5>2, <1>e, <1>g DEF Verified
      <4> QED BY <4>1, <4>2
    <3>3. ASSUME verdict = "different" PROVE live.home # contextServer(sel) \/ live.ctx \in reused
      <4>1. /\ live.ctx # None /\ contextServer(live.ctx) # None
            /\ contextServer(live.ctx) # contextServer(sel)
        BY <3>1, <3>3 DEF sameCluster
      <4>2. contextServer(live.ctx) = live.home \/ live.ctx \in reused
        BY <4>1 DEF LiveStands, contextServer
      <4> QED BY <4>1, <4>2
    <3>4. verdict \in {"same", "different", "unknown"}
      BY <3>1 DEF sameCluster
    <3> QED BY <2>3, <3>2, <3>3, <3>4
  <2> QED BY <2>1, <2>2, <2>3
<1>1. TypeOK'
  <2>1. need' \in [Installers -> SUBSET {"unverified", "pending"}]
    BY <1>c, <1>f DEF TypeOK
  <2>2. target' \in [Installers -> [ctx : Contexts \cup {None}, cluster : Clusters \cup {None}]]
    <3>1. target \in [Installers -> [ctx : Contexts \cup {None}, cluster : Clusters \cup {None}]]
      BY DEF TypeOK
    <3> HIDE DEF IndInv, sel
    <3> QED BY <1>b, <1>d, <3>1
  <2> QED BY <1>c, <1>g, <2>1, <2>2 DEF checkClusterTarget, state, TypeOK
<1>2. LiveStands'
  BY DEF checkClusterTarget, Goto, state, TypeOK, LiveStands
<1>3. PendingStands'
  BY DEF checkClusterTarget, Goto, state, TypeOK, PendingStands
<1>4. LaterGenerations'
  BY DEF checkClusterTarget, Goto, state, TypeOK, LaterGenerations
<1>5. TodoFits'
  BY DEF checkClusterTarget, Goto, state, TypeOK, TodoFits
<1>6. ConfigWritten'
  BY DEF checkClusterTarget, Goto, state, TypeOK, ConfigWritten
<1>7. UnverifiedAsked'
  <2>1. pc'[i] \in {"asking", "locking"} => verdict # "different"
    BY <1>c DEF TypeOK
  <2>2. need'[i] = IF verdict = "different" THEN {} ELSE Questions(verdict)
    BY <1>c DEF TypeOK
  <2>3. pc'[i] \in {"asking", "locking", "refused"} /\ (pc'[i] = "locking" => Questions(verdict) = {})
    BY <1>c DEF TypeOK
  <2> QED BY <1>a, <1>f, <1>h, <2>1, <2>2, <2>3 DEF UnverifiedAsked, Guarded
<1>8. PendingAsked'
  <2>1. pc'[i] \in {"asking", "locking", "refused"} /\ (pc'[i] = "locking" => Questions(verdict) = {})
    BY <1>c DEF TypeOK
  <2>2. pc'[i] = "asking" => need'[i] = Questions(verdict)
    BY <1>c DEF TypeOK
  <2> QED BY <1>a, <1>f, <1>g, <2>1, <2>2 DEF PendingAsked, Guarded
<1>9. ReplacedAsked'
  BY DEF checkClusterTarget, Goto, state, TypeOK, ReplacedAsked
<1>10. RefusedRightly'
  <2>1. pc'[i] = "refused" => verdict = "different"
    BY <1>c DEF TypeOK
  <2> QED BY <1>a, <1>e, <1>g, <1>h, <2>1 DEF RefusedRightly
<1> QED BY <1>1, <1>2, <1>3, <1>4, <1>5, <1>6, <1>7, <1>8, <1>9, <1>10

\* An answer moves a question from need to asked.
LEMMA confirmInv ==
  ASSUME IndInv, OneInstallerOnly,
         NEW i \in Installers, NEW q \in {"unverified", "pending"}, confirm(i, q)
  PROVE  IndInv'
<1> USE DeployerAssumption DEF IndInv
<1>1. TypeOK'
  BY DEF confirm, Goto, state, TypeOK
<1>2. LiveStands'
  BY DEF confirm, Goto, state, TypeOK, LiveStands
<1>3. PendingStands'
  BY DEF confirm, Goto, state, TypeOK, PendingStands
<1>4. LaterGenerations'
  BY DEF confirm, Goto, state, TypeOK, LaterGenerations
<1>5. TodoFits'
  BY DEF confirm, Goto, state, TypeOK, TodoFits
<1>6. ConfigWritten'
  BY DEF confirm, Goto, state, TypeOK, ConfigWritten
<1>7. UnverifiedAsked'
  BY DEF confirm, Goto, state, TypeOK, UnverifiedAsked, Guarded, Verified
<1>8. PendingAsked'
  BY DEF confirm, Goto, state, TypeOK, PendingAsked, Guarded
<1>9. ReplacedAsked'
  BY DEF confirm, Goto, state, TypeOK, ReplacedAsked
<1>10. RefusedRightly'
  BY DEF confirm, Goto, state, TypeOK, RefusedRightly
<1> QED BY <1>1, <1>2, <1>3, <1>4, <1>5, <1>6, <1>7, <1>8, <1>9, <1>10

\* A question answered with no ends the run.
LEMMA abortInv ==
  ASSUME IndInv, OneInstallerOnly,
         NEW i \in Installers, abort(i)
  PROVE  IndInv'
<1> USE DeployerAssumption DEF IndInv
<1>1. TypeOK'
  BY DEF abort, Goto, state, control, TypeOK
<1>2. LiveStands'
  BY DEF abort, Goto, state, control, TypeOK, LiveStands
<1>3. PendingStands'
  BY DEF abort, Goto, state, control, TypeOK, PendingStands
<1>4. LaterGenerations'
  BY DEF abort, Goto, state, control, TypeOK, LaterGenerations
<1>5. TodoFits'
  BY DEF abort, Goto, state, control, TypeOK, TodoFits
<1>6. ConfigWritten'
  BY DEF abort, Goto, state, control, TypeOK, ConfigWritten
<1>7. UnverifiedAsked'
  BY DEF abort, Goto, state, control, TypeOK, UnverifiedAsked, Guarded, Verified
<1>8. PendingAsked'
  BY DEF abort, Goto, state, control, TypeOK, PendingAsked, Guarded
<1>9. ReplacedAsked'
  BY DEF abort, Goto, state, control, TypeOK, ReplacedAsked
<1>10. RefusedRightly'
  BY DEF abort, Goto, state, control, TypeOK, RefusedRightly
<1> QED BY <1>1, <1>2, <1>3, <1>4, <1>5, <1>6, <1>7, <1>8, <1>9, <1>10

\* The operation that was let pass starts on the state the guard saw.
LEMMA acquireLockInv ==
  ASSUME IndInv, OneInstallerOnly,
         NEW i \in Installers, acquireLock(i)
  PROVE  IndInv'
<1> USE DeployerAssumption DEF IndInv
<1>a. \A j \in Installers : j = i
  BY DEF OneInstallerOnly
<1>b. pc'[i] \in {"up", "destroy"}
  BY Lists DEF acquireLock, Goto, TodoFits, TypeOK
<1>1. TypeOK'
  BY <1>b DEF acquireLock, Goto, state, control, TypeOK
<1>2. LiveStands'
  BY DEF acquireLock, Goto, state, control, TypeOK, LiveStands
<1>3. PendingStands'
  BY DEF acquireLock, Goto, state, control, TypeOK, PendingStands
<1>4. LaterGenerations'
  BY DEF acquireLock, Goto, state, control, TypeOK, LaterGenerations
<1>5. TodoFits'
  BY DEF acquireLock, Goto, state, control, TypeOK, TodoFits
<1>6. ConfigWritten'
  BY DEF acquireLock, Goto, state, control, TypeOK, ConfigWritten
<1>7. UnverifiedAsked'
  BY DEF acquireLock, Goto, state, control, TypeOK, UnverifiedAsked, Guarded, Verified
<1>8. PendingAsked'
  BY DEF acquireLock, Goto, state, control, TypeOK, PendingAsked, Guarded
<1>9. ReplacedAsked'
  BY <1>a, <1>b DEF ReplacedAsked
<1>10. RefusedRightly'
  BY <1>a, <1>b DEF RefusedRightly
<1> QED BY <1>1, <1>2, <1>3, <1>4, <1>5, <1>6, <1>7, <1>8, <1>9, <1>10

\* Cancelling a lock changes nothing that is recorded.
LEMMA stackLockedInv ==
  ASSUME IndInv, OneInstallerOnly,
         NEW i \in Installers, stackLocked(i)
  PROVE  IndInv'
<1> USE DeployerAssumption DEF IndInv
<1>1. TypeOK'
  <2>1. UNCHANGED faults \/ Fault
    BY DEF stackLocked
  <2>3. UNCHANGED pc \/ pc' = [pc EXCEPT ![i] = "failed"]
    BY DEF stackLocked, Goto
  <2>2. lock' \in Installers \cup {None} /\ canceled' \in [Installers -> BOOLEAN]
    BY DEF stackLocked, TypeOK
  <2>4. UNCHANGED <<kubeconfig, objects, state, target, todo, need, asked, reused>>
    BY DEF stackLocked
  <2>5. faults' \in 0 .. MaxFaults
    BY <2>1 DEF Fault, TypeOK
  <2>6. pc' \in [Installers -> {"idle", "prepare", "guard", "asking", "locking", "up", "destroy",
                              "deleting", "done", "refused", "aborted", "failed"}]
    BY <2>3 DEF TypeOK
  <2> QED BY <2>2, <2>4, <2>5, <2>6 DEF state, TypeOK
<1>2. LiveStands'
  BY DEF stackLocked, Goto, state, Fault, MayCancel, TypeOK, LiveStands
<1>3. PendingStands'
  BY DEF stackLocked, Goto, state, Fault, MayCancel, TypeOK, PendingStands
<1>4. LaterGenerations'
  BY DEF stackLocked, Goto, state, Fault, MayCancel, TypeOK, LaterGenerations
<1>5. TodoFits'
  BY DEF stackLocked, Goto, state, Fault, MayCancel, TypeOK, TodoFits
<1>6. ConfigWritten'
  BY DEF stackLocked, Goto, state, Fault, MayCancel, TypeOK, ConfigWritten
<1>7. UnverifiedAsked'
  BY DEF stackLocked, Goto, state, Fault, MayCancel, TypeOK, UnverifiedAsked, Guarded, Verified
<1>8. PendingAsked'
  BY DEF stackLocked, Goto, state, Fault, MayCancel, TypeOK, PendingAsked, Guarded
<1>9. ReplacedAsked'
  BY DEF stackLocked, Goto, state, Fault, MayCancel, TypeOK, ReplacedAsked
<1>10. RefusedRightly'
  BY DEF stackLocked, Goto, state, Fault, MayCancel, TypeOK, RefusedRightly
<1> QED BY <1>1, <1>2, <1>3, <1>4, <1>5, <1>6, <1>7, <1>8, <1>9, <1>10

\* A deletion that was asked about leaves fewer pending.
LEMMA deletePendingInv ==
  ASSUME IndInv, OneInstallerOnly,
         NEW i \in Installers, deletePending(i)
  PROVE  IndInv'
<1> USE DeployerAssumption DEF IndInv
<1>a. \A j \in Installers : j = i
  BY DEF OneInstallerOnly
<1>1. TypeOK'
  <2>1. PICK p \in pending : /\ Reaches(p.ctx) # None
                            /\ objects' = Without(Reaches(p.ctx), {p.obj})
                            /\ pending' = pending \ {p}
    BY DEF deletePending
  <2>2. objects' \in [Clusters -> [Objects -> 0 .. MaxGen]]
    BY <2>1, WithoutTyped
  <2> QED BY <2>1, <2>2 DEF deletePending, control, TypeOK
<1>2. LiveStands'
  BY DEF deletePending, control, Without, TypeOK, LiveStands
<1>3. PendingStands'
  BY DEF deletePending, control, Without, TypeOK, PendingStands
<1>4. LaterGenerations'
  <2>1. PICK p \in pending : objects' = Without(Reaches(p.ctx), {p.obj})
    BY DEF deletePending
  <2> QED BY <2>1, WithoutTyped, LiveTyped DEF deletePending, LaterGenerations
<1>5. TodoFits'
  BY DEF deletePending, control, Without, TypeOK, TodoFits
<1>6. ConfigWritten'
  BY DEF deletePending, control, Without, TypeOK, ConfigWritten
<1>7. UnverifiedAsked'
  BY DEF deletePending, control, Without, TypeOK, UnverifiedAsked, Guarded, Verified
<1>8. PendingAsked'
  BY DEF deletePending, control, Without, TypeOK, PendingAsked, Guarded
<1>9. ReplacedAsked'
  BY DEF deletePending, control, Without, TypeOK, ReplacedAsked
<1>10. RefusedRightly'
  BY <1>a DEF deletePending, RefusedRightly
<1> QED BY <1>1, <1>2, <1>3, <1>4, <1>5, <1>6, <1>7, <1>8, <1>9, <1>10

\* The update makes the selected cluster the home of the stack, and
\* what it replaces there was asked about.
LEMMA applyProgramInv ==
  ASSUME IndInv, OneInstallerOnly,
         NEW i \in Installers, applyProgram(i)
  PROVE  IndInv'
<1> USE DeployerAssumption DEF IndInv
<1>a. \A j \in Installers : j = i
  BY DEF OneInstallerOnly
<1> DEFINE c == kubeconfig[config]
           made == [o \in Objects |-> IF objects[c][o] = 0 THEN 1 ELSE objects[c][o]]
<1>b. config \in Contexts /\ c \in Clusters
  <2>1. todo[i] = <<"up">> /\ c # None
    BY DEF applyProgram, TodoFits
  <2>2. config \in Contexts
    BY <2>1, Lists DEF applyProgram, ConfigWritten, TypeOK
  <2> QED BY <2>1, <2>2 DEF TypeOK
<1>c. made \in [Objects -> 0 .. MaxGen]
  BY <1>b DEF TypeOK, MaxGen
<1>d. /\ objects' = [objects EXCEPT ![c] = made]
      /\ live' = [ctx |-> config, home |-> c, uid |-> made]
      /\ pending' = IF live = NoState \/ Reaches(live.ctx) = c THEN {} ELSE Recorded
      /\ pc' = [pc EXCEPT ![i] = "deleting"] /\ reused' = reused \ {config}
      /\ UNCHANGED <<kubeconfig, config, lock, target, todo, need, asked, canceled, faults>>
  BY DEF applyProgram, Goto, control
<1>e. pc'[i] = "deleting" /\ live'.ctx = config /\ live'.home = c /\ live'.uid = made
  BY <1>d DEF TypeOK
<1>f. pending' \in SUBSET [ctx : Contexts \cup {None}, home : Clusters, obj : Objects]
  BY <1>d, LiveTyped DEF Recorded
<1>1. TypeOK'
  <2>1. objects' \in [Clusters -> [Objects -> 0 .. MaxGen]]
    BY <1>b, <1>c, <1>d DEF TypeOK
  <2>2. live' \in States
    BY <1>b, <1>c, <1>d DEF States
  <2> QED BY <1>d, <1>f, <2>1, <2>2 DEF TypeOK
<1>2. LiveStands'
  BY <1>d, <1>e DEF LiveStands
<1>3. PendingStands'
  <2> SUFFICES ASSUME NEW p \in pending', p.ctx \notin {None} \cup reused'
                PROVE  kubeconfig[p.ctx] \in {p.home, None}
    BY <1>d DEF PendingStands
  <2>1. /\ live # NoState /\ p.ctx = live.ctx /\ p.home = live.home
        /\ Reaches(live.ctx) # c
    BY <1>d DEF Recorded
  <2>2. p.ctx # config
    BY <1>b, <2>1, DeployerAssumption DEF Reaches
  <2>3. live.ctx \notin {None} \cup reused
    BY <1>d, <2>1, <2>2
  <2>4. kubeconfig[live.ctx] \in {live.home, None}
    BY <2>3 DEF LiveStands
  <2> QED BY <2>1, <2>4
<1>4. LaterGenerations'
  <2>0. objects \in [Clusters -> [Objects -> 0 .. MaxGen]]
    BY DEF TypeOK
  <2> HIDE DEF made
  <2>1. \A o \in Objects : objects'[c][o] = made[o] /\ made[o] \in Nat
    BY <1>b, <1>c, <1>d, <2>0 DEF MaxGen
  <2> QED BY <1>e, <2>1 DEF LaterGenerations
<1>5. TodoFits'
  <2>1. todo[i] = <<"up">> /\ target[i].ctx \in Contexts
    BY DEF applyProgram, TodoFits
  <2> QED BY <1>a, <1>d, <1>e, <2>1, Lists DEF TodoFits
<1>6. ConfigWritten'
  BY <1>b, <1>d, DeployerAssumption DEF ConfigWritten
<1>7. UnverifiedAsked'
  BY <1>a, <1>e DEF UnverifiedAsked, Guarded
<1>8. PendingAsked'
  BY <1>a, <1>e DEF PendingAsked, Guarded
<1>9. ReplacedAsked'
  <2> SUFFICES ASSUME NEW p \in pending', asked[i] = {}
                PROVE  p.ctx \in {None, target[i].ctx} \cup reused' \/ p.home = target[i].cluster
    BY <1>a, <1>d DEF ReplacedAsked
  <2>1. /\ live # NoState /\ p.ctx = live.ctx /\ p.home = live.home
        /\ Reaches(live.ctx) # c
    BY <1>d DEF Recorded
  <2>2. Verified(i)
    BY DEF applyProgram, UnverifiedAsked, Guarded
  <2>3. p.ctx # config
    BY <1>b, <2>1, DeployerAssumption DEF Reaches
  <2>4. p.ctx \in reused => p.ctx \in reused'
    BY <1>d, <2>3
  <2> QED BY <2>1, <2>2, <2>4 DEF Verified
<1>10. RefusedRightly'
  BY <1>a, <1>e DEF RefusedRightly
<1> QED BY <1>1, <1>2, <1>3, <1>4, <1>5, <1>6, <1>7, <1>8, <1>9, <1>10

\* Deleting what was replaced leaves the record alone.
LEMMA deleteReplacedInv ==
  ASSUME IndInv, OneInstallerOnly,
         NEW i \in Installers, deleteReplaced(i)
  PROVE  IndInv'
<1> USE DeployerAssumption DEF IndInv
<1>a. \A j \in Installers : j = i
  BY DEF OneInstallerOnly
<1>1. TypeOK'
  <2>1. PICK p \in pending : /\ Reaches(p.ctx) # None
                            /\ objects' = Without(Reaches(p.ctx), {p.obj})
                            /\ pending' = pending \ {p}
    BY DEF deleteReplaced
  <2>2. objects' \in [Clusters -> [Objects -> 0 .. MaxGen]]
    BY <2>1, WithoutTyped
  <2> QED BY <2>1, <2>2 DEF deleteReplaced, control, TypeOK
<1>2. LiveStands'
  BY DEF deleteReplaced, control, Without, TypeOK, LiveStands
<1>3. PendingStands'
  BY DEF deleteReplaced, control, Without, TypeOK, PendingStands
<1>4. LaterGenerations'
  <2>1. PICK p \in pending : objects' = Without(Reaches(p.ctx), {p.obj})
    BY DEF deleteReplaced
  <2> QED BY <2>1, WithoutTyped, LiveTyped DEF deleteReplaced, LaterGenerations
<1>5. TodoFits'
  BY DEF deleteReplaced, control, Without, TypeOK, TodoFits
<1>6. ConfigWritten'
  BY DEF deleteReplaced, control, Without, TypeOK, ConfigWritten
<1>7. UnverifiedAsked'
  BY DEF deleteReplaced, control, Without, TypeOK, UnverifiedAsked, Guarded, Verified
<1>8. PendingAsked'
  BY DEF deleteReplaced, control, Without, TypeOK, PendingAsked, Guarded
<1>9. ReplacedAsked'
  BY DEF deleteReplaced, control, Without, TypeOK, ReplacedAsked
<1>10. RefusedRightly'
  BY <1>a DEF deleteReplaced, RefusedRightly
<1> QED BY <1>1, <1>2, <1>3, <1>4, <1>5, <1>6, <1>7, <1>8, <1>9, <1>10

\* A stack that is torn down has no home.
LEMMA destroyStackInv ==
  ASSUME IndInv, OneInstallerOnly,
         NEW i \in Installers, destroyStack(i)
  PROVE  IndInv'
<1> USE DeployerAssumption DEF IndInv
<1>a. \A j \in Installers : j = i
  BY DEF OneInstallerOnly
<1>1. TypeOK'
  <2>1. objects' \in [Clusters -> [Objects -> 0 .. MaxGen]]
    BY WithoutTyped DEF destroyStack, TypeOK
  <2> QED BY <2>1 DEF destroyStack, Goto, control, TypeOK, States
<1>2. LiveStands'
  BY DEF destroyStack, NoState, LiveStands
<1>3. PendingStands'
  BY LiveTyped DEF destroyStack, PendingStands
<1>4. LaterGenerations'
  BY DEF destroyStack, Goto, control, TypeOK, LaterGenerations
<1>5. TodoFits'
  BY <1>a, Lists DEF destroyStack, Goto, control, TypeOK, TodoFits
<1>6. ConfigWritten'
  BY DEF destroyStack, Goto, control, TypeOK, ConfigWritten
<1>7. UnverifiedAsked'
  BY DEF destroyStack, Goto, control, TypeOK, UnverifiedAsked, Guarded, Verified
<1>8. PendingAsked'
  BY DEF destroyStack, Goto, control, TypeOK, PendingAsked, Guarded
<1>9. ReplacedAsked'
  BY DEF destroyStack, Goto, control, TypeOK, ReplacedAsked
<1>10. RefusedRightly'
  BY <1>a DEF destroyStack, Goto, control, TypeOK, RefusedRightly
<1> QED BY <1>1, <1>2, <1>3, <1>4, <1>5, <1>6, <1>7, <1>8, <1>9, <1>10

\* A second operation finds the stack torn down by the first one.
LEMMA operationDoneInv ==
  ASSUME IndInv, OneInstallerOnly,
         NEW i \in Installers, operationDone(i)
  PROVE  IndInv'
<1> USE DeployerAssumption DEF IndInv
<1>a. \A j \in Installers : j = i
  BY DEF OneInstallerOnly
<1>b. /\ todo[i] \in {<<"up">>, <<"destroy">>, <<"destroy", "up">>}
      /\ Len(todo[i]) # 1 => todo[i] = <<"destroy", "up">> /\ Tail(todo[i]) = <<"up">>
      /\ Tail(todo[i]) \in {<<>>, <<"up">>}
  BY Lists DEF operationDone, TodoFits, TypeOK
<1>1. TypeOK'
  <2>1. todo' \in [Installers -> {<<>>, <<"up">>, <<"destroy">>, <<"destroy", "up">>}]
    BY <1>b DEF operationDone, TypeOK
  <2> QED BY <2>1 DEF operationDone, Goto, state, Unlocked, TypeOK
<1>2. LiveStands'
  BY DEF operationDone, Goto, state, Unlocked, TypeOK, LiveStands
<1>3. PendingStands'
  BY DEF operationDone, Goto, state, Unlocked, TypeOK, PendingStands
<1>4. LaterGenerations'
  BY DEF operationDone, Goto, state, Unlocked, TypeOK, LaterGenerations
<1>5. TodoFits'
  BY <1>a, <1>b, Lists DEF operationDone, Goto, state, TypeOK, TodoFits
<1>6. ConfigWritten'
  BY DEF operationDone, Goto, state, Unlocked, TypeOK, ConfigWritten
<1>7. UnverifiedAsked'
  <2>1. pc'[i] = "locking" => live = NoState
    BY <1>b DEF operationDone, Goto, TypeOK, TodoFits
  <2>2. pc'[i] \in {"done", "locking"}
    BY DEF operationDone, Goto, TypeOK
  <2> QED BY <1>a, <2>1, <2>2 DEF operationDone, state, UnverifiedAsked, Guarded, Verified
<1>8. PendingAsked'
  BY DEF operationDone, Goto, state, Unlocked, TypeOK, PendingAsked, Guarded
<1>9. ReplacedAsked'
  BY DEF operationDone, Goto, state, Unlocked, TypeOK, ReplacedAsked
<1>10. RefusedRightly'
  BY DEF operationDone, Goto, state, Unlocked, TypeOK, RefusedRightly
<1> QED BY <1>1, <1>2, <1>3, <1>4, <1>5, <1>6, <1>7, <1>8, <1>9, <1>10

\* A failed operation ends the run and leaves the record as it is.
LEMMA operationFailsInv ==
  ASSUME IndInv, OneInstallerOnly,
         NEW i \in Installers, operationFails(i)
  PROVE  IndInv'
<1> USE DeployerAssumption DEF IndInv
<1>1. TypeOK'
  BY DEF operationFails, Goto, state, control, Unlocked, Fault, TypeOK
<1>2. LiveStands'
  BY DEF operationFails, Goto, state, control, Unlocked, Fault, TypeOK, LiveStands
<1>3. PendingStands'
  BY DEF operationFails, Goto, state, control, Unlocked, Fault, TypeOK, PendingStands
<1>4. LaterGenerations'
  BY DEF operationFails, Goto, state, control, Unlocked, Fault, TypeOK, LaterGenerations
<1>5. TodoFits'
  BY DEF operationFails, Goto, state, control, Unlocked, Fault, TypeOK, TodoFits
<1>6. ConfigWritten'
  BY DEF operationFails, Goto, state, control, Unlocked, Fault, TypeOK, ConfigWritten
<1>7. UnverifiedAsked'
  BY DEF operationFails, Goto, state, control, Unlocked, Fault, TypeOK, UnverifiedAsked, Guarded, Verified
<1>8. PendingAsked'
  BY DEF operationFails, Goto, state, control, Unlocked, Fault, TypeOK, PendingAsked, Guarded
<1>9. ReplacedAsked'
  BY DEF operationFails, Goto, state, control, Unlocked, Fault, TypeOK, ReplacedAsked
<1>10. RefusedRightly'
  BY DEF operationFails, Goto, state, control, Unlocked, Fault, TypeOK, RefusedRightly
<1> QED BY <1>1, <1>2, <1>3, <1>4, <1>5, <1>6, <1>7, <1>8, <1>9, <1>10

\* A retry goes through the guard again and forgets the answers.
LEMMA RetryInv ==
  ASSUME IndInv, OneInstallerOnly,
         NEW i \in Installers, Retry(i)
  PROVE  IndInv'
<1> USE DeployerAssumption DEF IndInv
<1>1. TypeOK'
  BY DEF Retry, Goto, state, Forget, Operations, TypeOK
<1>2. LiveStands'
  BY DEF Retry, Goto, state, Forget, Operations, TypeOK, LiveStands
<1>3. PendingStands'
  BY DEF Retry, Goto, state, Forget, Operations, TypeOK, PendingStands
<1>4. LaterGenerations'
  BY DEF Retry, Goto, state, Forget, Operations, TypeOK, LaterGenerations
<1>5. TodoFits'
  BY Lists DEF Retry, Goto, state, Forget, Operations, TypeOK, TodoFits
<1>6. ConfigWritten'
  BY DEF Retry, Goto, state, Forget, Operations, TypeOK, ConfigWritten
<1>7. UnverifiedAsked'
  BY DEF Retry, Goto, state, Forget, Operations, TypeOK, UnverifiedAsked, Guarded, Verified
<1>8. PendingAsked'
  BY DEF Retry, Goto, state, Forget, Operations, TypeOK, PendingAsked, Guarded
<1>9. ReplacedAsked'
  BY DEF Retry, Goto, state, Forget, Operations, TypeOK, ReplacedAsked
<1>10. RefusedRightly'
  BY DEF Retry, Goto, state, Forget, Operations, TypeOK, RefusedRightly
<1> QED BY <1>1, <1>2, <1>3, <1>4, <1>5, <1>6, <1>7, <1>8, <1>9, <1>10

\* The end of a run forgets the answers.
LEMMA EndInv ==
  ASSUME IndInv, OneInstallerOnly,
         NEW i \in Installers, End(i)
  PROVE  IndInv'
<1> USE DeployerAssumption DEF IndInv
<1>1. TypeOK'
  <2>1. /\ need' \in [Installers -> SUBSET {"unverified", "pending"}]
        /\ asked' \in [Installers -> SUBSET {"unverified", "pending"}]
        /\ canceled' \in [Installers -> BOOLEAN]
    BY DEF End, Forget, TypeOK
  <2>2. /\ target' \in [Installers -> [ctx : Contexts \cup {None}, cluster : Clusters \cup {None}]]
        /\ todo' \in [Installers -> {<<>>, <<"up">>, <<"destroy">>, <<"destroy", "up">>}]
    BY DEF End, NoTarget, TypeOK
  <2> QED BY <2>1, <2>2 DEF End, Goto, state, Fault, TypeOK
<1>2. LiveStands'
  BY DEF End, Goto, state, Forget, TypeOK, LiveStands
<1>3. PendingStands'
  BY DEF End, Goto, state, Forget, TypeOK, PendingStands
<1>4. LaterGenerations'
  BY DEF End, Goto, state, Forget, TypeOK, LaterGenerations
<1>5. TodoFits'
  BY DEF End, Goto, state, Forget, TypeOK, TodoFits
<1>6. ConfigWritten'
  BY DEF End, Goto, state, Forget, TypeOK, ConfigWritten
<1>7. UnverifiedAsked'
  BY DEF End, Goto, state, Forget, TypeOK, UnverifiedAsked, Guarded, Verified
<1>8. PendingAsked'
  BY DEF End, Goto, state, Forget, TypeOK, PendingAsked, Guarded
<1>9. ReplacedAsked'
  BY DEF End, Goto, state, Forget, TypeOK, ReplacedAsked
<1>10. RefusedRightly'
  BY DEF End, Goto, state, Forget, TypeOK, RefusedRightly
<1> QED BY <1>1, <1>2, <1>3, <1>4, <1>5, <1>6, <1>7, <1>8, <1>9, <1>10

\* A killed process leaves its record and its lock behind.
LEMMA CrashInv ==
  ASSUME IndInv, OneInstallerOnly,
         NEW i \in Installers, Crash(i)
  PROVE  IndInv'
<1> USE DeployerAssumption DEF IndInv
<1>1. TypeOK'
  <2>1. /\ need' \in [Installers -> SUBSET {"unverified", "pending"}]
        /\ asked' \in [Installers -> SUBSET {"unverified", "pending"}]
        /\ canceled' \in [Installers -> BOOLEAN]
    BY DEF Crash, Forget, TypeOK
  <2>2. /\ target' \in [Installers -> [ctx : Contexts \cup {None}, cluster : Clusters \cup {None}]]
        /\ todo' \in [Installers -> {<<>>, <<"up">>, <<"destroy">>, <<"destroy", "up">>}]
    BY DEF Crash, NoTarget, TypeOK
  <2> QED BY <2>1, <2>2 DEF Crash, Goto, state, Fault, TypeOK
<1>2. LiveStands'
  BY DEF Crash, Goto, state, Forget, Fault, TypeOK, LiveStands
<1>3. PendingStands'
  BY DEF Crash, Goto, state, Forget, Fault, TypeOK, PendingStands
<1>4. LaterGenerations'
  BY DEF Crash, Goto, state, Forget, Fault, TypeOK, LaterGenerations
<1>5. TodoFits'
  BY DEF Crash, Goto, state, Forget, Fault, TypeOK, TodoFits
<1>6. ConfigWritten'
  BY DEF Crash, Goto, state, Forget, Fault, TypeOK, ConfigWritten
<1>7. UnverifiedAsked'
  BY DEF Crash, Goto, state, Forget, Fault, TypeOK, UnverifiedAsked, Guarded, Verified
<1>8. PendingAsked'
  BY DEF Crash, Goto, state, Forget, Fault, TypeOK, PendingAsked, Guarded
<1>9. ReplacedAsked'
  BY DEF Crash, Goto, state, Forget, Fault, TypeOK, ReplacedAsked
<1>10. RefusedRightly'
  BY DEF Crash, Goto, state, Forget, Fault, TypeOK, RefusedRightly
<1> QED BY <1>1, <1>2, <1>3, <1>4, <1>5, <1>6, <1>7, <1>8, <1>9, <1>10

\* A recorded context that comes to stand for another cluster is noted.
LEMMA EditKubeconfigInv ==
  ASSUME IndInv, OneInstallerOnly,
         NEW x \in Contexts, EditKubeconfig(x)
  PROVE  IndInv'
<1> USE DeployerAssumption DEF IndInv
<1>1. TypeOK'
  <2>1. kubeconfig' \in [Contexts -> Clusters \cup {None}]
    BY DEF EditKubeconfig, TypeOK
  <2> QED BY <2>1 DEF EditKubeconfig, state, control, Fault, TypeOK
<1>a. PICK c \in Clusters \cup {None} :
        /\ kubeconfig' = [kubeconfig EXCEPT ![x] = c]
        /\ reused' = IF c # None /\ Elsewhere(x, c) THEN reused \cup {x} ELSE reused
  BY DEF EditKubeconfig
<1>b. UNCHANGED <<live, pending>>
  BY DEF EditKubeconfig, state
<1>2. LiveStands'
  <2> SUFFICES ASSUME live.ctx \notin {None} \cup reused'
                PROVE  kubeconfig'[live.ctx] \in {live.home, None}
    BY <1>b DEF LiveStands
  <2>1. live.ctx \in Contexts /\ live.ctx \notin {None} \cup reused
    BY <1>a, LiveTyped DEF NoState
  <2>2. CASE live.ctx = x
    <3>1. kubeconfig'[live.ctx] = c
      BY <1>a, <2>2 DEF TypeOK
    <3>2. c = None \/ live.home = c
      BY <1>a, <2>2 DEF Elsewhere
    <3> QED BY <3>1, <3>2
  <2>3. CASE live.ctx # x
    BY <1>a, <2>1, <2>3 DEF TypeOK, LiveStands
  <2> QED BY <2>2, <2>3
<1>3. PendingStands'
  <2> SUFFICES ASSUME NEW p \in pending, p.ctx \notin {None} \cup reused'
                PROVE  kubeconfig'[p.ctx] \in {p.home, None}
    BY <1>b DEF PendingStands
  <2>1. p.ctx \in Contexts /\ p.ctx \notin {None} \cup reused
    BY <1>a DEF TypeOK
  <2>2. CASE p.ctx = x
    <3>1. kubeconfig'[p.ctx] = c
      BY <1>a, <2>2 DEF TypeOK
    <3>2. c = None \/ p.home = c
      BY <1>a, <2>2 DEF Elsewhere
    <3> QED BY <3>1, <3>2
  <2>3. CASE p.ctx # x
    BY <1>a, <2>1, <2>3 DEF TypeOK, PendingStands
  <2> QED BY <2>2, <2>3
<1>4. LaterGenerations'
  BY DEF EditKubeconfig, state, control, Fault, TypeOK, LaterGenerations
<1>5. TodoFits'
  BY DEF EditKubeconfig, state, control, Fault, TypeOK, TodoFits
<1>6. ConfigWritten'
  BY DEF EditKubeconfig, state, control, Fault, TypeOK, ConfigWritten
<1>7. UnverifiedAsked'
  BY DEF EditKubeconfig, state, control, Fault, TypeOK, UnverifiedAsked, Guarded, Verified
<1>8. PendingAsked'
  BY DEF EditKubeconfig, state, control, Fault, TypeOK, PendingAsked, Guarded
<1>9. ReplacedAsked'
  BY DEF EditKubeconfig, state, control, Fault, TypeOK, ReplacedAsked
<1>10. RefusedRightly'
  BY DEF EditKubeconfig, state, control, Fault, TypeOK, RefusedRightly
<1> QED BY <1>1, <1>2, <1>3, <1>4, <1>5, <1>6, <1>7, <1>8, <1>9, <1>10

\* An object made anew has a later generation.
LEMMA RecreateInv ==
  ASSUME IndInv, OneInstallerOnly,
         NEW c \in Clusters, NEW o \in Objects, Recreate(c, o)
  PROVE  IndInv'
<1> USE DeployerAssumption DEF IndInv
<1>a. /\ objects[c][o] \in 1 .. MaxGen - 1
      /\ \A d \in Clusters, p \in Objects :
           /\ objects'[d][p] = IF d = c /\ p = o THEN objects[c][o] + 1 ELSE objects[d][p]
           /\ objects[d][p] \in Nat
  BY DEF Recreate, TypeOK, MaxGen
<1>b. \A d \in Clusters, p \in Objects : /\ objects[d][p] \in Nat /\ objects[d][p] <= objects'[d][p]
                                        /\ objects'[d][p] \in Nat
  BY <1>a DEF MaxGen
<1>c. live # NoState => live.home \in Clusters /\ \A p \in Objects : live.uid[p] \in Nat
  BY LiveTyped, GenerationsTyped
<1>d. UNCHANGED <<live, pc, target, reused>>
  BY DEF Recreate, state, control
<1>1. TypeOK'
  BY DEF Recreate, state, control, Fault, MaxGen, TypeOK
<1>2. LiveStands'
  BY DEF Recreate, state, control, Fault, MaxGen, TypeOK, LiveStands
<1>3. PendingStands'
  BY DEF Recreate, state, control, Fault, MaxGen, TypeOK, PendingStands
<1>4. LaterGenerations'
  <2> SUFFICES ASSUME live # NoState, NEW p \in Objects
                PROVE  objects'[live.home][p] = 0 \/ live.uid[p] <= objects'[live.home][p]
    BY <1>d DEF LaterGenerations
  <2>1. objects[live.home][p] # 0 \/ objects'[live.home][p] = 0
    BY <1>a, <1>c
  <2> QED BY <2>1, <1>b, <1>c DEF LaterGenerations
<1>5. TodoFits'
  BY DEF Recreate, state, control, Fault, MaxGen, TypeOK, TodoFits
<1>6. ConfigWritten'
  BY DEF Recreate, state, control, Fault, MaxGen, TypeOK, ConfigWritten
<1>7. UnverifiedAsked'
  BY DEF Recreate, state, control, Fault, MaxGen, TypeOK, UnverifiedAsked, Guarded, Verified
<1>8. PendingAsked'
  BY DEF Recreate, state, control, Fault, MaxGen, TypeOK, PendingAsked, Guarded
<1>9. ReplacedAsked'
  BY DEF Recreate, state, control, Fault, MaxGen, TypeOK, ReplacedAsked
<1>10. RefusedRightly'
  <2>1. \A p \in Objects : live # NoState /\ live.uid[p] < objects[live.home][p]
                             => live.uid[p] < objects'[live.home][p]
    BY <1>b, <1>c
  <2> QED BY <2>1, <1>d DEF RefusedRightly
<1> QED BY <1>1, <1>2, <1>3, <1>4, <1>5, <1>6, <1>7, <1>8, <1>9, <1>10

\* The invariant holds at the start.
LEMMA InitInv == Init => IndInv
<1> SUFFICES ASSUME Init PROVE IndInv
  OBVIOUS
<1> USE DeployerAssumption
<1>1. TypeOK
  BY DEF Init, TypeOK, States, NoState, NoTarget, MaxGen
<1>2. LiveStands /\ PendingStands
  <2>1. LiveStands
    BY DEF Init, LiveStands
  <2> QED BY <2>1 DEF Init, PendingStands
<1>3. LaterGenerations
  BY DEF Init, LaterGenerations, NoState
<1>4. TodoFits /\ ConfigWritten
  BY DEF Init, TodoFits, ConfigWritten
<1>5. UnverifiedAsked /\ PendingAsked
  BY DEF Init, UnverifiedAsked, PendingAsked, Guarded
<1>6. ReplacedAsked /\ RefusedRightly
  BY DEF Init, ReplacedAsked, RefusedRightly
<1> QED BY <1>1, <1>2, <1>3, <1>4, <1>5, <1>6 DEF IndInv

\* Every action of Next preserves the invariant.
LEMMA StepInv ==
  ASSUME OneInstallerOnly, IndInv, [Next]_vars
  PROVE  IndInv'
<1>1. ASSUME NEW i \in Installers, Deploy(i) PROVE IndInv'
  BY <1>1, prepareStackInv, prepareFailsInv, checkClusterTargetInv, acquireLockInv, stackLockedInv,
     deletePendingInv, applyProgramInv, deleteReplacedInv, destroyStackInv, operationDoneInv,
     operationFailsInv DEF Deploy
<1>2. ASSUME NEW i \in Installers, Operator(i) PROVE IndInv'
  BY <1>2, StartInv, confirmInv, abortInv, RetryInv, EndInv DEF Operator
<1>3. CASE UNCHANGED vars
  BY <1>3 DEF vars, state, control, IndInv, TypeOK, LiveStands, PendingStands, LaterGenerations, TodoFits,
     ConfigWritten, UnverifiedAsked, PendingAsked, ReplacedAsked, RefusedRightly, Verified, Guarded
<1> QED BY <1>1, <1>2, <1>3, CrashInv, EditKubeconfigInv, RecreateInv DEF Next

LEMMA Invariant ==
  ASSUME OneInstallerOnly
  PROVE  Spec => []IndInv
<1>1. IndInv /\ [Next]_vars => IndInv'
  BY StepInv
<1> QED BY InitInv, <1>1, PTL DEF Spec

----------------------------------------------------------------------------
(* What a single installer guarantees, whatever is renamed, removed, killed *)
(* or made anew around it.                                                  *)

\* Every variable has its type, for every kubeconfig and every recorded state.
THEOREM TypeCorrect ==
  ASSUME OneInstallerOnly
  PROVE  Spec => []TypeOK
<1>1. IndInv => TypeOK
  BY DEF IndInv
<1> QED BY Invariant, <1>1, PTL

\* checkClusterTarget lets no operation start, without a question, on a stack
\* that lives on another cluster than the selected one, unless the very name the
\* stack recorded has come to stand for another cluster; whatever else happens
\* to the kubeconfig.
THEOREM GuardRefuses ==
  ASSUME OneInstallerOnly
  PROVE  Spec => []RefusesUnlessReused
<1>1. IndInv => RefusesUnlessReused
  BY DEF IndInv, UnverifiedAsked, Guarded, Verified, RefusesUnlessReused, OnSelected
<1> QED BY Invariant, <1>1, PTL

\* No operation starts on a stack with resources pending deletion before the
\* operator has confirmed them, whichever run left them pending.
THEOREM PendingConfirmed ==
  ASSUME OneInstallerOnly
  PROVE  Spec => []AsksAboutPending
<1>1. IndInv => AsksAboutPending
  BY DEF IndInv, PendingAsked, Guarded, AsksAboutPending
<1> QED BY Invariant, <1>1, PTL

\* A refusal is justified: the stack is elsewhere, its objects were made anew, or
\* the name it recorded has come to stand for another cluster.
THEOREM RefusalsJustified ==
  ASSUME OneInstallerOnly
  PROVE  Spec => []RefusalIsRight
<1>1. ASSUME IndInv PROVE RefusalIsRight
  <2> SUFFICES ASSUME NEW i \in Installers, pc[i] = "refused", live.home = target[i].cluster,
                      live.ctx \notin reused
               PROVE  \E o \in Objects : objects[live.home][o] # live.uid[o]
    BY DEF RefusalIsRight
  <2>1. PICK o \in Objects : live # NoState /\ live.uid[o] < objects[live.home][o]
    BY <1>1 DEF IndInv, RefusedRightly
  <2>2. live.uid[o] \in Nat /\ objects[live.home][o] \in Nat
    BY <1>1, <2>1, LiveTyped, GenerationsTyped DEF IndInv
  <2> QED BY <2>1, <2>2
<1> QED BY Invariant, <1>1, PTL

\* A cluster from which a step deletes is the selected one, or there was a
\* question, while the recorded providers name their contexts.
LEMMA StepDeletes ==
  ASSUME IndInv, OneInstallerOnly, [Next]_vars,
         NamesStand,
         NEW c \in Clusters, NEW o \in Objects,
         objects[c][o] # 0, objects'[c][o] = 0
  PROVE  \E i \in Installers :
           Running(i) /\ (asked[i] # {} \/ c \in {target[i].cluster, kubeconfig[target[i].ctx]})
<1>a. TypeOK
  BY DEF IndInv
\* Only three actions delete.
<1>1. PICK i \in Installers : deletePending(i) \/ deleteReplaced(i) \/ destroyStack(i)
  <2>1. objects' # objects
    OBVIOUS
  <2>2. ASSUME NEW i \in Installers, applyProgram(i) PROVE objects'[c][o] # 0
    <3> DEFINE d == kubeconfig[config]
    <3>1. objects' = [objects EXCEPT ![d] = [q \in Objects |-> IF objects[d][q] = 0 THEN 1 ELSE objects[d][q]]]
      BY <2>2 DEF applyProgram
    <3>2. objects'[c] = IF c = d THEN [q \in Objects |-> IF objects[d][q] = 0 THEN 1 ELSE objects[d][q]]
                        ELSE objects[c]
      BY <1>a, <3>1 DEF TypeOK
    <3> QED BY <3>2
  <2>3. ASSUME NEW d \in Clusters, NEW q \in Objects, Recreate(d, q) PROVE objects'[c][o] # 0
    <3>1. objects'[c][o] = IF c = d /\ o = q THEN objects[d][q] + 1 ELSE objects[c][o]
      BY <1>a, <2>3 DEF Recreate, TypeOK
    <3>2. objects[d][q] \in Nat
      BY <1>a, GenerationsTyped
    <3> QED BY <3>1, <3>2
  <2>4. ASSUME NEW i \in Installers, Deploy(i)
        PROVE  deletePending(i) \/ deleteReplaced(i) \/ destroyStack(i)
    BY <2>1, <2>2, <2>4 DEF Deploy, prepareStack, prepareFails, checkClusterTarget, acquireLock, stackLocked,
       operationDone, operationFails
  <2>5. ASSUME NEW i \in Installers, Operator(i) \/ Crash(i) PROVE FALSE
    BY <2>1, <2>5 DEF Operator, Start, confirm, abort, Retry, End, Crash
  <2>6. ASSUME NEW x \in Contexts, EditKubeconfig(x) PROVE FALSE
    BY <2>1, <2>6 DEF EditKubeconfig
  <2>7. ASSUME UNCHANGED vars PROVE FALSE
    BY <2>1, <2>7 DEF vars
  <2> QED BY <2>3, <2>4, <2>5, <2>6, <2>7 DEF Next
<1>2. Running(i)
  BY <1>1 DEF deletePending, deleteReplaced, destroyStack, Running
\* What is deleted was pending, or it is what the stack consists of.
<1>3. CASE deletePending(i)
  BY <1>2, <1>3 DEF deletePending, IndInv, PendingAsked, Guarded
<1>4. CASE deleteReplaced(i)
  <2>1. PICK p \in pending : objects' = Without(Reaches(p.ctx), {p.obj}) /\ Reaches(p.ctx) # None
    BY <1>4 DEF deleteReplaced
  <2>2. c = Reaches(p.ctx)
    BY <1>a, <2>1, WithoutTyped
  <2>3. p.ctx \in Contexts \ reused /\ c = kubeconfig[p.ctx]
    BY <1>a, <2>2 DEF Reaches, TypeOK, NamesStand
  <2>4. c = p.home
    BY <2>1, <2>2, <2>3, DeployerAssumption DEF IndInv, PendingStands
  <2>5. asked[i] # {} \/ p.ctx = target[i].ctx \/ p.home = target[i].cluster
    BY <1>4, <2>3, DeployerAssumption DEF deleteReplaced, IndInv, ReplacedAsked
  <2> QED BY <1>2, <2>3, <2>4, <2>5
<1>5. CASE destroyStack(i)
  <2>1. live # NoState /\ Reaches(live.ctx) # None /\ objects' = Without(Reaches(live.ctx), Objects)
    BY <1>5 DEF destroyStack
  <2>2. c = Reaches(live.ctx)
    BY <1>a, <2>1, WithoutTyped
  <2>3. live.ctx \in Contexts \ reused /\ c = kubeconfig[live.ctx]
    BY <1>a, <2>1, <2>2, LiveTyped DEF Reaches, NamesStand
  <2>4. c = live.home
    BY <2>1, <2>2, <2>3, DeployerAssumption DEF IndInv, LiveStands
  <2>5. Verified(i) \/ "unverified" \in asked[i]
    BY <1>5 DEF destroyStack, IndInv, UnverifiedAsked, Guarded
  <2> QED BY <1>2, <2>1, <2>3, <2>4, <2>5 DEF Verified
<1> QED BY <1>1, <1>3, <1>4, <1>5

\* No object disappears from a cluster that was not selected, unless this run
\* asked, while the recorded providers name contexts that stand (deletes through a
\* recorded provider, pending deletions and replaced resources included).
THEOREM DeletionsAsked ==
  ASSUME OneInstallerOnly
  PROVE  Spec => RecordedDeletesWhereAsked
<1>1. IndInv /\ [Next]_vars =>
        [NamesStand => \A c \in Clusters, o \in Objects : DeletesWhereAsked(c, o)]_vars
  BY StepDeletes DEF DeletesWhereAsked
<1> QED BY Invariant, <1>1, PTL DEF Spec, RecordedDeletesWhereAsked

=============================================================================
