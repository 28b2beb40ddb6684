--------------------------- MODULE DiscoveryProofs ---------------------------
(***************************************************************************)
(* The invariants of Discovery for any namespaces, services and secrets,   *)
(* any Harbors in them when the run starts, any list of steps that pushes  *)
(* something, and any number of failures and changes of the cluster.       *)
(***************************************************************************)
EXTENDS Discovery, TLAPS

\* The invariant holds when the run starts.
LEMMA InitInv == Init => IndInv
<1> SUFFICES ASSUME Init PROVE IndInv
  OBVIOUS
<1> USE DiscoveryAssumption DEF Init
<1>1. ClusterOK
  BY DEF ClusterOK
<1>2. ControlOK
  BY DEF ControlOK
<1>3. SessionOK /\ OutcomeOK
  <2>1. SessionOK
    BY DEF SessionOK, NoAuth
  <2>2. OutcomeOK
    BY DEF OutcomeOK
  <2> QED BY <2>1, <2>2
<1>4. AskedWhere /\ StepsLeft
  BY DEF AskedWhere, StepsLeft, InArtifact
<1>5. NoForwardYet /\ ForwardOpen /\ TunnelCounted /\ ForwardIsTarget
  BY DEF NoForwardYet, ForwardOpen, TunnelCounted, ForwardIsTarget
<1>6. TargetCurrent /\ NodesCurrent
  BY DEF TargetCurrent, NodesCurrent, Asking
<1>7. PushedToTarget /\ PushesLeft
  BY DEF PushedToTarget, PushesLeft
<1>8. PasswordsNumbered /\ HadStays
  BY DEF PasswordsNumbered, HadStays, NoAuth
<1>9. InstallsUnasked /\ NoUnaskedSecondHarbor /\ CreatedUpFront /\ PushPromptRight
  BY DEF InstallsUnasked, NoUnaskedSecondHarbor, CreatedUpFront, PushPromptRight, Asking
<1> QED BY <1>1, <1>2, <1>3, <1>4, <1>5, <1>6, <1>7, <1>8, <1>9 DEF IndInv, TypeOK

\* Changing parts of a Harbor leaves a Harbor, and the other parts as they were.
LEMMA WithProjects ==
  ASSUME NEW r \in HarborStates, NEW v \in SUBSET Projects
  PROVE  /\ [r EXCEPT !.projects = v] \in HarborStates
         /\ [r EXCEPT !.projects = v].held = r.held
         /\ [r EXCEPT !.projects = v].robot = r.robot
         /\ [r EXCEPT !.projects = v].svc = r.svc
         /\ [r EXCEPT !.projects = v].projects = v
  BY DEF HarborStates

LEMMA WithPod ==
  ASSUME NEW r \in HarborStates, NEW b \in BOOLEAN, NEW p \in Nat
  PROVE  /\ [r EXCEPT !.ready = b, !.pod = p] \in HarborStates
         /\ [r EXCEPT !.ready = b, !.pod = p].held = r.held
         /\ [r EXCEPT !.ready = b, !.pod = p].robot = r.robot
         /\ [r EXCEPT !.ready = b, !.pod = p].svc = r.svc
         /\ [r EXCEPT !.ready = b, !.pod = p].projects = r.projects
         /\ [r EXCEPT !.ready = b, !.pod = p].lists = r.lists
  BY DEF HarborStates

LEMMA WithReady ==
  ASSUME NEW r \in HarborStates, NEW b \in BOOLEAN
  PROVE  /\ [r EXCEPT !.ready = b] \in HarborStates
         /\ [r EXCEPT !.ready = b].held = r.held
         /\ [r EXCEPT !.ready = b].robot = r.robot
         /\ [r EXCEPT !.ready = b].svc = r.svc
         /\ [r EXCEPT !.ready = b].projects = r.projects
  BY DEF HarborStates

LEMMA WithPassword ==
  ASSUME NEW r \in HarborStates, NEW k \in Nat
  PROVE  /\ [r EXCEPT !.robot = k, !.held = k] \in HarborStates
         /\ [r EXCEPT !.robot = k, !.held = k].held = k
         /\ [r EXCEPT !.robot = k, !.held = k].robot = k
         /\ [r EXCEPT !.robot = k, !.held = k].svc = r.svc
         /\ [r EXCEPT !.robot = k, !.held = k].projects = r.projects
  BY DEF HarborStates

LEMMA WithRobot ==
  ASSUME NEW r \in HarborStates, NEW k \in Nat
  PROVE  /\ [r EXCEPT !.robot = k] \in HarborStates
         /\ [r EXCEPT !.robot = k].held = r.held
         /\ [r EXCEPT !.robot = k].robot = k
         /\ [r EXCEPT !.robot = k].svc = r.svc
         /\ [r EXCEPT !.robot = k].projects = r.projects
  BY DEF HarborStates

LEMMA WithoutSecret ==
  ASSUME NEW r \in HarborStates, NEW k \in Nat
  PROVE  /\ [r EXCEPT !.robot = k, !.secret = None] \in HarborStates
         /\ [r EXCEPT !.robot = k, !.secret = None].held = r.held
         /\ [r EXCEPT !.robot = k, !.secret = None].robot = k
         /\ [r EXCEPT !.robot = k, !.secret = None].svc = r.svc
         /\ [r EXCEPT !.robot = k, !.secret = None].projects = r.projects
  BY DEF HarborStates

\* The parts of a Harbor have their types.
LEMMA HarborTyped ==
  ASSUME ClusterOK, NEW n \in Namespaces
  PROVE  /\ cluster[n] \in HarborStates
         /\ cluster[n].svc \in Services \cup {None}
         /\ cluster[n].pod \in Nat /\ cluster[n].held \in Nat /\ cluster[n].robot \in Nat
         /\ cluster[n].projects \subseteq Projects
         /\ cluster[n].lists \in BOOLEAN /\ cluster[n].core \in BOOLEAN
  BY DEF ClusterOK, HarborStates

\* A change of one Harbor that makes no older password valid again and removes
\* no Service keeps what the invariant says of the cluster.
LEMMA HarborChanges ==
  ASSUME ClusterOK, SessionOK, OutcomeOK, PasswordsNumbered, HadStays,
         NEW n \in Namespaces, NEW h \in HarborStates,
         h.held <= h.robot, cluster[n].robot <= h.robot,
         cluster[n].svc # None => h.svc # None,
         cluster' = [cluster EXCEPT ![n] = h], UNCHANGED <<auth, had>>
  PROVE  ClusterOK' /\ PasswordsNumbered' /\ HadStays'
<1>1. ClusterOK'
  BY DEF ClusterOK
<1>2. \A m \in Namespaces : cluster'[m] = IF m = n THEN h ELSE cluster[m]
  BY DEF ClusterOK
<1>3. \A m \in Namespaces : cluster[m].robot \in Nat /\ cluster[m].robot <= cluster'[m].robot
                            /\ cluster'[m].robot \in Nat
  BY <1>2, HarborTyped DEF HarborStates
<1>4. PasswordsNumbered'
  <2>1. \A m \in Namespaces : cluster'[m].held <= cluster'[m].robot
    BY <1>2 DEF PasswordsNumbered
  <2>2. ASSUME auth.ns # None PROVE auth.ver <= cluster'[auth.ns].robot
    <3>1. auth.ns \in Namespaces /\ auth.ver \in Nat
      BY <2>2 DEF SessionOK
    <3> QED BY <1>3, <2>2, <3>1 DEF PasswordsNumbered
  <2> QED BY <2>1, <2>2 DEF PasswordsNumbered
<1>5. HadStays'
  BY <1>2 DEF HadStays, OutcomeOK
<1> QED BY <1>1, <1>4, <1>5

\* A step that pushes nothing leaves the pushes to the steps after it.
LEMMA PushesInTail ==
  ASSUME NEW S, NEW M, NEW s \in Seq(S), s # <<>>
  PROVE  /\ Tail(s) \in Seq(S)
         /\ Head(s) \notin M /\ (\E i \in 1 .. Len(s) : s[i] \in M)
              => \E i \in 1 .. Len(Tail(s)) : Tail(s)[i] \in M
<1>1. Tail(s) \in Seq(S) /\ Len(Tail(s)) = Len(s) - 1 /\ Head(s) = s[1] /\ Len(s) \in Nat
  OBVIOUS
<1>2. \A i \in 1 .. Len(Tail(s)) : Tail(s)[i] = s[i + 1]
  OBVIOUS
<1>3. ASSUME Head(s) \notin M, NEW i \in 1 .. Len(s), s[i] \in M
      PROVE  \E j \in 1 .. Len(Tail(s)) : Tail(s)[j] \in M
  <2>1. i - 1 \in 1 .. Len(Tail(s))
    BY <1>1, <1>3
  <2>2. Tail(s)[i - 1] = s[i]
    BY <1>2, <2>1
  <2> QED BY <2>1, <2>2, <1>3
<1> QED BY <1>1, <1>3

\* The release or its resources, as far as the stack got, in the default namespace.
LEMMA DeployChanges ==
  ASSUME ClusterOK, SessionOK, OutcomeOK, PasswordsNumbered, HadStays,
         NEW k \in 0 .. 5, deployUpTo(k)
  PROVE  ClusterOK' /\ PasswordsNumbered' /\ HadStays'
<1> DEFINE h == HarborStack(cluster[DefaultNamespace], k)
<1> USE DiscoveryAssumption
<1>1. h \in HarborStates
  BY HarborTyped DEF HarborStates, HarborStack, Projects
<1>2. h.held <= h.robot /\ cluster[DefaultNamespace].robot <= h.robot
  BY HarborTyped DEF HarborStack, PasswordsNumbered
<1>3. cluster[DefaultNamespace].svc # None => h.svc # None
  BY DEF HarborStack
<1>4. cluster' = [cluster EXCEPT ![DefaultNamespace] = h] /\ UNCHANGED <<auth, had>>
  BY DEF deployUpTo, session
<1> HIDE DEF h
<1> QED BY <1>1, <1>2, <1>3, <1>4, HarborChanges

\* A change of the cluster that leaves the projects alone leaves the questions
\* right, if it counts as a failure or leaves the robot alone.
LEMMA PromptStays ==
  ASSUME IndInv, NEW n \in Namespaces, NEW h \in HarborStates, Changes(n, h),
         h.projects = cluster[n].projects,
         \/ faults' > 0
         \/ UNCHANGED faults /\ h.robot = cluster[n].robot /\ h.lists = cluster[n].lists
  PROVE  CreatedUpFront' /\ PushPromptRight'
<1> USE DEF IndInv, TypeOK, session, outcome
<1>1. /\ UNCHANGED <<pc, err, at, auth, target, steps, deployed>>
      /\ cluster' = [cluster EXCEPT ![n] = h]
  BY DEF Changes
<1>2. \A m \in Namespaces : cluster'[m].projects = cluster[m].projects
  BY <1>1 DEF ClusterOK
<1>3. CreatedUpFront'
  <2>1. \/ pc \in {"ready", "access", "repull", "next", "refresh", "open", "probe", "work", "create"}
        \/ Asking({"repull", "refresh", "create"})
        => target.ns \in Namespaces
    BY DEF TargetCurrent, NodesCurrent, Asking, SessionOK, Pods
  <2> QED BY <1>1, <1>2, <2>1 DEF CreatedUpFront, Asking
<1>4. PushPromptRight'
  <2>1. CASE err \notin {"auth", "project"}
    BY <1>1, <2>1 DEF PushPromptRight
  <2>2. CASE pc = "ask" /\ err \in {"auth", "project"}
    <3>1. target.ns \in Namespaces
      BY <2>2 DEF AskedWhere, Places, NodesCurrent, Asking, SessionOK, Pods
    <3>2. \A x : (MissingFor(x))' <=> MissingFor(x)
      BY <1>1, <1>2, <3>1 DEF MissingFor
    <3>3. faults' > 0 \/ (UNCHANGED faults /\ ((Lists(target.ns))' <=> Lists(target.ns)))
      BY <1>1, <3>1 DEF Lists, Accepted, ClusterOK
    <3> QED BY <1>1, <3>2, <3>3 DEF PushPromptRight
  <2>3. CASE pc # "ask"
    BY <1>1, <2>3 DEF PushPromptRight
  <2> QED BY <2>1, <2>2, <2>3
<1> QED BY <1>3, <1>4

\* Every action of Next preserves the invariant.
LEMMA StepInv == IndInv /\ [Next]_vars => IndInv'
<1> SUFFICES ASSUME IndInv, [Next]_vars PROVE IndInv'
  OBVIOUS
<1> USE DiscoveryAssumption DEF IndInv, TypeOK, session, outcome
<1>1. CASE checkHarborTarget
  <2>1. ClusterOK' /\ SessionOK' /\ OutcomeOK'
    <3>1. ClusterOK'
      BY <1>1 DEF checkHarborTarget, ForwardTarget, Goto, ClusterOK
    <3>2. SessionOK'
      BY <1>1, HarborTyped DEF checkHarborTarget, ForwardTarget, Goto, SessionOK, Pods
    <3>3. OutcomeOK'
      BY <1>1 DEF checkHarborTarget, ForwardTarget, Goto, OutcomeOK
    <3> QED BY <3>1, <3>2, <3>3
  <2>2. ControlOK'
    BY <1>1 DEF checkHarborTarget, Goto, ForwardTarget, Usable, Host, ControlOK
  <2>3. AskedWhere' /\ StepsLeft'
    BY <1>1 DEF checkHarborTarget, Goto, ForwardTarget, Usable, Host, ControlOK, AskedWhere,
        Places, StepsLeft, InArtifact
  <2>4. NoForwardYet' /\ ForwardOpen' /\ TunnelCounted' /\ ForwardIsTarget'
    BY <1>1 DEF checkHarborTarget, Goto, ForwardTarget, Usable, Host, SessionOK, ControlOK,
        OutcomeOK, AskedWhere, Places, NoForwardYet, ForwardOpen, Asking, TunnelCounted,
        ForwardIsTarget
  <2>5. TargetCurrent' /\ NodesCurrent'
    <3>1. target' = [ns |-> cfg.ns, pod |-> cluster[cfg.ns].pod] /\ cfg.ns \in Namespaces
      BY <1>1 DEF checkHarborTarget, ForwardTarget, SessionOK
    <3>2. target' \in Pods
      BY <3>1, HarborTyped DEF Pods
    <3>3. TargetCurrent'
      BY <1>1, <3>1, <3>2 DEF checkHarborTarget, TargetCurrent
    <3>4. NodesCurrent'
      BY <1>1 DEF checkHarborTarget, Goto, NodesCurrent, Asking
    <3> QED BY <3>3, <3>4
  <2>6. PushedToTarget' /\ PushesLeft'
    BY <1>1 DEF checkHarborTarget, Goto, ForwardTarget, Usable, Host, SessionOK, ControlOK,
        OutcomeOK, AskedWhere, Places, PushedToTarget, PushesLeft, InArtifact, TargetCurrent,
        NodesCurrent, Asking
  <2>7. PasswordsNumbered' /\ HadStays'
    BY <1>1 DEF checkHarborTarget, Goto, ForwardTarget, Usable, Host, ClusterOK, SessionOK,
        OutcomeOK, HarborStates, PasswordsNumbered, HadStays
  <2>8. InstallsUnasked' /\ NoUnaskedSecondHarbor'
    BY <1>1 DEF checkHarborTarget, Goto, ForwardTarget, Usable, Host, OutcomeOK, ControlOK,
        AskedWhere, Places, InstallsUnasked, NoUnaskedSecondHarbor, Asking
  <2>9. CreatedUpFront'
    BY <1>1 DEF checkHarborTarget, Goto, ForwardTarget, Usable, Host, SessionOK, ControlOK,
        OutcomeOK, AskedWhere, Places, CreatedUpFront, Asking
  <2>10. PushPromptRight'
    BY <1>1 DEF checkHarborTarget, Goto, ForwardTarget, Usable, Host, ControlOK, PushPromptRight
  <2> QED BY <2>1, <2>2, <2>3, <2>4, <2>5, <2>6, <2>7, <2>8, <2>9, <2>10 DEF TypeOK
<1>2. CASE harborServiceInvalid
  <2>1. ClusterOK' /\ SessionOK' /\ OutcomeOK'
    BY <1>2 DEF harborServiceInvalid, Ask, Fault, ClusterOK, SessionOK, OutcomeOK, Pods, Hosts
  <2>2. ControlOK'
    BY <1>2 DEF harborServiceInvalid, Ask, Fault, ControlOK
  <2>3. AskedWhere' /\ StepsLeft'
    BY <1>2 DEF harborServiceInvalid, Ask, Fault, ControlOK, AskedWhere, Places, StepsLeft,
        InArtifact
  <2>4. NoForwardYet' /\ ForwardOpen' /\ TunnelCounted' /\ ForwardIsTarget'
    BY <1>2 DEF harborServiceInvalid, Ask, Fault, SessionOK, ControlOK, OutcomeOK, AskedWhere,
        Places, NoForwardYet, ForwardOpen, Asking, TunnelCounted, ForwardIsTarget
  <2>5. TargetCurrent' /\ NodesCurrent'
    BY <1>2 DEF harborServiceInvalid, Ask, Fault, SessionOK, ControlOK, AskedWhere, Places,
        TargetCurrent, NodesCurrent, Asking
  <2>6. PushedToTarget' /\ PushesLeft'
    BY <1>2 DEF harborServiceInvalid, Ask, Fault, SessionOK, ControlOK, OutcomeOK, AskedWhere,
        Places, PushedToTarget, PushesLeft, InArtifact, TargetCurrent, NodesCurrent, Asking
  <2>7. PasswordsNumbered' /\ HadStays'
    BY <1>2 DEF harborServiceInvalid, Ask, Fault, ClusterOK, SessionOK, OutcomeOK,
        HarborStates, PasswordsNumbered, HadStays
  <2>8. InstallsUnasked' /\ NoUnaskedSecondHarbor'
    BY <1>2 DEF harborServiceInvalid, Ask, Fault, OutcomeOK, ControlOK, AskedWhere, Places,
        InstallsUnasked, NoUnaskedSecondHarbor, Asking
  <2>9. CreatedUpFront'
    BY <1>2 DEF harborServiceInvalid, Ask, Fault, SessionOK, ControlOK, OutcomeOK, AskedWhere,
        Places, CreatedUpFront, Asking
  <2>10. PushPromptRight'
    BY <1>2 DEF harborServiceInvalid, Ask, Fault, ControlOK, PushPromptRight
  <2> QED BY <2>1, <2>2, <2>3, <2>4, <2>5, <2>6, <2>7, <2>8, <2>9, <2>10 DEF TypeOK
<1>3. CASE installWhenHarborMissing
  <2>1. ClusterOK' /\ SessionOK' /\ OutcomeOK'
    BY <1>3 DEF installWhenHarborMissing, Goto, AfterCheck, findHarborNamespaces, ClusterOK,
        SessionOK, OutcomeOK, Pods, Hosts
  <2>2. ControlOK'
    BY <1>3 DEF installWhenHarborMissing, Goto, AfterCheck, findHarborNamespaces, ControlOK
  <2>3. AskedWhere' /\ StepsLeft'
    BY <1>3 DEF installWhenHarborMissing, Goto, AfterCheck, findHarborNamespaces, ControlOK,
        AskedWhere, Places, StepsLeft, InArtifact
  <2>4. NoForwardYet' /\ ForwardOpen' /\ TunnelCounted' /\ ForwardIsTarget'
    BY <1>3 DEF installWhenHarborMissing, Goto, AfterCheck, findHarborNamespaces, SessionOK,
        ControlOK, OutcomeOK, AskedWhere, Places, NoForwardYet, ForwardOpen, Asking,
        TunnelCounted, ForwardIsTarget
  <2>5. TargetCurrent' /\ NodesCurrent'
    BY <1>3 DEF installWhenHarborMissing, Goto, AfterCheck, findHarborNamespaces, SessionOK,
        ControlOK, AskedWhere, Places, TargetCurrent, NodesCurrent, Asking
  <2>6. PushedToTarget' /\ PushesLeft'
    BY <1>3 DEF installWhenHarborMissing, Goto, AfterCheck, findHarborNamespaces, SessionOK,
        ControlOK, OutcomeOK, AskedWhere, Places, PushedToTarget, PushesLeft, InArtifact,
        TargetCurrent, NodesCurrent, Asking
  <2>7. PasswordsNumbered' /\ HadStays'
    BY <1>3 DEF installWhenHarborMissing, Goto, AfterCheck, findHarborNamespaces, ClusterOK,
        SessionOK, OutcomeOK, HarborStates, PasswordsNumbered, HadStays
  <2>8. InstallsUnasked' /\ NoUnaskedSecondHarbor'
    <3>1. had = {}
      BY <1>3 DEF installWhenHarborMissing, findHarborNamespaces, HadStays, OutcomeOK
    <3> QED BY <1>3, <3>1 DEF installWhenHarborMissing, InstallsUnasked, NoUnaskedSecondHarbor
  <2>9. CreatedUpFront'
    BY <1>3 DEF installWhenHarborMissing, Goto, AfterCheck, findHarborNamespaces, SessionOK,
        ControlOK, OutcomeOK, AskedWhere, Places, CreatedUpFront, Asking
  <2>10. PushPromptRight'
    BY <1>3 DEF installWhenHarborMissing, Goto, AfterCheck, findHarborNamespaces, ControlOK,
        PushPromptRight
  <2> QED BY <2>1, <2>2, <2>3, <2>4, <2>5, <2>6, <2>7, <2>8, <2>9, <2>10 DEF TypeOK
<1>4. CASE harborElsewhere
  <2>1. ClusterOK' /\ SessionOK' /\ OutcomeOK'
    BY <1>4 DEF harborElsewhere, Ask, Fault, ClusterOK, SessionOK, OutcomeOK, Pods, Hosts
  <2>2. ControlOK'
    BY <1>4 DEF harborElsewhere, Ask, Fault, ControlOK
  <2>3. AskedWhere' /\ StepsLeft'
    BY <1>4 DEF harborElsewhere, Ask, Fault, ControlOK, AskedWhere, Places, StepsLeft,
        InArtifact
  <2>4. NoForwardYet' /\ ForwardOpen' /\ TunnelCounted' /\ ForwardIsTarget'
    BY <1>4 DEF harborElsewhere, Ask, Fault, SessionOK, ControlOK, OutcomeOK, AskedWhere,
        Places, NoForwardYet, ForwardOpen, Asking, TunnelCounted, ForwardIsTarget
  <2>5. TargetCurrent' /\ NodesCurrent'
    BY <1>4 DEF harborElsewhere, Ask, Fault, SessionOK, ControlOK, AskedWhere, Places,
        TargetCurrent, NodesCurrent, Asking
  <2>6. PushedToTarget' /\ PushesLeft'
    BY <1>4 DEF harborElsewhere, Ask, Fault, SessionOK, ControlOK, OutcomeOK, AskedWhere,
        Places, PushedToTarget, PushesLeft, InArtifact, TargetCurrent, NodesCurrent, Asking
  <2>7. PasswordsNumbered' /\ HadStays'
    BY <1>4 DEF harborElsewhere, Ask, Fault, ClusterOK, SessionOK, OutcomeOK, HarborStates,
        PasswordsNumbered, HadStays
  <2>8. InstallsUnasked' /\ NoUnaskedSecondHarbor'
    BY <1>4 DEF harborElsewhere, Ask, Fault, OutcomeOK, ControlOK, AskedWhere, Places,
        InstallsUnasked, NoUnaskedSecondHarbor, Asking
  <2>9. CreatedUpFront'
    BY <1>4 DEF harborElsewhere, Ask, Fault, SessionOK, ControlOK, OutcomeOK, AskedWhere,
        Places, CreatedUpFront, Asking
  <2>10. PushPromptRight'
    BY <1>4 DEF harborElsewhere, Ask, Fault, ControlOK, PushPromptRight
  <2> QED BY <2>1, <2>2, <2>3, <2>4, <2>5, <2>6, <2>7, <2>8, <2>9, <2>10 DEF TypeOK
<1>5. CASE checkHarborPullSecret
  <2>1. ClusterOK' /\ SessionOK' /\ OutcomeOK'
    <3>1. ClusterOK'
      BY <1>5 DEF checkHarborPullSecret, Credentials, Goto, ClusterOK
    <3>2. SessionOK'
      BY <1>5, HarborTyped DEF checkHarborPullSecret, Credentials, Goto, SessionOK, Pods
    <3>3. OutcomeOK'
      BY <1>5 DEF checkHarborPullSecret, Credentials, Goto, OutcomeOK
    <3> QED BY <3>1, <3>2, <3>3
  <2>2. ControlOK'
    BY <1>5 DEF checkHarborPullSecret, Goto, Credentials, PullSecretUsable, ControlOK
  <2>3. AskedWhere' /\ StepsLeft'
    BY <1>5 DEF checkHarborPullSecret, Goto, Credentials, PullSecretUsable, ControlOK,
        AskedWhere, Places, StepsLeft, InArtifact
  <2>4. NoForwardYet' /\ ForwardOpen' /\ TunnelCounted' /\ ForwardIsTarget'
    BY <1>5 DEF checkHarborPullSecret, Goto, Credentials, PullSecretUsable, SessionOK,
        ControlOK, OutcomeOK, AskedWhere, Places, NoForwardYet, ForwardOpen, Asking,
        TunnelCounted, ForwardIsTarget
  <2>5. TargetCurrent' /\ NodesCurrent'
    BY <1>5 DEF checkHarborPullSecret, Goto, Credentials, PullSecretUsable, SessionOK,
        ControlOK, AskedWhere, Places, TargetCurrent, NodesCurrent, Asking
  <2>6. PushedToTarget' /\ PushesLeft'
    BY <1>5 DEF checkHarborPullSecret, Goto, Credentials, PullSecretUsable, SessionOK,
        ControlOK, OutcomeOK, AskedWhere, Places, PushedToTarget, PushesLeft, InArtifact,
        TargetCurrent, NodesCurrent, Asking
  <2>7. PasswordsNumbered' /\ HadStays'
    BY <1>5 DEF checkHarborPullSecret, Goto, Credentials, PullSecretUsable, ClusterOK,
        SessionOK, OutcomeOK, HarborStates, PasswordsNumbered, HadStays
  <2>8. InstallsUnasked' /\ NoUnaskedSecondHarbor'
    BY <1>5 DEF checkHarborPullSecret, Goto, Credentials, PullSecretUsable, OutcomeOK,
        ControlOK, AskedWhere, Places, InstallsUnasked, NoUnaskedSecondHarbor, Asking
  <2>9. CreatedUpFront'
    BY <1>5 DEF checkHarborPullSecret, Goto, Credentials, PullSecretUsable, SessionOK,
        ControlOK, OutcomeOK, AskedWhere, Places, CreatedUpFront, Asking
  <2>10. PushPromptRight'
    BY <1>5 DEF checkHarborPullSecret, Goto, Credentials, PullSecretUsable, ControlOK,
        PushPromptRight
  <2> QED BY <2>1, <2>2, <2>3, <2>4, <2>5, <2>6, <2>7, <2>8, <2>9, <2>10 DEF TypeOK
<1>6. CASE harborSecretInvalid
  <2>1. ClusterOK' /\ SessionOK' /\ OutcomeOK'
    BY <1>6 DEF harborSecretInvalid, Ask, Fault, ClusterOK, SessionOK, OutcomeOK, Pods, Hosts
  <2>2. ControlOK'
    BY <1>6 DEF harborSecretInvalid, Ask, Fault, ControlOK
  <2>3. AskedWhere' /\ StepsLeft'
    BY <1>6 DEF harborSecretInvalid, Ask, Fault, ControlOK, AskedWhere, Places, StepsLeft,
        InArtifact
  <2>4. NoForwardYet' /\ ForwardOpen' /\ TunnelCounted' /\ ForwardIsTarget'
    BY <1>6 DEF harborSecretInvalid, Ask, Fault, SessionOK, ControlOK, OutcomeOK, AskedWhere,
        Places, NoForwardYet, ForwardOpen, Asking, TunnelCounted, ForwardIsTarget
  <2>5. TargetCurrent' /\ NodesCurrent'
    BY <1>6 DEF harborSecretInvalid, Ask, Fault, SessionOK, ControlOK, AskedWhere, Places,
        TargetCurrent, NodesCurrent, Asking
  <2>6. PushedToTarget' /\ PushesLeft'
    BY <1>6 DEF harborSecretInvalid, Ask, Fault, SessionOK, ControlOK, OutcomeOK, AskedWhere,
        Places, PushedToTarget, PushesLeft, InArtifact, TargetCurrent, NodesCurrent, Asking
  <2>7. PasswordsNumbered' /\ HadStays'
    BY <1>6 DEF harborSecretInvalid, Ask, Fault, ClusterOK, SessionOK, OutcomeOK,
        HarborStates, PasswordsNumbered, HadStays
  <2>8. InstallsUnasked' /\ NoUnaskedSecondHarbor'
    BY <1>6 DEF harborSecretInvalid, Ask, Fault, OutcomeOK, ControlOK, AskedWhere, Places,
        InstallsUnasked, NoUnaskedSecondHarbor, Asking
  <2>9. CreatedUpFront'
    BY <1>6 DEF harborSecretInvalid, Ask, Fault, SessionOK, ControlOK, OutcomeOK, AskedWhere,
        Places, CreatedUpFront, Asking
  <2>10. PushPromptRight'
    BY <1>6 DEF harborSecretInvalid, Ask, Fault, ControlOK, PushPromptRight
  <2> QED BY <2>1, <2>2, <2>3, <2>4, <2>5, <2>6, <2>7, <2>8, <2>9, <2>10 DEF TypeOK
<1>7. CASE checkFails
  <2>1. ClusterOK' /\ SessionOK' /\ OutcomeOK'
    BY <1>7 DEF checkFails, Fault, Fail, InArtifact, ClusterOK, SessionOK, OutcomeOK, Pods,
        Hosts
  <2>2. ControlOK'
    BY <1>7 DEF checkFails, Fault, Fail, InArtifact, ControlOK
  <2>3. AskedWhere' /\ StepsLeft'
    BY <1>7 DEF checkFails, Fault, Fail, InArtifact, ControlOK, AskedWhere, Places, StepsLeft
  <2>4. NoForwardYet' /\ ForwardOpen' /\ TunnelCounted' /\ ForwardIsTarget'
    BY <1>7 DEF checkFails, Fault, Fail, InArtifact, SessionOK, ControlOK, OutcomeOK,
        AskedWhere, Places, NoForwardYet, ForwardOpen, Asking, TunnelCounted, ForwardIsTarget
  <2>5. TargetCurrent' /\ NodesCurrent'
    BY <1>7 DEF checkFails, Fault, Fail, InArtifact, SessionOK, ControlOK, AskedWhere, Places,
        TargetCurrent, NodesCurrent, Asking
  <2>6. PushedToTarget' /\ PushesLeft'
    BY <1>7 DEF checkFails, Fault, Fail, InArtifact, SessionOK, ControlOK, OutcomeOK,
        AskedWhere, Places, PushedToTarget, PushesLeft, TargetCurrent, NodesCurrent, Asking
  <2>7. PasswordsNumbered' /\ HadStays'
    BY <1>7 DEF checkFails, Fault, Fail, InArtifact, ClusterOK, SessionOK, OutcomeOK,
        HarborStates, PasswordsNumbered, HadStays
  <2>8. InstallsUnasked' /\ NoUnaskedSecondHarbor'
    BY <1>7 DEF checkFails, Fault, Fail, InArtifact, OutcomeOK, ControlOK, AskedWhere, Places,
        InstallsUnasked, NoUnaskedSecondHarbor, Asking
  <2>9. CreatedUpFront'
    BY <1>7 DEF checkFails, Fault, Fail, InArtifact, SessionOK, ControlOK, OutcomeOK,
        AskedWhere, Places, CreatedUpFront, Asking
  <2>10. PushPromptRight'
    BY <1>7 DEF checkFails, Fault, Fail, InArtifact, ControlOK, PushPromptRight
  <2> QED BY <2>1, <2>2, <2>3, <2>4, <2>5, <2>6, <2>7, <2>8, <2>9, <2>10 DEF TypeOK
<1>8. CASE startPortForward
  <2>1. ClusterOK' /\ SessionOK' /\ OutcomeOK'
    BY <1>8 DEF startPortForward, Goto, Dialable, Reachable, ClusterOK, SessionOK, OutcomeOK,
        Pods, Hosts
  <2>2. ControlOK'
    BY <1>8 DEF startPortForward, Goto, Dialable, Reachable, ControlOK
  <2>3. AskedWhere' /\ StepsLeft'
    BY <1>8 DEF startPortForward, Goto, Dialable, Reachable, ControlOK, AskedWhere, Places,
        StepsLeft, InArtifact
  <2>4. NoForwardYet' /\ ForwardOpen' /\ TunnelCounted' /\ ForwardIsTarget'
    BY <1>8 DEF startPortForward, Goto, Dialable, Reachable, SessionOK, ControlOK, OutcomeOK,
        AskedWhere, Places, NoForwardYet, ForwardOpen, Asking, TunnelCounted, ForwardIsTarget
  <2>5. TargetCurrent' /\ NodesCurrent'
    BY <1>8 DEF startPortForward, Goto, Dialable, Reachable, SessionOK, ControlOK, AskedWhere,
        Places, TargetCurrent, NodesCurrent, Asking
  <2>6. PushedToTarget' /\ PushesLeft'
    BY <1>8 DEF startPortForward, Goto, Dialable, Reachable, SessionOK, ControlOK, OutcomeOK,
        AskedWhere, Places, PushedToTarget, PushesLeft, InArtifact, TargetCurrent,
        NodesCurrent, Asking
  <2>7. PasswordsNumbered' /\ HadStays'
    BY <1>8 DEF startPortForward, Goto, Dialable, Reachable, ClusterOK, SessionOK, OutcomeOK,
        HarborStates, PasswordsNumbered, HadStays
  <2>8. InstallsUnasked' /\ NoUnaskedSecondHarbor'
    BY <1>8 DEF startPortForward, Goto, Dialable, Reachable, OutcomeOK, ControlOK, AskedWhere,
        Places, InstallsUnasked, NoUnaskedSecondHarbor, Asking
  <2>9. CreatedUpFront'
    BY <1>8 DEF startPortForward, Goto, Dialable, Reachable, SessionOK, ControlOK, OutcomeOK,
        AskedWhere, Places, CreatedUpFront, Asking
  <2>10. PushPromptRight'
    BY <1>8 DEF startPortForward, Goto, Dialable, Reachable, ControlOK, PushPromptRight
  <2> QED BY <2>1, <2>2, <2>3, <2>4, <2>5, <2>6, <2>7, <2>8, <2>9, <2>10 DEF TypeOK
<1>9. CASE startPortForwardFails
  <2>1. ClusterOK' /\ SessionOK' /\ OutcomeOK'
    BY <1>9 DEF startPortForwardFails, Fault, Fail, Ask, InArtifact, ClusterOK, SessionOK,
        OutcomeOK, Pods, Hosts
  <2>2. ControlOK'
    BY <1>9 DEF startPortForwardFails, Fault, Fail, Ask, InArtifact, ControlOK
  <2>3. AskedWhere' /\ StepsLeft'
    BY <1>9 DEF startPortForwardFails, Fault, Fail, Ask, InArtifact, ControlOK, AskedWhere,
        Places, StepsLeft
  <2>4. NoForwardYet' /\ ForwardOpen' /\ TunnelCounted' /\ ForwardIsTarget'
    BY <1>9 DEF startPortForwardFails, Fault, Fail, Ask, InArtifact, SessionOK, ControlOK,
        OutcomeOK, AskedWhere, Places, NoForwardYet, ForwardOpen, Asking, TunnelCounted,
        ForwardIsTarget
  <2>5. TargetCurrent' /\ NodesCurrent'
    BY <1>9 DEF startPortForwardFails, Fault, Fail, Ask, InArtifact, SessionOK, ControlOK,
        AskedWhere, Places, TargetCurrent, NodesCurrent, Asking
  <2>6. PushedToTarget' /\ PushesLeft'
    BY <1>9 DEF startPortForwardFails, Fault, Fail, Ask, InArtifact, SessionOK, ControlOK,
        OutcomeOK, AskedWhere, Places, PushedToTarget, PushesLeft, TargetCurrent,
        NodesCurrent, Asking
  <2>7. PasswordsNumbered' /\ HadStays'
    BY <1>9 DEF startPortForwardFails, Fault, Fail, Ask, InArtifact, ClusterOK, SessionOK,
        OutcomeOK, HarborStates, PasswordsNumbered, HadStays
  <2>8. InstallsUnasked' /\ NoUnaskedSecondHarbor'
    BY <1>9 DEF startPortForwardFails, Fault, Fail, Ask, InArtifact, OutcomeOK, ControlOK,
        AskedWhere, Places, InstallsUnasked, NoUnaskedSecondHarbor, Asking
  <2>9. CreatedUpFront'
    BY <1>9 DEF startPortForwardFails, Fault, Fail, Ask, InArtifact, SessionOK, ControlOK,
        OutcomeOK, AskedWhere, Places, CreatedUpFront, Asking
  <2>10. PushPromptRight'
    BY <1>9 DEF startPortForwardFails, Fault, Fail, Ask, InArtifact, ControlOK, PushPromptRight
  <2> QED BY <2>1, <2>2, <2>3, <2>4, <2>5, <2>6, <2>7, <2>8, <2>9, <2>10 DEF TypeOK
<1>10. CASE EnsureHarborProjects
  <2> DEFINE n == forward.ns
             h == [cluster[n] EXCEPT !.projects = cluster[n].projects \cup missingProjects]
  <2>0. ClusterOK' /\ PasswordsNumbered' /\ HadStays'
    <3>1. n \in Namespaces
      BY <1>10 DEF EnsureHarborProjects, Reachable, SessionOK, Pods
    <3>2. missingProjects \subseteq Projects
      BY DEF missingProjects, Required
    <3>3. h \in HarborStates /\ h.held = cluster[n].held /\ h.robot = cluster[n].robot
          /\ h.svc = cluster[n].svc
      BY <3>1, <3>2, HarborTyped, WithProjects
    <3>4. cluster' = [cluster EXCEPT ![n] = h] /\ UNCHANGED <<auth, had>>
      BY <1>10 DEF EnsureHarborProjects
    <3>5. h.held <= h.robot /\ cluster[n].robot <= h.robot
      BY <3>1, <3>3, HarborTyped DEF PasswordsNumbered
    <3> HIDE DEF h, n
    <3> QED BY <3>1, <3>3, <3>4, <3>5, HarborChanges
  <2>1. ClusterOK' /\ SessionOK' /\ OutcomeOK'
    BY <1>10, <2>0 DEF EnsureHarborProjects, SessionOK, OutcomeOK
  <2>2. ControlOK'
    BY <1>10 DEF EnsureHarborProjects, Goto, Reachable, ControlOK
  <2>3. AskedWhere' /\ StepsLeft'
    BY <1>10 DEF EnsureHarborProjects, Goto, Reachable, ControlOK, AskedWhere, Places,
        StepsLeft, InArtifact
  <2>4. NoForwardYet' /\ ForwardOpen' /\ TunnelCounted' /\ ForwardIsTarget'
    BY <1>10 DEF EnsureHarborProjects, Goto, Reachable, SessionOK, ControlOK, OutcomeOK,
        AskedWhere, Places, NoForwardYet, ForwardOpen, Asking, TunnelCounted, ForwardIsTarget
  <2>5. TargetCurrent' /\ NodesCurrent'
    BY <1>10 DEF EnsureHarborProjects, Goto, Reachable, SessionOK, ControlOK, AskedWhere,
        Places, TargetCurrent, NodesCurrent, Asking
  <2>6. PushedToTarget' /\ PushesLeft'
    BY <1>10 DEF EnsureHarborProjects, Goto, Reachable, SessionOK, ControlOK, OutcomeOK,
        AskedWhere, Places, PushedToTarget, PushesLeft, InArtifact, TargetCurrent,
        NodesCurrent, Asking
  <2>7. PasswordsNumbered' /\ HadStays'
    BY <2>0
  <2>8. InstallsUnasked' /\ NoUnaskedSecondHarbor'
    BY <1>10 DEF EnsureHarborProjects, Goto, Reachable, OutcomeOK, ControlOK, AskedWhere,
        Places, InstallsUnasked, NoUnaskedSecondHarbor, Asking
  <2>9. CreatedUpFront'
    <3>1. n \in Namespaces /\ target = forward
      BY <1>10 DEF EnsureHarborProjects, Reachable, SessionOK, Pods, ForwardIsTarget
    <3>2. cluster'[n].projects = cluster[n].projects \cup missingProjects
      BY <1>10, <3>1, HarborTyped DEF EnsureHarborProjects, ClusterOK, HarborStates
    <3>3. Projects \subseteq cluster'[target.ns].projects
      BY <3>1, <3>2 DEF missingProjects, Required
    <3>4. pc' # "retarget" /\ UNCHANGED target
      BY <1>10 DEF EnsureHarborProjects, Goto
    <3> QED BY <3>3, <3>4 DEF CreatedUpFront
  <2>10. PushPromptRight'
    BY <1>10 DEF EnsureHarborProjects, Goto, Reachable, ControlOK, PushPromptRight
  <2> QED BY <2>1, <2>2, <2>3, <2>4, <2>5, <2>6, <2>7, <2>8, <2>9, <2>10 DEF TypeOK
<1>11. CASE EnsureHarborProjectsFails
  <2>0. ClusterOK' /\ PasswordsNumbered' /\ HadStays'
    <3>1. CASE UNCHANGED cluster
      BY <1>11, <3>1 DEF EnsureHarborProjectsFails, ClusterOK, PasswordsNumbered, HadStays
    <3>2. CASE \E created \in SUBSET missingProjects :
                 cluster' = [cluster EXCEPT ![forward.ns].projects = @ \cup created]
      <4> PICK created \in SUBSET missingProjects :
                 cluster' = [cluster EXCEPT ![forward.ns].projects = @ \cup created]
        BY <3>2
      <4> DEFINE n == forward.ns
                 h == [cluster[n] EXCEPT !.projects = cluster[n].projects \cup created]
      <4>1. n \in Namespaces
        BY <1>11 DEF EnsureHarborProjectsFails, ForwardOpen, SessionOK, Pods
      <4>2. created \subseteq Projects
        BY DEF missingProjects, Required
      <4>3. h \in HarborStates /\ h.held = cluster[n].held /\ h.robot = cluster[n].robot
            /\ h.svc = cluster[n].svc
        BY <4>1, <4>2, HarborTyped, WithProjects
      <4>4. cluster' = [cluster EXCEPT ![n] = h] /\ UNCHANGED <<auth, had>>
        BY <1>11 DEF EnsureHarborProjectsFails
      <4>5. h.held <= h.robot /\ cluster[n].robot <= h.robot
        BY <4>1, <4>3, HarborTyped DEF PasswordsNumbered
      <4> HIDE DEF h, n
      <4> QED BY <4>1, <4>3, <4>4, <4>5, HarborChanges
    <3> QED BY <1>11, <3>1, <3>2 DEF EnsureHarborProjectsFails
  <2>1. ClusterOK' /\ SessionOK' /\ OutcomeOK'
    BY <1>11, <2>0 DEF EnsureHarborProjectsFails, SessionOK, OutcomeOK
  <2>2. ControlOK'
    BY <1>11 DEF EnsureHarborProjectsFails, Fault, Fail, InArtifact, Reachable, ControlOK
  <2>3. AskedWhere' /\ StepsLeft'
    BY <1>11 DEF EnsureHarborProjectsFails, Fault, Fail, InArtifact, Reachable, ControlOK,
        AskedWhere, Places, StepsLeft
  <2>4. NoForwardYet' /\ ForwardOpen' /\ TunnelCounted' /\ ForwardIsTarget'
    BY <1>11 DEF EnsureHarborProjectsFails, Fault, Fail, InArtifact, Reachable, SessionOK,
        ControlOK, OutcomeOK, AskedWhere, Places, NoForwardYet, ForwardOpen, Asking,
        TunnelCounted, ForwardIsTarget
  <2>5. TargetCurrent' /\ NodesCurrent'
    BY <1>11 DEF EnsureHarborProjectsFails, Fault, Fail, InArtifact, Reachable, SessionOK,
        ControlOK, AskedWhere, Places, TargetCurrent, NodesCurrent, Asking
  <2>6. PushedToTarget' /\ PushesLeft'
    BY <1>11 DEF EnsureHarborProjectsFails, Fault, Fail, InArtifact, Reachable, SessionOK,
        ControlOK, OutcomeOK, AskedWhere, Places, PushedToTarget, PushesLeft, TargetCurrent,
        NodesCurrent, Asking
  <2>7. PasswordsNumbered' /\ HadStays'
    BY <2>0
  <2>8. InstallsUnasked' /\ NoUnaskedSecondHarbor'
    BY <1>11 DEF EnsureHarborProjectsFails, Fault, Fail, InArtifact, Reachable, OutcomeOK,
        ControlOK, AskedWhere, Places, InstallsUnasked, NoUnaskedSecondHarbor, Asking
  <2>9. CreatedUpFront'
    BY <1>11 DEF EnsureHarborProjectsFails, Fault, Fail, InArtifact, Reachable, SessionOK,
        ControlOK, OutcomeOK, AskedWhere, Places, CreatedUpFront, Asking
  <2>10. PushPromptRight'
    BY <1>11 DEF EnsureHarborProjectsFails, Fault, Fail, InArtifact, Reachable, ControlOK,
        PushPromptRight
  <2> QED BY <2>1, <2>2, <2>3, <2>4, <2>5, <2>6, <2>7, <2>8, <2>9, <2>10 DEF TypeOK
<1>12. CASE waitRegistryReady
  <2>1. ClusterOK' /\ SessionOK' /\ OutcomeOK'
    BY <1>12 DEF waitRegistryReady, Goto, AfterCheck, ClusterOK, SessionOK, OutcomeOK, Pods,
        Hosts
  <2>2. ControlOK'
    BY <1>12 DEF waitRegistryReady, Goto, AfterCheck, ControlOK
  <2>3. AskedWhere' /\ StepsLeft'
    BY <1>12 DEF waitRegistryReady, Goto, AfterCheck, ControlOK, AskedWhere, Places,
        StepsLeft, InArtifact
  <2>4. NoForwardYet' /\ ForwardOpen' /\ TunnelCounted' /\ ForwardIsTarget'
    BY <1>12 DEF waitRegistryReady, Goto, AfterCheck, SessionOK, ControlOK, OutcomeOK,
        AskedWhere, Places, NoForwardYet, ForwardOpen, Asking, TunnelCounted, ForwardIsTarget
  <2>5. TargetCurrent' /\ NodesCurrent'
    BY <1>12 DEF waitRegistryReady, Goto, AfterCheck, SessionOK, ControlOK, AskedWhere,
        Places, TargetCurrent, NodesCurrent, Asking
  <2>6. PushedToTarget' /\ PushesLeft'
    BY <1>12 DEF waitRegistryReady, Goto, AfterCheck, SessionOK, ControlOK, OutcomeOK,
        AskedWhere, Places, PushedToTarget, PushesLeft, InArtifact, TargetCurrent,
        NodesCurrent, Asking
  <2>7. PasswordsNumbered' /\ HadStays'
    BY <1>12 DEF waitRegistryReady, Goto, AfterCheck, ClusterOK, SessionOK, OutcomeOK,
        HarborStates, PasswordsNumbered, HadStays
  <2>8. InstallsUnasked' /\ NoUnaskedSecondHarbor'
    BY <1>12 DEF waitRegistryReady, Goto, AfterCheck, OutcomeOK, ControlOK, AskedWhere,
        Places, InstallsUnasked, NoUnaskedSecondHarbor, Asking
  <2>9. CreatedUpFront'
    BY <1>12 DEF waitRegistryReady, Goto, AfterCheck, SessionOK, ControlOK, OutcomeOK,
        AskedWhere, Places, CreatedUpFront, Asking
  <2>10. PushPromptRight'
    BY <1>12 DEF waitRegistryReady, Goto, AfterCheck, ControlOK, PushPromptRight
  <2> QED BY <2>1, <2>2, <2>3, <2>4, <2>5, <2>6, <2>7, <2>8, <2>9, <2>10 DEF TypeOK
<1>13. CASE registryNotReady
  <2>1. ClusterOK' /\ SessionOK' /\ OutcomeOK'
    BY <1>13 DEF registryNotReady, Fault, Ask, Fail, InArtifact, ClusterOK, SessionOK,
        OutcomeOK, Pods, Hosts
  <2>2. ControlOK'
    BY <1>13 DEF registryNotReady, Fault, Ask, Fail, InArtifact, ControlOK
  <2>3. AskedWhere' /\ StepsLeft'
    BY <1>13 DEF registryNotReady, Fault, Ask, Fail, InArtifact, ControlOK, AskedWhere,
        Places, StepsLeft
  <2>4. NoForwardYet' /\ ForwardOpen' /\ TunnelCounted' /\ ForwardIsTarget'
    BY <1>13 DEF registryNotReady, Fault, Ask, Fail, InArtifact, SessionOK, ControlOK,
        OutcomeOK, AskedWhere, Places, NoForwardYet, ForwardOpen, Asking, TunnelCounted,
        ForwardIsTarget
  <2>5. TargetCurrent' /\ NodesCurrent'
    BY <1>13 DEF registryNotReady, Fault, Ask, Fail, InArtifact, SessionOK, ControlOK,
        AskedWhere, Places, TargetCurrent, NodesCurrent, Asking
  <2>6. PushedToTarget' /\ PushesLeft'
    BY <1>13 DEF registryNotReady, Fault, Ask, Fail, InArtifact, SessionOK, ControlOK,
        OutcomeOK, AskedWhere, Places, PushedToTarget, PushesLeft, TargetCurrent,
        NodesCurrent, Asking
  <2>7. PasswordsNumbered' /\ HadStays'
    BY <1>13 DEF registryNotReady, Fault, Ask, Fail, InArtifact, ClusterOK, SessionOK,
        OutcomeOK, HarborStates, PasswordsNumbered, HadStays
  <2>8. InstallsUnasked' /\ NoUnaskedSecondHarbor'
    BY <1>13 DEF registryNotReady, Fault, Ask, Fail, InArtifact, OutcomeOK, ControlOK,
        AskedWhere, Places, InstallsUnasked, NoUnaskedSecondHarbor, Asking
  <2>9. CreatedUpFront'
    BY <1>13 DEF registryNotReady, Fault, Ask, Fail, InArtifact, SessionOK, ControlOK,
        OutcomeOK, AskedWhere, Places, CreatedUpFront, Asking
  <2>10. PushPromptRight'
    BY <1>13 DEF registryNotReady, Fault, Ask, Fail, InArtifact, ControlOK, PushPromptRight
  <2> QED BY <2>1, <2>2, <2>3, <2>4, <2>5, <2>6, <2>7, <2>8, <2>9, <2>10 DEF TypeOK
<1>14. CASE preloadHarbor
  <2>1. ClusterOK' /\ SessionOK' /\ OutcomeOK'
    BY <1>14 DEF preloadHarbor, Goto, Fault, Ask, ClusterOK, SessionOK, OutcomeOK, Pods, Hosts
  <2>2. ControlOK'
    BY <1>14 DEF preloadHarbor, Goto, Fault, Ask, ControlOK
  <2>3. AskedWhere' /\ StepsLeft'
    BY <1>14 DEF preloadHarbor, Goto, Fault, Ask, ControlOK, AskedWhere, Places, StepsLeft,
        InArtifact
  <2>4. NoForwardYet' /\ ForwardOpen' /\ TunnelCounted' /\ ForwardIsTarget'
    BY <1>14 DEF preloadHarbor, Goto, Fault, Ask, SessionOK, ControlOK, OutcomeOK, AskedWhere,
        Places, NoForwardYet, ForwardOpen, Asking, TunnelCounted, ForwardIsTarget
  <2>5. TargetCurrent' /\ NodesCurrent'
    BY <1>14 DEF preloadHarbor, Goto, Fault, Ask, SessionOK, ControlOK, AskedWhere, Places,
        TargetCurrent, NodesCurrent, Asking
  <2>6. PushedToTarget' /\ PushesLeft'
    BY <1>14 DEF preloadHarbor, Goto, Fault, Ask, SessionOK, ControlOK, OutcomeOK, AskedWhere,
        Places, PushedToTarget, PushesLeft, InArtifact, TargetCurrent, NodesCurrent, Asking
  <2>7. PasswordsNumbered' /\ HadStays'
    BY <1>14 DEF preloadHarbor, Goto, Fault, Ask, ClusterOK, SessionOK, OutcomeOK,
        HarborStates, PasswordsNumbered, HadStays
  <2>8. InstallsUnasked' /\ NoUnaskedSecondHarbor'
    BY <1>14 DEF preloadHarbor, Goto, Fault, Ask, OutcomeOK, ControlOK, AskedWhere, Places,
        InstallsUnasked, NoUnaskedSecondHarbor, Asking
  <2>9. CreatedUpFront'
    BY <1>14 DEF preloadHarbor, Goto, Fault, Ask, SessionOK, ControlOK, OutcomeOK, AskedWhere,
        Places, CreatedUpFront, Asking
  <2>10. PushPromptRight'
    BY <1>14 DEF preloadHarbor, Goto, Fault, Ask, ControlOK, PushPromptRight
  <2> QED BY <2>1, <2>2, <2>3, <2>4, <2>5, <2>6, <2>7, <2>8, <2>9, <2>10 DEF TypeOK
<1>15. CASE DeployHarbor
  <2>0. ClusterOK' /\ PasswordsNumbered' /\ HadStays'
    <3>1. \E k \in 0 .. 5 : deployUpTo(k)
      BY <1>15 DEF DeployHarbor
    <3> QED BY <3>1, DeployChanges
  <2>1. ClusterOK' /\ SessionOK' /\ OutcomeOK'
    <3>1. SessionOK'
      BY <1>15 DEF DeployHarbor, deployUpTo, SessionOK
    <3>2. OutcomeOK'
      BY <1>15 DEF DeployHarbor, deployUpTo, OutcomeOK
    <3> QED BY <2>0, <3>1, <3>2
  <2>2. ControlOK'
    BY <1>15 DEF DeployHarbor, Goto, deployUpTo, HarborStack, ControlOK
  <2>3. AskedWhere' /\ StepsLeft'
    BY <1>15 DEF DeployHarbor, Goto, deployUpTo, HarborStack, ControlOK, AskedWhere, Places,
        StepsLeft, InArtifact
  <2>4. NoForwardYet' /\ ForwardOpen' /\ TunnelCounted' /\ ForwardIsTarget'
    BY <1>15 DEF DeployHarbor, Goto, deployUpTo, HarborStack, SessionOK, ControlOK, OutcomeOK,
        AskedWhere, Places, NoForwardYet, ForwardOpen, Asking, TunnelCounted, ForwardIsTarget
  <2>5. TargetCurrent' /\ NodesCurrent'
    BY <1>15 DEF DeployHarbor, Goto, deployUpTo, HarborStack, SessionOK, ControlOK,
        AskedWhere, Places, TargetCurrent, NodesCurrent, Asking
  <2>6. PushedToTarget' /\ PushesLeft'
    BY <1>15 DEF DeployHarbor, Goto, deployUpTo, HarborStack, SessionOK, ControlOK, OutcomeOK,
        AskedWhere, Places, PushedToTarget, PushesLeft, InArtifact, TargetCurrent,
        NodesCurrent, Asking
  <2>7. PasswordsNumbered' /\ HadStays'
    BY <2>0
  <2>8. InstallsUnasked' /\ NoUnaskedSecondHarbor'
    BY <1>15 DEF DeployHarbor, Goto, deployUpTo, HarborStack, OutcomeOK, ControlOK,
        AskedWhere, Places, InstallsUnasked, NoUnaskedSecondHarbor, Asking
  <2>9. CreatedUpFront'
    <3>1. DefaultNamespace \in deployed'
      BY <1>15 DEF DeployHarbor, deployUpTo
    <3> QED BY <3>1 DEF CreatedUpFront
  <2>10. PushPromptRight'
    BY <1>15 DEF DeployHarbor, Goto, deployUpTo, HarborStack, ControlOK, PushPromptRight
  <2> QED BY <2>1, <2>2, <2>3, <2>4, <2>5, <2>6, <2>7, <2>8, <2>9, <2>10 DEF TypeOK
<1>16. CASE deployFails
  <2>0. ClusterOK' /\ PasswordsNumbered' /\ HadStays'
    <3>1. \E k \in 0 .. 5 : deployUpTo(k)
      BY <1>16 DEF deployFails
    <3> QED BY <3>1, DeployChanges
  <2>1. ClusterOK' /\ SessionOK' /\ OutcomeOK'
    <3>1. SessionOK'
      BY <1>16 DEF deployFails, deployUpTo, SessionOK
    <3>2. OutcomeOK'
      BY <1>16 DEF deployFails, deployUpTo, OutcomeOK
    <3> QED BY <2>0, <3>1, <3>2
  <2>2. ControlOK'
    BY <1>16 DEF deployFails, Fault, Ask, Fail, InArtifact, deployUpTo, HarborStack, ControlOK
  <2>3. AskedWhere' /\ StepsLeft'
    BY <1>16 DEF deployFails, Fault, Ask, Fail, InArtifact, deployUpTo, HarborStack,
        ControlOK, AskedWhere, Places, StepsLeft
  <2>4. NoForwardYet' /\ ForwardOpen' /\ TunnelCounted' /\ ForwardIsTarget'
    BY <1>16 DEF deployFails, Fault, Ask, Fail, InArtifact, deployUpTo, HarborStack,
        SessionOK, ControlOK, OutcomeOK, AskedWhere, Places, NoForwardYet, ForwardOpen,
        Asking, TunnelCounted, ForwardIsTarget
  <2>5. TargetCurrent' /\ NodesCurrent'
    BY <1>16 DEF deployFails, Fault, Ask, Fail, InArtifact, deployUpTo, HarborStack,
        SessionOK, ControlOK, AskedWhere, Places, TargetCurrent, NodesCurrent, Asking
  <2>6. PushedToTarget' /\ PushesLeft'
    BY <1>16 DEF deployFails, Fault, Ask, Fail, InArtifact, deployUpTo, HarborStack,
        SessionOK, ControlOK, OutcomeOK, AskedWhere, Places, PushedToTarget, PushesLeft,
        TargetCurrent, NodesCurrent, Asking
  <2>7. PasswordsNumbered' /\ HadStays'
    BY <2>0
  <2>8. InstallsUnasked' /\ NoUnaskedSecondHarbor'
    BY <1>16 DEF deployFails, Fault, Ask, Fail, InArtifact, deployUpTo, HarborStack,
        OutcomeOK, ControlOK, AskedWhere, Places, InstallsUnasked, NoUnaskedSecondHarbor,
        Asking
  <2>9. CreatedUpFront'
    BY <1>16 DEF deployFails, Fault, Ask, Fail, InArtifact, deployUpTo, HarborStack, SessionOK,
        ControlOK, OutcomeOK, AskedWhere, Places, CreatedUpFront, Asking
  <2>10. PushPromptRight'
    BY <1>16 DEF deployFails, Fault, Ask, Fail, InArtifact, deployUpTo, HarborStack, ControlOK,
        PushPromptRight
  <2> QED BY <2>1, <2>2, <2>3, <2>4, <2>5, <2>6, <2>7, <2>8, <2>9, <2>10 DEF TypeOK
<1>17. CASE ensureHarborNodeAccess
  <2>1. ClusterOK' /\ SessionOK' /\ OutcomeOK'
    BY <1>17 DEF ensureHarborNodeAccess, Goto, Host, ClusterOK, SessionOK, OutcomeOK, Pods,
        Hosts
  <2>2. ControlOK'
    BY <1>17 DEF ensureHarborNodeAccess, Goto, Host, ControlOK
  <2>3. AskedWhere' /\ StepsLeft'
    BY <1>17 DEF ensureHarborNodeAccess, Goto, Host, ControlOK, AskedWhere, Places, StepsLeft,
        InArtifact
  <2>4. NoForwardYet' /\ ForwardOpen' /\ TunnelCounted' /\ ForwardIsTarget'
    BY <1>17 DEF ensureHarborNodeAccess, Goto, Host, SessionOK, ControlOK, OutcomeOK,
        AskedWhere, Places, NoForwardYet, ForwardOpen, Asking, TunnelCounted, ForwardIsTarget
  <2>5. TargetCurrent' /\ NodesCurrent'
    BY <1>17 DEF ensureHarborNodeAccess, Goto, Host, SessionOK, ControlOK, AskedWhere, Places,
        TargetCurrent, NodesCurrent, Asking
  <2>6. PushedToTarget' /\ PushesLeft'
    BY <1>17 DEF ensureHarborNodeAccess, Goto, Host, SessionOK, ControlOK, OutcomeOK,
        AskedWhere, Places, PushedToTarget, PushesLeft, InArtifact, TargetCurrent,
        NodesCurrent, Asking
  <2>7. PasswordsNumbered' /\ HadStays'
    BY <1>17 DEF ensureHarborNodeAccess, Goto, Host, ClusterOK, SessionOK, OutcomeOK,
        HarborStates, PasswordsNumbered, HadStays
  <2>8. InstallsUnasked' /\ NoUnaskedSecondHarbor'
    BY <1>17 DEF ensureHarborNodeAccess, Goto, Host, OutcomeOK, ControlOK, AskedWhere, Places,
        InstallsUnasked, NoUnaskedSecondHarbor, Asking
  <2>9. CreatedUpFront'
    BY <1>17 DEF ensureHarborNodeAccess, Goto, Host, SessionOK, ControlOK, OutcomeOK,
        AskedWhere, Places, CreatedUpFront, Asking
  <2>10. PushPromptRight'
    BY <1>17 DEF ensureHarborNodeAccess, Goto, Host, ControlOK, PushPromptRight
  <2> QED BY <2>1, <2>2, <2>3, <2>4, <2>5, <2>6, <2>7, <2>8, <2>9, <2>10 DEF TypeOK
<1>18. CASE nodeAccessFails
  <2>1. ClusterOK' /\ SessionOK' /\ OutcomeOK'
    BY <1>18 DEF nodeAccessFails, Fault, Fail, InArtifact, Host, ClusterOK, SessionOK,
        OutcomeOK, Pods, Hosts
  <2>2. ControlOK'
    BY <1>18 DEF nodeAccessFails, Fault, Fail, InArtifact, Host, ControlOK
  <2>3. AskedWhere' /\ StepsLeft'
    BY <1>18 DEF nodeAccessFails, Fault, Fail, InArtifact, Host, ControlOK, AskedWhere,
        Places, StepsLeft
  <2>4. NoForwardYet' /\ ForwardOpen' /\ TunnelCounted' /\ ForwardIsTarget'
    BY <1>18 DEF nodeAccessFails, Fault, Fail, InArtifact, Host, SessionOK, ControlOK,
        OutcomeOK, AskedWhere, Places, NoForwardYet, ForwardOpen, Asking, TunnelCounted,
        ForwardIsTarget
  <2>5. TargetCurrent' /\ NodesCurrent'
    BY <1>18 DEF nodeAccessFails, Fault, Fail, InArtifact, Host, SessionOK, ControlOK,
        AskedWhere, Places, TargetCurrent, NodesCurrent, Asking
  <2>6. PushedToTarget' /\ PushesLeft'
    BY <1>18 DEF nodeAccessFails, Fault, Fail, InArtifact, Host, SessionOK, ControlOK,
        OutcomeOK, AskedWhere, Places, PushedToTarget, PushesLeft, TargetCurrent,
        NodesCurrent, Asking
  <2>7. PasswordsNumbered' /\ HadStays'
    BY <1>18 DEF nodeAccessFails, Fault, Fail, InArtifact, Host, ClusterOK, SessionOK,
        OutcomeOK, HarborStates, PasswordsNumbered, HadStays
  <2>8. InstallsUnasked' /\ NoUnaskedSecondHarbor'
    BY <1>18 DEF nodeAccessFails, Fault, Fail, InArtifact, Host, OutcomeOK, ControlOK,
        AskedWhere, Places, InstallsUnasked, NoUnaskedSecondHarbor, Asking
  <2>9. CreatedUpFront'
    BY <1>18 DEF nodeAccessFails, Fault, Fail, InArtifact, Host, SessionOK, ControlOK,
        OutcomeOK, AskedWhere, Places, CreatedUpFront, Asking
  <2>10. PushPromptRight'
    BY <1>18 DEF nodeAccessFails, Fault, Fail, InArtifact, Host, ControlOK, PushPromptRight
  <2> QED BY <2>1, <2>2, <2>3, <2>4, <2>5, <2>6, <2>7, <2>8, <2>9, <2>10 DEF TypeOK
<1>19. CASE nextStep
  <2>1. ClusterOK' /\ SessionOK' /\ OutcomeOK'
    BY <1>19 DEF nextStep, Goto, ClusterOK, SessionOK, OutcomeOK, Pods, Hosts
  <2>2. ControlOK'
    BY <1>19 DEF nextStep, Goto, ControlOK
  <2>3. AskedWhere' /\ StepsLeft'
    BY <1>19 DEF nextStep, Goto, ControlOK, AskedWhere, Places, StepsLeft, InArtifact
  <2>4. NoForwardYet' /\ ForwardOpen' /\ TunnelCounted' /\ ForwardIsTarget'
    BY <1>19 DEF nextStep, Goto, SessionOK, ControlOK, OutcomeOK, AskedWhere, Places,
        NoForwardYet, ForwardOpen, Asking, TunnelCounted, ForwardIsTarget
  <2>5. TargetCurrent' /\ NodesCurrent'
    BY <1>19 DEF nextStep, Goto, SessionOK, ControlOK, AskedWhere, Places, TargetCurrent,
        NodesCurrent, Asking
  <2>6. PushedToTarget' /\ PushesLeft'
    BY <1>19 DEF nextStep, Goto, SessionOK, ControlOK, OutcomeOK, AskedWhere, Places,
        PushedToTarget, PushesLeft, InArtifact, TargetCurrent, NodesCurrent, Asking
  <2>7. PasswordsNumbered' /\ HadStays'
    BY <1>19 DEF nextStep, Goto, ClusterOK, SessionOK, OutcomeOK, HarborStates,
        PasswordsNumbered, HadStays
  <2>8. InstallsUnasked' /\ NoUnaskedSecondHarbor'
    BY <1>19 DEF nextStep, Goto, OutcomeOK, ControlOK, AskedWhere, Places, InstallsUnasked,
        NoUnaskedSecondHarbor, Asking
  <2>9. CreatedUpFront'
    BY <1>19 DEF nextStep, Goto, SessionOK, ControlOK, OutcomeOK, AskedWhere, Places,
        CreatedUpFront, Asking
  <2>10. PushPromptRight'
    BY <1>19 DEF nextStep, Goto, ControlOK, PushPromptRight
  <2> QED BY <2>1, <2>2, <2>3, <2>4, <2>5, <2>6, <2>7, <2>8, <2>9, <2>10 DEF TypeOK
<1>20. CASE RefreshPortForward
  <2>1. ClusterOK' /\ SessionOK' /\ OutcomeOK'
    <3>1. ClusterOK'
      BY <1>20 DEF RefreshPortForward, CurrentTarget, ForwardTarget, Closed, Goto, ClusterOK
    <3>2. SessionOK'
      BY <1>20, HarborTyped DEF RefreshPortForward, CurrentTarget, ForwardTarget, Closed, Goto, SessionOK, Pods
    <3>3. OutcomeOK'
      BY <1>20 DEF RefreshPortForward, Closed, TunnelCounted, OutcomeOK
    <3> QED BY <3>1, <3>2, <3>3
  <2>2. ControlOK'
    BY <1>20 DEF RefreshPortForward, Goto, CurrentTarget, ForwardTarget, Usable, Closed,
        ControlOK
  <2>3. AskedWhere' /\ StepsLeft'
    BY <1>20 DEF RefreshPortForward, Goto, CurrentTarget, ForwardTarget, Usable, Closed,
        ControlOK, AskedWhere, Places, StepsLeft, InArtifact
  <2>4. NoForwardYet' /\ ForwardOpen' /\ TunnelCounted' /\ ForwardIsTarget'
    BY <1>20 DEF RefreshPortForward, Goto, CurrentTarget, ForwardTarget, Usable, Closed,
        SessionOK, ControlOK, OutcomeOK, AskedWhere, Places, NoForwardYet, ForwardOpen,
        Asking, TunnelCounted, ForwardIsTarget
  <2>5. TargetCurrent' /\ NodesCurrent'
    BY <1>20 DEF RefreshPortForward, Goto, CurrentTarget, ForwardTarget, Usable, Closed,
        SessionOK, ControlOK, AskedWhere, Places, TargetCurrent, NodesCurrent, Asking
  <2>6. PushedToTarget' /\ PushesLeft'
    BY <1>20 DEF RefreshPortForward, Goto, CurrentTarget, ForwardTarget, Usable, Closed,
        SessionOK, ControlOK, OutcomeOK, AskedWhere, Places, PushedToTarget, PushesLeft,
        InArtifact, TargetCurrent, NodesCurrent, Asking
  <2>7. PasswordsNumbered' /\ HadStays'
    BY <1>20 DEF RefreshPortForward, Goto, CurrentTarget, ForwardTarget, Usable, Closed,
        ClusterOK, SessionOK, OutcomeOK, HarborStates, PasswordsNumbered, HadStays
  <2>8. InstallsUnasked' /\ NoUnaskedSecondHarbor'
    BY <1>20 DEF RefreshPortForward, Goto, CurrentTarget, ForwardTarget, Usable, Closed,
        OutcomeOK, ControlOK, AskedWhere, Places, InstallsUnasked, NoUnaskedSecondHarbor,
        Asking
  <2>9. CreatedUpFront'
    <3>1. UNCHANGED target
      BY <1>20 DEF RefreshPortForward, CurrentTarget, NodesCurrent
    <3> QED BY <1>20, <3>1 DEF RefreshPortForward, Goto, CreatedUpFront
  <2>10. PushPromptRight'
    BY <1>20 DEF RefreshPortForward, Goto, CurrentTarget, ForwardTarget, Usable, Closed,
        ControlOK, PushPromptRight
  <2> QED BY <2>1, <2>2, <2>3, <2>4, <2>5, <2>6, <2>7, <2>8, <2>9, <2>10 DEF TypeOK
<1>21. CASE work
  <2>1. ClusterOK' /\ SessionOK' /\ OutcomeOK'
    BY <1>21 DEF work, Goto, Reachable, ClusterOK, SessionOK, OutcomeOK, Pods, Hosts
  <2>0. steps # <<>> /\ steps' = Tail(steps) /\ steps \in Seq({"check", "models", "images", "delete"})
    BY <1>21 DEF work, StepsLeft, InArtifact, ControlOK
  <2>2. ControlOK'
    <3>1. steps' \in Seq({"check", "models", "images", "delete"})
      BY <2>0, PushesInTail
    <3> QED BY <1>21, <3>1 DEF work, Goto, ControlOK
  <2>3. AskedWhere' /\ StepsLeft'
    BY <1>21 DEF work, Goto, Reachable, ControlOK, AskedWhere, Places, StepsLeft, InArtifact
  <2>4. NoForwardYet' /\ ForwardOpen' /\ TunnelCounted' /\ ForwardIsTarget'
    BY <1>21 DEF work, Goto, Reachable, SessionOK, ControlOK, OutcomeOK, AskedWhere, Places,
        NoForwardYet, ForwardOpen, Asking, TunnelCounted, ForwardIsTarget
  <2>5. TargetCurrent' /\ NodesCurrent'
    BY <1>21 DEF work, Goto, Reachable, SessionOK, ControlOK, AskedWhere, Places,
        TargetCurrent, NodesCurrent, Asking
  <2>6. PushedToTarget' /\ PushesLeft'
    <3>1. pushed' = {} => Head(steps) \notin {"models", "images"} /\ pushed = {}
      BY <1>21 DEF work
    <3>2. PushesLeft'
      BY <2>0, <3>1, PushesInTail DEF PushesLeft
    <3>3. forward = target /\ target # None /\ target.ns = cfg.ns
      BY <1>21 DEF work, Reachable, ForwardIsTarget, TargetCurrent
    <3>4. PushedToTarget'
      BY <1>21, <3>3 DEF work, Goto, PushedToTarget
    <3> QED BY <3>2, <3>4
  <2>7. PasswordsNumbered' /\ HadStays'
    BY <1>21 DEF work, Goto, Reachable, ClusterOK, SessionOK, OutcomeOK, HarborStates,
        PasswordsNumbered, HadStays
  <2>8. InstallsUnasked' /\ NoUnaskedSecondHarbor'
    BY <1>21 DEF work, Goto, Reachable, OutcomeOK, ControlOK, AskedWhere, Places,
        InstallsUnasked, NoUnaskedSecondHarbor, Asking
  <2>9. CreatedUpFront'
    BY <1>21 DEF work, Goto, Reachable, SessionOK, ControlOK, OutcomeOK, AskedWhere, Places,
        CreatedUpFront, Asking
  <2>10. PushPromptRight'
    BY <1>21 DEF work, Goto, Reachable, ControlOK, PushPromptRight
  <2> QED BY <2>1, <2>2, <2>3, <2>4, <2>5, <2>6, <2>7, <2>8, <2>9, <2>10 DEF TypeOK
<1>22. CASE workRefused
  <2>1. ClusterOK' /\ SessionOK' /\ OutcomeOK'
    BY <1>22 DEF workRefused, Ask, Fault, Refused, Reachable, ClusterOK, SessionOK, OutcomeOK, Pods,
        Hosts
  <2>2. ControlOK'
    BY <1>22 DEF workRefused, Ask, Fault, Refused, Reachable, ControlOK
  <2>3. AskedWhere' /\ StepsLeft'
    BY <1>22 DEF workRefused, Ask, Fault, Refused, Reachable, ControlOK, AskedWhere, Places,
        StepsLeft, InArtifact
  <2>4. NoForwardYet' /\ ForwardOpen' /\ TunnelCounted' /\ ForwardIsTarget'
    BY <1>22 DEF workRefused, Ask, Fault, Refused, Reachable, SessionOK, ControlOK, OutcomeOK,
        AskedWhere, Places, NoForwardYet, ForwardOpen, Asking, TunnelCounted, ForwardIsTarget
  <2>5. TargetCurrent' /\ NodesCurrent'
    BY <1>22 DEF workRefused, Ask, Fault, Refused, Reachable, SessionOK, ControlOK, AskedWhere,
        Places, TargetCurrent, NodesCurrent, Asking
  <2>6. PushedToTarget' /\ PushesLeft'
    BY <1>22 DEF workRefused, Ask, Fault, Refused, Reachable, SessionOK, ControlOK, OutcomeOK,
        AskedWhere, Places, PushedToTarget, PushesLeft, InArtifact, TargetCurrent,
        NodesCurrent, Asking
  <2>7. PasswordsNumbered' /\ HadStays'
    BY <1>22 DEF workRefused, Ask, Fault, Refused, Reachable, ClusterOK, SessionOK, OutcomeOK,
        HarborStates, PasswordsNumbered, HadStays
  <2>8. InstallsUnasked' /\ NoUnaskedSecondHarbor'
    BY <1>22 DEF workRefused, Ask, Fault, Refused, Reachable, OutcomeOK, ControlOK, AskedWhere,
        Places, InstallsUnasked, NoUnaskedSecondHarbor, Asking
  <2>9. CreatedUpFront'
    BY <1>22 DEF workRefused, Ask, Fault, ControlOK, CreatedUpFront, Asking
  <2>10. PushPromptRight'
    <3> DEFINE s == Head(steps)
    <3>1. forward = target
      BY <1>22 DEF workRefused, Reachable, ForwardIsTarget
    <3>2. UNCHANGED <<cluster, auth, target, steps, deployed>>
      BY <1>22 DEF workRefused
    <3>3. Projects \subseteq cluster[target.ns].projects \/ deployed # {}
      BY <1>22 DEF workRefused, CreatedUpFront
    <3>4. s \in {"models", "images"} => Needs(s) \subseteq Projects
      BY DEF Needs, Projects
    <3>5. ASSUME s \in {"models", "images"}
          PROVE  \/ err' = Refused(s) /\ UNCHANGED faults
                 \/ err' = "auth" /\ faults' > 0
      BY <1>22, <3>5 DEF workRefused, Ask, Fault, ControlOK
    <3>6. (Lists(target.ns))' <=> Lists(target.ns)
      BY <3>2 DEF Lists, Accepted
    <3>7. \A x : (MissingFor(x))' <=> MissingFor(x)
      BY <3>2 DEF MissingFor
    <3>8. ASSUME s \in {"models", "images"}
          PROVE  Refused(s) = IF Lists(target.ns) /\ MissingFor(s) THEN "project" ELSE "auth"
      BY <3>1, <3>8 DEF Refused, MissingFor
    <3>9. ASSUME s \in {"models", "images"}, MissingFor(s) PROVE deployed # {}
      BY <3>3, <3>4, <3>9 DEF MissingFor
    <3> HIDE DEF s
    <3>10. s' = s
      BY <3>2 DEF s
    <3>11. ASSUME s \in {"models", "images"}
           PROVE  /\ err' = "project" => MissingFor(s)
                  /\ err' = "auth" /\ MissingFor(s) =>
                       deployed # {} /\ (~Lists(target.ns) \/ faults' > 0)
      BY <3>5, <3>8, <3>9, <3>11
    <3> QED BY <3>2, <3>6, <3>7, <3>10, <3>11 DEF PushPromptRight, s
  <2> QED BY <2>1, <2>2, <2>3, <2>4, <2>5, <2>6, <2>7, <2>8, <2>9, <2>10 DEF TypeOK
<1>23. CASE workFails
  <2>1. ClusterOK' /\ SessionOK' /\ OutcomeOK'
    BY <1>23 DEF workFails, Fault, Ask, Fail, InArtifact, ClusterOK, SessionOK, OutcomeOK,
        Pods, Hosts
  <2>2. ControlOK'
    BY <1>23 DEF workFails, Fault, Ask, Fail, InArtifact, ControlOK
  <2>3. AskedWhere' /\ StepsLeft'
    BY <1>23 DEF workFails, Fault, Ask, Fail, InArtifact, ControlOK, AskedWhere, Places,
        StepsLeft
  <2>4. NoForwardYet' /\ ForwardOpen' /\ TunnelCounted' /\ ForwardIsTarget'
    BY <1>23 DEF workFails, Fault, Ask, Fail, InArtifact, SessionOK, ControlOK, OutcomeOK,
        AskedWhere, Places, NoForwardYet, ForwardOpen, Asking, TunnelCounted, ForwardIsTarget
  <2>5. TargetCurrent' /\ NodesCurrent'
    BY <1>23 DEF workFails, Fault, Ask, Fail, InArtifact, SessionOK, ControlOK, AskedWhere,
        Places, TargetCurrent, NodesCurrent, Asking
  <2>6. PushedToTarget' /\ PushesLeft'
    BY <1>23 DEF workFails, Fault, Ask, Fail, InArtifact, SessionOK, ControlOK, OutcomeOK,
        AskedWhere, Places, PushedToTarget, PushesLeft, TargetCurrent, NodesCurrent, Asking
  <2>7. PasswordsNumbered' /\ HadStays'
    BY <1>23 DEF workFails, Fault, Ask, Fail, InArtifact, ClusterOK, SessionOK, OutcomeOK,
        HarborStates, PasswordsNumbered, HadStays
  <2>8. InstallsUnasked' /\ NoUnaskedSecondHarbor'
    BY <1>23 DEF workFails, Fault, Ask, Fail, InArtifact, OutcomeOK, ControlOK, AskedWhere,
        Places, InstallsUnasked, NoUnaskedSecondHarbor, Asking
  <2>9. CreatedUpFront'
    BY <1>23 DEF workFails, Fault, Ask, Fail, InArtifact, SessionOK, ControlOK, OutcomeOK,
        AskedWhere, Places, CreatedUpFront, Asking
  <2>10. PushPromptRight'
    BY <1>23 DEF workFails, Fault, Ask, Fail, InArtifact, ControlOK, PushPromptRight
  <2> QED BY <2>1, <2>2, <2>3, <2>4, <2>5, <2>6, <2>7, <2>8, <2>9, <2>10 DEF TypeOK
<1>24. CASE ClosePortForward
  <2>1. ClusterOK' /\ SessionOK' /\ OutcomeOK'
    <3>1. ClusterOK'
      BY <1>24 DEF ClosePortForward, Closed, ClusterOK
    <3>2. SessionOK'
      BY <1>24 DEF ClosePortForward, Closed, SessionOK, Pods
    <3>3. OutcomeOK'
      BY <1>24 DEF ClosePortForward, Closed, TunnelCounted, OutcomeOK
    <3> QED BY <3>1, <3>2, <3>3
  <2>2. ControlOK'
    BY <1>24 DEF ClosePortForward, Goto, Closed, ControlOK
  <2>3. AskedWhere' /\ StepsLeft'
    BY <1>24 DEF ClosePortForward, Goto, Closed, ControlOK, AskedWhere, Places, StepsLeft,
        InArtifact
  <2>4. NoForwardYet' /\ ForwardOpen' /\ TunnelCounted' /\ ForwardIsTarget'
    BY <1>24 DEF ClosePortForward, Goto, Closed, SessionOK, ControlOK, OutcomeOK, AskedWhere,
        Places, NoForwardYet, ForwardOpen, Asking, TunnelCounted, ForwardIsTarget
  <2>5. TargetCurrent' /\ NodesCurrent'
    BY <1>24 DEF ClosePortForward, Goto, Closed, SessionOK, ControlOK, AskedWhere, Places,
        TargetCurrent, NodesCurrent, Asking
  <2>6. PushedToTarget' /\ PushesLeft'
    BY <1>24 DEF ClosePortForward, Goto, Closed, SessionOK, ControlOK, OutcomeOK, AskedWhere,
        Places, PushedToTarget, PushesLeft, InArtifact, TargetCurrent, NodesCurrent, Asking
  <2>7. PasswordsNumbered' /\ HadStays'
    BY <1>24 DEF ClosePortForward, Goto, Closed, ClusterOK, SessionOK, OutcomeOK,
        HarborStates, PasswordsNumbered, HadStays
  <2>8. InstallsUnasked' /\ NoUnaskedSecondHarbor'
    BY <1>24 DEF ClosePortForward, Goto, Closed, OutcomeOK, ControlOK, AskedWhere, Places,
        InstallsUnasked, NoUnaskedSecondHarbor, Asking
  <2>9. CreatedUpFront'
    BY <1>24 DEF ClosePortForward, Goto, Closed, SessionOK, ControlOK, OutcomeOK, AskedWhere,
        Places, CreatedUpFront, Asking
  <2>10. PushPromptRight'
    BY <1>24 DEF ClosePortForward, Goto, Closed, ControlOK, PushPromptRight
  <2> QED BY <2>1, <2>2, <2>3, <2>4, <2>5, <2>6, <2>7, <2>8, <2>9, <2>10 DEF TypeOK
<1>25. CASE FreshInstall
  <2>1. ClusterOK' /\ SessionOK' /\ OutcomeOK'
    BY <1>25 DEF FreshInstall, Goto, AfterCheck, ClusterOK, SessionOK, OutcomeOK, Pods, Hosts
  <2>2. ControlOK'
    BY <1>25 DEF FreshInstall, Goto, AfterCheck, ControlOK
  <2>3. AskedWhere' /\ StepsLeft'
    BY <1>25 DEF FreshInstall, Goto, AfterCheck, ControlOK, AskedWhere, Places, StepsLeft,
        InArtifact
  <2>4. NoForwardYet' /\ ForwardOpen' /\ TunnelCounted' /\ ForwardIsTarget'
    BY <1>25 DEF FreshInstall, Goto, AfterCheck, SessionOK, ControlOK, OutcomeOK, AskedWhere,
        Places, NoForwardYet, ForwardOpen, Asking, TunnelCounted, ForwardIsTarget
  <2>5. TargetCurrent' /\ NodesCurrent'
    BY <1>25 DEF FreshInstall, Goto, AfterCheck, SessionOK, ControlOK, AskedWhere, Places,
        TargetCurrent, NodesCurrent, Asking
  <2>6. PushedToTarget' /\ PushesLeft'
    BY <1>25 DEF FreshInstall, Goto, AfterCheck, SessionOK, ControlOK, OutcomeOK, AskedWhere,
        Places, PushedToTarget, PushesLeft, InArtifact, TargetCurrent, NodesCurrent, Asking
  <2>7. PasswordsNumbered' /\ HadStays'
    BY <1>25 DEF FreshInstall, Goto, AfterCheck, ClusterOK, SessionOK, OutcomeOK,
        HarborStates, PasswordsNumbered, HadStays
  <2>8. InstallsUnasked' /\ NoUnaskedSecondHarbor'
    BY <1>25 DEF FreshInstall, Goto, AfterCheck, OutcomeOK, ControlOK, AskedWhere, Places,
        InstallsUnasked, NoUnaskedSecondHarbor, Asking
  <2>9. CreatedUpFront'
    BY <1>25 DEF FreshInstall, Goto, AfterCheck, SessionOK, ControlOK, OutcomeOK, AskedWhere,
        Places, CreatedUpFront, Asking
  <2>10. PushPromptRight'
    BY <1>25 DEF FreshInstall, Goto, AfterCheck, ControlOK, PushPromptRight
  <2> QED BY <2>1, <2>2, <2>3, <2>4, <2>5, <2>6, <2>7, <2>8, <2>9, <2>10 DEF TypeOK
<1>26. CASE EnterName
  <2>1. ClusterOK' /\ SessionOK' /\ OutcomeOK'
    BY <1>26 DEF EnterName, Goto, ClusterOK, SessionOK, OutcomeOK, Pods, Hosts
  <2>2. ControlOK'
    BY <1>26 DEF EnterName, Goto, ControlOK
  <2>3. AskedWhere' /\ StepsLeft'
    BY <1>26 DEF EnterName, Goto, ControlOK, AskedWhere, Places, StepsLeft, InArtifact
  <2>4. NoForwardYet' /\ ForwardOpen' /\ TunnelCounted' /\ ForwardIsTarget'
    BY <1>26 DEF EnterName, Goto, SessionOK, ControlOK, OutcomeOK, AskedWhere, Places,
        NoForwardYet, ForwardOpen, Asking, TunnelCounted, ForwardIsTarget
  <2>5. TargetCurrent' /\ NodesCurrent'
    BY <1>26 DEF EnterName, Goto, SessionOK, ControlOK, AskedWhere, Places, TargetCurrent,
        NodesCurrent, Asking
  <2>6. PushedToTarget' /\ PushesLeft'
    BY <1>26 DEF EnterName, Goto, SessionOK, ControlOK, OutcomeOK, AskedWhere, Places,
        PushedToTarget, PushesLeft, InArtifact, TargetCurrent, NodesCurrent, Asking
  <2>7. PasswordsNumbered' /\ HadStays'
    BY <1>26 DEF EnterName, Goto, ClusterOK, SessionOK, OutcomeOK, HarborStates,
        PasswordsNumbered, HadStays
  <2>8. InstallsUnasked' /\ NoUnaskedSecondHarbor'
    BY <1>26 DEF EnterName, Goto, OutcomeOK, ControlOK, AskedWhere, Places, InstallsUnasked,
        NoUnaskedSecondHarbor, Asking
  <2>9. CreatedUpFront'
    BY <1>26 DEF EnterName, Goto, SessionOK, ControlOK, OutcomeOK, AskedWhere, Places,
        CreatedUpFront, Asking
  <2>10. PushPromptRight'
    BY <1>26 DEF EnterName, Goto, ControlOK, PushPromptRight
  <2> QED BY <2>1, <2>2, <2>3, <2>4, <2>5, <2>6, <2>7, <2>8, <2>9, <2>10 DEF TypeOK
<1>27. CASE Retry
  <2>1. ClusterOK' /\ SessionOK' /\ OutcomeOK'
    BY <1>27 DEF Retry, Goto, ClusterOK, SessionOK, OutcomeOK, Pods, Hosts
  <2>2. ControlOK'
    BY <1>27 DEF Retry, Goto, ControlOK
  <2>3. AskedWhere' /\ StepsLeft'
    BY <1>27 DEF Retry, Goto, ControlOK, AskedWhere, Places, StepsLeft, InArtifact
  <2>4. NoForwardYet' /\ ForwardOpen' /\ TunnelCounted' /\ ForwardIsTarget'
    BY <1>27 DEF Retry, Goto, SessionOK, ControlOK, OutcomeOK, AskedWhere, Places,
        NoForwardYet, ForwardOpen, Asking, TunnelCounted, ForwardIsTarget
  <2>5. TargetCurrent' /\ NodesCurrent'
    BY <1>27 DEF Retry, Goto, SessionOK, ControlOK, AskedWhere, Places, TargetCurrent,
        NodesCurrent, Asking
  <2>6. PushedToTarget' /\ PushesLeft'
    BY <1>27 DEF Retry, Goto, SessionOK, ControlOK, OutcomeOK, AskedWhere, Places,
        PushedToTarget, PushesLeft, InArtifact, TargetCurrent, NodesCurrent, Asking
  <2>7. PasswordsNumbered' /\ HadStays'
    BY <1>27 DEF Retry, Goto, ClusterOK, SessionOK, OutcomeOK, HarborStates,
        PasswordsNumbered, HadStays
  <2>8. InstallsUnasked' /\ NoUnaskedSecondHarbor'
    BY <1>27 DEF Retry, Goto, OutcomeOK, ControlOK, AskedWhere, Places, InstallsUnasked,
        NoUnaskedSecondHarbor, Asking
  <2>9. CreatedUpFront'
    BY <1>27 DEF Retry, Goto, SessionOK, ControlOK, OutcomeOK, AskedWhere, Places,
        CreatedUpFront, Asking
  <2>10. PushPromptRight'
    BY <1>27 DEF Retry, Goto, ControlOK, PushPromptRight
  <2> QED BY <2>1, <2>2, <2>3, <2>4, <2>5, <2>6, <2>7, <2>8, <2>9, <2>10 DEF TypeOK
<1>28. CASE EnterCredentials
  <2>0. target \in Pods
    BY <1>28 DEF EnterCredentials, AskedWhere, Places, NodesCurrent, Asking, SessionOK
  <2>1. ClusterOK' /\ SessionOK' /\ OutcomeOK'
    <3>1. ClusterOK'
      BY <1>28 DEF EnterCredentials, ClusterOK
    <3>2. SessionOK'
      BY <1>28, <2>0 DEF EnterCredentials, SessionOK, Pods
    <3>3. OutcomeOK'
      BY <1>28 DEF EnterCredentials, OutcomeOK
    <3> QED BY <3>1, <3>2, <3>3
  <2>2. ControlOK'
    BY <1>28 DEF EnterCredentials, Goto, ControlOK
  <2>3. AskedWhere' /\ StepsLeft'
    BY <1>28 DEF EnterCredentials, Goto, ControlOK, AskedWhere, Places, StepsLeft, InArtifact
  <2>4. NoForwardYet' /\ ForwardOpen' /\ TunnelCounted' /\ ForwardIsTarget'
    BY <1>28 DEF EnterCredentials, Goto, SessionOK, ControlOK, OutcomeOK, AskedWhere, Places,
        NoForwardYet, ForwardOpen, Asking, TunnelCounted, ForwardIsTarget
  <2>5. TargetCurrent' /\ NodesCurrent'
    BY <1>28 DEF EnterCredentials, Goto, SessionOK, ControlOK, AskedWhere, Places,
        TargetCurrent, NodesCurrent, Asking
  <2>6. PushedToTarget' /\ PushesLeft'
    BY <1>28 DEF EnterCredentials, Goto, SessionOK, ControlOK, OutcomeOK, AskedWhere, Places,
        PushedToTarget, PushesLeft, InArtifact, TargetCurrent, NodesCurrent, Asking
  <2>7. PasswordsNumbered' /\ HadStays'
    <3>1. auth'.ver = 0 /\ auth'.ns \in Namespaces \cup {None} /\ UNCHANGED <<cluster, had>>
      BY <1>28, <2>0 DEF EnterCredentials, Pods
    <3>2. auth'.ns # None => auth'.ver <= cluster'[auth'.ns].robot
      BY <3>1, HarborTyped
    <3> QED BY <3>1, <3>2 DEF PasswordsNumbered, HadStays
  <2>8. InstallsUnasked' /\ NoUnaskedSecondHarbor'
    BY <1>28 DEF EnterCredentials, Goto, OutcomeOK, ControlOK, AskedWhere, Places,
        InstallsUnasked, NoUnaskedSecondHarbor, Asking
  <2>9. CreatedUpFront'
    BY <1>28 DEF EnterCredentials, Goto, SessionOK, ControlOK, OutcomeOK, AskedWhere, Places,
        CreatedUpFront, Asking
  <2>10. PushPromptRight'
    BY <1>28 DEF EnterCredentials, Goto, ControlOK, PushPromptRight
  <2> QED BY <2>1, <2>2, <2>3, <2>4, <2>5, <2>6, <2>7, <2>8, <2>9, <2>10 DEF TypeOK
<1>29. CASE recoverMissingHarborProject
  <2>1. ClusterOK' /\ SessionOK' /\ OutcomeOK'
    BY <1>29 DEF recoverMissingHarborProject, Goto, ClusterOK, SessionOK, OutcomeOK, Pods,
        Hosts
  <2>2. ControlOK'
    BY <1>29 DEF recoverMissingHarborProject, Goto, ControlOK
  <2>3. AskedWhere' /\ StepsLeft'
    BY <1>29 DEF recoverMissingHarborProject, Goto, ControlOK, AskedWhere, Places, StepsLeft,
        InArtifact
  <2>4. NoForwardYet' /\ ForwardOpen' /\ TunnelCounted' /\ ForwardIsTarget'
    BY <1>29 DEF recoverMissingHarborProject, Goto, SessionOK, ControlOK, OutcomeOK,
        AskedWhere, Places, NoForwardYet, ForwardOpen, Asking, TunnelCounted, ForwardIsTarget
  <2>5. TargetCurrent' /\ NodesCurrent'
    BY <1>29 DEF recoverMissingHarborProject, Goto, SessionOK, ControlOK, AskedWhere, Places,
        TargetCurrent, NodesCurrent, Asking
  <2>6. PushedToTarget' /\ PushesLeft'
    BY <1>29 DEF recoverMissingHarborProject, Goto, SessionOK, ControlOK, OutcomeOK,
        AskedWhere, Places, PushedToTarget, PushesLeft, InArtifact, TargetCurrent,
        NodesCurrent, Asking
  <2>7. PasswordsNumbered' /\ HadStays'
    BY <1>29 DEF recoverMissingHarborProject, Goto, ClusterOK, SessionOK, OutcomeOK,
        HarborStates, PasswordsNumbered, HadStays
  <2>8. InstallsUnasked' /\ NoUnaskedSecondHarbor'
    BY <1>29 DEF recoverMissingHarborProject, Goto, OutcomeOK, ControlOK, AskedWhere, Places,
        InstallsUnasked, NoUnaskedSecondHarbor, Asking
  <2>9. CreatedUpFront'
    BY <1>29 DEF recoverMissingHarborProject, Goto, SessionOK, ControlOK, OutcomeOK, AskedWhere,
        Places, CreatedUpFront, Asking
  <2>10. PushPromptRight'
    BY <1>29 DEF recoverMissingHarborProject, Goto, ControlOK, PushPromptRight
  <2> QED BY <2>1, <2>2, <2>3, <2>4, <2>5, <2>6, <2>7, <2>8, <2>9, <2>10 DEF TypeOK
<1>30. CASE SkipDelete
  <2>1. ClusterOK' /\ SessionOK' /\ OutcomeOK'
    BY <1>30 DEF SkipDelete, Goto, ClusterOK, SessionOK, OutcomeOK, Pods, Hosts
  <2>0. steps # <<>> /\ steps' = Tail(steps) /\ steps \in Seq({"check", "models", "images", "delete"})
    BY <1>30 DEF SkipDelete, StepsLeft, InArtifact, AskedWhere, Places, ControlOK
  <2>2. ControlOK'
    <3>1. steps' \in Seq({"check", "models", "images", "delete"})
      BY <2>0, PushesInTail
    <3> QED BY <1>30, <3>1 DEF SkipDelete, Goto, ControlOK
  <2>3. AskedWhere' /\ StepsLeft'
    BY <1>30 DEF SkipDelete, Goto, ControlOK, AskedWhere, Places, StepsLeft, InArtifact
  <2>4. NoForwardYet' /\ ForwardOpen' /\ TunnelCounted' /\ ForwardIsTarget'
    BY <1>30 DEF SkipDelete, Goto, SessionOK, ControlOK, OutcomeOK, AskedWhere, Places,
        NoForwardYet, ForwardOpen, Asking, TunnelCounted, ForwardIsTarget
  <2>5. TargetCurrent' /\ NodesCurrent'
    BY <1>30 DEF SkipDelete, Goto, SessionOK, ControlOK, AskedWhere, Places, TargetCurrent,
        NodesCurrent, Asking
  <2>6. PushedToTarget' /\ PushesLeft'
    <3>1. Head(steps) \notin {"models", "images"} /\ pushed' = pushed
      BY <1>30 DEF SkipDelete, StepsLeft
    <3>2. PushesLeft'
      BY <2>0, <3>1, PushesInTail DEF PushesLeft
    <3>3. PushedToTarget'
      BY <1>30 DEF SkipDelete, Goto, PushedToTarget
    <3> QED BY <3>2, <3>3
  <2>7. PasswordsNumbered' /\ HadStays'
    BY <1>30 DEF SkipDelete, Goto, ClusterOK, SessionOK, OutcomeOK, HarborStates,
        PasswordsNumbered, HadStays
  <2>8. InstallsUnasked' /\ NoUnaskedSecondHarbor'
    BY <1>30 DEF SkipDelete, Goto, OutcomeOK, ControlOK, AskedWhere, Places, InstallsUnasked,
        NoUnaskedSecondHarbor, Asking
  <2>9. CreatedUpFront'
    BY <1>30 DEF SkipDelete, Goto, SessionOK, ControlOK, OutcomeOK, AskedWhere, Places,
        CreatedUpFront, Asking
  <2>10. PushPromptRight'
    BY <1>30 DEF SkipDelete, Goto, ControlOK, PushPromptRight
  <2> QED BY <2>1, <2>2, <2>3, <2>4, <2>5, <2>6, <2>7, <2>8, <2>9, <2>10 DEF TypeOK
<1>31. CASE Abort
  <2>1. ClusterOK' /\ SessionOK' /\ OutcomeOK'
    BY <1>31 DEF Abort, Fail, InArtifact, ClusterOK, SessionOK, OutcomeOK, Pods, Hosts
  <2>2. ControlOK'
    BY <1>31 DEF Abort, Fail, InArtifact, ControlOK
  <2>3. AskedWhere' /\ StepsLeft'
    BY <1>31 DEF Abort, Fail, InArtifact, ControlOK, AskedWhere, Places, StepsLeft
  <2>4. NoForwardYet' /\ ForwardOpen' /\ TunnelCounted' /\ ForwardIsTarget'
    BY <1>31 DEF Abort, Fail, InArtifact, SessionOK, ControlOK, OutcomeOK, AskedWhere, Places,
        NoForwardYet, ForwardOpen, Asking, TunnelCounted, ForwardIsTarget
  <2>5. TargetCurrent' /\ NodesCurrent'
    BY <1>31 DEF Abort, Fail, InArtifact, SessionOK, ControlOK, AskedWhere, Places,
        TargetCurrent, NodesCurrent, Asking
  <2>6. PushedToTarget' /\ PushesLeft'
    BY <1>31 DEF Abort, Fail, InArtifact, SessionOK, ControlOK, OutcomeOK, AskedWhere, Places,
        PushedToTarget, PushesLeft, TargetCurrent, NodesCurrent, Asking
  <2>7. PasswordsNumbered' /\ HadStays'
    BY <1>31 DEF Abort, Fail, InArtifact, ClusterOK, SessionOK, OutcomeOK, HarborStates,
        PasswordsNumbered, HadStays
  <2>8. InstallsUnasked' /\ NoUnaskedSecondHarbor'
    BY <1>31 DEF Abort, Fail, InArtifact, OutcomeOK, ControlOK, AskedWhere, Places,
        InstallsUnasked, NoUnaskedSecondHarbor, Asking
  <2>9. CreatedUpFront'
    BY <1>31 DEF Abort, Fail, InArtifact, SessionOK, ControlOK, OutcomeOK, AskedWhere, Places,
        CreatedUpFront, Asking
  <2>10. PushPromptRight'
    BY <1>31 DEF Abort, Fail, InArtifact, ControlOK, PushPromptRight
  <2> QED BY <2>1, <2>2, <2>3, <2>4, <2>5, <2>6, <2>7, <2>8, <2>9, <2>10 DEF TypeOK
<1>32. CASE Environment
  <2> PICK n \in Namespaces : PodLost(n) \/ PodBack(n) \/ Rotate(n)
    BY <1>32 DEF Environment
  <2>1. CASE PodLost(n)
    <3> PICK h \in {[cluster[n] EXCEPT !.ready = FALSE]} : Changes(n, h)
      BY <2>1 DEF PodLost
    <3>a. h \in HarborStates /\ h.held <= h.robot /\ cluster[n].robot <= h.robot
          /\ h.svc = cluster[n].svc /\ h.projects = cluster[n].projects
      <4>1. /\ cluster[n] \in HarborStates
            /\ cluster[n].pod \in Nat /\ cluster[n].held \in Nat /\ cluster[n].robot \in Nat
            /\ cluster[n].held <= cluster[n].robot
        BY HarborTyped DEF PasswordsNumbered
      <4>2. h \in HarborStates /\ h.svc = cluster[n].svc /\ h.projects = cluster[n].projects
            /\ h.held = cluster[n].held /\ h.robot = cluster[n].robot
        BY <4>1, WithReady
      <4> QED BY <4>1, <4>2
    <3>0. ClusterOK' /\ PasswordsNumbered' /\ HadStays'
      <4>1. cluster' = [cluster EXCEPT ![n] = h] /\ UNCHANGED <<auth, had>>
        BY DEF Changes
      <4> QED BY <3>a, <4>1, HarborChanges
    <3>1. ClusterOK' /\ SessionOK' /\ OutcomeOK'
      BY <2>1, <3>0 DEF Changes, SessionOK, OutcomeOK
    <3>2. ControlOK'
      BY <2>1 DEF PodLost, Fault, Changes, ControlOK
    <3>3. AskedWhere' /\ StepsLeft'
      BY <2>1 DEF PodLost, Fault, Changes, ControlOK, AskedWhere, Places, StepsLeft,
          InArtifact
    <3>4. NoForwardYet' /\ ForwardOpen' /\ TunnelCounted' /\ ForwardIsTarget'
      BY <2>1 DEF PodLost, Fault, Changes, SessionOK, ControlOK, OutcomeOK, AskedWhere,
          Places, NoForwardYet, ForwardOpen, Asking, TunnelCounted, ForwardIsTarget
    <3>5. TargetCurrent' /\ NodesCurrent'
      BY <2>1 DEF PodLost, Fault, Changes, SessionOK, ControlOK, AskedWhere, Places,
          TargetCurrent, NodesCurrent, Asking
    <3>6. PushedToTarget' /\ PushesLeft'
      BY <2>1 DEF PodLost, Fault, Changes, SessionOK, ControlOK, OutcomeOK, AskedWhere,
          Places, PushedToTarget, PushesLeft, InArtifact, TargetCurrent, NodesCurrent,
          Asking
    <3>7. PasswordsNumbered' /\ HadStays'
      BY <3>0
    <3>8. InstallsUnasked' /\ NoUnaskedSecondHarbor'
      BY <2>1 DEF PodLost, Fault, Changes, OutcomeOK, ControlOK, AskedWhere, Places,
          InstallsUnasked, NoUnaskedSecondHarbor, Asking
    <3>9. CreatedUpFront' /\ PushPromptRight'
      <4>1. faults' > 0
        BY <2>1 DEF PodLost, Fault, ControlOK
      <4> QED BY <3>a, <4>1, PromptStays
    <3> QED BY <3>1, <3>2, <3>3, <3>4, <3>5, <3>6, <3>7, <3>8, <3>9 DEF TypeOK
  <2>2. CASE PodBack(n)
    <3> PICK h \in {[cluster[n] EXCEPT !.ready = TRUE, !.pod = cluster[n].pod + p] : p \in {0, 1}} : Changes(n, h)
      BY <2>2 DEF PodBack
    <3>a. h \in HarborStates /\ h.held <= h.robot /\ cluster[n].robot <= h.robot
          /\ h.svc = cluster[n].svc /\ h.projects = cluster[n].projects
          /\ h.robot = cluster[n].robot /\ h.lists = cluster[n].lists
      <4>1. /\ cluster[n] \in HarborStates
            /\ cluster[n].pod \in Nat /\ cluster[n].held \in Nat /\ cluster[n].robot \in Nat
            /\ cluster[n].held <= cluster[n].robot
        BY HarborTyped DEF PasswordsNumbered
      <4>2. h \in HarborStates /\ h.svc = cluster[n].svc /\ h.projects = cluster[n].projects
            /\ h.held = cluster[n].held /\ h.robot = cluster[n].robot
            /\ h.lists = cluster[n].lists
        <5> PICK p \in {0, 1} : h = [cluster[n] EXCEPT !.ready = TRUE, !.pod = cluster[n].pod + p]
          OBVIOUS
        <5>1. cluster[n].pod + p \in Nat
          BY <4>1
        <5> QED BY <4>1, <5>1, WithPod
      <4> QED BY <4>1, <4>2
    <3>0. ClusterOK' /\ PasswordsNumbered' /\ HadStays'
      <4>1. cluster' = [cluster EXCEPT ![n] = h] /\ UNCHANGED <<auth, had>>
        BY DEF Changes
      <4> QED BY <3>a, <4>1, HarborChanges
    <3>1. ClusterOK' /\ SessionOK' /\ OutcomeOK'
      BY <2>2, <3>0 DEF Changes, SessionOK, OutcomeOK
    <3>2. ControlOK'
      BY <2>2 DEF PodBack, Changes, ControlOK
    <3>3. AskedWhere' /\ StepsLeft'
      BY <2>2 DEF PodBack, Changes, ControlOK, AskedWhere, Places, StepsLeft, InArtifact
    <3>4. NoForwardYet' /\ ForwardOpen' /\ TunnelCounted' /\ ForwardIsTarget'
      BY <2>2 DEF PodBack, Changes, SessionOK, ControlOK, OutcomeOK, AskedWhere, Places,
          NoForwardYet, ForwardOpen, Asking, TunnelCounted, ForwardIsTarget
    <3>5. TargetCurrent' /\ NodesCurrent'
      BY <2>2 DEF PodBack, Changes, SessionOK, ControlOK, AskedWhere, Places, TargetCurrent,
          NodesCurrent, Asking
    <3>6. PushedToTarget' /\ PushesLeft'
      BY <2>2 DEF PodBack, Changes, SessionOK, ControlOK, OutcomeOK, AskedWhere, Places,
          PushedToTarget, PushesLeft, InArtifact, TargetCurrent, NodesCurrent, Asking
    <3>7. PasswordsNumbered' /\ HadStays'
      BY <3>0
    <3>8. InstallsUnasked' /\ NoUnaskedSecondHarbor'
      BY <2>2 DEF PodBack, Changes, OutcomeOK, ControlOK, AskedWhere, Places,
          InstallsUnasked, NoUnaskedSecondHarbor, Asking
    <3>9. CreatedUpFront' /\ PushPromptRight'
      <4>1. UNCHANGED faults /\ h.robot = cluster[n].robot /\ h.lists = cluster[n].lists
        BY <2>2, <3>a DEF PodBack
      <4> QED BY <3>a, <4>1, PromptStays
    <3> QED BY <3>1, <3>2, <3>3, <3>4, <3>5, <3>6, <3>7, <3>8, <3>9 DEF TypeOK
  <2>3. CASE Rotate(n)
    <3> PICK h \in {[cluster[n] EXCEPT !.robot = cluster[n].robot + 1, !.held = cluster[n].robot + 1],
                   [cluster[n] EXCEPT !.robot = cluster[n].robot + 1],
                   [cluster[n] EXCEPT !.robot = cluster[n].robot + 1, !.secret = None]} : Changes(n, h)
      BY <2>3 DEF Rotate
    <3>a. h \in HarborStates /\ h.held <= h.robot /\ cluster[n].robot <= h.robot
          /\ h.svc = cluster[n].svc /\ h.projects = cluster[n].projects
      <4>1. /\ cluster[n] \in HarborStates
            /\ cluster[n].pod \in Nat /\ cluster[n].held \in Nat /\ cluster[n].robot \in Nat
            /\ cluster[n].held <= cluster[n].robot
        BY HarborTyped DEF PasswordsNumbered
      <4>2. h \in HarborStates /\ h.svc = cluster[n].svc /\ h.projects = cluster[n].projects
            /\ h.held \in {cluster[n].held, cluster[n].robot + 1} /\ h.robot = cluster[n].robot + 1
        <5> DEFINE k == cluster[n].robot + 1
        <5>1. k \in Nat
          BY <4>1
        <5>2. CASE h = [cluster[n] EXCEPT !.robot = k, !.held = k]
          BY <4>1, <5>1, <5>2, WithPassword
        <5>3. CASE h = [cluster[n] EXCEPT !.robot = k]
          BY <4>1, <5>1, <5>3, WithRobot
        <5>4. CASE h = [cluster[n] EXCEPT !.robot = k, !.secret = None]
          BY <4>1, <5>1, <5>4, WithoutSecret
        <5> QED BY <5>2, <5>3, <5>4
      <4> QED BY <4>1, <4>2
    <3>0. ClusterOK' /\ PasswordsNumbered' /\ HadStays'
      <4>1. cluster' = [cluster EXCEPT ![n] = h] /\ UNCHANGED <<auth, had>>
        BY DEF Changes
      <4> QED BY <3>a, <4>1, HarborChanges
    <3>1. ClusterOK' /\ SessionOK' /\ OutcomeOK'
      BY <2>3, <3>0 DEF Changes, SessionOK, OutcomeOK
    <3>2. ControlOK'
      BY <2>3 DEF Rotate, Fault, Changes, ControlOK
    <3>3. AskedWhere' /\ StepsLeft'
      BY <2>3 DEF Rotate, Fault, Changes, ControlOK, AskedWhere, Places, StepsLeft,
          InArtifact
    <3>4. NoForwardYet' /\ ForwardOpen' /\ TunnelCounted' /\ ForwardIsTarget'
      BY <2>3 DEF Rotate, Fault, Changes, SessionOK, ControlOK, OutcomeOK, AskedWhere,
          Places, NoForwardYet, ForwardOpen, Asking, TunnelCounted, ForwardIsTarget
    <3>5. TargetCurrent' /\ NodesCurrent'
      BY <2>3 DEF Rotate, Fault, Changes, SessionOK, ControlOK, AskedWhere, Places,
          TargetCurrent, NodesCurrent, Asking
    <3>6. PushedToTarget' /\ PushesLeft'
      BY <2>3 DEF Rotate, Fault, Changes, SessionOK, ControlOK, OutcomeOK, AskedWhere,
          Places, PushedToTarget, PushesLeft, InArtifact, TargetCurrent, NodesCurrent,
          Asking
    <3>7. PasswordsNumbered' /\ HadStays'
      BY <3>0
    <3>8. InstallsUnasked' /\ NoUnaskedSecondHarbor'
      BY <2>3 DEF Rotate, Fault, Changes, OutcomeOK, ControlOK, AskedWhere, Places,
          InstallsUnasked, NoUnaskedSecondHarbor, Asking
    <3>9. CreatedUpFront' /\ PushPromptRight'
      <4>1. faults' > 0
        BY <2>3 DEF Rotate, Fault, ControlOK
      <4> QED BY <3>a, <4>1, PromptStays
    <3> QED BY <3>1, <3>2, <3>3, <3>4, <3>5, <3>6, <3>7, <3>8, <3>9 DEF TypeOK
  <2> QED BY <2>1, <2>2, <2>3
<1>33. CASE harborAdminClient
  <2>1. ClusterOK' /\ SessionOK' /\ OutcomeOK'
    BY <1>33 DEF harborAdminClient, Ask, Fault, ClusterOK, SessionOK, OutcomeOK, Pods, Hosts
  <2>2. ControlOK'
    BY <1>33 DEF harborAdminClient, Ask, Fault, ControlOK, AskedWhere, Places
  <2>3. AskedWhere' /\ StepsLeft'
    BY <1>33 DEF harborAdminClient, Ask, Fault, ControlOK, AskedWhere, Places, StepsLeft,
        InArtifact
  <2>4. NoForwardYet' /\ ForwardOpen' /\ TunnelCounted' /\ ForwardIsTarget'
    BY <1>33 DEF harborAdminClient, Ask, Fault, SessionOK, ControlOK, OutcomeOK, AskedWhere,
        Places, NoForwardYet, ForwardOpen, Asking, TunnelCounted, ForwardIsTarget
  <2>5. TargetCurrent' /\ NodesCurrent'
    BY <1>33 DEF harborAdminClient, Ask, Fault, SessionOK, ControlOK, AskedWhere, Places,
        TargetCurrent, NodesCurrent, Asking
  <2>6. PushedToTarget' /\ PushesLeft'
    BY <1>33 DEF harborAdminClient, Ask, Fault, SessionOK, ControlOK, OutcomeOK, AskedWhere,
        Places, PushedToTarget, PushesLeft, InArtifact, TargetCurrent, NodesCurrent, Asking
  <2>7. PasswordsNumbered' /\ HadStays'
    BY <1>33 DEF harborAdminClient, Ask, Fault, ClusterOK, SessionOK, OutcomeOK, HarborStates,
        PasswordsNumbered, HadStays
  <2>8. InstallsUnasked' /\ NoUnaskedSecondHarbor'
    BY <1>33 DEF harborAdminClient, Ask, Fault, OutcomeOK, ControlOK, AskedWhere, Places,
        InstallsUnasked, NoUnaskedSecondHarbor, Asking
  <2>9. CreatedUpFront'
    BY <1>33 DEF harborAdminClient, Ask, Fault, SessionOK, ControlOK, OutcomeOK, AskedWhere,
        Places, CreatedUpFront, Asking
  <2>10. PushPromptRight'
    BY <1>33 DEF harborAdminClient, Ask, Fault, ControlOK, AskedWhere, Places, PushPromptRight
  <2> QED BY <2>1, <2>2, <2>3, <2>4, <2>5, <2>6, <2>7, <2>8, <2>9, <2>10 DEF TypeOK
<1>34. CASE EnterAdminPassword
  <2>1. ClusterOK' /\ SessionOK' /\ OutcomeOK'
    BY <1>34 DEF EnterAdminPassword, Goto, ClusterOK, SessionOK, OutcomeOK, Pods, Hosts
  <2>2. ControlOK'
    BY <1>34 DEF EnterAdminPassword, Goto, ControlOK, AskedWhere, Places
  <2>3. AskedWhere' /\ StepsLeft'
    BY <1>34 DEF EnterAdminPassword, Goto, ControlOK, AskedWhere, Places, StepsLeft, InArtifact
  <2>4. NoForwardYet' /\ ForwardOpen' /\ TunnelCounted' /\ ForwardIsTarget'
    BY <1>34 DEF EnterAdminPassword, Goto, SessionOK, ControlOK, OutcomeOK, AskedWhere, Places,
        NoForwardYet, ForwardOpen, Asking, TunnelCounted, ForwardIsTarget
  <2>5. TargetCurrent' /\ NodesCurrent'
    BY <1>34 DEF EnterAdminPassword, Goto, SessionOK, ControlOK, AskedWhere, Places,
        TargetCurrent, NodesCurrent, Asking
  <2>6. PushedToTarget' /\ PushesLeft'
    BY <1>34 DEF EnterAdminPassword, Goto, SessionOK, ControlOK, OutcomeOK, AskedWhere, Places,
        PushedToTarget, PushesLeft, InArtifact, TargetCurrent, NodesCurrent, Asking
  <2>7. PasswordsNumbered' /\ HadStays'
    BY <1>34 DEF EnterAdminPassword, Goto, ClusterOK, SessionOK, OutcomeOK, HarborStates,
        PasswordsNumbered, HadStays
  <2>8. InstallsUnasked' /\ NoUnaskedSecondHarbor'
    BY <1>34 DEF EnterAdminPassword, Goto, OutcomeOK, ControlOK, AskedWhere, Places,
        InstallsUnasked, NoUnaskedSecondHarbor, Asking
  <2>9. CreatedUpFront'
    BY <1>34 DEF EnterAdminPassword, Goto, SessionOK, ControlOK, OutcomeOK, AskedWhere, Places,
        CreatedUpFront, Asking
  <2>10. PushPromptRight'
    BY <1>34 DEF EnterAdminPassword, Goto, ControlOK, AskedWhere, Places, PushPromptRight
  <2> QED BY <2>1, <2>2, <2>3, <2>4, <2>5, <2>6, <2>7, <2>8, <2>9, <2>10 DEF TypeOK
<1>35. CASE UNCHANGED vars \/ Terminated
  <2> SUFFICES ASSUME UNCHANGED vars PROVE IndInv'
    BY <1>35 DEF Terminated
  <2>1. TypeOK'
    BY DEF vars, ClusterOK, ControlOK, SessionOK, OutcomeOK
  <2>2. AskedWhere' /\ NoForwardYet' /\ ForwardOpen' /\ TunnelCounted' /\ ForwardIsTarget' /\ StepsLeft'
    BY DEF vars, AskedWhere, NoForwardYet, ForwardOpen, Asking, TunnelCounted, ForwardIsTarget, StepsLeft, InArtifact
  <2>3. TargetCurrent' /\ NodesCurrent' /\ PushedToTarget' /\ PushesLeft'
    BY DEF vars, TargetCurrent, NodesCurrent, Asking, PushedToTarget, PushesLeft, InArtifact
  <2>4. PasswordsNumbered' /\ HadStays' /\ InstallsUnasked' /\ NoUnaskedSecondHarbor'
    BY DEF vars, PasswordsNumbered, HadStays, InstallsUnasked, Asking, NoUnaskedSecondHarbor
  <2>5. CreatedUpFront' /\ PushPromptRight'
    BY DEF vars, CreatedUpFront, Asking, PushPromptRight, MissingFor, Lists, Accepted
  <2> QED BY <2>1, <2>2, <2>3, <2>4, <2>5
<1> HIDE DEF IndInv
<1> QED
  BY <1>1, <1>2, <1>3, <1>4, <1>5, <1>6, <1>7, <1>8, <1>9, <1>10, <1>11, <1>12, <1>13, <1>14,
      <1>15, <1>16, <1>17, <1>18, <1>19, <1>20, <1>21, <1>22, <1>23, <1>24, <1>25, <1>26, <1>27,
      <1>28, <1>29, <1>30, <1>31, <1>32, <1>33,
      <1>34, <1>35 DEF Next, Installer, Operator

\* The invariant is one of the specification.
THEOREM Invariance == Spec => []IndInv
BY InitInv, StepInv, PTL DEF Spec

\* Every variable keeps its type.
THEOREM TypeCorrect == Spec => []TypeOK
<1>1. IndInv => TypeOK
  BY DEF IndInv
<1> QED BY <1>1, Invariance, PTL

\* checkHarborTarget and findHarborNamespaces: no Harbor is deployed next to one
\* that was there, unless the operator chose a fresh install.
THEOREM SecondHarborAsked == Spec => []NoUnaskedSecondHarbor
<1>1. IndInv => NoUnaskedSecondHarbor
  BY DEF IndInv
<1> QED BY <1>1, Invariance, PTL

\* RefreshPortForward and ClosePortForward: never two tunnels, none at the end.
THEOREM TunnelsClosed == Spec => []OneTunnel
<1>1. IndInv => OneTunnel
  BY DEF IndInv, OneTunnel, TunnelCounted, NoForwardYet
<1> QED BY <1>1, Invariance, PTL

\* A run that completes pushed into the Harbor of the session, and the nodes of
\* a managed cloud pull from it.
THEOREM PushedWhereNodesPull == Spec => []OneHarbor
<1>1. IndInv => OneHarbor
  <2> SUFFICES ASSUME IndInv, pc = "done" PROVE pushed = {cfg.ns} /\ (cloud => nodes = Host)
    BY DEF OneHarbor
  <2>1. steps = <<>>
    BY DEF IndInv, StepsLeft
  <2>2. pushed # {}
    BY <2>1 DEF IndInv, PushesLeft
  <2>3. pushed = {target.ns} /\ target.ns = cfg.ns
    BY <2>2 DEF IndInv, PushedToTarget
  <2> QED BY <2>3 DEF IndInv, NodesCurrent, Host
<1> QED BY <1>1, Invariance, PTL

\* EnsureHarborProjects and recoverArtifactUpload: a missing project is never taken
\* for bad credentials in a Harbor that was found, and in one that this run
\* installed only where the project list cannot be read; projects are offered to
\* be created only when one is missing.
THEOREM CredentialsAskedRightly == Spec => []PushPromptRight
<1>1. IndInv => PushPromptRight
  BY DEF IndInv
<1> QED BY <1>1, Invariance, PTL
=============================================================================
