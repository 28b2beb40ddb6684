------------------------------- MODULE Stacks -------------------------------
(***************************************************************************)
(* The stacks the installer deploys, run after run.  Every step of a run   *)
(* reads the cluster, asks the operator, resolves the stack's entries,     *)
(* writes the stack file and brings the stack up; a step that fails is     *)
(* retried or ends the run, and the installer may stop at any moment.      *)
(* Only the stack files and the cluster outlive a run, so what a run finds *)
(* in them comes from any earlier one, or from an operator's hand edit.    *)
(***************************************************************************)
EXTENDS StackDefinitions, Naturals

CONSTANTS Hostnames,      \* the hostnames the platform may be served on
          OtherClasses,   \* GatewayClasses besides Istio's and AGC's
          Issuers,        \* the names of ClusterIssuers
          Subnets,        \* the Azure subnets there are
          StorageClasses, \* the StorageClasses of the cluster
          ClusterDefault, \* the one a PVC without a class gets
          Sites,          \* a cluster and its operator (see Site)
          Generated,      \* labels of generated credentials, in order
          MaxEdits,       \* bound on hand edits
          None            \* nothing deployed, nothing created

(***************************************************************************)
(* A site: the platform its cluster runs on, the other Gateway controllers *)
(* there, and what its operator may answer: <<webapp, kc>> at the          *)
(* selection stages, another Gateway than the pre-selected one, hostnames  *)
(* and StorageClasses, and the edits <<stack, key, value>> of the stack    *)
(* files between runs.                                                     *)
(***************************************************************************)
Site == [platform : Platforms, select : SUBSET (BOOLEAN \X BOOLEAN), choose : BOOLEAN,
         controllers : SUBSET OtherClasses,
         hostnames : SUBSET (Hostnames \cup {Empty, Blank}),
         classes : SUBSET (StorageClasses \cup {Empty}),
         edits : SUBSET (STRING \X STRING \X STRING)]

\* No name in the cluster is the mark of a missing value, classes have
\* names, and None is no set of credentials.
ASSUME StacksAssumption ==
  /\ Sites \subseteq Site
  /\ Absent \notin Issuers
  /\ OtherClasses \cap {AGC, Empty, Blank, Absent} = {}
  /\ ClusterDefault \notin {Empty, Blank, Absent}
  /\ Generated \in Seq(STRING)
  /\ MaxEdits \in Nat
  /\ None \notin [MCPKeys -> STRING]

\* Every definition passes Config.Validate.
ASSUME DefinitionsAssumption == DefinitionsValid

VARIABLES site,      \* where the installer runs
          files,     \* Pulumi.<stack>.yaml of every stack
          live,      \* what runs in the cluster
          rt,        \* the answers and credentials of this run
          pc,        \* the step of this run and its phase
          gen,       \* credentials generated and stored so far
          edits      \* hand edits made so far

platform == site.platform

vars == <<site, files, live, rt, pc, gen, edits>>

StackNames == {"harbor", "gateway", "shaide", "mcp", "monitoring"}
Claims == {"loki", "prometheus"}

Idle == <<"idle", "idle">>
Done == <<"done", "done">>

FreshRuntime == [kc |-> FALSE, webapp |-> FALSE, hostname |-> Empty,
                 credentials |-> <<>>, accepted |-> "no", class |-> Empty]

Init ==
  /\ site \in Sites
  /\ files = [s \in StackNames |-> <<>>]
  /\ live = [harbor |-> None, gateway |-> None, shaide |-> None,
             mcp |-> None, account |-> None,
             pvc |-> [c \in Claims |-> None]]
  /\ rt = FreshRuntime
  /\ pc = Idle
  /\ gen = 0
  /\ edits = 0

-----------------------------------------------------------------------------
(* The run and its steps *)

At(step, phase) == pc = <<step, phase>>
Goto(step, phase) == pc' = <<step, phase>>

\* The steps of the stage "deploy AI platform", after Harbor's; app-serving,
\* between the first two, is the module Serving.
NextStep == [harbor |-> "gateway", gateway |-> "shaide", shaide |-> "mcp",
             mcp |-> "monitoring"]

selectWebApp(runtime, answer) == [runtime EXCEPT !.webapp = answer]
selectKnowledgeCenter(runtime, answer) == [runtime EXCEPT !.kc = answer]

\* The stages that select components, and whether discovery found a Harbor.
Start(webapp, kc) ==
  /\ pc \in {Idle, Done}
  /\ rt' = selectKnowledgeCenter(selectWebApp(FreshRuntime, webapp), kc)
  /\ Goto(IF live.harbor = None THEN "harbor" ELSE "gateway", "configure")
  /\ UNCHANGED <<site, files, live, gen, edits>>

\* recoverRetryAbort: the step starts over with this run's answers, or the
\* run ends.
StepFails(step) ==
  \/ Goto(step, "configure") /\ UNCHANGED rt
  \/ pc' = Idle /\ rt' = FreshRuntime

\* The installer is stopped, or its host crashes.
Crash ==
  /\ pc \notin {Idle, Done}
  /\ pc' = Idle
  /\ rt' = FreshRuntime
  /\ UNCHANGED <<site, files, live, gen, edits>>

\* Between runs an operator sets or removes a key of a stack file.
HandEdit(stack, key, value) ==
  /\ pc \in {Idle, Done}
  /\ edits < MaxEdits
  /\ pc' = Idle
  /\ rt' = FreshRuntime
  /\ edits' = edits + 1
  /\ files' = [files EXCEPT ![stack] =
                 IF value = Absent THEN Restrict(@, DOMAIN @ \ {key})
                                   ELSE With(@, key, value)]
  /\ UNCHANGED <<site, live, gen>>

AllKeys == UNION {KeysOf(harborEntries), KeysOf(gatewayEntries(Azure)),
                  KeysOf(shaideEntries), KeysOf(mcpEntries),
                  KeysOf(monitoringEntries)}

\* Options of the stack packages that the installer leaves empty, or (the
\* name of the load balancer) fills with what the default already is.
Unset == {"datasources", "imagePullSecrets", "albName"}

\* What the installer supplies: the values of this step, the platform, and
\* what it always has (kubeconfig, context, images, placement).
Sources(values) ==
  [k \in AllKeys |->
     IF k \in DOMAIN values THEN values[k]
     ELSE IF k \in {"platform", "cloudProvider"} THEN platform
     ELSE IF k \in Unset THEN Empty ELSE "given"]

Answers(values) ==
  [k \in AllKeys |-> IF k \in DOMAIN values THEN values[k] ELSE "given"]

\* NewStackDeployer resolves the entries; Deploy writes them before it runs
\* the program.
Write(stack, resolved, runtime) ==
  IF resolved.ok
  THEN /\ files' = [files EXCEPT ![stack] = Written(@, resolved.values)]
       /\ Goto(stack, "up")
       /\ rt' = runtime
  ELSE UNCHANGED files /\ StepFails(stack)

-----------------------------------------------------------------------------
(* harbor *)

\* DeployHarbor, when discovery found none: the passwords and, on-prem, the
\* storage node are asked for.
ConfigureHarbor(password, node) ==
  /\ At("harbor", "configure")
  /\ Write("harbor",
           Resolve(harborEntries, Sources(<<>>),
                   Answers([adminPassword |-> password,
                            nodeHostname |-> node])),
           rt)
  /\ UNCHANGED <<site, live, gen, edits>>

UpHarbor ==
  /\ At("harbor", "up")
  /\ LET cfg == loadHarbor(files["harbor"])
     IN  \/ /\ cfg.ok
            /\ live' = [live EXCEPT !.harbor = [mode |-> cfg.mode,
                                                node |-> cfg.node]]
            /\ Goto(NextStep["harbor"], "configure")
            /\ UNCHANGED rt
         \/ UNCHANGED live /\ StepFails("harbor")
  /\ UNCHANGED <<site, files, gen, edits>>

-----------------------------------------------------------------------------
(* gateway-provider *)

\* The classes a cluster may have: Istio's, the platform's, of which AGC's runs
\* on Azure only, and those of other controllers.
gatewayClasses == {Istio, defaultsForProvider(platform)} \cup site.controllers

(***************************************************************************)
(* What the look-ups of one step find, each on its own: the live shared    *)
(* Gateway, the classes that their controllers accept at the moment, the   *)
(* ClusterIssuers there are, and the subnets of all the load balancers,    *)
(* others than the Gateway's included.  None stands for a look-up that     *)
(* fails.                                                                  *)
(***************************************************************************)
Lookups ==
  [gateway : {live.gateway, None},
   classes : {None} \cup SUBSET (gatewayClasses \ {Istio}),
   issuers : {None} \cup SUBSET Issuers,
   subnets : {None} \cup
     {others \cup (IF live.gateway = None THEN {} ELSE {live.gateway.subnet} \ {Empty})
        : others \in SUBSET Subnets}]

\* What the prompts take to be in use.
InUse(seen, field) == IF seen.gateway = None THEN Empty ELSE seen.gateway[field]

\* Istio, which the stack installs, and the accepted classes; when they cannot
\* be listed, the platform's default in their place.
offeredClasses(listed) ==
  {Istio} \cup (IF listed = None THEN {defaultsForProvider(platform)} ELSE listed)

\* A single option is taken without asking.
gatewayClassChoice(options, inUse) ==
  IF inUse \in options THEN inUse
  ELSE IF defaultsForProvider(platform) \in options THEN defaultsForProvider(platform)
  ELSE Istio

\* Mutant: the issuer in use is not pre-selected.
MutIssuerChoice(issuers, inUse) == Empty

issuerChoice(issuers, inUse) == IF inUse \in issuers THEN inUse ELSE Empty

\* An issuer or none; when the issuers cannot be listed, any name may be typed
\* and the one in use is pre-filled.
offeredIssuers(listed) == {Empty} \cup (IF listed = None THEN Issuers ELSE listed)

selectCertManagerIssuer(listed, inUse) ==
  IF listed = None THEN inUse ELSE issuerChoice(listed, inUse)

\* The one association there is, if any; several are not told apart.
discoverALB(associations) ==
  IF associations # None /\ (\E s \in associations : associations = {s})
  THEN CHOOSE s \in associations : TRUE ELSE Empty

\* Whether the operator took what was pre-selected from a live Gateway, and
\* whether what it uses was on offer.
Acceptance == {"no", "offered", "other"}

Accepted(seen) ==
  IF seen.gateway = None THEN "no"
  ELSE IF /\ InUse(seen, "class") \in offeredClasses(seen.classes)
          /\ InUse(seen, "issuer") \in offeredIssuers(seen.issuers)
  THEN "offered" ELSE "other"

\* The operator accepts what is pre-selected.  The load balancer is looked up
\* and its subnet asked for only for an AGC.
Preselected(seen) ==
  LET class == gatewayClassChoice(offeredClasses(seen.classes), InUse(seen, "class"))
  IN  [class |-> class,
       issuer |-> selectCertManagerIssuer(seen.issuers, InUse(seen, "issuer")),
       subnet |-> IF class = AGC THEN discoverALB(seen.subnets) ELSE Empty,
       accepted |-> Accepted(seen)]

\* Or chooses: some listing offers each of these.
OfferedChoices ==
  {choice \in [class : gatewayClasses, issuer : Issuers \cup {Empty},
               subnet : Subnets \cup {Empty, Malformed}, accepted : {"no"}] :
     choice.class = AGC \/ choice.subnet = Empty}

\* The hostname is never pre-filled.
gatewayOptions(choose) ==
  {Preselected(seen) : seen \in Lookups} \cup (IF choose THEN OfferedChoices ELSE {})

\* A hostname that was answered is remembered for app-shaide; an empty one
\* leaves what was remembered.
rememberHostname(runtime, hostname) ==
  [runtime EXCEPT !.hostname = OrElse(TrimSpace(hostname), @)]

\* DeployGatewayProvider up to Deploy.
ConfigureGateway(choice, hostname) ==
  /\ At("gateway", "configure")
  /\ choice \in gatewayOptions(site.choose)
  /\ Write("gateway",
           Resolve(gatewayEntries(platform),
                   Sources([gatewayClassName |-> choice.class,
                            certManagerIssuer |-> choice.issuer]),
                   Answers([gatewayHostname |-> hostname,
                            albSubnetId |-> choice.subnet])),
           [rememberHostname(rt, hostname) EXCEPT !.accepted = choice.accepted])
  /\ UNCHANGED <<site, live, gen, edits>>

DeployedGateway(cfg) ==
  IF ~cfg.shared THEN None
  ELSE [class |-> cfg.class, hostname |-> cfg.hostname,
        issuer |-> cfg.issuer, subnet |-> cfg.subnet]

\* The hostname of the Gateway that was deployed is preferred.
exportedHostname(runtime, gateway) ==
  [runtime EXCEPT !.hostname = IF gateway = None THEN @ ELSE gateway.hostname]

\* A failed update may have changed the Gateway before it failed.
UpGateway ==
  /\ At("gateway", "up")
  /\ LET cfg == loadGateway(files["gateway"])
         gateway == DeployedGateway(cfg)
     IN  \/ /\ cfg.ok
            /\ live' = [live EXCEPT !.gateway = gateway]
            /\ rt' = [exportedHostname(rt, gateway) EXCEPT !.accepted = "no"]
            /\ Goto(NextStep["gateway"], "configure")
         \/ /\ live' \in {live} \cup (IF cfg.ok THEN
                           {[live EXCEPT !.gateway = gateway]} ELSE {})
            /\ StepFails("gateway")
  /\ UNCHANGED <<site, files, gen, edits>>

-----------------------------------------------------------------------------
(* app-shaide *)

\* KnowledgeCenterCredentials: what an earlier run stored.
retained == [k \in KCKeys |-> Get(files["shaide"], k)]

\* Mutant: every run generates all credentials anew.
MutCompleteCredentials(creds, label) == [k \in KCKeys |-> label]

\* CompleteCredentials: what is missing is generated, the key pair as a
\* unit when its halves do not match; what is there is kept.
CompleteCredentials(creds, label) ==
  [k \in KCKeys |->
     IF k \in KCKeyPair
     THEN IF ValidateKeyPair(creds) THEN creds[k] ELSE label
     ELSE OrElse(creds[k], label)]

ValidCredentials(creds) ==
  ValidateFormats(creds, KCKeys) /\ ValidateDistinct(creds, KCTokens)

\* The credentials of this run: what the stack file of an earlier run holds,
\* completed, and refused when a stored one is unusable.
knowledgeCenterCredentials(label) ==
  LET creds == CompleteCredentials(retained, label)
  IN  [values |-> creds, ok |-> ValidCredentials(creds)]

\* DeployAppShaide up to Deploy.
ConfigureShaide(secret) ==
  /\ At("shaide", "configure")
  /\ gen < Len(Generated)
  /\ LET credentials == knowledgeCenterCredentials(Generated[gen + 1])
         creds == credentials.values
         usable == ~rt.kc \/ credentials.ok
         source == IF rt.kc THEN creds ELSE [k \in KCKeys |-> Empty]
         resolved == Resolve(shaideEntries,
                       Sources(Over([gatewayHostname |-> rt.hostname,
                                     webappEnabled |-> FormatBool(rt.webapp),
                                     knowledgeCenterEnabled |-> FormatBool(rt.kc)],
                                    source)),
                       [k \in KeysOf(shaideSecretEntries) |-> secret])
         accepted == usable /\ checkShaideCredentials(resolved.values)
     IN  /\ Write("shaide", Checked(resolved, accepted),
                  [rt EXCEPT !.credentials = IF rt.kc THEN creds ELSE <<>>])
         /\ gen' = IF resolved.ok /\ accepted /\ rt.kc /\ creds # retained
                   THEN gen + 1 ELSE gen
  /\ UNCHANGED <<site, live, edits>>

UpShaide ==
  /\ At("shaide", "up")
  /\ LET cfg == loadShaide(files["shaide"])
         shaide == [kc |-> cfg.kc, webapp |-> cfg.webapp,
                    hostname |-> cfg.hostname]
     IN  \/ /\ cfg.ok
            /\ live' = [live EXCEPT !.shaide = shaide]
            /\ UNCHANGED rt
            /\ IF rt.kc THEN Goto("shaide", "account")
                        ELSE Goto(NextStep["shaide"], "configure")
         \/ /\ live' \in {live} \cup (IF cfg.ok THEN
                           {[live EXCEPT !.shaide = shaide]} ELSE {})
            /\ StepFails("shaide")
  /\ UNCHANGED <<site, files, gen, edits>>

\* Mutant: an account that exists is taken for the right one.
MutEnsureAccount ==
  /\ At("shaide", "account")
  /\ live' = [live EXCEPT !.account = IF @ = None
                THEN rt.credentials["kcEmbeddingPassword"] ELSE @]
  /\ Goto("mcp", "configure")
  /\ UNCHANGED <<site, files, rt, gen, edits>>

\* EnsureEmbeddingAccount: the account is created, or it exists and has to
\* sign in with the stored password.  The server may not answer, may reject
\* the admin, or the answer to the creation may be lost.
ensureAccount ==
  /\ At("shaide", "account")
  /\ LET password == rt.credentials["kcEmbeddingPassword"]
     IN  \/ /\ live.account \in {None, password}
            /\ live' = [live EXCEPT !.account = password]
            /\ Goto(NextStep["shaide"], "configure")
            /\ UNCHANGED rt
         \/ /\ live' \in {live, [live EXCEPT !.account =
                                   IF @ = None THEN password ELSE @]}
            /\ StepFails("shaide")
  /\ UNCHANGED <<site, files, gen, edits>>

-----------------------------------------------------------------------------
(* app-mcp *)

\* The answer, and the namespace and ServiceAccount that app-shaide deployed.
MCPIdentity == [knowledgeCenterEnabled |-> "true",
                shaideNamespace |-> "default",
                shaideServiceAccountName |-> "default"]

\* DeployAppMCP with the answer and the credentials app-shaide got.
ConfigureMCP ==
  /\ At("mcp", "configure")
  /\ rt.kc
  /\ LET resolved == Resolve(mcpEntries,
                             Sources(Over(MCPIdentity, rt.credentials)),
                             <<>>)
     IN  Write("mcp", Checked(resolved, checkMCP(resolved.values)), rt)
  /\ UNCHANGED <<site, live, gen, edits>>

UpMCP ==
  /\ At("mcp", "up")
  /\ LET cfg == loadMCP(files["mcp"])
     IN  \/ /\ cfg.ok
            /\ live' = [live EXCEPT !.mcp = cfg.kc]
            /\ Goto(NextStep["mcp"], "configure")
            /\ UNCHANGED rt
         \/ /\ live' \in {live} \cup (IF cfg.ok THEN {[live EXCEPT !.mcp = cfg.kc]}
                                       ELSE {})
            /\ StepFails("mcp")
  /\ UNCHANGED <<site, files, gen, edits>>

\* Mutant: the stack is skipped instead of destroyed.
MutRemoveAppMCP ==
  /\ At("mcp", "configure")
  /\ ~rt.kc
  /\ Goto("monitoring", "configure")
  /\ UNCHANGED <<site, files, live, rt, gen, edits>>

\* removeAppMCP: nothing is deployed, or the stack is destroyed, unless an
\* operator configured data sources in it.
removeAppMCP ==
  /\ At("mcp", "configure")
  /\ ~rt.kc
  /\ \/ /\ live.mcp = None \/ ~HasDatasources(files["mcp"])
        /\ live' = [live EXCEPT !.mcp = None]
        /\ Goto(NextStep["mcp"], "configure")
        /\ UNCHANGED rt
     \/ UNCHANGED live /\ StepFails("mcp")
  /\ UNCHANGED <<site, files, gen, edits>>

-----------------------------------------------------------------------------
(* monitoring *)

\* existingPVCStorageClass finds the claim.
Claimed(c) == live.pvc[c] # None

\* promptStorageClass: a class of the cluster, or "" for "(cluster default)".
promptStorageClass == site.classes \cap (StorageClasses \cup {Empty})

\* Mutant: existing PVCs are asked about too.
MutMonitoringStorageClasses(selected) == [c \in Claims |-> selected]

\* monitoringStorageClasses: an existing PVC keeps its class, and the
\* operator is asked once for the others.
monitoringStorageClasses(selected) ==
  [c \in Claims |-> IF Claimed(c) THEN live.pvc[c] ELSE selected]

\* DeployMonitoring up to Deploy.
ConfigureMonitoring(selected) ==
  /\ At("monitoring", "configure")
  /\ LET class == monitoringStorageClasses(selected)
     IN  Write("monitoring",
           Resolve(monitoringEntries,
                   Sources([lokiStorageClass |-> class["loki"],
                            prometheusStorageClass |-> class["prometheus"]]),
                   Answers(<<>>)),
           [rt EXCEPT !.class = selected])
  /\ UNCHANGED <<site, live, gen, edits>>

\* The class a PVC gets, or is updated to, from the stack file.
ClaimClass(c) ==
  LET cfg == loadMonitoring(files["monitoring"])
  IN  OrElse(IF c = "loki" THEN cfg.loki ELSE cfg.prometheus, ClusterDefault)

\* The class of a PVC cannot change, and the API server takes no class that
\* is blank: an update that tries to fails.  A failed update may have created
\* some of the claims.
UpMonitoring ==
  /\ At("monitoring", "up")
  /\ LET created(claims) ==
           [c \in Claims |->
              IF ~Claimed(c) /\ c \in claims /\ ClaimClass(c) # Blank
              THEN ClaimClass(c) ELSE live.pvc[c]]
         updatable == \A c \in Claims :
                        /\ Claimed(c) => live.pvc[c] = ClaimClass(c)
                        /\ ClaimClass(c) # Blank
     IN  /\ loadMonitoring(files["monitoring"]).ok
         /\ \/ /\ updatable
               /\ live' = [live EXCEPT !.pvc = created(Claims)]
               /\ pc' = Done
               /\ UNCHANGED rt
            \/ /\ \E claims \in SUBSET Claims :
                    live' = [live EXCEPT !.pvc = created(claims)]
               /\ StepFails("monitoring")
  /\ UNCHANGED <<site, files, gen, edits>>

-----------------------------------------------------------------------------
Next ==
  \/ \E answer \in site.select : Start(answer[1], answer[2])
  \/ Crash
  \/ \E edit \in site.edits : HandEdit(edit[1], edit[2], edit[3])
  \/ \E password, node \in {Empty, "answer"} : ConfigureHarbor(password, node)
  \/ UpHarbor
  \/ /\ At("gateway", "configure")
     /\ \E choice \in gatewayOptions(site.choose), hostname \in site.hostnames :
          ConfigureGateway(choice, hostname)
  \/ UpGateway
  \/ \E secret \in {Empty, "answer"} : ConfigureShaide(secret)
  \/ UpShaide
  \/ ensureAccount
  \/ ConfigureMCP
  \/ UpMCP
  \/ removeAppMCP
  \/ \E selected \in promptStorageClass : ConfigureMonitoring(selected)
  \/ UpMonitoring

Spec == Init /\ [][Next]_vars

-----------------------------------------------------------------------------
(* Properties *)

\* The steps and phases a run goes through.
RunSteps == {Idle, Done, <<"shaide", "account">>}
              \cup StackNames \X {"configure", "up"}

\* A full set of credentials: the halves of its key pair match.
Credentials ==
  {creds \in [KCKeys -> STRING] :
     creds["kcContextSigningKey"] = creds["kcContextPublicKey"]}

\* Type invariant: the files, what runs, the answers of this run and its step.
TypeOK ==
  /\ site \in Sites
  /\ DOMAIN files = StackNames
  /\ \A k \in KCKeys \cap DOMAIN files["shaide"] : files["shaide"][k] \in STRING
  /\ DOMAIN live = {"harbor", "gateway", "shaide", "mcp", "account", "pvc"}
  /\ DOMAIN live.pvc = Claims
  /\ DOMAIN rt = DOMAIN FreshRuntime
  /\ rt.kc \in BOOLEAN /\ rt.accepted \in Acceptance
  /\ rt.credentials \in Credentials \cup {<<>>}
  /\ pc \in RunSteps
  /\ gen \in 0..Len(Generated)
  /\ edits \in 0..MaxEdits

\* When a run with the Knowledge Center completes, shaide-server, KC-MCP and
\* the embedding account hold the same credentials, although they got them in
\* three steps that could each fail, be retried or be left half done by an
\* earlier run (stacks/knowledgecenter.go, mcp.go, account.go).
CredentialsAgree ==
  pc = Done /\ rt.kc =>
    /\ live.shaide.kc # <<>>
    /\ live.mcp # None
    /\ \A k \in MCPKeys : live.mcp[k] = live.shaide.kc[k]
    /\ live.account = live.shaide.kc["kcEmbeddingPassword"]
    /\ live.shaide.kc["kcContextSigningKey"]
         = live.mcp["kcContextPublicKey"]

\* An update does not rotate what the running deployments use
\* (CompleteCredentials): once a token is stored, no step of a later run
\* replaces it, whatever was declined, retried or interrupted in between.
CredentialsKept ==
  [][edits' = edits =>
       \A k \in KCTokens : Get(files["shaide"], k) # Empty =>
         Get(files'["shaide"], k) = Get(files["shaide"], k)]_vars

\* When a run that declined the Knowledge Center completes, no KC-MCP of an
\* earlier run is left behind (removeAppMCP).
NoStrayKCMCP == pc = Done /\ ~rt.kc => live.mcp = None /\ live.shaide.kc = <<>>

\* An Application Gateway for Containers always has its subnet association,
\* and no other Gateway has one, whatever keys linger in the stack file
\* (UsesAGC): an empty association makes the controller delete it.
AssociationKept ==
  live.gateway # None =>
    (live.gateway.class = AGC <=> live.gateway.subnet # Empty)

\* An update brings up a Gateway in the place of the one that runs.
Updates == /\ At("gateway", "up") /\ Goto("shaide", "configure")
           /\ live.gateway # None /\ live'.gateway # None

GatewayKept == \A f \in {"class", "issuer", "subnet"} :
                 live'.gateway[f] = live.gateway[f]

\* "An update pre-selects it, so accepting the defaults keeps the Gateway as
\* is" (liveGateway).  The code does not keep this: a class whose controller
\* does not accept it at the moment, or which is not the platform's default
\* when the classes cannot be listed, and an issuer that was deleted, are not
\* offered, and another one is pre-selected.
AcceptingKeeps == [][Updates /\ rt.accepted # "no" => GatewayKept]_vars

\* What it does keep: accepting what is pre-selected on an update keeps the
\* class, the issuer and the association of a Gateway that could be read, whose
\* class and issuer were on offer (gatewayClassChoice, issuerChoice,
\* discoverALB), whatever other look-ups failed and whatever an earlier run
\* that stopped half way left in the stack file.
AcceptingOfferedKeeps == [][Updates /\ rt.accepted = "offered" => GatewayKept]_vars

\* An update never asks for another StorageClass than the one an existing
\* PVC has, which the API server would refuse for good
\* (monitoringStorageClasses).
ClassKept ==
  pc = <<"monitoring", "up">> =>
    \A c \in Claims : live.pvc[c] # None => ClaimClass(c) = live.pvc[c]

\* "Empty leaves the key unwritten, so the chart falls back to the cluster's
\* default StorageClass": when a run completes, a PVC it was asked about has
\* the class that was chosen.
DefaultClassUsed ==
  [][pc' = Done /\ pc # Done =>
       \A c \in Claims : live.pvc[c] = None =>
         live'.pvc[c] = OrElse(rt.class, ClusterDefault)]_vars

\* "Empty deploys no shared Gateway": when a run completes, app-shaide has
\* routes only for the hostname of the Gateway that is deployed.
RoutesHaveGateway ==
  pc = Done =>
    live.shaide.hostname = (IF live.gateway = None THEN Empty
                            ELSE live.gateway.hostname)

-----------------------------------------------------------------------------
(* The inductive invariant of the proofs *)

\* From the moment app-shaide is up, and from the moment the account and
\* KC-MCP are as this run wants them, until the run ends.
ShaideDeployed == {<<"shaide", "account">>, <<"mcp", "configure">>, <<"mcp", "up">>,
                   <<"monitoring", "configure">>, <<"monitoring", "up">>, Done}
AccountReady == ShaideDeployed \ {<<"shaide", "account">>}
MCPDeployed == {<<"monitoring", "configure">>, <<"monitoring", "up">>, Done}

\* Between Write and the program of app-shaide its file holds this run's
\* credentials, or says that the Knowledge Center is off.
ShaideFile ==
  At("shaide", "up") =>
    /\ Get(files["shaide"], "knowledgeCenterEnabled") = FormatBool(rt.kc)
    /\ rt.kc => /\ rt.credentials \in Credentials
                /\ \A k \in KCKeys : Get(files["shaide"], k) = rt.credentials[k]

\* What the steps behind this one deployed has this run's credentials.
ShaideLive ==
  pc \in ShaideDeployed =>
    IF rt.kc THEN rt.credentials \in Credentials /\ live.shaide.kc = rt.credentials
    ELSE live.shaide.kc = <<>>
AccountLive ==
  /\ At("shaide", "account") => rt.kc
  /\ pc \in AccountReady /\ rt.kc =>
       live.account = rt.credentials["kcEmbeddingPassword"]
MCPFile ==
  At("mcp", "up") =>
    /\ rt.kc
    /\ Get(files["mcp"], "knowledgeCenterEnabled") = "true"
    /\ \A k \in MCPKeys : Get(files["mcp"], k) = rt.credentials[k]
MCPLive ==
  pc \in MCPDeployed =>
    live.mcp = IF rt.kc THEN [k \in MCPKeys |-> rt.credentials[k]] ELSE None

\* The Gateway the file describes, between Write and the program, and what
\* makes it the one that runs when the operator accepted it.
GatewayFile ==
  At("gateway", "up") =>
    LET file == files["gateway"]
    IN  /\ Get(file, "cloudProvider") = platform
        /\ Get(file, "gatewayClassName") \in gatewayClasses
        /\ Get(file, "gatewayClassName") = AGC =>
             Get(file, "albSubnetId") \notin {Empty, Blank}
        /\ Get(file, "certManagerIssuer") \in Issuers \cup {Empty}
        /\ rt.accepted = "offered" /\ live.gateway # None =>
             /\ Get(file, "gatewayClassName") = live.gateway.class
             /\ Get(file, "certManagerIssuer") = live.gateway.issuer
             /\ live.gateway.class = AGC =>
                  Get(file, "albSubnetId") = live.gateway.subnet
GatewayLive ==
  live.gateway # None =>
    /\ live.gateway.class \in gatewayClasses
    /\ live.gateway.issuer \in Issuers \cup {Empty}
    /\ live.gateway.subnet # Blank
    /\ live.gateway.class = AGC <=> live.gateway.subnet # Empty

\* A claim has a class that the entries do not take for "none", whatever was
\* edited into the file it came from.
StorageKeys == {"lokiStorageClass", "prometheusStorageClass"}
NoAbsentClass == \A k \in StorageKeys : Get(files["monitoring"], k) # Absent
ClaimsNamed ==
  \A c \in Claims : live.pvc[c] = None \/ live.pvc[c] \notin {Empty, Blank, Absent}

IndInv ==
  /\ TypeOK
  /\ ShaideFile /\ ShaideLive /\ AccountLive /\ MCPFile /\ MCPLive
  /\ GatewayFile /\ GatewayLive
  /\ NoAbsentClass /\ ClaimsNamed /\ ClassKept
=============================================================================
