-------------------------- MODULE StackDefinitions --------------------------
(***************************************************************************)
(* The configuration of the installer's stacks: for each one its entries   *)
(* (newDefinition), the checks that span entries, and what Load makes of   *)
(* the stack file (applyDefaults, then Validate).  A default that no       *)
(* property tells apart is the string "default".                           *)
(***************************************************************************)
EXTENDS StackConfig

Azure == "azure"
OnPrem == "on-prem"
GCP == "gcp"
AWS == "aws"
Platforms == {Azure, OnPrem, GCP, AWS}

AGC == "azure-alb-external"
Istio == "istio"

\* The class a platform most commonly uses.
defaultsForProvider(platform) ==
  CASE platform = GCP -> "gke-l7-regional-external-managed"
    [] platform = AWS -> "alb"
    [] platform = Azure -> AGC
    [] OTHER -> Istio

\* Shapes that many entries share.
HandOnly(e) == e
Defaulted(e) == Default(e, "default")
RequiredDefault(e) == Required(Defaulted(e))
RequiredValue(e) == Required(Value(e))
RequiredSecret(e) == Required(Prompt(e, "secret"))
RequiredImage(e) == Required(Optional(e))
OptionalDefault(e) == Defaulted(Optional(e))

-----------------------------------------------------------------------------
(* harbor *)

harborCoreEntries ==
  Entries(RequiredValue, <<"platform", "kubeconfig">>)
  \o <<Value(Entry("context")),
       RequiredSecret(Entry("adminPassword")),
       Prompt(Entry("robotPassword"), "secret")>>
  \o Entries(Defaulted, <<"namespace", "chartPath">>)

harborOptionalEntries ==
  Entries(HandOnly, <<"storageMode", "storageClass", "hostPathBase">>)
  \o <<WhenEquals(Prompt(Entry("nodeHostname"), "input"),
                  "platform", OnPrem)>>
  \o Entries(HandOnly,
       <<"ghcrUser", "ghcrToken", "registryHostname", "staticClusterIP",
         "nodeTrustEnabled", "httpsFastFailEnabled", "mirrorEnabled",
         "publicImages", "ghcrOrg", "ghcrSyncMode", "ghcrMinVersions",
         "ghcrPinnedImages">>)

harborEntries == harborCoreEntries \o harborOptionalEntries

defaultStorageMode(platform) ==
  IF platform = OnPrem THEN "hostpath" ELSE "dynamic"

harborStorageValid(file, mode) ==
  \/ /\ mode = "hostpath"
     /\ Get(file, "nodeHostname") # Empty
     /\ Get(file, "storageClass") = Empty
  \/ mode = "dynamic" /\ Get(file, "hostPathBase") = Empty

\* The robot counts as configured when its password key is in the file and
\* not empty.
harborMirrorValid(file) ==
  /\ OrElse(Get(file, "ghcrSyncMode"), "all")
       \in {"all", "min-version", "pinned"}
  /\ Get(file, "mirrorEnabled") = "true" => Get(file, "robotPassword") # Empty

loadHarbor(file) ==
  LET mode == OrElse(Get(file, "storageMode"),
                     defaultStorageMode(Get(file, "platform")))
  IN  [ok |-> harborStorageValid(file, mode) /\ harborMirrorValid(file),
       mode |-> mode, node |-> Get(file, "nodeHostname")]

-----------------------------------------------------------------------------
(* gateway-provider *)

gatewayCoreEntries(platform) ==
  Entries(RequiredValue, <<"cloudProvider", "kubeconfig">>)
  \o <<Value(Entry("context")),
       Prompt(Entry("gatewayHostname"), "input"),
       Default(Optional(Entry("gatewayClassName")),
               defaultsForProvider(platform))>>
  \o Entries(HandOnly, <<"gatewayNamespace", "infraStackRef">>)
  \o <<WhenEquals(Default(Optional(Entry("albName")), "shared-alb"),
                  "gatewayClassName", AGC),
       WhenEquals(Validated(Required(Prompt(Entry("albSubnetId"), "input"))),
                  "gatewayClassName", AGC)>>

gatewayOptionalEntries ==
  Entries(HandOnly,
       <<"gatewayStaticIPName", "gatewayStaticIP", "provider", "namespace",
         "istioHub", "istioTag", "installGatewayApiCrds">>)
  \o Entries(Defaulted, <<"gatewayApiCrdsPath", "gieCrdsPath">>)
  \o Entries(HandOnly, <<"gatewayCertName", "tlsCertAnnotation">>)
  \o <<Value(Entry("certManagerIssuer"))>>
  \o Entries(HandOnly, <<"tlsSecretName", "bootstrapTlsSecret">>)

gatewayEntries(platform) ==
  gatewayCoreEntries(platform) \o gatewayOptionalEntries

\* Mutant: every Gateway on Azure is taken for an AGC.
MutUsesAGC(platform, class) == platform = Azure

\* UsesAGC follows the class: the ALB keys may linger in the file.
UsesAGC(platform, class) == platform = Azure /\ class = AGC

\* A hostname comes from the file or from the infrastructure stack it names,
\* never from both; a bootstrap secret needs a name, which an issuer implies.
validateGateway(file) ==
  /\ ~(Get(file, "gatewayHostname") # Empty /\ Get(file, "infraStackRef") # Empty)
  /\ Get(file, "bootstrapTlsSecret") = "true" =>
       Get(file, "tlsSecretName") # Empty \/ Get(file, "certManagerIssuer") # Empty

\* The Gateway the stack deploys.
loadGateway(file) ==
  LET platform == Get(file, "cloudProvider")
      class == OrElse(Get(file, "gatewayClassName"),
                      defaultsForProvider(platform))
      hostname == Get(file, "gatewayHostname")
      infra == Get(file, "infraStackRef")
  IN  [ok |-> validateGateway(file),
       shared |-> hostname # Empty \/ infra # Empty,
       class |-> class,
       hostname |-> OrElse(hostname, infra),
       issuer |-> Get(file, "certManagerIssuer"),
       subnet |-> IF UsesAGC(platform, class) THEN Get(file, "albSubnetId")
                                              ELSE Empty]

-----------------------------------------------------------------------------
(* app-shaide *)

\* Tokens, the key pair and the embedding account: what the installer
\* generates once and the stack file keeps.
KCTokens == {"kcInternalToken", "kcWebhookToken", "kcGatewayToken",
             "kcScopedToken", "kcEmbeddingPassword"}
KCKeyPair == {"kcContextSigningKey", "kcContextPublicKey"}
KCKeys == KCTokens \cup KCKeyPair \cup {"kcEmbeddingUsername"}
KCKeySeq == <<"kcInternalToken", "kcWebhookToken", "kcGatewayToken",
              "kcScopedToken", "kcContextSigningKey", "kcContextPublicKey",
              "kcEmbeddingPassword", "kcEmbeddingUsername">>

WhenKC(e) == WhenEquals(e, "knowledgeCenterEnabled", "true")
KCCredential(e) == WhenKC(Validated(Required(Optional(e))))

shaideRuntimeEntries ==
  <<RequiredValue(Entry("cloudProvider"))>>
  \o Entries(Optional, <<"kubeconfig", "context", "gatewayHostname",
                         "placement">>)
  \o <<Default(Value(Entry("webappEnabled")), "false"),
       Default(Value(Entry("knowledgeCenterEnabled")), "false")>>
  \o Entries(RequiredDefault, <<"namespace", "shaideServiceAccountName">>)

shaideImageEntries ==
  Entries(RequiredImage, <<"shaideServerImage", "controlPanelImage">>)
  \o <<WhenEquals(RequiredImage(Entry("webappImage")),
                  "webappEnabled", "true")>>
  \o Entries(RequiredImage, <<"rustfsImage", "qdrantImage">>)
  \o <<Optional(Entry("busyboxImage")),
       WhenKC(RequiredImage(Entry("knowledgeCenterImage")))>>

shaideServiceEntries ==
  Entries(RequiredDefault,
    <<"controlPanelService", "webappService", "rustfsService",
      "qdrantService">>)
  \o Entries(Defaulted, <<"gatewayName", "gatewayNamespace">>)
  \o Entries(RequiredDefault,
       <<"shaideServerUiFqdn", "shaideServerUiPort", "shaideServerS3Fqdn",
         "shaideServerS3Port", "s3User", "vectorDBUrl", "databaseUrl",
         "rustfsWebhookArn">>)
  \o Entries(Defaulted, <<"rustLibBacktrace", "rustSpantrace", "trial">>)
  \o Entries(RequiredDefault,
       <<"rustfsNotifyWebhookEnableShaide",
         "rustfsNotifyWebhookEndpointShaide",
         "rustfsNotifyWebhookQueueDirShaide">>)

shaideSecretEntries ==
  Entries(RequiredSecret,
    <<"adminAuthKey", "s3Password", "jwtSecret", "sessionSecret">>)

shaideKCEntries == Entries(KCCredential, KCKeySeq)

shaideOptionalEntries ==
  Entries(HandOnly,
    <<"infraStackRef", "nodeSelectorKey", "nodeSelector",
      "nodeSelectorShaide", "nodeSelectorControlPanel", "nodeSelectorWebapp",
      "nodeSelectorRustfs", "nodeSelectorQdrant",
      "nodeSelectorKnowledgeCenter", "mcpNamespace",
      "knowledgeCenterCpuRequest", "knowledgeCenterMemoryRequest",
      "knowledgeCenterCpuLimit", "knowledgeCenterMemoryLimit",
      "storageClassName", "pvNodeHostname", "shaidePVSize", "rustfsPVSize",
      "qdrantPVSize", "rustfsClientNamespaces", "rustfsConsoleEnabled",
      "serviceAccountAnnotations">>)

shaideEntries ==
  shaideRuntimeEntries \o shaideImageEntries \o shaideServiceEntries
  \o shaideSecretEntries \o shaideKCEntries \o shaideOptionalEntries

(***************************************************************************)
(* Credentials are labels.  Two generated ones never coincide, whatever    *)
(* their label, because they are random; Pasted is a value an operator     *)
(* put in several places by hand.  The halves of a key pair match when     *)
(* they come from one generation.                                          *)
(***************************************************************************)
Pasted == "pasted"

Coincide(v, w) == v = Pasted /\ w = Pasted

ValidateDistinct(values, keys) ==
  \A k, l \in keys : k # l => ~Coincide(values[k], values[l])

ValidateFormats(values, keys) == \A k \in keys : values[k] # Malformed

ValidateKeyPair(values) ==
  /\ \A k \in KCKeyPair : values[k] \notin {Empty, Malformed}
  /\ values["kcContextSigningKey"] = values["kcContextPublicKey"]

checkShaideCredentials(values) ==
  Get(values, "knowledgeCenterEnabled") = "true" =>
    LET kc == [k \in KCKeys |-> Get(values, k)]
    IN  /\ ValidateFormats(kc, KCKeys)
        /\ ~Coincide(kc["kcContextSigningKey"], Get(values, "jwtSecret"))
        /\ ValidateKeyPair(kc)
        /\ ValidateDistinct(kc, KCTokens)
        /\ \A core \in {"jwtSecret", "adminAuthKey"}, k \in KCTokens :
             ~Coincide(Get(values, core), kc[k])

\* Every credential is there, has its format and passes the checks above.
validateLoadedShaideKC(file) ==
  Get(file, "knowledgeCenterEnabled") = "true" =>
    /\ \A k \in KCKeys : Get(file, k) \notin {Empty, Malformed}
    /\ checkShaideCredentials(file)

validateShaide(file) ==
  Get(file, "knowledgeCenterEnabled") = "true" =>
    /\ Get(file, "namespace") = "default"
    /\ OrElse(Get(file, "mcpNamespace"), "app-mcp") = "app-mcp"
    /\ Get(file, "knowledgeCenterImage") # Empty

loadShaide(file) ==
  LET kc == Get(file, "knowledgeCenterEnabled") = "true"
  IN  [ok |-> validateLoadedShaideKC(file) /\ validateShaide(file),
       kc |-> IF kc THEN [k \in KCKeys |-> Get(file, k)] ELSE <<>>,
       webapp |-> Get(file, "webappEnabled") = "true",
       hostname |-> OrElse(Get(file, "infraStackRef"),
                           Get(file, "gatewayHostname"))]

-----------------------------------------------------------------------------
(* app-mcp *)

MCPKeys == {"kcGatewayToken", "kcScopedToken", "kcContextPublicKey"}

RequiredOverride(e) == Required(Default(Optional(e), "default"))

mcpCoreEntries ==
  Entries(Optional, <<"kubeconfig", "context">>)
  \o <<Entry("namespace")>>
  \o Entries(RequiredOverride,
             <<"shaideNamespace", "shaideServiceAccountName">>)
  \o <<Default(Value(Entry("knowledgeCenterEnabled")), "false")>>
  \o Entries(Optional, <<"datasources", "placement", "imagePullSecrets">>)
  \o Entries(HandOnly,
       <<"companyCACert", "companyCATrustEnvVar", "nodeSelectorKey",
         "nodeSelector", "mcpAtlassianOAuthClientSecret",
         "knowledgeCenterMcpCpuRequest", "knowledgeCenterMcpMemoryRequest",
         "knowledgeCenterMcpCpuLimit", "knowledgeCenterMcpMemoryLimit">>)

mcpKCEntries ==
  <<WhenKC(RequiredImage(Entry("knowledgeCenterMcpImage")))>>
  \o Entries(KCCredential, <<"kcGatewayToken", "kcScopedToken",
                             "kcContextPublicKey">>)

mcpEntries == mcpCoreEntries \o mcpKCEntries

requireDatasources(values) ==
  \/ Get(values, "knowledgeCenterEnabled") = "true"
  \/ "datasources" \in DOMAIN values

checkMCPCredentials(values) ==
  Get(values, "knowledgeCenterEnabled") = "true" =>
    LET kc == [k \in MCPKeys |-> Get(values, k)]
    IN  /\ ValidateFormats(kc, MCPKeys)
        /\ ValidateDistinct(kc, {"kcGatewayToken", "kcScopedToken"})

checkMCP(values) == requireDatasources(values) /\ checkMCPCredentials(values)

\* A data source list that cannot be decoded is refused.
validateMCP(file) ==
  IF Get(file, "knowledgeCenterEnabled") = "true"
  THEN /\ Get(file, "datasources") # Malformed
       /\ OrElse(Get(file, "namespace"), "app-mcp") = "app-mcp"
       /\ Get(file, "shaideNamespace") = "default"
       /\ Get(file, "knowledgeCenterMcpImage") # Empty
  ELSE Get(file, "datasources") \notin {Empty, Malformed}

validateLoadedMCPKC(file) ==
  Get(file, "knowledgeCenterEnabled") = "true" =>
    /\ \A k \in MCPKeys : Get(file, k) \notin {Empty, Malformed}
    /\ checkMCPCredentials(file)

loadMCP(file) ==
  [ok |-> validateLoadedMCPKC(file) /\ validateMCP(file),
   kc |-> IF Get(file, "knowledgeCenterEnabled") = "true"
          THEN [k \in MCPKeys |-> Get(file, k)] ELSE <<>>]

HasDatasources(file) == Get(file, "datasources") # Empty

-----------------------------------------------------------------------------
(* monitoring *)

monitoringCoreEntries ==
  Entries(RequiredValue, <<"platform", "kubeconfig">>)
  \o <<Value(Entry("context")),
       Required(Prompt(Entry("components"), "select"))>>
  \o Entries(Defaulted, <<"namespace", "s3Endpoint", "s3User">>)
  \o <<RequiredSecret(Entry("s3Password"))>>
  \o Entries(Defaulted, <<"s3BucketLoki", "s3ClientImage">>)

monitoringChartEntries ==
  <<Defaulted(Entry("lokiVersion")), Entry("lokiChartPath"), Optional(Entry("lokiStorageClass")),
       Defaulted(Entry("grafanaVersion")), Entry("grafanaChartPath"),
       RequiredSecret(Entry("grafanaAdminPassword")),
       Defaulted(Entry("alloyVersion")), Entry("alloyChartPath"),
       Defaulted(Entry("prometheusVersion")), Entry("prometheusChartPath"),
       Optional(Entry("prometheusStorageClass"))>>

monitoringEntries == monitoringCoreEntries \o monitoringChartEntries

\* Every value a component requires has a default, so only a component the
\* stack does not know is refused.
validateMonitoring(file) ==
  OrElse(Get(file, "components"), "loki") # Malformed

loadMonitoring(file) ==
  [ok |-> validateMonitoring(file),
   loki |-> Get(file, "lokiStorageClass"),
   prometheus |-> Get(file, "prometheusStorageClass")]

-----------------------------------------------------------------------------
(* app-serving.  Its models are structured; here the key holds whether     *)
(* there are any, and the module Serving has the models themselves.        *)

\* KeyGPUToleration has a default and nothing else.
servingEntries ==
  Entries(RequiredValue, <<"platform", "kubeconfig">>)
  \o <<Value(Entry("context"))>>
  \o Entries(Optional, <<"models", "harborHostname", "harborUser", "harborToken">>)
  \o <<Defaulted(Entry("gpuToleration"))>>
  \o Entries(OptionalDefault, <<"orasImage", "modelServerImage", "routerImage",
                               "simulatorImage">>)
  \o <<Optional(Entry("modelStorageClass"))>>

requiresHarbor(file, weights) == Get(file, "platform") = OnPrem \/ weights

validateServing(file, weights) ==
  /\ Get(file, "platform") \in Platforms
  /\ Get(file, "models") # Empty
  /\ requiresHarbor(file, weights) =>
       \A k \in {"harborHostname", "harborUser", "harborToken"} : ~isEmpty(Get(file, k))
  /\ Get(file, "platform") = OnPrem => ~isEmpty(Get(file, "kubeconfig"))

-----------------------------------------------------------------------------
\* Config.Validate of every definition, which Resolve and Load start with.
DefinitionsValid ==
  /\ Validate(harborEntries)
  /\ \A p \in Platforms : Validate(gatewayEntries(p))
  /\ Validate(shaideEntries)
  /\ Validate(mcpEntries)
  /\ Validate(monitoringEntries)
  /\ Validate(servingEntries)
=============================================================================
