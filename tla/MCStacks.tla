------------------------------ MODULE MCStacks ------------------------------
(* Four sites, so that each group of choices varies on its own: two explore *)
(* the Gateway's prompts, on Azure and with a third class on GCP, one the   *)
(* Knowledge Center with a hand edit of a credential, one the StorageClass  *)
(* of the monitoring PVCs.                                                  *)
EXTENDS Stacks

GeneratedDef == <<"gen1", "gen2", "gen3">>

GatewaySite ==
  [platform |-> Azure, select |-> {<<TRUE, FALSE>>}, choose |-> TRUE,
   controllers |-> {},
   hostnames |-> {"h1", Blank}, classes |-> {""},
   edits |-> {<<"gateway", "infraStackRef", "infra">>}]

OtherClassSite ==
  [platform |-> GCP, select |-> {<<TRUE, FALSE>>}, choose |-> TRUE,
   controllers |-> {"other"}, hostnames |-> {"h1"}, classes |-> {""}, edits |-> {}]

KnowledgeCenterSite ==
  [platform |-> OnPrem, select |-> {<<FALSE, FALSE>>, <<FALSE, TRUE>>},
   choose |-> FALSE, controllers |-> {}, hostnames |-> {"h1"}, classes |-> {""},
   edits |-> {<<"shaide", "kcContextPublicKey", Absent>>,
              <<"shaide", "kcEmbeddingPassword", Absent>>,
              <<"shaide", "kcGatewayToken", Pasted>>,
              <<"shaide", "mcpNamespace", "other">>,
              <<"mcp", "datasources", "given">>,
              <<"mcp", "kcScopedToken", Malformed>>}]

MonitoringSite ==
  [platform |-> OnPrem, select |-> {<<TRUE, FALSE>>}, choose |-> FALSE, controllers |-> {},
   hostnames |-> {""}, classes |-> {"fast", ""},
   edits |-> {<<"harbor", "storageClass", "given">>,
              <<"monitoring", "lokiStorageClass", Blank>>}]

SitesDef == {GatewaySite, OtherClassSite, KnowledgeCenterSite, MonitoringSite}
=============================================================================
