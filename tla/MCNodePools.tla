---------------------------- MODULE MCNodePools ----------------------------
(* Three pools: gpu, a node group whose second node has fewer GPUs and      *)
(* comes and goes; a single node of another GPU type that bears the name of *)
(* that group; and cpu, with a node that is reserved.  The model large      *)
(* needs two GPUs, small one.                                               *)
EXTENDS NodePools

Node(labels, taints, gpus, product) ==
  [labels |-> labels, taints |-> taints, gpus |-> gpus, product |-> product,
   controlPlane |-> FALSE]
Taint(key, effect) == [key |-> key, effect |-> effect]

MCSpecs ==
  [g1 |-> Node([nodegroup |-> "gpu", hostname |-> "g1"], {Taint("gpu", "NoSchedule")}, 2, "A"),
   g2 |-> Node([nodegroup |-> "gpu", hostname |-> "g2"], {Taint("condition", "NoExecute")}, 1, "A"),
   h |-> Node([hostname |-> "gpu"], {}, 1, "B"),
   c |-> Node([nodegroup |-> "cpu", hostname |-> "c"], {Taint("other", "PreferNoSchedule")}, 0, ""),
   r |-> Node([nodegroup |-> "cpu", hostname |-> "r"], {Taint("other", "NoSchedule")}, 0, "")]

MCSteady == {"g1", "h", "c", "r"}

MCCatalog == {"large", "small"}
MCGPUsPerPod == [large |-> 2, small |-> 1]
MCSelections == {<<"large">>, <<"large", "small">>}

Unlabelled == [n \in DOMAIN MCSpecs |-> {}]
MCEarlierLabels == {Unlabelled, [Unlabelled EXCEPT !["g1"] = {"large"}, !["c"] = {"cpu"}]}
=============================================================================
