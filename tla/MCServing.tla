----------------------------- MODULE MCServing ------------------------------
(***************************************************************************)
(* Two models with weights, a and b, and a simulated one, s.  The second   *)
(* release pins a new revision of a and asks for a smaller volume; it has  *)
(* b, an embedder without replicas, and its file of s is broken.  A cluster *)
(* is new, or was set up by the retired chart: it serves a from a volume   *)
(* that is larger than a's definition asks for, and its stack file names   *)
(* another class for all volumes.                                          *)
(***************************************************************************)
EXTENDS Serving

Weights(tag, size, category, replicas) ==
  [tag |-> tag, size |-> size, valid |-> TRUE,
   category |-> category, replicas |-> replicas]
Simulated == Weights(None, None, "generative", 1)

First == [a |-> Weights("a1", 2, "generative", 1), s |-> Simulated]
Second == [a |-> Weights("a2", 1, "generative", 1),
           b |-> Weights("b1", 1, "embedder", 0),
           s |-> [Simulated EXCEPT !.valid = FALSE]]

MCReleases == {First, Second}

New == [harbor |-> {}, file |-> <<>>, volumes |-> <<>>, legacy |-> {}]
Chart == [harbor |-> {<<"a", "a1">>},
          file |-> [k \in {"modelStorageClass"} |-> "fast"],
          volumes |-> [m \in {"a"} |-> [class |-> "slow", size |-> 3,
                                        content |-> "a1", pulled |-> TRUE]],
          legacy |-> {"a"}]

MCInherited == {New, Chart}
MCNewCluster == {New}
============================================================================
