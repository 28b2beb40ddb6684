------------------------------ MODULE HubFiles ------------------------------
(***************************************************************************)
(* The files of a Hugging Face repository that the model server loads      *)
(* (installer/internal/huggingface/files).  A path is a record: its        *)
(* directory ("." at the root), its extension, and whether its name starts  *)
(* with "consolidated".                                                    *)
(***************************************************************************)

(* Top-level directories with weights for other runtimes. *)
skippedDirs == {"original", "metal", "onnx", "openvino", "coreml"}

(* Weight formats vLLM never loads. *)
skippedExts == {"gguf", "onnx", "onnx_data", "msgpack", "h5", "tflite", "ot",
                "mlmodel"}

(* The formats a repository may carry twice. *)
isWeight(p) == p.ext \in {"safetensors", "bin"}

isRoot(p) == p.dir = "."

isConsolidated(p) == p.consolidated /\ p.ext = "safetensors"

(* The root weight set vLLM loads: Mistral's consolidated files, else the  *)
(* safetensors, else the .bin files.                                       *)
HasConsolidated(paths) == \E p \in paths : isRoot(p) /\ isConsolidated(p)

HasRootSafetensors(paths) ==
  \E p \in paths : isRoot(p) /\ p.ext = "safetensors"

rootWeights(p, paths) ==
  IF HasRootSafetensors(paths)
  THEN /\ p.ext = "safetensors"
       /\ HasConsolidated(paths) => isConsolidated(p)
  ELSE p.ext = "bin"

dirsWithSafetensors(paths) == {p.dir : p \in {q \in paths : q.ext = "safetensors"}}

keep(p, paths) ==
  /\ p.dir \notin skippedDirs
  /\ p.ext \notin skippedExts
  /\ isWeight(p) =>
       IF isRoot(p) THEN rootWeights(p, paths)
       ELSE p.ext = "safetensors" \/ p.dir \notin dirsWithSafetensors(paths)

Select(paths) == {p \in paths : keep(p, paths)}

=============================================================================
