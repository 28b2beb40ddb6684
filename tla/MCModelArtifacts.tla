-------------------------- MODULE MCModelArtifacts --------------------------
(* m1 has a repository with two pins and shares a dependency with m2; the  *)
(* dependency is pinned by an abbreviated sha that never changes.          *)
EXTENDS ModelArtifacts

Path(dir, ext, mistral) == [dir |-> dir, ext |-> ext, consolidated |-> mistral]

config == Path(".", "json", FALSE)
weights == Path(".", "safetensors", FALSE)
torch == Path(".", "bin", FALSE)
mistral == Path(".", "safetensors", TRUE)
other == Path("onnx", "safetensors", FALSE)

MCModels == <<"m1", "m2">>

MCHub == [q1 |-> [r1 |-> (config :> "b0") @@ (weights :> "b1") @@ (torch :> "b2") @@ (other :> "b3"),
                  r2 |-> (config :> "b0") @@ (mistral :> "b4") @@ (weights :> "b1")],
          q2 |-> [s1 |-> (config :> "b0") @@ (torch :> "b5")],
          q3 |-> [t1 |-> (weights :> "b6")]]

MCCommit == [r1 |-> "r1", r2 |-> "r2", short |-> "s1", t1 |-> "t1"]
MCTag == [r1 |-> "v1", r2 |-> "v2", short |-> "v3", t1 |-> "v4"]

At(id, revision) == [id |-> id, revision |-> revision]

MCCatalogs ==
  {[m1 |-> <<At("q1", r), At("q2", "short")>>,
    m2 |-> <<At("q3", "t1"), At("q2", "short")>>] : r \in {"r1", "r2"}}

(* Nothing, or the whole of the first revision, as an installer before the *)
(* selection of files left it, with a marker that names it or an empty one.*)
Nothing == [id \in {"q1", "q2", "q3"} |-> EmptyDir]
Whole(marker) ==
  [Nothing EXCEPT !["q1"] =
     [snapshots |-> [r1 |-> DOMAIN MCHub["q1"]["r1"]],
      blobs |-> {"b0", "b1", "b2", "b3"}, ref |-> "r1", marker |-> marker]]
MCEarlierCaches == {Nothing, Whole("r1"), Whole(Empty)}
FreshOnly == {Nothing}

Selection(s, u, w) == [serve |-> s, uninstall |-> u, wanted |-> w]
MCSelections ==
  {Selection({"m1"}, {}, {}), Selection({"m1", "m2"}, {}, {"webapp"}),
   Selection({"m2", "sim"}, {"m1"}, {"kc"}), Selection({"m1"}, {"m2"}, {}),
   Selection({"sim"}, {"m1", "m2"}, {})}
PinMoves == {Selection({"m1"}, {}, {})}

MCImages == [api |-> "always", webapp |-> "webapp", kcmcp |-> "kc", sim |-> "simulator"]

(* What the theorems about the artifacts ask of the definitions. *)
ASSUME DefinitionsAgree == OnePinPerRelease /\ AbbreviatedPinsStay /\ TagNamesPins
=============================================================================
