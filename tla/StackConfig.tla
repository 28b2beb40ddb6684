---------------------------- MODULE StackConfig ----------------------------
(***************************************************************************)
(* The stack configuration engine of pkg/stack/config.  A stack declares   *)
(* its configuration as a sequence of entries; Resolve turns the entries,  *)
(* the values the installer supplies and the operator's answers into the   *)
(* keys written to Pulumi.<stack>.yaml, and the stack's program reads that *)
(* file back with Load.  Resolve writes only the keys it produces, so a    *)
(* key it skips keeps what an earlier run, or a hand edit, left there.     *)
(*                                                                         *)
(* Values are strings: Empty, Blank, which has nothing but white space,    *)
(* and Malformed, which every Validate of the code refuses.                *)
(***************************************************************************)
EXTENDS Naturals, Sequences, SequencesExt, Functions, TLC

Empty == ""
Absent == "absent"
Blank == " "
Malformed == "malformed"

(***************************************************************************)
(* An entry and its modifiers.  source says how Source.Value is set:       *)
(* "none" (nil), "value" (as it is, an empty one included) or "optional"   *)
(* (optionalSource and its siblings: an empty value counts as none).       *)
(***************************************************************************)
Always == <<>>

Entry(k) == [key |-> k, source |-> "none", default |-> Absent,
             prompt |-> "none", required |-> FALSE, when |-> Always,
             validate |-> FALSE]

Value(e) == [e EXCEPT !.source = "value"]
Optional(e) == [e EXCEPT !.source = "optional"]
Default(e, v) == [e EXCEPT !.default = v]
Prompt(e, kind) == [e EXCEPT !.prompt = kind]
Required(e) == [e EXCEPT !.required = TRUE]
WhenEquals(e, k, v) == [e EXCEPT !.when = <<k, v>>]
Validated(e) == [e EXCEPT !.validate = TRUE]

\* Entries that share one shape, in the order of their keys.
Entries(Shape(_), keys) == [i \in DOMAIN keys |-> Shape(Entry(keys[i]))]

KeysOf(entries) == {e.key : e \in ToSet(entries)}

(***************************************************************************)
(* Config.Validate: no key is declared twice and a condition only looks at *)
(* a key declared before it.                                               *)
(***************************************************************************)
Validate(entries) ==
  \A i \in DOMAIN entries :
    /\ \A j \in 1..(i-1) : entries[j].key # entries[i].key
    /\ entries[i].when # Always =>
         \E j \in 1..(i-1) : entries[j].key = entries[i].when[1]

\* encode: how a bool is written, and what When and Get compare with.
FormatBool(b) == IF b THEN "true" ELSE "false"

TrimSpace(v) == IF v = Blank THEN Empty ELSE v
isEmpty(v) == TrimSpace(v) = Empty

Active(e, values) ==
  e.when = Always \/ (e.when[1] \in DOMAIN values
                        /\ values[e.when[1]] = e.when[2])

SourceValue(e, src) ==
  CASE e.source = "none" -> Absent
    [] e.source = "value" -> src[e.key]
    [] e.source = "optional" -> IF isEmpty(src[e.key]) THEN Absent
                                                       ELSE src[e.key]

\* A secret is kept verbatim; any other typed answer is trimmed.
resolvePrompt(e, ans) ==
  IF e.prompt = "input" THEN TrimSpace(ans[e.key]) ELSE ans[e.key]

\* Entry.resolve: the installer's value, else the answer, else the default.
resolve(e, src, ans) ==
  LET value == SourceValue(e, src)
  IN  IF value # Absent THEN value
      ELSE IF e.prompt # "none" THEN resolvePrompt(e, ans)
      ELSE e.default

\* The map with one more key, and a map laid over another (the operators :>
\* and @@ of the module TLC, in a form the proofs can open).
With(map, k, v) == [l \in DOMAIN map \cup {k} |-> IF l = k THEN v ELSE map[l]]
Over(map, under) ==
  [k \in DOMAIN map \cup DOMAIN under |->
     IF k \in DOMAIN map THEN map[k] ELSE under[k]]

\* One entry of Config.Resolve, after the entries before it.
ResolveEntry(acc, e, src, ans) ==
  LET value == resolve(e, src, ans)
      missing == e.required /\ (value = Absent \/ isEmpty(value))
      refused == e.validate /\ TrimSpace(value) = Malformed
  IN  IF ~acc.ok \/ ~Active(e, acc.values) THEN acc
      ELSE IF missing \/ refused THEN [acc EXCEPT !.ok = FALSE]
      ELSE IF value = Absent THEN acc
      ELSE [acc EXCEPT !.values = With(@, e.key, value)]

(***************************************************************************)
(* Config.Resolve.  The values are all written or, on the first error,     *)
(* none is: the result reaches the stack file only when every entry and    *)
(* every one of the Checks passed.                                         *)
(***************************************************************************)
Resolve(entries, src, ans) ==
  LET after[i \in 0..Len(entries)] ==
        IF i = 0 THEN [ok |-> TRUE, values |-> <<>>]
        ELSE ResolveEntry(after[i-1], entries[i], src, ans)
  IN  after[Len(entries)]

Checked(resolved, passes) == [resolved EXCEPT !.ok = @ /\ passes]

\* Writing the result over the stack file.
Written(file, values) == Over(values, file)

(***************************************************************************)
(* What a Setter reads: every key of the file, whatever its When says.     *)
(***************************************************************************)
Get(file, k) == IF k \in DOMAIN file THEN file[k] ELSE Empty
OrElse(v, d) == IF v = Empty THEN d ELSE v
=============================================================================
