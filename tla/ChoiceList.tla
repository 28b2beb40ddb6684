----------------------------- MODULE ChoiceList -----------------------------
(***************************************************************************)
(* The list of rows with a dropdown each that the TUI shows for a          *)
(* ChoicePrompt (installer/internal/ui/model/choice.go), without its       *)
(* layout.  A prompt has rows [options, current], groups (a sequence of    *)
(* options, empty when the list is not grouped) and clear, the set of the  *)
(* option that clears a row.  The list is a record: chosen and initial (an *)
(* option index per row), cursor (a row, or one more for the Continue      *)
(* button), visual (the row a selection began at, 0 without one), and the  *)
(* options in the open dropdown, {} when it is closed.                     *)
(***************************************************************************)
EXTENDS Integers, Sequences, SequencesExt

optionIndex(row, option) == SelectInSeq(row.options, LAMBDA o : o = option)

Continue(p) == Len(p.rows) + 1

option(p, chosen, i) == p.rows[i].options[chosen[i]]

\* The reply: the chosen option of every row.
values(p, c) == [i \in DOMAIN p.rows |-> option(p, c.chosen, i)]

groupOf(p, chosen, i) == SelectInSeq(p.groups, LAMBDA g : g = option(p, chosen, i))

\* The rows that are displayed: when there are groups, those of a group.
lines(p, chosen) == {i \in DOMAIN p.rows : p.groups # <<>> => groupOf(p, chosen, i) # 0}

\* The display order, group by group: row i is row j or comes before it.
order(p, chosen, i, j) ==
  \/ groupOf(p, chosen, i) < groupOf(p, chosen, j)
  \/ groupOf(p, chosen, i) = groupOf(p, chosen, j) /\ i <= j

first(p, chosen, rows) == CHOOSE i \in rows : \A j \in rows : order(p, chosen, i, j)

newChoiceModel(p) ==
  LET current(i) == optionIndex(p.rows[i], p.rows[i].current)
      initial == [i \in DOMAIN p.rows |-> IF current(i) = 0 THEN 1 ELSE current(i)]
      rows == lines(p, initial)
  IN  [chosen |-> initial, initial |-> initial, visual |-> 0, dropdown |-> {},
       cursor |-> IF rows = {} THEN 1 ELSE first(p, initial, rows)]

onContinue(p, c) == c.cursor = Continue(p)

-----------------------------------------------------------------------------
(* What the keys do                                                        *)

(* By one line, by half a page or to an end: how far half a page is        *)
(* depends on the terminal, so the cursor may come to any line or to       *)
(* Continue.                                                               *)
moveCursor(p, c) == {[c EXCEPT !.cursor = i] : i \in lines(p, c.chosen) \cup {Continue(p)}}

\* The row i lies between r and s, rows that are shown or Continue, in this order.
between(p, chosen, shown, r, i, s) ==
  /\ r \in shown /\ order(p, chosen, r, i)
  /\ s \in shown => order(p, chosen, i, s)

\* The rows a choice applies to: the visual selection, or the focused row.
targets(p, c) ==
  LET shown == lines(p, c.chosen)
  IN  IF c.visual # 0
      THEN {i \in shown : \/ between(p, c.chosen, shown, c.visual, i, c.cursor)
                          \/ between(p, c.chosen, shown, c.cursor, i, c.visual)}
      ELSE {c.cursor} \ {Continue(p)}

\* Target rows that do not offer the option keep theirs.
apply(p, c, opt) ==
  LET rows == targets(p, c)
      set(i) == IF i \in rows /\ optionIndex(p.rows[i], opt) # 0
                THEN optionIndex(p.rows[i], opt) ELSE c.chosen[i]
  IN  [c EXCEPT !.chosen = [i \in DOMAIN p.rows |-> set(i)], !.visual = 0]

cycleOption(p, c, delta) ==
  LET n == Len(p.rows[c.cursor].options)
  IN  IF onContinue(p, c) \/ c.visual # 0 THEN c
      ELSE [c EXCEPT !.chosen[c.cursor] = ((@ - 1 + delta + n) % n) + 1]

toggleVisual(p, c) ==
  [c EXCEPT !.visual = IF @ # 0 \/ onContinue(p, c) THEN 0 ELSE c.cursor]

\* "u": the rows go back to where they started.
reset(p, c) ==
  LET rows == targets(p, c)
      set(i) == IF i \in rows THEN c.initial[i] ELSE c.chosen[i]
  IN  [c EXCEPT !.chosen = [i \in DOMAIN p.rows |-> set(i)], !.visual = 0]

\* Mutant: the dropdown lists what any of the selected rows offers.
MutSharedOptions(p, rows, candidates) ==
  {o \in ToSet(candidates) : \E i \in rows : optionIndex(p.rows[i], o) # 0}

\* The options that every one of the rows offers.
sharedOptions(p, rows, candidates) ==
  {o \in ToSet(candidates) : \A i \in rows : optionIndex(p.rows[i], o) # 0}

openDropdown(p, c) ==
  LET rows == targets(p, c)
      candidates == IF p.groups # <<>> THEN p.groups
                    ELSE p.rows[first(p, c.chosen, rows)].options
  IN  IF onContinue(p, c) \/ rows = {} THEN c
      ELSE [c EXCEPT !.dropdown = sharedOptions(p, rows, candidates)]

\* A key pressed while the dropdown is open: it is closed, by esc or with the
\* option its own cursor was moved to.
updateDropdown(p, c) ==
  LET closed == [c EXCEPT !.dropdown = {}]
  IN  {closed} \cup {apply(p, closed, o) : o \in c.dropdown}

(***************************************************************************)
(* What one key press may turn the list into, submitting and cancelling    *)
(* aside.                                                                  *)
(***************************************************************************)
update(p, c) ==
  IF c.dropdown # {} THEN updateDropdown(p, c)
  ELSE moveCursor(p, c)
         \cup {cycleOption(p, c, d) : d \in {-1, 1}}
         \cup {apply(p, c, o) : o \in ToSet(p.groups) \cup p.clear}
         \cup {toggleVisual(p, c), reset(p, c), openDropdown(p, c)}

\* Enter on Continue submits, unless the prompt's check blocks it.
submits(p, c) == c.dropdown = {} /\ onContinue(p, c)

-----------------------------------------------------------------------------
(* What the list keeps                                                     *)

\* The prompts whose options are of T; a row always has an option.
Prompts(T) ==
  [rows : Seq([options : Seq(T) \ {<<>>}, current : T]), groups : Seq(T), clear : SUBSET T]

Options(p) == ToSet(p.groups) \cup UNION {ToSet(p.rows[i].options) : i \in DOMAIN p.rows}

\* Every row has an option of its own chosen.
Indices(p) ==
  {f \in [DOMAIN p.rows -> Nat] : \A i \in DOMAIN p.rows : f[i] \in DOMAIN p.rows[i].options}

Lists(p) ==
  [chosen : Indices(p), initial : Indices(p), cursor : 1 .. Continue(p),
   visual : 0 .. Len(p.rows), dropdown : SUBSET Options(p)]

\* The open dropdown belongs to the rows that are selected.
DropdownShared(p, c) ==
  \A o \in c.dropdown : \A i \in targets(p, c) : optionIndex(p.rows[i], o) # 0
=============================================================================
