--------------------------- MODULE NodePoolsProofs ---------------------------
(***************************************************************************)
(* The properties of NodePools, for any nodes, models and labels and for   *)
(* any number of runs and key presses.  The least element of a set of      *)
(* numbers stands in for induction: what fails somewhere in a sequence has *)
(* a first place where it fails.                                           *)
(***************************************************************************)
EXTENDS NodePools, FiniteSetTheorems, WellFoundedInduction, NaturalsInduction, TLAPS

-----------------------------------------------------------------------------
(* Numbers and sequences                                                   *)

\* A set of naturals has a least element.
LEMMA LeastElement ==
  ASSUME NEW T \in SUBSET Nat, T # {}
  PROVE  \E m \in T : \A k \in T : m <= k
<1> DEFINE R == {ss \in Nat \X Nat : ss[1] < ss[2]}
<1>1. IsWellFoundedOn(R, Nat)
  BY NatLessThanWellFounded DEF OpToRel
<1>2. \A y, m \in Nat : y < m => <<y, m>> \in R
  OBVIOUS
<1>3. PICK m \in T : \A y \in T : ~(<<y, m>> \in R)
  BY <1>1, WFMin
<1>4. \A k \in T : m <= k
  <2> TAKE k \in T
  <2>1. k \in Nat /\ m \in Nat
    OBVIOUS
  <2>2. ~(<<k, m>> \in R)
    BY <1>3
  <2> HIDE DEF R
  <2>3. ~(k < m)
    BY <1>2, <2>1, <2>2
  <2> QED BY <2>1, <2>3
<1> QED BY <1>4

\* Min is the least element.
LEMMA MinLeast ==
  ASSUME NEW T \in SUBSET Nat, T # {}
  PROVE  Min(T) \in T /\ \A k \in T : Min(T) <= k
  BY LeastElement DEF Min

\* optionIndex finds the option where the row offers it, and nowhere else.
LEMMA OptionIndexFinds ==
  ASSUME NEW row, NEW o, NEW T, row.options \in Seq(T)
  PROVE  /\ optionIndex(row, o) \in Nat
         /\ optionIndex(row, o) # 0 <=> o \in ToSet(row.options)
         /\ optionIndex(row, o) # 0 => /\ optionIndex(row, o) \in DOMAIN row.options
                                       /\ row.options[optionIndex(row, o)] = o
<1> DEFINE s == row.options
           I == {i \in 1 .. Len(s) : s[i] = o}
<1>1. optionIndex(row, o) = IF I # {} THEN Min(I) ELSE 0
  BY DEF optionIndex, SelectInSeq
<1>2. I \in SUBSET Nat
  OBVIOUS
<1>3. I # {} => Min(I) \in I
  BY <1>2, MinLeast
<1>4. DOMAIN s = 1 .. Len(s)
  OBVIOUS
<1>5. I # {} <=> o \in ToSet(s)
  BY <1>4 DEF ToSet
<1>6. I # {} => Min(I) \in 1 .. Len(s) /\ s[Min(I)] = o
  BY <1>3
<1>7. Len(s) \in Nat
  OBVIOUS
<1> HIDE DEF I, s
<1>8. CASE I # {}
  <2>1. Min(I) \in Nat /\ Min(I) # 0
    BY <1>6, <1>7, <1>8
  <2> QED BY <1>1, <1>4, <1>5, <1>6, <1>8, <2>1 DEF s
<1>9. CASE I = {}
  BY <1>1, <1>5, <1>9 DEF s
<1> QED BY <1>8, <1>9

\* The place of a row's option among the groups is a number.
LEMMA GroupOfTyped ==
  ASSUME NEW p, NEW chosen, NEW i, NEW T, p.groups \in Seq(T)
  PROVE  groupOf(p, chosen, i) \in Nat
<1> DEFINE I == {j \in 1 .. Len(p.groups) : p.groups[j] = option(p, chosen, i)}
<1>1. groupOf(p, chosen, i) = IF I # {} THEN Min(I) ELSE 0
  BY DEF groupOf, SelectInSeq
<1>2. I \in SUBSET Nat
  OBVIOUS
<1>3. I # {} => Min(I) \in I
  BY <1>2, MinLeast
<1>4. I # {} => Min(I) \in Nat
  BY <1>2, <1>3
<1> HIDE DEF I
<1> QED BY <1>1, <1>4

\* Appending adds one element.
LEMMA AppendRange ==
  ASSUME NEW T, NEW s \in Seq(T), NEW x \in T
  PROVE  Append(s, x) \in Seq(T) /\ ToSet(Append(s, x)) = ToSet(s) \cup {x}
<1>1. /\ Append(s, x) \in Seq(T) /\ DOMAIN s = 1 .. Len(s) /\ Len(s) \in Nat
      /\ DOMAIN Append(s, x) = 1 .. Len(s) + 1
      /\ \A i \in 1 .. Len(s) : Append(s, x)[i] = s[i]
      /\ Append(s, x)[Len(s) + 1] = x
  OBVIOUS
<1>2. \A i \in 1 .. Len(s) + 1 : i \in 1 .. Len(s) \/ i = Len(s) + 1
  BY <1>1
<1>3. ToSet(Append(s, x)) \subseteq ToSet(s) \cup {x}
  BY <1>1, <1>2 DEF ToSet
<1>4. \A i \in 1 .. Len(s) : i \in 1 .. Len(s) + 1
  BY <1>1
<1>5. Len(s) + 1 \in 1 .. Len(s) + 1
  BY <1>1
<1>6. ToSet(s) \cup {x} \subseteq ToSet(Append(s, x))
  BY <1>1, <1>4, <1>5 DEF ToSet
<1> QED BY <1>1, <1>3, <1>6

\* The recursive function in Kept exists: a first place where it stops being
\* one would have a next value all the same.
LEMMA KeptExists ==
  ASSUME NEW s, Len(s) \in Nat, NEW S
  PROVE  \E f : f = [i \in 0 .. Len(s) |->
                       IF i = 0 THEN <<>>
                       ELSE IF s[i] \in S THEN Append(f[i - 1], s[i]) ELSE f[i - 1]]
<1> DEFINE next(f, i) == IF i = 0 THEN <<>>
                         ELSE IF s[i] \in S THEN Append(f[i - 1], s[i]) ELSE f[i - 1]
           Upto(f, n) == f = [i \in 0 .. n |-> next(f, i)]
           Missing == {n \in 0 .. Len(s) : ~ \E f : Upto(f, n)}
<1>1. SUFFICES ASSUME Missing # {}
               PROVE  FALSE
  <2>1. Len(s) \in 0 .. Len(s)
    OBVIOUS
  <2> QED BY <2>1
<1>2. Missing \in SUBSET Nat
  OBVIOUS
<1>3. PICK m \in Missing : \A k \in Missing : m <= k
  BY <1>1, <1>2, LeastElement
<1>4. m \in Nat /\ m \in 0 .. Len(s) /\ ~ \E f : Upto(f, m)
  <2> HIDE DEF Upto
  <2> QED BY <1>3
<1>5. CASE m = 0
  <2> DEFINE f == [i \in 0 .. 0 |-> <<>>]
  <2>1. Upto(f, 0)
    OBVIOUS
  <2> QED BY <1>4, <1>5, <2>1
<1>6. CASE m # 0
  <2>1. m - 1 \in 0 .. Len(s) /\ m - 1 \notin Missing
    <3> HIDE DEF Missing
    <3> QED BY <1>3, <1>4, <1>6
  <2>2. PICK f : Upto(f, m - 1)
    <3> HIDE DEF Upto
    <3> QED BY <2>1
  <2> DEFINE g == [i \in 0 .. m |-> IF i = m THEN next(f, m) ELSE f[i]]
  <2>3. \A i \in 0 .. m : i # m => f[i] = next(f, i)
    <3> HIDE DEF next
    <3>1. f = [i \in 0 .. m - 1 |-> next(f, i)]
      BY <2>2
    <3>2. \A i \in 0 .. m - 1 : f[i] = next(f, i)
      BY <3>1
    <3>3. \A i \in 0 .. m : i # m => i \in 0 .. m - 1
      BY <1>4
    <3> QED BY <3>2, <3>3
  <2>4. \A i \in 0 .. m : i # 0 => g[i - 1] = f[i - 1]
    BY <1>4
  <2>5. \A i \in 0 .. m : next(g, i) = next(f, i)
    BY <2>4
  <2>6. \A i \in 0 .. m : g[i] = next(g, i)
    BY <2>3, <2>5
  <2>7. g = [i \in 0 .. m |-> g[i]]
    OBVIOUS
  <2> HIDE DEF g, next
  <2>8. g = [i \in 0 .. m |-> next(g, i)]
    BY <2>6, <2>7
  <2> QED BY <1>4, <2>8
<1> QED BY <1>5, <1>6

\* Kept has the elements of s that are in S, and no other.
LEMMA KeptRange ==
  ASSUME NEW T, NEW s \in Seq(T), NEW S
  PROVE  Kept(s, S) \in Seq(T) /\ ToSet(Kept(s, S)) = ToSet(s) \cap S
<1> DEFINE next(f, i) == IF i = 0 THEN <<>>
                         ELSE IF s[i] \in S THEN Append(f[i - 1], s[i]) ELSE f[i - 1]
           kept == CHOOSE f : f = [i \in 0 .. Len(s) |-> next(f, i)]
           among(n) == {s[j] : j \in 1 .. n} \cap S
           Wrong == {n \in 0 .. Len(s) : ~(kept[n] \in Seq(T) /\ ToSet(kept[n]) = among(n))}
<1>1. Len(s) \in Nat /\ DOMAIN s = 1 .. Len(s)
  OBVIOUS
<1>2. kept = [i \in 0 .. Len(s) |-> next(kept, i)]
  <2>1. \E f : f = [i \in 0 .. Len(s) |-> next(f, i)]
    BY <1>1, KeptExists
  <2> HIDE DEF next
  <2> QED BY <2>1
<1>3. Kept(s, S) = kept[Len(s)]
  BY DEF Kept
<1> HIDE DEF kept
<1>4. ASSUME Wrong # {} PROVE FALSE
  <2>1. Wrong \in SUBSET Nat
    OBVIOUS
  <2>2. PICK m \in Wrong : \A k \in Wrong : m <= k
    BY <1>4, <2>1, LeastElement
  <2>3. m \in Nat /\ m \in 0 .. Len(s)
    BY <2>2
  <2>a. kept[m] = next(kept, m)
    <3> HIDE DEF next
    <3> QED BY <1>2, <2>3
  <2>4. CASE m = 0
    <3>1. kept[m] = <<>>
      BY <2>a, <2>4
    <3>2. <<>> \in Seq(T) /\ ToSet(<<>>) = {}
      BY DEF ToSet
    <3>3. among(0) = {}
      OBVIOUS
    <3> QED BY <2>2, <2>4, <3>1, <3>2, <3>3
  <2>5. CASE m # 0
    <3>1. m - 1 \in 0 .. Len(s) /\ m - 1 \notin Wrong /\ m \in 1 .. Len(s)
      <4> HIDE DEF Wrong
      <4> QED BY <1>1, <2>2, <2>3, <2>5
    <3>2. kept[m - 1] \in Seq(T) /\ ToSet(kept[m - 1]) = among(m - 1)
      BY <3>1
    <3>3. s[m] \in T
      BY <3>1
    <3>4. \A j \in 1 .. m : j \in 1 .. m - 1 \/ j = m
      BY <2>3
    <3>5. \A j \in 1 .. m - 1 : j \in 1 .. m
      BY <2>3
    <3>6. m \in 1 .. m
      BY <2>3, <2>5
    <3>7. among(m) = among(m - 1) \cup ({s[m]} \cap S)
      BY <3>4, <3>5, <3>6
    <3>8. kept[m] = IF s[m] \in S THEN Append(kept[m - 1], s[m]) ELSE kept[m - 1]
      BY <2>a, <2>5
    <3> HIDE DEF among
    <3>9. kept[m] \in Seq(T) /\ ToSet(kept[m]) = among(m)
      <4>1. CASE s[m] \in S
        BY <3>2, <3>3, <3>7, <3>8, <4>1, AppendRange
      <4>2. CASE s[m] \notin S
        BY <3>2, <3>7, <3>8, <4>2
      <4> QED BY <4>1, <4>2
    <3> QED BY <2>2, <3>9
  <2> QED BY <2>4, <2>5
<1>5. Len(s) \in 0 .. Len(s)
  BY <1>1
<1>6. kept[Len(s)] \in Seq(T) /\ ToSet(kept[Len(s)]) = among(Len(s))
  BY <1>4, <1>5
<1>7. ToSet(s) = {s[j] : j \in 1 .. Len(s)}
  BY <1>1 DEF ToSet
<1> QED BY <1>3, <1>6, <1>7

\* SetToSeq lists a finite set, each element once.
LEMMA SetToSeqLists ==
  ASSUME NEW S, IsFiniteSet(S)
  PROVE  /\ SetToSeq(S) \in Seq(S)
         /\ ToSet(SetToSeq(S)) = S
         /\ \A i, j \in DOMAIN SetToSeq(S) : SetToSeq(S)[i] = SetToSeq(S)[j] => i = j
<1> DEFINE n == Cardinality(S)
           f == SetToSeq(S)
<1>1. n \in Nat /\ ExistsBijection(1 .. n, S)
  BY FS_CardinalityType
<1>2. \E g \in [1 .. n -> S] : IsInjective(g)
  BY <1>1 DEF ExistsBijection, Bijection, Injection
<1>3. f \in [1 .. n -> S] /\ IsInjective(f)
  BY <1>2 DEF SetToSeq
<1>4. IsFiniteSet(1 .. n) /\ Cardinality(1 .. n) = n
  <2>1. Cardinality(1 .. n) = IF 1 > n THEN 0 ELSE n - 1 + 1
    BY <1>1, FS_Interval
  <2>2. IsFiniteSet(1 .. n)
    BY <1>1, FS_Interval
  <2> HIDE DEF n
  <2> QED BY <1>1, <2>1, <2>2
<1>5. f \in Injection(1 .. n, S)
  BY <1>3 DEF Injection
<1>6. f \in Surjection(1 .. n, S)
  BY <1>4, <1>5, FS_Injection
<1> HIDE DEF f, n
<1>7. f \in Seq(S)
  BY <1>1, <1>3
<1>8. ToSet(f) = S
  BY <1>3, <1>6 DEF ToSet, Surjection
<1>9. \A i, j \in DOMAIN f : f[i] = f[j] => i = j
  BY <1>3 DEF IsInjective
<1> QED BY <1>7, <1>8, <1>9 DEF f

\* The pools of some nodes are listed, each one once.
LEMMA PoolsListed ==
  ASSUME NEW ns \in SUBSET Nodes
  PROVE  /\ Pools(ns) \in Seq(PoolsOf(ns))
         /\ ToSet(Pools(ns)) = PoolsOf(ns)
         /\ \A i, j \in DOMAIN Pools(ns) : Pools(ns)[i] = Pools(ns)[j] => i = j
         /\ PoolsOf(ns) \subseteq PoolsOf(Nodes)
<1>1. IsFiniteSet(ns)
  BY NodesAssumption, FS_Subset
<1> DEFINE f == [n \in ns |-> PoolOf(n)]
<1>2. f \in Surjection(ns, PoolsOf(ns))
  BY DEF Surjection, PoolsOf
<1>3. IsFiniteSet(PoolsOf(ns))
  BY <1>1, <1>2, FS_Surjection DEF ExistsSurjection
<1>4. PoolsOf(ns) \subseteq PoolsOf(Nodes)
  BY DEF PoolsOf
<1> QED BY <1>3, <1>4, SetToSeqLists DEF Pools

-----------------------------------------------------------------------------
(* The list on the screen                                                  *)

\* Rows and options of a prompt have their types.
LEMMA PromptTyped ==
  ASSUME NEW T, NEW p \in Prompts(T)
  PROVE  /\ p.groups \in Seq(T) /\ p.clear \in SUBSET T
         /\ Len(p.rows) \in Nat /\ DOMAIN p.rows = 1 .. Len(p.rows)
         /\ \A i \in DOMAIN p.rows : /\ p.rows[i].options \in Seq(T)
                                     /\ 1 \in DOMAIN p.rows[i].options
                                     /\ Len(p.rows[i].options) \in Nat \ {0}
                                     /\ DOMAIN p.rows[i].options = 1 .. Len(p.rows[i].options)
         /\ Continue(p) = Len(p.rows) + 1
<1> DEFINE R == [options : Seq(T) \ {<<>>}, current : T]
<1>1. p.rows \in Seq(R)
  BY DEF Prompts
<1>2. DOMAIN p.rows = 1 .. Len(p.rows) /\ Len(p.rows) \in Nat
  BY <1>1
<1>3. \A i \in DOMAIN p.rows : p.rows[i] \in R
  <2> HIDE DEF R
  <2> QED BY <1>1, <1>2
<1>4. ASSUME NEW i \in DOMAIN p.rows
      PROVE  /\ p.rows[i].options \in Seq(T) /\ p.rows[i].options # <<>>
  BY <1>3
<1>5. ASSUME NEW s \in Seq(T), s # <<>>
      PROVE  1 \in DOMAIN s /\ Len(s) \in Nat \ {0} /\ DOMAIN s = 1 .. Len(s)
  BY <1>5
<1>6. p.groups \in Seq(T) /\ p.clear \in SUBSET T
  BY DEF Prompts
<1> QED BY <1>2, <1>4, <1>5, <1>6 DEF Continue

\* Some row is displayed first.
LEMMA FirstDisplayed ==
  ASSUME NEW T, NEW p \in Prompts(T), NEW chosen, NEW rows \in SUBSET DOMAIN p.rows, rows # {}
  PROVE  first(p, chosen, rows) \in rows
<1> DEFINE g(i) == groupOf(p, chosen, i)
           places == {g(i) : i \in rows}
<1>1. \A i : g(i) \in Nat
  BY PromptTyped, GroupOfTyped
<1>2. places \in SUBSET Nat /\ places # {}
  BY <1>1
<1> HIDE DEF g
<1>3. PICK m \in places : \A k \in places : m <= k
  BY <1>2, LeastElement
<1> DEFINE top == {i \in rows : g(i) = m}
<1>4. top # {}
  BY <1>3
<1>5. top \in SUBSET Nat
  BY PromptTyped
<1>6. PICK r \in top : \A k \in top : r <= k
  BY <1>4, <1>5, LeastElement
<1>7. ASSUME NEW j \in rows
      PROVE  order(p, chosen, r, j)
  <2>1. g(r) = m /\ m <= g(j) /\ g(j) \in Nat /\ m \in Nat
    BY <1>1, <1>2, <1>3, <1>6
  <2>2. CASE g(j) = m
    BY <1>6, <2>1, <2>2 DEF order, g
  <2>3. CASE g(j) # m
    BY <2>1, <2>3 DEF order, g
  <2> QED BY <2>2, <2>3
<1>8. r \in rows
  OBVIOUS
<1> QED BY <1>7, <1>8 DEF first

\* A list is a record of its parts.
LEMMA ListTyped ==
  ASSUME NEW T, NEW p \in Prompts(T), NEW c \in Lists(p)
  PROVE  /\ c.chosen \in [DOMAIN p.rows -> Nat] /\ c.initial \in [DOMAIN p.rows -> Nat]
         /\ \A i \in DOMAIN p.rows : /\ c.chosen[i] \in DOMAIN p.rows[i].options
                                     /\ c.initial[i] \in DOMAIN p.rows[i].options
         /\ c.cursor \in 1 .. Continue(p) /\ c.visual \in 0 .. Len(p.rows)
         /\ targets(p, c) \subseteq DOMAIN p.rows
<1>1. /\ c.chosen \in Indices(p) /\ c.initial \in Indices(p)
      /\ c.cursor \in 1 .. Continue(p) /\ c.visual \in 0 .. Len(p.rows)
  BY DEF Lists
<1>2. c.cursor # Continue(p) => c.cursor \in DOMAIN p.rows
  BY <1>1, PromptTyped
<1>3. targets(p, c) \subseteq DOMAIN p.rows
  BY <1>2 DEF targets, lines
<1> QED BY <1>1, <1>3 DEF Indices

\* The new list is at the current options, where the rows offer them.
LEMMA NewList ==
  ASSUME NEW T, NEW p \in Prompts(T)
  PROVE  /\ newChoiceModel(p) \in Lists(p)
         /\ DropdownShared(p, newChoiceModel(p))
         /\ \A i \in DOMAIN p.rows :
              p.rows[i].current \in ToSet(p.rows[i].options) =>
                option(p, newChoiceModel(p).initial, i) = p.rows[i].current
<1> DEFINE current(i) == optionIndex(p.rows[i], p.rows[i].current)
           initial == [i \in DOMAIN p.rows |-> IF current(i) = 0 THEN 1 ELSE current(i)]
           rows == lines(p, initial)
           c == newChoiceModel(p)
<1>1. c = [chosen |-> initial, initial |-> initial, visual |-> 0, dropdown |-> {},
           cursor |-> IF rows = {} THEN 1 ELSE first(p, initial, rows)]
  BY DEF newChoiceModel
<1>2. \A i \in DOMAIN p.rows :
        /\ current(i) \in Nat
        /\ current(i) # 0 <=> p.rows[i].current \in ToSet(p.rows[i].options)
        /\ current(i) # 0 => /\ current(i) \in DOMAIN p.rows[i].options
                             /\ p.rows[i].options[current(i)] = p.rows[i].current
  BY PromptTyped, OptionIndexFinds
<1> HIDE DEF current
<1>3. initial \in Indices(p)
  BY <1>2, PromptTyped DEF Indices
<1>4. \A i \in DOMAIN p.rows :
        p.rows[i].current \in ToSet(p.rows[i].options) =>
          option(p, initial, i) = p.rows[i].current
  BY <1>2 DEF option
<1>5. rows \in SUBSET DOMAIN p.rows
  BY DEF lines
<1> HIDE DEF initial, rows, c
<1>6. c.cursor \in 1 .. Continue(p)
  <2>1. CASE rows = {}
    BY <1>1, <2>1, PromptTyped
  <2>2. CASE rows # {}
    BY <1>1, <1>5, <2>2, PromptTyped, FirstDisplayed
  <2> QED BY <2>1, <2>2
<1>7. c \in Lists(p)
  BY <1>1, <1>3, <1>6, PromptTyped DEF Lists
<1>8. DropdownShared(p, c)
  BY <1>1 DEF DropdownShared
<1>9. c.initial = initial
  BY <1>1
<1> QED BY <1>4, <1>7, <1>8, <1>9 DEF c

\* Applying an option leaves every row at one of its own options, and the
\* selected rows at this one where they offer it.
LEMMA ApplyKeeps ==
  ASSUME NEW T, NEW p \in Prompts(T), NEW c \in Lists(p), NEW o
  PROVE  /\ apply(p, c, o) \in Lists(p)
         /\ apply(p, c, o).initial = c.initial /\ apply(p, c, o).dropdown = c.dropdown
         /\ \A i \in targets(p, c) :
              optionIndex(p.rows[i], o) # 0 => option(p, apply(p, c, o).chosen, i) = o
<1> DEFINE set(i) == IF i \in targets(p, c) /\ optionIndex(p.rows[i], o) # 0
                     THEN optionIndex(p.rows[i], o) ELSE c.chosen[i]
           new == [i \in DOMAIN p.rows |-> set(i)]
<1>1. apply(p, c, o) = [c EXCEPT !.chosen = new, !.visual = 0]
  BY DEF apply
<1>2. \A i \in DOMAIN p.rows :
        /\ optionIndex(p.rows[i], o) \in Nat
        /\ optionIndex(p.rows[i], o) # 0 =>
             /\ optionIndex(p.rows[i], o) \in DOMAIN p.rows[i].options
             /\ p.rows[i].options[optionIndex(p.rows[i], o)] = o
  <2>1. \A i \in DOMAIN p.rows : p.rows[i].options \in Seq(T)
    BY PromptTyped
  <2> QED BY <2>1, OptionIndexFinds
<1>3. \A i \in DOMAIN p.rows : set(i) \in Nat /\ set(i) \in DOMAIN p.rows[i].options
  BY <1>2, ListTyped
<1>4. new \in Indices(p)
  <2> HIDE DEF set
  <2> QED BY <1>3 DEF Indices
<1>5. \A i \in targets(p, c) :
        i \in DOMAIN p.rows /\ (optionIndex(p.rows[i], o) # 0 => option(p, new, i) = o)
  BY <1>2, ListTyped DEF option
<1> HIDE DEF new
<1>6. apply(p, c, o).chosen = new
  BY <1>1 DEF Lists
<1>7. 0 \in 0 .. Len(p.rows)
  BY PromptTyped
<1>8. /\ apply(p, c, o) \in Lists(p)
      /\ apply(p, c, o).initial = c.initial /\ apply(p, c, o).dropdown = c.dropdown
  BY <1>1, <1>4, <1>7 DEF Lists
<1> QED BY <1>5, <1>6, <1>8

\* A remainder is less than the divisor.
LEMMA Remainder == \A a \in Int, n \in Nat \ {0} : a % n \in 0 .. n - 1
  OBVIOUS

\* No key press leaves a row without an option of its own, changes where the
\* list started, or has the dropdown offer what a selected row does not.
LEMMA UpdateKeeps ==
  ASSUME NEW T, NEW p \in Prompts(T), NEW c \in Lists(p), DropdownShared(p, c),
         NEW d \in update(p, c)
  PROVE  d \in Lists(p) /\ d.initial = c.initial /\ DropdownShared(p, d)
<1> DEFINE Good(e) == e \in Lists(p) /\ e.initial = c.initial /\ DropdownShared(p, e)
<1>1. Good(c)
  OBVIOUS
<1>2. ASSUME NEW e \in Lists(p), e.initial = c.initial, e.dropdown = {}
      PROVE  Good(e)
  BY <1>2 DEF DropdownShared
<1>3. ASSUME NEW b \in Lists(p), b.initial = c.initial, b.dropdown = {}, NEW o
      PROVE  Good(apply(p, b, o))
  <2>1. /\ apply(p, b, o) \in Lists(p)
        /\ apply(p, b, o).initial = c.initial /\ apply(p, b, o).dropdown = {}
    BY <1>3, ApplyKeeps
  <2> HIDE DEF Good
  <2> QED BY <1>2, <2>1
<1>4. CASE c.dropdown # {}
  <2> DEFINE b == [c EXCEPT !.dropdown = {}]
  <2>1. b \in Lists(p) /\ b.initial = c.initial /\ b.dropdown = {}
    BY DEF Lists
  <2>2. d = b \/ \E o \in c.dropdown : d = apply(p, b, o)
    BY <1>4 DEF update, updateDropdown
  <2> HIDE DEF b, Good
  <2> QED BY <1>2, <1>3, <2>1, <2>2 DEF Good
<1>5. CASE c.dropdown = {}
  <2>1. \/ d \in moveCursor(p, c)
        \/ \E delta \in {-1, 1} : d = cycleOption(p, c, delta)
        \/ \E o : d = apply(p, c, o)
        \/ d = toggleVisual(p, c)
        \/ d = reset(p, c)
        \/ d = openDropdown(p, c)
    BY <1>5 DEF update
  <2>2. CASE d \in moveCursor(p, c)
    <3>1. PICK i \in lines(p, c.chosen) \cup {Continue(p)} : d = [c EXCEPT !.cursor = i]
      BY <2>2 DEF moveCursor
    <3>2. i \in 1 .. Continue(p)
      BY PromptTyped DEF lines
    <3>3. d \in Lists(p) /\ d.initial = c.initial /\ d.dropdown = {}
      BY <1>5, <3>1, <3>2 DEF Lists
    <3> QED BY <1>2, <3>3
  <2>3. CASE \E delta \in {-1, 1} : d = cycleOption(p, c, delta)
    <3>1. PICK delta \in {-1, 1} : d = cycleOption(p, c, delta)
      BY <2>3
    <3> DEFINE n == Len(p.rows[c.cursor].options)
               new == ((c.chosen[c.cursor] - 1 + delta + n) % n) + 1
    <3>2. CASE d = c
      BY <1>1, <3>2
    <3>3. CASE d # c
      <4>1. c.cursor # Continue(p) /\ d = [c EXCEPT !.chosen[c.cursor] = new]
        BY <3>1, <3>3 DEF cycleOption, onContinue
      <4>2. c.cursor \in DOMAIN p.rows
        BY <4>1, ListTyped, PromptTyped
      <4>3. n \in Nat \ {0} /\ c.chosen[c.cursor] \in Nat /\ delta \in Int
        BY <4>2, PromptTyped, ListTyped
      <4>4. new \in 1 .. n
        <5> DEFINE a == c.chosen[c.cursor] - 1 + delta + n
        <5> HIDE DEF n
        <5>1. a \in Int
          BY <4>3
        <5>2. a % n \in 0 .. n - 1
          BY <4>3, <5>1, Remainder
        <5> HIDE DEF a
        <5>3. (a % n) + 1 \in 1 .. n
          BY <4>3, <5>2
        <5> QED BY <5>3 DEF a
      <4>5. new \in Nat /\ new \in DOMAIN p.rows[c.cursor].options
        <5>1. DOMAIN p.rows[c.cursor].options = 1 .. n
          BY <4>2, PromptTyped
        <5> HIDE DEF n, new
        <5> QED BY <4>3, <4>4, <5>1
      <4> HIDE DEF new, n
      <4>6. [c.chosen EXCEPT ![c.cursor] = new] \in Indices(p)
        BY <4>2, <4>5, ListTyped DEF Indices
      <4>7. d = [c EXCEPT !.chosen = [c.chosen EXCEPT ![c.cursor] = new]]
        BY <4>1 DEF Lists
      <4>8. d \in Lists(p) /\ d.initial = c.initial /\ d.dropdown = {}
        BY <1>5, <4>6, <4>7 DEF Lists
      <4> QED BY <1>2, <4>8
    <3> QED BY <3>2, <3>3
  <2>4. CASE \E o : d = apply(p, c, o)
    <3> HIDE DEF Good
    <3> QED BY <1>3, <1>5, <2>4 DEF Good
  <2>5. CASE d = toggleVisual(p, c)
    <3> DEFINE v == IF c.visual # 0 \/ onContinue(p, c) THEN 0 ELSE c.cursor
    <3>1. d = [c EXCEPT !.visual = v]
      BY <2>5 DEF toggleVisual
    <3>2. v \in 0 .. Len(p.rows)
      BY ListTyped, PromptTyped DEF onContinue
    <3> HIDE DEF v
    <3>3. d \in Lists(p) /\ d.initial = c.initial /\ d.dropdown = {}
      BY <1>5, <3>1, <3>2 DEF Lists
    <3> QED BY <1>2, <3>3
  <2>6. CASE d = reset(p, c)
    <3> DEFINE set(i) == IF i \in targets(p, c) THEN c.initial[i] ELSE c.chosen[i]
               f == [i \in DOMAIN p.rows |-> set(i)]
    <3>1. d = [c EXCEPT !.chosen = f, !.visual = 0]
      BY <2>6 DEF reset
    <3>2. f \in Indices(p)
      BY ListTyped DEF Indices
    <3> HIDE DEF f
    <3>3. 0 \in 0 .. Len(p.rows)
      BY PromptTyped
    <3>4. d \in Lists(p) /\ d.initial = c.initial /\ d.dropdown = {}
      BY <1>5, <3>1, <3>2, <3>3 DEF Lists
    <3> QED BY <1>2, <3>4
  <2>7. CASE d = openDropdown(p, c)
    <3> DEFINE rows == targets(p, c)
               candidates == IF p.groups # <<>> THEN p.groups
                             ELSE p.rows[first(p, c.chosen, rows)].options
               shared == sharedOptions(p, rows, candidates)
    <3>1. CASE d = c
      BY <1>1, <3>1
    <3>2. CASE d # c
      <4>1. rows # {} /\ d = [c EXCEPT !.dropdown = shared]
        BY <2>7, <3>2 DEF openDropdown
      <4>2. first(p, c.chosen, rows) \in DOMAIN p.rows
        BY <4>1, ListTyped, FirstDisplayed
      <4>3. shared \subseteq Options(p)
        BY <4>2 DEF sharedOptions, Options
      <4>4. \A o \in shared : \A i \in rows : optionIndex(p.rows[i], o) # 0
        BY DEF sharedOptions
      <4> HIDE DEF shared
      <4>5. d \in Lists(p) /\ d.initial = c.initial /\ d.dropdown = shared
        BY <4>1, <4>3 DEF Lists
      <4>6. d.visual = c.visual /\ d.cursor = c.cursor /\ d.chosen = c.chosen
        BY <4>1 DEF Lists
      <4>7. targets(p, d) = targets(p, c)
        BY <4>6 DEF targets
      <4> QED BY <4>4, <4>5, <4>7 DEF DropdownShared
    <3> QED BY <3>1, <3>2
  <2> QED BY <2>1, <2>2, <2>3, <2>4, <2>5, <2>6, <2>7
<1> QED BY <1>4, <1>5

-----------------------------------------------------------------------------
(* The prompt                                                              *)

\* A concatenation has the elements of both parts.
LEMMA ConcatRange ==
  ASSUME NEW T, NEW s \in Seq(T), NEW t \in Seq(T)
  PROVE  s \o t \in Seq(T) /\ ToSet(s \o t) = ToSet(s) \cup ToSet(t)
<1>1. /\ s \o t \in Seq(T) /\ Len(s) \in Nat /\ Len(t) \in Nat
      /\ DOMAIN s = 1 .. Len(s) /\ DOMAIN t = 1 .. Len(t)
      /\ DOMAIN (s \o t) = 1 .. Len(s) + Len(t)
  OBVIOUS
<1>2. \A i \in 1 .. Len(s) : i \in 1 .. Len(s) + Len(t) /\ (s \o t)[i] = s[i]
  BY <1>1
<1>3. \A i \in 1 .. Len(t) : /\ Len(s) + i \in 1 .. Len(s) + Len(t)
                             /\ (s \o t)[Len(s) + i] = t[i]
  BY <1>1
<1>4. \A i \in 1 .. Len(s) + Len(t) :
        \/ i \in 1 .. Len(s) /\ (s \o t)[i] = s[i]
        \/ i - Len(s) \in 1 .. Len(t) /\ (s \o t)[i] = t[i - Len(s)]
  BY <1>1
<1>5. ToSet(s \o t) \subseteq ToSet(s) \cup ToSet(t)
  <2> SUFFICES ASSUME NEW i \in 1 .. Len(s) + Len(t)
               PROVE  (s \o t)[i] \in ToSet(s) \cup ToSet(t)
    BY <1>1 DEF ToSet
  <2> QED BY <1>1, <1>4 DEF ToSet
<1>6. ToSet(s) \subseteq ToSet(s \o t)
  BY <1>1, <1>2 DEF ToSet
<1>7. ToSet(t) \subseteq ToSet(s \o t)
  BY <1>1, <1>3 DEF ToSet
<1> QED BY <1>1, <1>5, <1>6, <1>7

AllOptions == Workloads \cup {Unassigned}

\* A run serves models of the catalog.
LEMMA ServeTyped == TypeOK => serve \in Seq(Catalog) /\ ToSet(serve) \subseteq Catalog
<1>1. <<>> \in Seq(Catalog)
  OBVIOUS
<1>2. TypeOK => serve \in Seq(Catalog)
  BY <1>1, ModelsAssumption DEF TypeOK
<1>3. ASSUME NEW s \in Seq(Catalog)
      PROVE  ToSet(s) \subseteq Catalog
  BY DEF ToSet
<1> QED BY <1>2, <1>3

\* A pool is offered the models of the run that fit on it, CPU work and
\* nothing.
LEMMA PoolOptionsAre ==
  ASSUME TypeOK, NEW pool
  PROVE  /\ poolOptions(pool) \in Seq(AllOptions) \ {<<>>}
         /\ ToSet(poolOptions(pool)) = (ToSet(serve) \cap fitting(pool)) \cup {CPU, Unassigned}
<1> DEFINE s == Kept(serve, fitting(pool))
           t == <<CPU, Unassigned>>
<1>1. serve \in Seq(Catalog)
  BY ServeTyped
<1>2. s \in Seq(Catalog) /\ ToSet(s) = ToSet(serve) \cap fitting(pool)
  BY <1>1, KeptRange
<1> HIDE DEF s
<1>3. s \in Seq(AllOptions)
  BY <1>2 DEF AllOptions, Workloads
<1>4. t \in Seq(AllOptions) /\ ToSet(t) = {CPU, Unassigned}
  BY DEF AllOptions, Workloads, ToSet
<1> HIDE DEF t
<1>5. s \o t \in Seq(AllOptions) /\ ToSet(s \o t) = ToSet(s) \cup ToSet(t)
  BY <1>3, <1>4, ConcatRange
<1>6. s \o t # <<>>
  <2>1. ToSet(<<>>) = {}
    BY DEF ToSet
  <2> QED BY <1>4, <1>5, <2>1
<1>7. poolOptions(pool) = s \o t
  BY DEF poolOptions, s, t
<1> QED BY <1>2, <1>4, <1>5, <1>6, <1>7

\* Pool p is with workload w: it is stored there or its nodes are labelled so,
\* and the workload fits.
At(p, pool, w) ==
  /\ IF stored # None THEN p \in stored[w] ELSE allNodesLabelled(pool, w)
  /\ w = CPU \/ fits(pool, w)

\* initialOption finds a workload of the run that the pool is with, if any.
LEMMA InitialOptionFinds ==
  ASSUME TypeOK, NEW p, NEW pool
  PROVE  \/ \E w \in ToSet(serve) \cup {CPU} :
              At(p, pool, w) /\ initialOption(p, pool) = w
         \/ /\ \A w \in ToSet(serve) \cup {CPU} : ~At(p, pool, w)
            /\ initialOption(p, pool) \in {CPU, Unassigned}
            /\ stored # None => initialOption(p, pool) = Unassigned
<1> DEFINE homes == serve \o <<CPU>>
           I == {i \in 1 .. Len(homes) : At(p, pool, homes[i])}
           home == IF I # {} THEN Min(I) ELSE 0
           guess == stored = None /\ ~hasGPU(pool) /\ ~allControlPlane(pool)
<1>1. initialOption(p, pool) =
        IF home # 0 THEN homes[home] ELSE IF guess THEN CPU ELSE Unassigned
  BY DEF initialOption, SelectInSeq, At
<1>2. homes \in Seq(Workloads) /\ ToSet(homes) = ToSet(serve) \cup {CPU}
  <2>1. serve \in Seq(Workloads)
    BY ServeTyped DEF Workloads
  <2> DEFINE t == <<CPU>>
  <2>2. t \in Seq(Workloads) /\ ToSet(t) = {CPU}
    BY DEF Workloads, ToSet
  <2>3. homes = serve \o t
    OBVIOUS
  <2> HIDE DEF t, homes
  <2> QED BY <2>1, <2>2, <2>3, ConcatRange
<1> HIDE DEF homes
<1>3. DOMAIN homes = 1 .. Len(homes) /\ Len(homes) \in Nat
  BY <1>2
<1>4. CASE I # {}
  <2>1. I \in SUBSET Nat
    OBVIOUS
  <2>2. Min(I) \in I
    BY <1>4, <2>1, MinLeast
  <2>3. Min(I) \in 1 .. Len(homes) /\ At(p, pool, homes[Min(I)])
    BY <2>2
  <2>4. home # 0 /\ home = Min(I)
    BY <1>3, <1>4, <2>3
  <2>5. homes[home] \in ToSet(serve) \cup {CPU}
    BY <1>2, <1>3, <2>3, <2>4 DEF ToSet
  <2> HIDE DEF home, I
  <2> QED BY <1>1, <2>3, <2>4, <2>5
<1>5. CASE I = {}
  <2>1. home = 0
    BY <1>5
  <2>2. \A w \in ToSet(homes) : ~At(p, pool, w)
    BY <1>3, <1>5 DEF ToSet
  <2> HIDE DEF home
  <2> QED BY <1>1, <1>2, <2>1, <2>2
<1> QED BY <1>4, <1>5

\* The prompt of the run has a row for each pool.
LEMMA PromptBuilt ==
  ASSUME TypeOK
  PROVE  /\ assignmentPrompt \in Prompts(AllOptions)
         /\ DOMAIN assignmentPrompt.rows = DOMAIN Pools(DOMAIN listed)
         /\ \A i \in DOMAIN assignmentPrompt.rows :
              LET q == Pools(DOMAIN listed)[i]
              IN  assignmentPrompt.rows[i] =
                    [options |-> poolOptions(NodesOf(DOMAIN listed, q)),
                     current |-> initialOption(q, NodesOf(DOMAIN listed, q))]
<1> DEFINE ns == DOMAIN listed
           pools == Pools(ns)
           row(i) == [options |-> poolOptions(NodesOf(ns, pools[i])),
                      current |-> initialOption(pools[i], NodesOf(ns, pools[i]))]
           rows == [i \in DOMAIN pools |-> row(i)]
           groups == serve \o <<CPU, Unassigned>>
<1>1. assignmentPrompt = [rows |-> rows, groups |-> groups, clear |-> {Unassigned}]
  BY DEF assignmentPrompt
<1>2. ns \in SUBSET Nodes
  BY DEF TypeOK, Labellings
<1>3. pools \in Seq(PoolsOf(ns))
  BY <1>2, PoolsListed
<1>4. ASSUME NEW i
      PROVE  row(i) \in [options : Seq(AllOptions) \ {<<>>}, current : AllOptions]
  <2>1. poolOptions(NodesOf(ns, pools[i])) \in Seq(AllOptions) \ {<<>>}
    BY PoolOptionsAre
  <2>2. initialOption(pools[i], NodesOf(ns, pools[i])) \in ToSet(serve) \cup {CPU, Unassigned}
    BY InitialOptionFinds
  <2>3. ToSet(serve) \cup {CPU, Unassigned} \subseteq AllOptions
    BY ServeTyped DEF AllOptions, Workloads
  <2> QED BY <2>1, <2>2, <2>3
<1>5. rows \in Seq([options : Seq(AllOptions) \ {<<>>}, current : AllOptions])
  <2> DEFINE R == [options : Seq(AllOptions) \ {<<>>}, current : AllOptions]
  <2> HIDE DEF R, row, pools
  <2>1. \A i : row(i) \in R
    BY <1>4 DEF R
  <2>2. DOMAIN pools = 1 .. Len(pools) /\ Len(pools) \in Nat
    BY <1>3
  <2>3. rows \in [1 .. Len(pools) -> R]
    BY <2>1, <2>2
  <2>4. rows \in Seq(R)
    BY <2>2, <2>3
  <2> QED BY <2>4 DEF R
<1>6. groups \in Seq(AllOptions)
  <2>1. serve \in Seq(AllOptions)
    BY ServeTyped DEF AllOptions, Workloads
  <2>2. <<CPU, Unassigned>> \in Seq(AllOptions)
    BY DEF AllOptions, Workloads
  <2> QED BY <2>1, <2>2, ConcatRange
<1> HIDE DEF groups
<1>7. assignmentPrompt \in Prompts(AllOptions)
  <2> HIDE DEF rows
  <2> QED BY <1>1, <1>5, <1>6 DEF Prompts, AllOptions
<1> HIDE DEF row
<1>8. DOMAIN assignmentPrompt.rows = DOMAIN pools
  BY <1>1
<1>9. \A i \in DOMAIN pools : assignmentPrompt.rows[i] = row(i)
  BY <1>1
<1> QED BY <1>7, <1>8, <1>9 DEF row

\* What is chosen in the list splits the pools among the workloads of the run.
LEMMA ChoiceSplits ==
  ASSUME TypeOK, ListOpen, phase = "choose"
  PROVE  LET a == assignmentOf(DOMAIN listed, values(prompt, choice))
         IN  /\ a \in Assignments
             /\ \A w \in Workloads : a[w] \subseteq PoolsOf(DOMAIN listed)
             /\ \A v, w \in Workloads : a[v] \cap a[w] # {} => v = w
             /\ \A w \in Workloads \ (ToSet(serve) \cup {CPU}) : a[w] = {}
<1> DEFINE ns == DOMAIN listed
           pools == Pools(ns)
           vals == values(prompt, choice)
           a == assignmentOf(ns, vals)
<1>1. ns \in SUBSET Nodes
  BY DEF TypeOK, Labellings
<1>2. /\ pools \in Seq(PoolsOf(ns)) /\ PoolsOf(ns) \subseteq PoolsOf(Nodes)
      /\ \A i, j \in DOMAIN pools : pools[i] = pools[j] => i = j
  BY <1>1, PoolsListed
<1>3. \A i \in DOMAIN pools : pools[i] \in PoolsOf(ns)
  <2> HIDE DEF pools
  <2> QED BY <1>2
<1>4. a = [w \in Workloads |-> {pools[i] : i \in {j \in DOMAIN pools : vals[j] = w}}]
  BY DEF assignmentOf
<1>5. ASSUME NEW i \in DOMAIN pools
      PROVE  vals[i] \in ToSet(serve) \cup {CPU, Unassigned}
  <2>1. prompt = assignmentPrompt /\ choice \in Lists(prompt)
    BY DEF ListOpen
  <2>2. i \in DOMAIN prompt.rows /\ prompt \in Prompts(AllOptions)
    BY <2>1, PromptBuilt
  <2>3. prompt.rows[i].options = poolOptions(NodesOf(ns, pools[i]))
    <3>1. prompt.rows[i] = [options |-> poolOptions(NodesOf(ns, pools[i])),
                            current |-> initialOption(pools[i], NodesOf(ns, pools[i]))]
      BY <2>1, <2>2, PromptBuilt, Zenon
    <3> QED BY <3>1
  <2>4. choice.chosen[i] \in DOMAIN prompt.rows[i].options
    BY <2>1, <2>2, ListTyped
  <2>5. vals[i] \in ToSet(poolOptions(NodesOf(ns, pools[i])))
    BY <2>2, <2>3, <2>4 DEF values, option, ToSet
  <2> QED BY <2>5, PoolOptionsAre
<1> HIDE DEF pools, vals, ns, a
<1>6. \A w \in Workloads : a[w] = {pools[i] : i \in {j \in DOMAIN pools : vals[j] = w}}
  BY <1>4
<1>7. \A w \in Workloads : a[w] \subseteq PoolsOf(ns)
  BY <1>3, <1>6
<1>8. a \in Assignments
  BY <1>2, <1>4, <1>7 DEF Assignments
<1>9. \A v, w \in Workloads : a[v] \cap a[w] # {} => v = w
  BY <1>2, <1>6
<1>10. \A w \in Workloads \ (ToSet(serve) \cup {CPU}) : a[w] = {}
  BY <1>5, <1>6, ModelsAssumption
<1> QED BY <1>7, <1>8, <1>9, <1>10 DEF a, ns, vals

-----------------------------------------------------------------------------
(* The invariant                                                           *)

\* The prompt is that of the run as long as the run's own state is kept.
LEMMA PromptSame ==
  UNCHANGED <<serve, listed, stored>> => assignmentPrompt' = assignmentPrompt
<1> SUFFICES ASSUME serve' = serve, listed' = listed, stored' = stored
             PROVE  assignmentPrompt' = assignmentPrompt
  OBVIOUS
<1>1. \A pool : poolOptions(pool)' = poolOptions(pool)
  BY DEF poolOptions
<1>2. \A p, pool : initialOption(p, pool)' = initialOption(p, pool)
  BY DEF initialOption, allNodesLabelled, SelectInSeq
<1> QED BY <1>1, <1>2 DEF assignmentPrompt

\* A new run has nothing listed, chosen or placed yet.
LEMMA StartRunInv == ASSUME IndInv, StartRun PROVE IndInv'
<1> USE DEF IndInv
<1>1. TypeOK'
  BY DEF StartRun, TypeOK, clusterVars, historyVars
<1>2. StoreSaved'
  BY DEF StartRun, StoreSaved, clusterVars, historyVars
<1>3. StoredRead' /\ ListOpen' /\ Placed'
  BY DEF StartRun, StoredRead, ListOpen, Placed
<1>4. LabelsKept'
  BY DEF StartRun, LabelsKept, clusterVars, historyVars
<1> QED BY <1>1, <1>2, <1>3, <1>4

\* The run reads what is stored, and the labels as they are.
LEMMA listPoolsInv == ASSUME IndInv, listPools PROVE IndInv'
<1> USE DEF IndInv
<1> DEFINE ns == {x \in nodes : ~ExclusiveTaint(x)}
<1>1. listed' = [n \in ns |-> legacy[n]] /\ stored' = readAssignment
  BY DEF listPools
<1>2. listed' \in Labellings
  <2>1. ns \in SUBSET Nodes
    BY DEF TypeOK
  <2> HIDE DEF ns
  <2>2. listed' \in [ns -> SUBSET Workloads]
    BY <1>1, <2>1 DEF TypeOK
  <2> QED BY <2>1, <2>2 DEF Labellings
<1>3. readAssignment \in Assignments \cup {None}
  BY DEF TypeOK, readAssignment
<1>4. TypeOK'
  BY <1>1, <1>2, <1>3 DEF listPools, TypeOK, clusterVars, historyVars
<1>5. StoreSaved'
  BY DEF listPools, StoreSaved, clusterVars, historyVars
<1>6. StoredRead' /\ ListOpen' /\ Placed'
  BY DEF listPools, StoredRead, readAssignment, ListOpen, Placed, clusterVars
<1>7. LabelsKept'
  <2>1. store' = None => legacy' = earlier' /\ legacy = earlier
    BY DEF listPools, LabelsKept, clusterVars, historyVars
  <2>2. \A n \in DOMAIN listed' : listed'[n] = legacy[n]
    BY <1>1
  <2> QED BY <2>1, <2>2 DEF listPools, LabelsKept, clusterVars, historyVars
<1> QED BY <1>4, <1>5, <1>6, <1>7

\* The list opens with its dropdown closed, at the prompt of the run.
LEMMA assignPoolsInv == ASSUME IndInv, assignPools PROVE IndInv'
<1> USE DEF IndInv
<1>1. TypeOK'
  BY DEF assignPools, TypeOK, clusterVars, historyVars
<1>2. StoreSaved'
  BY DEF assignPools, StoreSaved, clusterVars, historyVars
<1>3. StoredRead' /\ Placed'
  BY DEF assignPools, StoredRead, readAssignment, Placed, clusterVars
<1>4. ListOpen'
  <2>1. prompt' = assignmentPrompt /\ choice' = newChoiceModel(prompt')
    BY DEF assignPools
  <2>2. assignmentPrompt' = assignmentPrompt
    BY PromptSame DEF assignPools
  <2>3. assignmentPrompt \in Prompts(AllOptions)
    BY PromptBuilt
  <2>4. choice' \in Lists(prompt') /\ DropdownShared(prompt', choice')
    BY <2>1, <2>3, NewList
  <2> QED BY <2>1, <2>2, <2>4 DEF ListOpen
<1>5. LabelsKept'
  BY DEF assignPools, LabelsKept, clusterVars, historyVars
<1> QED BY <1>1, <1>2, <1>3, <1>4, <1>5

\* A key press changes the list, never what the run has read.
LEMMA pressKeyInv == ASSUME IndInv, pressKey PROVE IndInv'
<1> USE DEF IndInv
<1>1. TypeOK'
  BY DEF pressKey, TypeOK, clusterVars, historyVars
<1>2. StoreSaved'
  BY DEF pressKey, StoreSaved, clusterVars, historyVars
<1>3. StoredRead' /\ Placed'
  BY DEF pressKey, StoredRead, readAssignment, Placed, clusterVars
<1>4. ListOpen'
  <2>1. /\ prompt' = prompt /\ phase = "choose" /\ phase' = "choose"
        /\ choice' \in update(prompt, choice)
    BY DEF pressKey
  <2>2. /\ prompt = assignmentPrompt /\ choice \in Lists(prompt)
        /\ choice.initial = newChoiceModel(prompt).initial /\ DropdownShared(prompt, choice)
    BY <2>1 DEF ListOpen
  <2>3. assignmentPrompt' = assignmentPrompt
    BY PromptSame DEF pressKey
  <2>4. prompt \in Prompts(AllOptions)
    BY <2>2, PromptBuilt
  <2>5. /\ choice' \in Lists(prompt) /\ choice'.initial = choice.initial
        /\ DropdownShared(prompt, choice')
    BY <2>1, <2>2, <2>4, UpdateKeeps
  <2> QED BY <2>1, <2>2, <2>3, <2>5 DEF ListOpen
<1>5. LabelsKept'
  BY DEF pressKey, LabelsKept, clusterVars, historyVars
<1> QED BY <1>1, <1>2, <1>3, <1>4, <1>5

\* Only an assignment that splits the pools and blocks nothing is submitted.
LEMMA submitInv == ASSUME IndInv, submit PROVE IndInv'
<1> USE DEF IndInv
<1> DEFINE a == assignmentOf(DOMAIN listed, values(prompt, choice))
<1>1. /\ phase = "choose" /\ placement' = a /\ ~Blocking(DOMAIN listed, ToSet(serve), placement')
      /\ listed' = listed /\ serve' = serve
  BY DEF submit
<1>2. /\ a \in Assignments
      /\ \A w \in Workloads : a[w] \subseteq PoolsOf(DOMAIN listed)
      /\ \A v, w \in Workloads : a[v] \cap a[w] # {} => v = w
      /\ \A w \in Workloads \ (ToSet(serve) \cup {CPU}) : a[w] = {}
  BY <1>1, ChoiceSplits, Zenon
<1> HIDE DEF a
<1>3. TypeOK'
  BY <1>1, <1>2 DEF submit, TypeOK, clusterVars, historyVars
<1>4. StoreSaved'
  BY DEF submit, StoreSaved, clusterVars, historyVars
<1>5. StoredRead' /\ ListOpen'
  BY DEF submit, StoredRead, readAssignment, ListOpen, clusterVars
<1>6. Placed'
  BY <1>1, <1>2 DEF Placed, Settled
<1>7. LabelsKept'
  BY DEF submit, LabelsKept, clusterVars, historyVars
<1> QED BY <1>3, <1>4, <1>5, <1>6, <1>7

\* What is saved is stored, whether or not it had to be written.
LEMMA Saves ==
  ASSUME IndInv, phase = "save", stores,
         saved' = [nodes |-> DOMAIN listed, serve |-> serve, placement |-> placement]
  PROVE  store' = placement /\ store' \notin {None, Broken} /\ StoreSaved'
<1>1. placement \in Assignments /\ stored = readAssignment
  BY DEF IndInv, TypeOK, StoredRead
<1>2. store' = placement
  BY <1>1 DEF stores, sameAssignment, readAssignment
<1>3. placement \notin {None, Broken}
  BY <1>1, NodesAssumption DEF Assignments
<1>4. Settled(DOMAIN listed, ToSet(serve), placement)
  BY DEF IndInv, Placed
<1>5. saved'.nodes = DOMAIN listed /\ saved'.serve = serve /\ saved'.placement = placement
  OBVIOUS
<1> QED BY <1>2, <1>3, <1>4, <1>5 DEF StoreSaved

\* A run that ended has no state.
LEMMA EndRunTyped ==
  ASSUME EndRun
  PROVE  /\ serve' \in Selections \cup {<<>>} /\ listed' \in Labellings /\ DOMAIN listed' = {}
         /\ stored' = None /\ placement' \in Assignments /\ todo' = {} /\ phase' = "idle"
<1>1. <<>> \in [{} -> SUBSET Workloads] /\ DOMAIN <<>> = {}
  OBVIOUS
<1>2. {} \in SUBSET Nodes
  OBVIOUS
<1>3. <<>> \in Labellings
  BY <1>1, <1>2 DEF Labellings
<1>4. Nowhere \in Assignments
  BY DEF Nowhere, Assignments
<1> QED BY <1>1, <1>3, <1>4 DEF EndRun

\* What is saved is stored before a label is touched.
LEMMA saveAssignmentInv == ASSUME IndInv, saveAssignment PROVE IndInv'
<1> USE DEF IndInv
<1>1. /\ phase = "save" /\ stores /\ phase' = "unlabel"
      /\ saved' = [nodes |-> DOMAIN listed, serve |-> serve, placement |-> placement]
      /\ UNCHANGED <<nodes, legacy, serve, listed, stored, placement, earlier>>
  BY DEF saveAssignment, stageVars
<1>2. store' = placement /\ store' \notin {None, Broken} /\ StoreSaved'
  BY <1>1, Saves
<1>3. todo' \in SUBSET Nodes
  BY DEF saveAssignment, Labelled, TypeOK, Labellings
<1>4. TypeOK'
  BY <1>1, <1>2, <1>3 DEF TypeOK
<1>5. StoredRead' /\ ListOpen' /\ LabelsKept'
  BY <1>1, <1>2 DEF StoredRead, ListOpen, LabelsKept
<1>6. Placed'
  BY <1>1 DEF Placed
<1> QED BY <1>2, <1>4, <1>5, <1>6

\* Labels are removed only once an assignment is stored.
LEMMA removeLegacyLabelsInv == ASSUME IndInv, removeLegacyLabels PROVE IndInv'
<1> USE DEF IndInv
<1>1. /\ phase = "unlabel" /\ phase' = phase
      /\ UNCHANGED <<nodes, store, serve, listed, stored, placement, earlier, saved>>
  BY DEF removeLegacyLabels, stageVars, historyVars
<1>2. legacy' \in [Nodes -> SUBSET Workloads] /\ todo' \in SUBSET Nodes
  BY DEF removeLegacyLabels, TypeOK
<1>3. TypeOK'
  BY <1>1, <1>2 DEF TypeOK
<1>4. StoreSaved' /\ StoredRead' /\ ListOpen' /\ Placed'
  BY <1>1 DEF StoreSaved, StoredRead, ListOpen, Placed
<1>5. LabelsKept'
  BY <1>1 DEF LabelsKept
<1> QED BY <1>3, <1>4, <1>5

\* The placement that was submitted is the one that is deployed.
LEMMA stageDoneInv == ASSUME IndInv, stageDone PROVE IndInv'
<1> USE DEF IndInv
<1>1. /\ phase = "unlabel" /\ phase' = "deploy"
      /\ UNCHANGED <<nodes, legacy, store, serve, listed, stored, placement, todo, earlier, saved>>
  BY DEF stageDone, clusterVars, stageVars, historyVars
<1>2. TypeOK'
  BY <1>1 DEF TypeOK
<1>3. StoreSaved' /\ StoredRead' /\ ListOpen' /\ Placed'
  BY <1>1 DEF StoreSaved, StoredRead, ListOpen, Placed
<1>4. LabelsKept'
  BY <1>1 DEF LabelsKept
<1> QED BY <1>2, <1>3, <1>4

\* A run that is over, however it ended, takes nothing stored with it.
LEMMA EndInv ==
  ASSUME IndInv, EndRun, UNCHANGED <<clusterVars, historyVars>>
  PROVE  IndInv'
<1> USE DEF IndInv
<1>1. UNCHANGED <<nodes, legacy, store, earlier, saved>>
  BY DEF clusterVars, historyVars
<1>2. TypeOK'
  BY <1>1, EndRunTyped DEF TypeOK
<1>3. StoreSaved'
  BY <1>1 DEF StoreSaved
<1>4. StoredRead' /\ ListOpen' /\ Placed'
  BY EndRunTyped DEF StoredRead, ListOpen, Placed
<1>5. LabelsKept'
  BY <1>1, EndRunTyped DEF LabelsKept
<1> QED BY <1>2, <1>3, <1>4, <1>5

\* An assignment that was written without an answer is stored.
LEMMA writeUnansweredInv == ASSUME IndInv, writeUnanswered PROVE IndInv'
<1> USE DEF IndInv
<1>1. /\ phase = "save" /\ stores /\ EndRun
      /\ saved' = [nodes |-> DOMAIN listed, serve |-> serve, placement |-> placement]
      /\ UNCHANGED <<nodes, legacy, earlier>>
  BY DEF writeUnanswered
<1>2. store' = placement /\ store' \notin {None, Broken} /\ StoreSaved'
  BY <1>1, Saves
<1>3. TypeOK'
  BY <1>1, <1>2, EndRunTyped DEF TypeOK
<1>4. StoredRead' /\ ListOpen' /\ Placed'
  BY <1>1, EndRunTyped DEF StoredRead, ListOpen, Placed
<1>5. LabelsKept'
  BY <1>2 DEF LabelsKept
<1> QED BY <1>2, <1>3, <1>4, <1>5

\* A node that joins has no labels; what a run has listed stays.
LEMMA nodeJoinsInv == ASSUME IndInv, nodeJoins PROVE IndInv'
<1> USE DEF IndInv
<1>1. PICK n \in Nodes \ nodes : /\ nodes' = nodes \cup {n}
                                 /\ legacy' = [legacy EXCEPT ![n] = {}]
                                 /\ earlier' = [earlier EXCEPT ![n] = {}]
  BY DEF nodeJoins
<1>2. UNCHANGED <<store, serve, listed, stored, prompt, choice, placement, todo, phase, saved>>
  BY DEF nodeJoins, stageVars
<1>3. TypeOK'
  BY <1>1, <1>2 DEF TypeOK
<1>4. StoreSaved' /\ Placed' /\ StoredRead'
  BY <1>2 DEF StoreSaved, StoredRead, Placed, readAssignment
<1>5. ListOpen'
  BY <1>2, PromptSame DEF ListOpen
<1>6. LabelsKept'
  <2> SUFFICES ASSUME store = None
               PROVE  /\ legacy' = earlier'
                      /\ \A m \in DOMAIN listed : earlier'[m] \in {listed[m], {}}
    BY <1>2 DEF LabelsKept
  <2>1. legacy = earlier /\ \A m \in DOMAIN listed : earlier[m] \in {listed[m], {}}
    BY DEF LabelsKept
  <2>2. \A m \in DOMAIN listed : m \in Nodes
    BY DEF TypeOK, Labellings
  <2>3. \A m \in Nodes : earlier'[m] = IF m = n THEN {} ELSE earlier[m]
    BY <1>1 DEF TypeOK
  <2> QED BY <1>1, <2>1, <2>2, <2>3
<1> QED BY <1>3, <1>4, <1>5, <1>6

\* A node that leaves changes nothing a run has read.
LEMMA nodeLeavesInv == ASSUME IndInv, nodeLeaves PROVE IndInv'
<1> USE DEF IndInv
<1>1. /\ nodes' \in SUBSET Nodes
      /\ UNCHANGED <<legacy, store, serve, listed, stored, prompt, choice, placement, todo, phase,
                     earlier, saved>>
  BY DEF nodeLeaves, stageVars, historyVars, TypeOK
<1>2. TypeOK'
  BY <1>1 DEF TypeOK
<1>3. StoreSaved' /\ Placed' /\ StoredRead'
  BY <1>1 DEF StoreSaved, StoredRead, Placed, readAssignment
<1>4. ListOpen'
  BY <1>1, PromptSame DEF ListOpen
<1>5. LabelsKept'
  BY <1>1 DEF LabelsKept
<1> QED BY <1>2, <1>3, <1>4, <1>5

\* A ConfigMap that cannot be read says nothing, but is not missing.
LEMMA handEditInv == ASSUME IndInv, handEdit PROVE IndInv'
<1> USE DEF IndInv
<1>1. /\ phase = "idle" /\ store \notin {None, Broken} /\ store' = Broken
      /\ UNCHANGED <<nodes, legacy, serve, listed, stored, placement, todo, phase, earlier, saved>>
  BY DEF handEdit, stageVars, historyVars
<1>2. TypeOK'
  BY <1>1 DEF TypeOK
<1>3. StoreSaved' /\ StoredRead' /\ ListOpen' /\ Placed'
  BY <1>1 DEF StoreSaved, StoredRead, ListOpen, Placed
<1>4. LabelsKept'
  BY <1>1, NodesAssumption DEF LabelsKept
<1> QED BY <1>2, <1>3, <1>4

\* The invariant holds at the start.
LEMMA InitInv == Init => IndInv
<1> SUFFICES ASSUME Init PROVE IndInv
  OBVIOUS
<1>1. <<>> \in Labellings /\ DOMAIN <<>> = {}
  <2>1. <<>> \in [{} -> SUBSET Workloads] /\ DOMAIN <<>> = {}
    OBVIOUS
  <2>2. {} \in SUBSET Nodes
    OBVIOUS
  <2> QED BY <2>1, <2>2 DEF Labellings
<1>2. Nowhere \in Assignments
  BY DEF Nowhere, Assignments
<1>3. TypeOK
  BY <1>1, <1>2, NodesAssumption DEF Init, TypeOK
<1>4. StoreSaved /\ StoredRead /\ ListOpen /\ Placed
  BY DEF Init, StoreSaved, StoredRead, ListOpen, Placed
<1>5. LabelsKept
  BY <1>1 DEF Init, LabelsKept
<1> QED BY <1>3, <1>4, <1>5 DEF IndInv

\* Every step preserves it.
LEMMA StepInv == IndInv /\ [Next]_vars => IndInv'
<1> SUFFICES ASSUME IndInv, [Next]_vars PROVE IndInv'
  OBVIOUS
<1>1. CASE Next
  <2>1. CASE deployed \/ Fail
    BY <2>1, EndInv DEF deployed, Fail
  <2> QED BY <1>1, <2>1, StartRunInv, listPoolsInv, assignPoolsInv, pressKeyInv, submitInv,
             saveAssignmentInv, removeLegacyLabelsInv, stageDoneInv, writeUnansweredInv,
             nodeJoinsInv, nodeLeavesInv, handEditInv DEF Next
<1>2. CASE UNCHANGED vars
  <2>1. UNCHANGED <<nodes, legacy, store, serve, listed, stored, prompt, choice, placement, todo,
                    phase, earlier, saved>>
    BY <1>2 DEF vars, clusterVars, stageVars, historyVars
  <2>2. TypeOK'
    BY <2>1 DEF IndInv, TypeOK
  <2>3. StoreSaved' /\ StoredRead' /\ Placed'
    BY <2>1 DEF IndInv, StoreSaved, StoredRead, Placed, readAssignment
  <2>4. ListOpen'
    BY <2>1, PromptSame DEF IndInv, ListOpen
  <2>5. LabelsKept'
    BY <2>1 DEF IndInv, LabelsKept
  <2> QED BY <2>2, <2>3, <2>4, <2>5 DEF IndInv
<1> QED BY <1>1, <1>2

\* The invariant of NodePools: what is stored is what was saved last and
\* could be submitted, and the list belongs to the run.
THEOREM Invariant == Spec => []IndInv
  BY InitInv, StepInv, PTL DEF Spec

\* Every variable has its type in every state of the stage.
THEOREM TypeCorrect == Spec => []TypeOK
<1>1. IndInv => TypeOK
  BY DEF IndInv
<1> QED BY <1>1, Invariant, PTL

-----------------------------------------------------------------------------
(* The properties                                                          *)

\* The labels of a node name its pool.
LEMMA PoolNamed ==
  ASSUME NEW n \in Nodes
  PROVE  /\ PoolOf(n).key \in DOMAIN Specs[n].labels
         /\ PoolOf(n) = [key |-> PoolOf(n).key, name |-> Specs[n].labels[PoolOf(n).key]]
<1> DEFINE labels == Specs[n].labels
           keys == PoolKeys \o <<HostnameKey>>
           I == {i \in 1 .. Len(keys) : keys[i] \in DOMAIN labels}
           at == IF I # {} THEN Min(I) ELSE 0
<1>1. PoolOf(n) = IF at = 0 THEN [key |-> HostnameKey, name |-> n]
                  ELSE [key |-> keys[at], name |-> labels[keys[at]]]
  BY DEF PoolOf, SelectInSeq
<1>2. Len(keys) = 5 /\ keys[5] = HostnameKey
  BY DEF PoolKeys
<1>3. HostnameKey \in DOMAIN labels
  <2>1. PoolOf(n) \in PoolsOf(Nodes)
    BY DEF PoolsOf
  <2> QED BY <2>1, LabelsAssumption
<1> HIDE DEF keys
<1>4. 5 \in I
  BY <1>2, <1>3
<1>5. I \in SUBSET Nat
  OBVIOUS
<1>6. Min(I) \in I
  BY <1>4, <1>5, MinLeast
<1>7. at = Min(I) /\ at # 0 /\ keys[at] \in DOMAIN labels
  BY <1>2, <1>4, <1>6
<1> HIDE DEF at
<1>8. PoolOf(n) = [key |-> keys[at], name |-> labels[keys[at]]]
  BY <1>1, <1>7
<1>9. PoolOf(n).key = keys[at]
  BY <1>8
<1> QED BY <1>7, <1>8, <1>9

\* The affinity made of some pools admits the nodes of these pools alone.
LEMMA TermsAdmit ==
  ASSUME NEW ps \in SUBSET PoolsOf(Nodes), NEW n \in Nodes
  PROVE  Admits(Terms(ps), n) <=> PoolOf(n) \in ps
<1> DEFINE labels == Specs[n].labels
           has(p) == p.key \in DOMAIN labels /\ labels[p.key] = p.name
<1>1. Admits(Terms(ps), n) <=> \E p \in ps : has(p)
  <2>1. ASSUME Admits(Terms(ps), n)
        PROVE  \E p \in ps : has(p)
    <3>1. PICK t \in Terms(ps) : t.key \in DOMAIN labels /\ labels[t.key] \in t.names
      BY <2>1 DEF Admits
    <3>2. PICK k \in {p.key : p \in ps} :
            t = [key |-> k, names |-> {p.name : p \in {q \in ps : q.key = k}}]
      BY <3>1 DEF Terms
    <3>3. t.key = k /\ t.names = {p.name : p \in {q \in ps : q.key = k}}
      BY <3>2
    <3>4. PICK p \in {q \in ps : q.key = k} : labels[k] = p.name
      BY <3>1, <3>3
    <3> QED BY <3>1, <3>3, <3>4
  <2>2. ASSUME NEW p \in ps, has(p)
        PROVE  Admits(Terms(ps), n)
    <3> DEFINE t == [key |-> p.key, names |-> {r.name : r \in {q \in ps : q.key = p.key}}]
    <3>1. t \in Terms(ps)
      BY DEF Terms
    <3>2. t.key = p.key /\ p.name \in t.names
      OBVIOUS
    <3> HIDE DEF t
    <3> QED BY <2>2, <3>1, <3>2 DEF Admits
  <2> QED BY <2>1, <2>2
<1>2. has(PoolOf(n))
  BY PoolNamed
<1>3. ASSUME NEW p \in ps, has(p)
      PROVE  PoolOf(n) = p
  <2>1. PICK m \in Nodes : p = PoolOf(m)
    BY DEF PoolsOf
  <2>2. p = [key |-> p.key, name |-> p.name]
    BY <2>1, PoolNamed
  <2>3. PoolOf(n) = [key |-> PoolOf(n).key, name |-> labels[PoolOf(n).key]]
    BY PoolNamed
  <2>4. CASE p.key # HostnameKey
    <3>1. PoolOf(n).key = p.key
      BY <1>3, <2>4, LabelsAssumption
    <3> QED BY <1>3, <2>2, <2>3, <3>1
  <2>5. CASE p.key = HostnameKey
    <3>1. p.name = Specs[m].labels[p.key]
      BY <2>1, PoolNamed
    <3>2. m = n
      BY <1>3, <2>5, <3>1, LabelsAssumption
    <3> QED BY <2>1, <3>2
  <2> QED BY <2>4, <2>5
<1> HIDE DEF has
<1> QED BY <1>1, <1>2, <1>3

\* Every node of the cluster, also one that joined after the assignment, is
\* admitted by exactly the workload its pool was assigned to.
THEOREM NodesPlaced == Spec => []NodesFollowTheirPool
<1>1. ASSUME IndInv, phase = "deploy", NEW n \in nodes
      PROVE  /\ \A w \in Workloads : Admits(placementTerms(w), n) <=> PoolOf(n) \in placement[w]
             /\ \A v, w \in Workloads :
                  Admits(placementTerms(v), n) /\ Admits(placementTerms(w), n) => v = w
  <2>1. n \in Nodes /\ placement \in Assignments
    BY <1>1 DEF IndInv, TypeOK
  <2>2. \A w \in Workloads : Admits(placementTerms(w), n) <=> PoolOf(n) \in placement[w]
    BY <2>1, TermsAdmit DEF placementTerms, Assignments
  <2>3. \A v, w \in Workloads : placement[v] \cap placement[w] # {} => v = w
    BY <1>1 DEF IndInv, Placed, Settled
  <2> QED BY <2>2, <2>3
<1>2. IndInv => NodesFollowTheirPool
  BY <1>1 DEF NodesFollowTheirPool
<1> QED BY <1>2, Invariant, PTL

\* An option of the dropdown applies to every selected row alike.
THEOREM DropdownApplies == Spec => []DropdownAppliesToAll
<1>1. ASSUME IndInv, phase = "choose", NEW o \in choice.dropdown,
             NEW i \in targets(prompt, choice)
      PROVE  option(prompt, apply(prompt, choice, o).chosen, i) = o
  <2>1. /\ prompt = assignmentPrompt /\ choice \in Lists(prompt)
        /\ DropdownShared(prompt, choice)
    BY <1>1 DEF IndInv, ListOpen
  <2>2. prompt \in Prompts(AllOptions)
    BY <1>1, <2>1, PromptBuilt DEF IndInv
  <2>3. optionIndex(prompt.rows[i], o) # 0
    BY <2>1 DEF DropdownShared
  <2> QED BY <2>1, <2>2, <2>3, ApplyKeeps
<1>2. IndInv => DropdownAppliesToAll
  BY <1>1 DEF DropdownAppliesToAll
<1> QED BY <1>2, Invariant, PTL

\* A row of an untouched list is where initialOption put its pool: the row
\* always offers this option.
LEMMA UntouchedRow ==
  ASSUME IndInv, Untouched, NEW i \in DOMAIN prompt.rows
  PROVE  LET q == Pools(DOMAIN listed)[i]
             pool == NodesOf(DOMAIN listed, q)
         IN  /\ i \in DOMAIN Pools(DOMAIN listed)
             /\ prompt.rows[i].options = poolOptions(pool)
             /\ Preselected[i] = initialOption(q, pool)
<1> DEFINE q == Pools(DOMAIN listed)[i]
           pool == NodesOf(DOMAIN listed, q)
<1>1. /\ phase = "choose" /\ choice.chosen = choice.initial
      /\ prompt = assignmentPrompt /\ choice.initial = newChoiceModel(prompt).initial
      /\ TypeOK
  BY DEF IndInv, ListOpen, Untouched
<1>2. prompt \in Prompts(AllOptions) /\ i \in DOMAIN Pools(DOMAIN listed)
  BY <1>1, PromptBuilt
<1>3. prompt.rows[i] = [options |-> poolOptions(pool), current |-> initialOption(q, pool)]
  BY <1>1, PromptBuilt, Zenon
<1> HIDE DEF q, pool
<1>4. prompt.rows[i].options = poolOptions(pool) /\ prompt.rows[i].current = initialOption(q, pool)
  BY <1>3
<1>5. initialOption(q, pool) \in ToSet(poolOptions(pool))
  <2>1. ToSet(poolOptions(pool)) = (ToSet(serve) \cap fitting(pool)) \cup {CPU, Unassigned}
    BY <1>1, PoolOptionsAre
  <2>2. CASE \E w \in ToSet(serve) \cup {CPU} : At(q, pool, w) /\ initialOption(q, pool) = w
    <3>1. PICK w \in ToSet(serve) \cup {CPU} : At(q, pool, w) /\ initialOption(q, pool) = w
      BY <2>2
    <3>2. w \in ToSet(serve) => w \in Catalog
      BY <1>1, ServeTyped
    <3> QED BY <2>1, <3>1, <3>2 DEF At, fitting
  <2>3. CASE initialOption(q, pool) \in {CPU, Unassigned}
    BY <2>1, <2>3
  <2> QED BY <1>1, <2>2, <2>3, InitialOptionFinds
<1>6. option(prompt, choice.chosen, i) = initialOption(q, pool)
  BY <1>1, <1>2, <1>4, <1>5, NewList
<1>7. Preselected[i] = initialOption(q, pool)
  BY <1>6 DEF Preselected, values
<1> QED BY <1>2, <1>4, <1>7 DEF q, pool

\* A rerun on the nodes and with the models of the last assignment starts at
\* this assignment, and can be confirmed at once.
THEOREM RerunConfirms == Spec => []RerunIsOneConfirm
<1> DEFINE ns == DOMAIN listed
           pools == Pools(ns)
           a == assignmentOf(ns, Preselected)
           s == saved.placement
<1>1. ASSUME IndInv, Untouched, stored # None, ns = saved.nodes, serve = saved.serve
      PROVE  a = s /\ ~Blocking(ns, ToSet(serve), a)
  <2>1. TypeOK /\ phase = "choose" /\ stored = store /\ store \notin {None, Broken}
    BY <1>1 DEF IndInv, Untouched, StoredRead, readAssignment
  <2>2. stored = s /\ Settled(ns, ToSet(serve), s) /\ s \in Assignments
    BY <1>1, <2>1 DEF IndInv, StoreSaved, TypeOK
  <2>3. ns \in SUBSET Nodes
    BY <2>1 DEF TypeOK, Labellings
  <2>4. ToSet(pools) = PoolsOf(ns)
    BY <2>3, PoolsListed
  <2>5. DOMAIN prompt.rows = DOMAIN pools
    BY <1>1, <2>1, PromptBuilt DEF IndInv, ListOpen
  <2>6. a = [w \in Workloads |-> {pools[i] : i \in {j \in DOMAIN pools : Preselected[j] = w}}]
    BY DEF assignmentOf
  <2>7. ASSUME NEW i \in DOMAIN pools, NEW w \in Workloads
        PROVE  Preselected[i] = w <=> pools[i] \in s[w]
    <3> DEFINE q == pools[i]
               pool == NodesOf(ns, q)
    <3>1. Preselected[i] = initialOption(q, pool)
      BY <1>1, <2>5, UntouchedRow, Zenon
    <3>2. \A v : At(q, pool, v) <=> q \in s[v] /\ (v = CPU \/ fits(pool, v))
      BY <1>1, <2>2 DEF At
    <3>3. \A v \in ToSet(serve) : q \in s[v] => fits(pool, v)
      BY <2>2 DEF Settled, Blocking
    <3>4. \A v \in Workloads : q \in s[v] => v \in ToSet(serve) \cup {CPU}
      BY <2>2 DEF Settled
    <3>5. \A v \in Workloads : q \in s[v] /\ q \in s[w] => v = w
      BY <2>2 DEF Settled
    <3>6. ToSet(serve) \cup {CPU} \subseteq Workloads /\ Unassigned \notin Workloads
      BY <2>1, ServeTyped, ModelsAssumption DEF Workloads
    <3> HIDE DEF q, pool, s
    <3>7. CASE \E v \in ToSet(serve) \cup {CPU} : At(q, pool, v) /\ initialOption(q, pool) = v
      BY <3>1, <3>2, <3>5, <3>6, <3>7 DEF q
    <3>8. CASE /\ \A v \in ToSet(serve) \cup {CPU} : ~At(q, pool, v)
               /\ initialOption(q, pool) = Unassigned
      BY <3>1, <3>2, <3>3, <3>4, <3>6, <3>8 DEF q
    <3> QED BY <1>1, <2>1, <3>7, <3>8, InitialOptionFinds
  <2>8. \A w \in Workloads : s[w] \subseteq PoolsOf(ns)
    BY <2>2 DEF Settled
  <2> HIDE DEF a, s, pools, ns
  <2>9. \A w \in Workloads : a[w] = {pools[i] : i \in {j \in DOMAIN pools : Preselected[j] = w}}
    BY <2>6
  <2>10. \A w \in Workloads : a[w] = s[w]
    <3> TAKE w \in Workloads
    <3>1. a[w] \subseteq s[w]
      BY <2>7, <2>9
    <3>2. s[w] \subseteq a[w]
      BY <2>4, <2>7, <2>8, <2>9 DEF ToSet
    <3> QED BY <3>1, <3>2
  <2>11. a = s
    BY <2>2, <2>6, <2>10 DEF Assignments
  <2> QED BY <2>2, <2>11 DEF Settled
<1>2. IndInv => RerunIsOneConfirm
  BY <1>1 DEF RerunIsOneConfirm
<1> QED BY <1>2, Invariant, PTL

\* Until an assignment is stored, the list starts where the labels of an
\* earlier installer have the pools.
THEOREM LegacyKept == Spec => []LegacyHonoured
<1> DEFINE ns == DOMAIN listed
           pools == Pools(ns)
<1>1. ASSUME IndInv, Untouched, store = None, NEW i \in DOMAIN prompt.rows,
             NEW w \in ToSet(prompt.rows[i].options) \ {Unassigned},
             \A n \in NodesOf(ns, pools[i]) : earlier[n] = {w}
      PROVE  Preselected[i] = w
  <2> DEFINE q == pools[i]
             pool == NodesOf(ns, q)
  <2>1. TypeOK /\ phase = "choose" /\ stored = None
    BY <1>1 DEF IndInv, Untouched, StoredRead, readAssignment
  <2>2. /\ i \in DOMAIN pools /\ prompt.rows[i].options = poolOptions(pool)
        /\ Preselected[i] = initialOption(q, pool)
    BY <1>1, UntouchedRow, Zenon
  <2>3. w \in (ToSet(serve) \cap fitting(pool)) \cup {CPU}
    BY <2>1, <2>2, PoolOptionsAre
  <2>4. pool # {}
    <3>1. q \in PoolsOf(ns)
      <4>1. pools \in Seq(PoolsOf(ns))
        BY <2>1, PoolsListed DEF TypeOK, Labellings
      <4> HIDE DEF pools
      <4> QED BY <2>2, <4>1
    <3> QED BY <3>1 DEF PoolsOf, NodesOf
  <2>5. \A n \in pool : listed[n] = {w}
    BY <1>1 DEF IndInv, LabelsKept, NodesOf
  <2>6. \A v : At(q, pool, v) <=> v = w /\ (v = CPU \/ fits(pool, v))
    BY <2>1, <2>4, <2>5 DEF At, allNodesLabelled
  <2>7. At(q, pool, w) /\ w \in ToSet(serve) \cup {CPU}
    BY <2>3, <2>6 DEF fitting
  <2> HIDE DEF q, pool
  <2> QED BY <2>1, <2>2, <2>6, <2>7, InitialOptionFinds
<1>2. IndInv => LegacyHonoured
  BY <1>1 DEF LegacyHonoured
<1> QED BY <1>2, Invariant, PTL
=============================================================================
