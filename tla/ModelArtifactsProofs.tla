------------------------ MODULE ModelArtifactsProofs ------------------------
(***************************************************************************)
(* The properties of ModelArtifacts, for any models, releases and          *)
(* repositories and for any number of runs and faults.                     *)
(***************************************************************************)
EXTENDS ModelArtifacts, FiniteSetTheorems, WellFoundedInduction,
        NaturalsInduction, TLAPS

-----------------------------------------------------------------------------
(* Sequences                                                               *)

\* A set of naturals has a least element; it stands in for induction.
LEMMA LeastElement ==
  ASSUME NEW T \in SUBSET Nat, T # {}
  PROVE  \E m \in T : \A k \in T : m <= k
<1> DEFINE R == {ss \in Nat \X Nat : ss[1] < ss[2]}
<1>1. IsWellFoundedOn(R, Nat)
  BY NatLessThanWellFounded DEF OpToRel
<1>2. \A y, m \in Nat : y < m => <<y, m>> \in R
  OBVIOUS
<1>3. PICK m \in T : \A y \in T : ~(<<y, m>> \in R)
  BY <1>1, WFMin
<1>4. \A k \in T : m <= k
  <2> TAKE k \in T
  <2>1. k \in Nat /\ m \in Nat
    OBVIOUS
  <2>2. ~(<<k, m>> \in R)
    BY <1>3
  <2> HIDE DEF R
  <2>3. ~(k < m)
    BY <1>2, <2>1, <2>2
  <2> QED BY <2>1, <2>3
<1> QED BY <1>4

\* A concatenation has the elements of both.
LEMMA ConcatRange ==
  ASSUME NEW T, NEW s \in Seq(T), NEW t \in Seq(T)
  PROVE  s \o t \in Seq(T) /\ Range(s \o t) = Range(s) \cup Range(t)
<1>1. /\ s \o t \in Seq(T) /\ Len(s) \in Nat /\ Len(t) \in Nat
      /\ DOMAIN s = 1 .. Len(s) /\ DOMAIN t = 1 .. Len(t)
      /\ DOMAIN (s \o t) = 1 .. Len(s) + Len(t)
  OBVIOUS
<1>2. \A i \in 1 .. Len(s) : i \in 1 .. Len(s) + Len(t) /\ (s \o t)[i] = s[i]
  BY <1>1
<1>3. \A i \in 1 .. Len(t) : /\ Len(s) + i \in 1 .. Len(s) + Len(t)
                             /\ (s \o t)[Len(s) + i] = t[i]
  BY <1>1
<1>4. \A i \in 1 .. Len(s) + Len(t) :
        \/ i \in 1 .. Len(s) /\ (s \o t)[i] = s[i]
        \/ i - Len(s) \in 1 .. Len(t) /\ (s \o t)[i] = t[i - Len(s)]
  BY <1>1
<1>5. Range(s \o t) \subseteq Range(s) \cup Range(t)
  <2> SUFFICES ASSUME NEW i \in 1 .. Len(s) + Len(t)
               PROVE  (s \o t)[i] \in Range(s) \cup Range(t)
    BY <1>1 DEF Range
  <2> QED BY <1>1, <1>4 DEF Range
<1>6. Range(s) \subseteq Range(s \o t)
  BY <1>1, <1>2 DEF Range
<1>7. Range(t) \subseteq Range(s \o t)
  BY <1>1, <1>3 DEF Range
<1> QED BY <1>1, <1>5, <1>6, <1>7

\* The head of a sequence and the elements of its tail are its elements.
LEMMA HeadAndTail ==
  ASSUME NEW T, NEW s \in Seq(T) \ {<<>>}
  PROVE  /\ Head(s) \in T /\ Head(s) \in Range(s) /\ Range(s) \subseteq T
         /\ Tail(s) \in Seq(T) /\ Range(s) = {Head(s)} \cup Range(Tail(s))
         /\ Len(s) > 1 => Tail(s) # <<>>
         /\ ~(Len(s) > 1) => Range(s) = {Head(s)}
<1> DEFINE t == Tail(s)
           n == Len(s)
<1>1. /\ n \in Nat \ {0} /\ DOMAIN s = 1 .. n /\ Head(s) = s[1]
      /\ t \in Seq(T) /\ Len(t) = n - 1 /\ DOMAIN t = 1 .. n - 1
      /\ \A i \in 1 .. n - 1 : t[i] = s[i + 1]
      /\ \A i \in 1 .. n : s[i] \in T
  OBVIOUS
<1>7. n > 1 => t # <<>>
  <2>1. Len(<<>>) = 0
    OBVIOUS
  <2> HIDE DEF t, n
  <2> QED BY <1>1, <2>1
<1> HIDE DEF t, n
<1>2. 1 \in 1 .. n /\ \A i \in 1 .. n - 1 : i + 1 \in 1 .. n
  BY <1>1
<1>3. \A i \in 1 .. n : i = 1 \/ (i - 1 \in 1 .. n - 1 /\ s[i] = t[i - 1])
  <2> TAKE i \in 1 .. n
  <2> DEFINE j == i - 1
  <2>1. i # 1 => j \in 1 .. n - 1
    BY <1>1
  <2>2. j + 1 = i
    BY <1>1
  <2> HIDE DEF j
  <2>3. i # 1 => t[j] = s[i]
    BY <1>1, <2>1, <2>2
  <2> QED BY <2>1, <2>3, Zenon DEF j
<1>4. Range(s) \subseteq {Head(s)} \cup Range(t)
  <2> SUFFICES ASSUME NEW i \in 1 .. n
               PROVE  s[i] \in {Head(s)} \cup Range(t)
    BY <1>1 DEF Range
  <2> QED BY <1>1, <1>3 DEF Range
<1>5. Range(t) \subseteq Range(s)
  BY <1>1, <1>2 DEF Range
<1>6. Head(s) \in Range(s) /\ Range(s) \subseteq T
  BY <1>1, <1>2 DEF Range
<1>8. ASSUME ~(n > 1) PROVE Range(s) = {Head(s)}
  <2>1. n = 1
    BY <1>1, <1>8
  <2>2. DOMAIN s = {1}
    BY <1>1, <2>1
  <2> QED BY <1>1, <2>2 DEF Range
<1> QED BY <1>1, <1>4, <1>5, <1>6, <1>7, <1>8 DEF t, n

\* The recursive function in FlattenSeq exists: a first place where it stops
\* being one would have a next value all the same.
LEMMA FlattenExists ==
  ASSUME NEW s, NEW n \in Nat \ {0}
  PROVE  \E f : f = [i \in 1 .. n |-> IF i = 1 THEN s[i] ELSE f[i - 1] \o s[i]]
<1> DEFINE next(f, i) == IF i = 1 THEN s[i] ELSE f[i - 1] \o s[i]
           Upto(f, k) == f = [i \in 1 .. k |-> next(f, i)]
           Missing == {k \in 1 .. n : ~ \E f : Upto(f, k)}
<1>1. SUFFICES ASSUME Missing # {}
               PROVE  FALSE
  <2>1. n \in 1 .. n
    OBVIOUS
  <2> QED BY <2>1
<1>2. Missing \in SUBSET Nat
  <2> HIDE DEF Upto
  <2> QED OBVIOUS
<1>3. PICK m \in Missing : \A k \in Missing : m <= k
  BY <1>1, <1>2, LeastElement
<1>4. m \in Nat /\ m \in 1 .. n /\ ~ \E f : Upto(f, m)
  <2> HIDE DEF Upto
  <2> QED BY <1>3
<1>5. CASE m = 1
  <2> DEFINE f == [i \in 1 .. 1 |-> s[1]]
  <2>1. Upto(f, 1)
    OBVIOUS
  <2> QED BY <1>4, <1>5, <2>1
<1>6. CASE m # 1
  <2>1. m - 1 \in 1 .. n /\ m - 1 \notin Missing
    <3> HIDE DEF Missing
    <3> QED BY <1>3, <1>4, <1>6
  <2>2. PICK f : Upto(f, m - 1)
    <3> HIDE DEF Upto
    <3> QED BY <2>1
  <2> DEFINE g == [i \in 1 .. m |-> IF i = m THEN next(f, m) ELSE f[i]]
  <2>3. \A i \in 1 .. m : i # m => f[i] = next(f, i)
    <3> HIDE DEF next
    <3>1. f = [i \in 1 .. m - 1 |-> next(f, i)]
      BY <2>2
    <3>2. \A i \in 1 .. m - 1 : f[i] = next(f, i)
      BY <3>1
    <3>3. \A i \in 1 .. m : i # m => i \in 1 .. m - 1
      BY <1>4
    <3> QED BY <3>2, <3>3
  <2>4. \A i \in 1 .. m : i # 1 => g[i - 1] = f[i - 1]
    BY <1>4
  <2>5. \A i \in 1 .. m : next(g, i) = next(f, i)
    BY <2>4
  <2>6. \A i \in 1 .. m : g[i] = next(g, i)
    BY <2>3, <2>5
  <2>7. g = [i \in 1 .. m |-> g[i]]
    OBVIOUS
  <2> HIDE DEF g, next
  <2>8. g = [i \in 1 .. m |-> next(g, i)]
    BY <2>6, <2>7
  <2> QED BY <1>4, <2>8
<1> QED BY <1>5, <1>6

\* FlattenSeq has the elements of the sequences it concatenates.
LEMMA FlattenRange ==
  ASSUME NEW T, NEW s, NEW n \in Nat, s \in [1 .. n -> Seq(T)]
  PROVE  /\ FlattenSeq(s) \in Seq(T)
         /\ Range(FlattenSeq(s)) = UNION {Range(s[i]) : i \in 1 .. n}
<1> DEFINE next(f, i) == IF i = 1 THEN s[i] ELSE f[i - 1] \o s[i]
           flat == CHOOSE f : f = [i \in 1 .. n |-> next(f, i)]
           upto(k) == UNION {Range(s[i]) : i \in 1 .. k}
           Wrong == {k \in 1 .. n : ~(flat[k] \in Seq(T) /\ Range(flat[k]) = upto(k))}
<1>1. Len(s) = n /\ s \in Seq(Seq(T)) /\ \A i \in 1 .. n : s[i] \in Seq(T)
  OBVIOUS
<1>2. CASE n = 0
  <2>1. s = <<>>
    BY <1>1, <1>2
  <2>2. FlattenSeq(s) = s
    BY <1>1, <1>2 DEF FlattenSeq
  <2>3. 1 .. n = {}
    BY <1>2
  <2>4. Range(<<>>) = {} /\ <<>> \in Seq(T)
    BY DEF Range
  <2> QED BY <2>1, <2>2, <2>3, <2>4
<1>3. CASE n # 0
  <2>1. FlattenSeq(s) = flat[n]
    BY <1>1, <1>3 DEF FlattenSeq
  <2>2. flat = [i \in 1 .. n |-> next(flat, i)]
    <3>0. n \in Nat \ {0}
      BY <1>3
    <3>1. \E f : f = [i \in 1 .. n |-> next(f, i)]
      BY <3>0, FlattenExists, Zenon
    <3> HIDE DEF next
    <3> QED BY <3>1
  <2> HIDE DEF flat
  <2>3. ASSUME Wrong # {} PROVE FALSE
    <3>1. Wrong \in SUBSET Nat
      OBVIOUS
    <3>2. PICK m \in Wrong : \A k \in Wrong : m <= k
      BY <2>3, <3>1, LeastElement
    <3>3. m \in Nat /\ m \in 1 .. n
      BY <3>2
    <3>4. flat[m] = next(flat, m)
      <4> HIDE DEF next
      <4> QED BY <2>2, <3>3
    <3>5. CASE m = 1
      <4>1. flat[m] = s[1] /\ s[1] \in Seq(T)
        BY <1>1, <3>3, <3>4, <3>5
      <4>2. 1 .. 1 = {1}
        OBVIOUS
      <4>3. upto(1) = Range(s[1])
        BY <4>2
      <4> QED BY <3>2, <3>5, <4>1, <4>3
    <3>6. CASE m # 1
      <4>1. m - 1 \in 1 .. n /\ m - 1 \notin Wrong
        <5> HIDE DEF Wrong
        <5> QED BY <3>2, <3>3, <3>6
      <4>2. flat[m - 1] \in Seq(T) /\ Range(flat[m - 1]) = upto(m - 1)
        BY <4>1
      <4>3. s[m] \in Seq(T)
        BY <1>1, <3>3
      <4>4. flat[m] = flat[m - 1] \o s[m]
        BY <3>4, <3>6
      <4>5. 1 .. m = 1 .. m - 1 \cup {m}
        BY <3>3
      <4>6. upto(m) = upto(m - 1) \cup Range(s[m])
        BY <4>5
      <4> HIDE DEF upto
      <4>7. flat[m] \in Seq(T) /\ Range(flat[m]) = upto(m)
        BY <4>2, <4>3, <4>4, <4>6, ConcatRange
      <4> QED BY <3>2, <4>7
    <3> QED BY <3>5, <3>6
  <2>4. n \in 1 .. n
    BY <1>3
  <2>5. flat[n] \in Seq(T) /\ Range(flat[n]) = upto(n)
    BY <2>3, <2>4
  <2> QED BY <2>1, <2>5
<1> QED BY <1>2, <1>3

\* The models to upload are the missing ones, in the order of the catalog.
LEMMA InOrderRange ==
  ASSUME NEW S
  PROVE  InOrder(S) \in Seq(Range(Models)) /\ Range(InOrder(S)) = Range(Models) \cap S
<1> DEFINE n == Len(Models)
           s == [i \in DOMAIN Models |-> IF Models[i] \in S THEN <<Models[i]>> ELSE <<>>]
<1>1. n \in Nat /\ DOMAIN Models = 1 .. n
  BY CatalogAssumption
<1>2. \A i \in 1 .. n : Models[i] \in Range(Models)
  BY <1>1 DEF Range
<1>3. s \in [1 .. n -> Seq(Range(Models))]
  BY <1>1, <1>2
<1>4. \A i \in 1 .. n : Range(s[i]) = IF Models[i] \in S THEN {Models[i]} ELSE {}
  <2>1. ASSUME NEW x PROVE Range(<<x>>) = {x}
    BY DEF Range
  <2>2. Range(<<>>) = {}
    BY DEF Range
  <2>3. \A i \in 1 .. n : s[i] = IF Models[i] \in S THEN <<Models[i]>> ELSE <<>>
    BY <1>1
  <2> HIDE DEF s
  <2> QED BY <2>1, <2>2, <2>3
<1>5. InOrder(S) = FlattenSeq(s)
  BY DEF InOrder
<1> HIDE DEF s, n
<1>6. /\ InOrder(S) \in Seq(Range(Models))
      /\ Range(InOrder(S)) = UNION {Range(s[i]) : i \in 1 .. n}
  BY <1>1, <1>3, <1>5, FlattenRange
<1>7. Range(Models) = {Models[i] : i \in 1 .. n}
  BY <1>1 DEF Range
<1>8. UNION {Range(s[i]) : i \in 1 .. n} = Range(Models) \cap S
  BY <1>4, <1>7
<1> QED BY <1>6, <1>8

\* The loop of downloadModels goes through the pins of the models, and no other.
LEMMA ConvertRange ==
  ASSUME catalog \in Catalogs, NEW models \in Seq(Range(Models))
  PROVE  /\ convertModels(models) \in Seq(PinsOf(models))
         /\ Range(convertModels(models)) = PinsOf(models)
         /\ models # <<>> => convertModels(models) # <<>>
         /\ PinsOf(models) \subseteq Pins
<1> DEFINE n == Len(models)
           s == [i \in DOMAIN models |-> catalog[models[i]]]
<1>1. n \in Nat /\ DOMAIN models = 1 .. n /\ \A i \in 1 .. n : models[i] \in Range(Models)
  OBVIOUS
<1>2. catalog \in [Range(Models) -> Seq(Pins) \ {<<>>}]
  BY CatalogAssumption
<1>3. \A i \in 1 .. n : s[i] = catalog[models[i]] /\ s[i] \in Seq(Pins) \ {<<>>}
  BY <1>1, <1>2
<1>4. Range(models) = {models[i] : i \in 1 .. n}
  BY <1>1 DEF Range
<1>5. \A i \in 1 .. n : Range(s[i]) \subseteq PinsOf(models)
  BY <1>3, <1>4 DEF PinsOf
<1>6. \A i \in 1 .. n : s[i] \in Seq(PinsOf(models))
  <2> SUFFICES ASSUME NEW i \in 1 .. n PROVE s[i] \in Seq(PinsOf(models))
    OBVIOUS
  <2>1. s[i] \in Seq(Pins) /\ Range(s[i]) \subseteq PinsOf(models)
    BY <1>3, <1>5
  <2> DEFINE q == s[i]
  <2> HIDE DEF q
  <2>2. q \in Seq(Pins) => (Range(q) \subseteq PinsOf(models) => q \in Seq(PinsOf(models)))
    BY DEF Range
  <2> QED BY <2>1, <2>2 DEF q
<1>7. s \in [1 .. n -> Seq(PinsOf(models))]
  <2>1. s = [i \in 1 .. n |-> s[i]]
    BY <1>1
  <2> HIDE DEF s
  <2> QED BY <1>6, <2>1
<1>8. convertModels(models) = FlattenSeq(s)
  BY DEF convertModels
<1>9. PinsOf(models) = UNION {Range(s[i]) : i \in 1 .. n}
  <2>1. PinsOf(models) = UNION {Range(catalog[models[i]]) : i \in 1 .. n}
    <3> HIDE DEF n
    <3> QED BY <1>4 DEF PinsOf
  <2> HIDE DEF s, n
  <2> QED BY <1>3, <2>1
<1> HIDE DEF s, n
<1>10. /\ convertModels(models) \in Seq(PinsOf(models))
       /\ Range(convertModels(models)) = PinsOf(models)
  BY <1>1, <1>7, <1>8, <1>9, FlattenRange
<1>11. ASSUME models # <<>> PROVE convertModels(models) # <<>>
  <2>1. 1 \in 1 .. n
    BY <1>1, <1>11 DEF n
  <2>2. s[1] \in Seq(Pins) \ {<<>>}
    BY <1>3, <2>1
  <2>3. Head(s[1]) \in Range(s[1])
    BY <2>2, HeadAndTail
  <2>4. Head(s[1]) \in Range(convertModels(models))
    BY <1>9, <1>10, <2>1, <2>3
  <2>5. Range(<<>>) = {}
    BY DEF Range
  <2> QED BY <2>4, <2>5
<1>12. PinsOf(models) \subseteq Pins
  <2>1. \A i \in 1 .. n : Range(s[i]) \subseteq Pins
    <3> SUFFICES ASSUME NEW i \in 1 .. n PROVE Range(s[i]) \subseteq Pins
      OBVIOUS
    <3> QED BY <1>3, HeadAndTail
  <2> QED BY <1>9, <2>1
<1> QED BY <1>10, <1>11, <1>12

-----------------------------------------------------------------------------
(* The files that the model server loads                                   *)

\* A directory that has all the files to load, and possibly others of the
\* commit, makes RemoveUnselected choose the same files as planDownload did:
\* what the others are never changes the choice.
LEMMA SelectStable ==
  ASSUME NEW all, NEW paths \in SUBSET all, Select(all) \subseteq paths
  PROVE  Select(paths) = Select(all)
<1>1. \A p \in all : keep(p, all) => p \in paths
  BY DEF Select
<1>2. "safetensors" \notin skippedExts /\ "." \notin skippedDirs
  BY DEF skippedExts, skippedDirs
<1>3. HasConsolidated(paths) <=> HasConsolidated(all)
  <2>1. HasConsolidated(paths) => HasConsolidated(all)
    BY DEF HasConsolidated
  <2>2. ASSUME NEW p \in all, isRoot(p), isConsolidated(p)
        PROVE  p \in paths
    BY <1>1, <1>2, <2>2 DEF keep, isWeight, rootWeights, isRoot, isConsolidated,
                            HasRootSafetensors
  <2> QED BY <2>1, <2>2 DEF HasConsolidated
<1>4. HasRootSafetensors(paths) <=> HasRootSafetensors(all)
  <2>1. HasRootSafetensors(paths) => HasRootSafetensors(all)
    BY DEF HasRootSafetensors
  <2>2. ASSUME NEW p \in all, isRoot(p), p.ext = "safetensors", ~HasConsolidated(all)
        PROVE  p \in paths
    BY <1>1, <1>2, <2>2 DEF keep, isWeight, rootWeights, isRoot, HasRootSafetensors
  <2>3. HasConsolidated(paths) => HasRootSafetensors(paths)
    BY DEF HasConsolidated, HasRootSafetensors, isConsolidated
  <2> QED BY <1>3, <2>1, <2>2, <2>3 DEF HasRootSafetensors
<1>5. \A p \in all : p.dir \notin skippedDirs /\ p.dir # "." =>
        (p.dir \in dirsWithSafetensors(paths) <=> p.dir \in dirsWithSafetensors(all))
  <2> SUFFICES ASSUME NEW p \in all, p.dir \notin skippedDirs, p.dir # ".",
                      p.dir \in dirsWithSafetensors(all)
               PROVE  p.dir \in dirsWithSafetensors(paths)
    BY DEF dirsWithSafetensors
  <2>1. PICK q \in all : q.ext = "safetensors" /\ q.dir = p.dir
    BY DEF dirsWithSafetensors
  <2>2. keep(q, all)
    BY <1>2, <2>1 DEF keep, isRoot
  <2> QED BY <1>1, <2>1, <2>2 DEF dirsWithSafetensors
<1>6. \A p \in paths : keep(p, paths) <=> keep(p, all)
  BY <1>3, <1>4, <1>5 DEF keep, isRoot, rootWeights
<1> QED BY <1>1, <1>6 DEF Select

-----------------------------------------------------------------------------
(* Directories of the cache                                                *)

\* A set of snapshots maps commits of the repository to files they have.
LEMMA SnapshotsAre ==
  ASSUME NEW id \in DOMAIN Hub, NEW s
  PROVE  s \in Snapshots(id) <=>
           /\ s = [c \in DOMAIN s |-> s[c]]
           /\ DOMAIN s \subseteq DOMAIN Hub[id]
           /\ \A c \in DOMAIN s : s[c] \subseteq DOMAIN Hub[id][c]
<1>1. ASSUME s \in Snapshots(id)
      PROVE  /\ s = [c \in DOMAIN s |-> s[c]]
             /\ DOMAIN s \subseteq DOMAIN Hub[id]
             /\ \A c \in DOMAIN s : s[c] \subseteq DOMAIN Hub[id][c]
  <2>1. PICK C \in SUBSET DOMAIN Hub[id] : s \in [C -> SUBSET Paths(id)]
    BY <1>1 DEF Snapshots
  <2> QED BY <1>1, <2>1 DEF Snapshots
<1>2. ASSUME s = [c \in DOMAIN s |-> s[c]], DOMAIN s \subseteq DOMAIN Hub[id],
             \A c \in DOMAIN s : s[c] \subseteq DOMAIN Hub[id][c]
      PROVE  s \in Snapshots(id)
  <2>1. \A c \in DOMAIN s : s[c] \in SUBSET Paths(id)
    BY <1>2 DEF Paths
  <2>2. s \in [DOMAIN s -> SUBSET Paths(id)]
    BY <1>2, <2>1
  <2> QED BY <1>2, <2>2 DEF Snapshots
<1> QED BY <1>1, <1>2

\* A file is taken out of one snapshot.
LEMMA PathRemoved ==
  ASSUME NEW id \in DOMAIN Hub, NEW s \in Snapshots(id), NEW c \in DOMAIN s, NEW p,
         NEW t, t = [s EXCEPT ![c] = s[c] \ {p}]
  PROVE  /\ t \in Snapshots(id) /\ DOMAIN t = DOMAIN s
         /\ \A x \in DOMAIN s : t[x] = IF x = c THEN s[c] \ {p} ELSE s[x]
<1>1. /\ s = [x \in DOMAIN s |-> s[x]] /\ DOMAIN s \subseteq DOMAIN Hub[id]
      /\ \A x \in DOMAIN s : s[x] \subseteq DOMAIN Hub[id][x]
  BY SnapshotsAre
<1>2. /\ t = [x \in DOMAIN s |-> IF x = c THEN s[c] \ {p} ELSE s[x]]
      /\ DOMAIN t = DOMAIN s
  BY <1>1
<1>3. \A x \in DOMAIN s : t[x] = IF x = c THEN s[c] \ {p} ELSE s[x]
  BY <1>2
<1>4. t = [x \in DOMAIN t |-> t[x]]
  BY <1>2
<1>5. \A x \in DOMAIN t : t[x] \subseteq DOMAIN Hub[id][x]
  BY <1>1, <1>2, <1>3
<1>6. t \in Snapshots(id)
  BY <1>1, <1>2, <1>4, <1>5, SnapshotsAre
<1> QED BY <1>2, <1>3, <1>6

\* A snapshot is taken out.
LEMMA SnapshotRemoved ==
  ASSUME NEW id \in DOMAIN Hub, NEW s \in Snapshots(id), NEW c,
         NEW t, t = [x \in DOMAIN s \ {c} |-> s[x]]
  PROVE  /\ t \in Snapshots(id) /\ DOMAIN t = DOMAIN s \ {c}
         /\ \A x \in DOMAIN s \ {c} : t[x] = s[x]
<1>1. /\ DOMAIN s \subseteq DOMAIN Hub[id]
      /\ \A x \in DOMAIN s : s[x] \subseteq DOMAIN Hub[id][x]
  BY SnapshotsAre
<1>2. /\ DOMAIN t = DOMAIN s \ {c} /\ t = [x \in DOMAIN t |-> t[x]]
      /\ \A x \in DOMAIN s \ {c} : t[x] = s[x]
  OBVIOUS
<1>3. t \in Snapshots(id)
  BY <1>1, <1>2, SnapshotsAre
<1> QED BY <1>2, <1>3

\* A file of a commit is put into its snapshot, which may be new.
LEMMA PathAdded ==
  ASSUME NEW id \in DOMAIN Hub, NEW s \in Snapshots(id), NEW c \in DOMAIN Hub[id],
         NEW p \in DOMAIN Hub[id][c], NEW L, L = IF c \in DOMAIN s THEN s[c] ELSE {},
         NEW t, t = [x \in DOMAIN s \cup {c} |-> IF x = c THEN L \cup {p} ELSE s[x]]
  PROVE  /\ t \in Snapshots(id) /\ DOMAIN t = DOMAIN s \cup {c}
         /\ \A x \in DOMAIN t : t[x] = IF x = c THEN L \cup {p} ELSE s[x]
<1>1. /\ DOMAIN s \subseteq DOMAIN Hub[id]
      /\ \A x \in DOMAIN s : s[x] \subseteq DOMAIN Hub[id][x]
  BY SnapshotsAre
<1>2. /\ DOMAIN t = DOMAIN s \cup {c} /\ t = [x \in DOMAIN t |-> t[x]]
      /\ \A x \in DOMAIN t : t[x] = IF x = c THEN L \cup {p} ELSE s[x]
  OBVIOUS
<1>3. L \subseteq DOMAIN Hub[id][c]
  BY <1>1
<1>4. \A x \in DOMAIN t : t[x] \subseteq DOMAIN Hub[id][x]
  BY <1>1, <1>2, <1>3
<1>5. t \in Snapshots(id)
  BY <1>1, <1>2, <1>4, SnapshotsAre
<1> QED BY <1>2, <1>5

\* The fields of a directory, and a directory from its fields.
LEMMA DirectoryFields ==
  ASSUME NEW id, NEW d \in Directories(id)
  PROVE  /\ d.snapshots \in Snapshots(id) /\ d.blobs \in SUBSET Blobs(id)
         /\ d.ref \in DOMAIN Hub[id] \cup {None, Empty}
         /\ d.marker \in Revisions \cup {None, Empty}
BY DEF Directories

\* Changing one field of a directory leaves the others.
LEMMA DirectoryEdits ==
  ASSUME NEW id, NEW d \in Directories(id)
  PROVE  /\ \A s \in Snapshots(id) : LET e == [d EXCEPT !.snapshots = s] IN
              /\ e \in Directories(id) /\ e.snapshots = s
              /\ e.blobs = d.blobs /\ e.ref = d.ref /\ e.marker = d.marker
         /\ \A b \in SUBSET Blobs(id) : LET e == [d EXCEPT !.blobs = b] IN
              /\ e \in Directories(id) /\ e.blobs = b
              /\ e.snapshots = d.snapshots /\ e.ref = d.ref /\ e.marker = d.marker
         /\ \A r \in DOMAIN Hub[id] \cup {None, Empty} : LET e == [d EXCEPT !.ref = r] IN
              /\ e \in Directories(id) /\ e.ref = r
              /\ e.snapshots = d.snapshots /\ e.blobs = d.blobs /\ e.marker = d.marker
         /\ \A r \in Revisions \cup {None, Empty} : LET e == [d EXCEPT !.marker = r] IN
              /\ e \in Directories(id) /\ e.marker = r
              /\ e.snapshots = d.snapshots /\ e.blobs = d.blobs /\ e.ref = d.ref
<1> DEFINE R == DOMAIN Hub[id] \cup {None, Empty}
           M == Revisions \cup {None, Empty}
           S == Snapshots(id)
           B == SUBSET Blobs(id)
<1>1. Directories(id) = [snapshots : S, blobs : B, ref : R, marker : M]
  BY DEF Directories
<1> HIDE DEF R, M, S, B
<1>2. \A s \in S : LET e == [d EXCEPT !.snapshots = s] IN
        /\ e \in Directories(id) /\ e.snapshots = s
        /\ e.blobs = d.blobs /\ e.ref = d.ref /\ e.marker = d.marker
  BY <1>1
<1>3. \A b \in B : LET e == [d EXCEPT !.blobs = b] IN
        /\ e \in Directories(id) /\ e.blobs = b
        /\ e.snapshots = d.snapshots /\ e.ref = d.ref /\ e.marker = d.marker
  BY <1>1
<1>4. \A r \in R : LET e == [d EXCEPT !.ref = r] IN
        /\ e \in Directories(id) /\ e.ref = r
        /\ e.snapshots = d.snapshots /\ e.blobs = d.blobs /\ e.marker = d.marker
  BY <1>1
<1>5. \A r \in M : LET e == [d EXCEPT !.marker = r] IN
        /\ e \in Directories(id) /\ e.marker = r
        /\ e.snapshots = d.snapshots /\ e.blobs = d.blobs /\ e.ref = d.ref
  BY <1>1
<1> QED BY <1>2, <1>3, <1>4, <1>5 DEF R, M, S, B

-----------------------------------------------------------------------------
(* The download of one repository                                          *)

\* hub' differs from hub at most in the directory of Pin, which is d.
OnlyDir(d) ==
  /\ DOMAIN hub' = DOMAIN hub /\ hub'[Pin.id] = d
  /\ \A id \in DOMAIN hub \ {Pin.id} : hub'[id] = hub[id]

\* While a repository is downloaded, Pin is one of the models to upload.
LEMMA PinFacts ==
  ASSUME TypeOK, Looping, phase \in Downloading
  PROVE  /\ Pin \in Pins /\ Pin \in PinsOf(toUpload) /\ Pin \in Range(todo)
         /\ todo \in Seq(PinsOf(toUpload)) \ {<<>>}
         /\ Pin.id \in DOMAIN Hub /\ Dir \in Directories(Pin.id)
         /\ Pin.revision \in Revisions /\ Commit[Pin.revision] \in DOMAIN Hub[Pin.id]
<1>1. todo \in Seq(PinsOf(toUpload)) \ {<<>>}
  BY DEF Looping
<1>2. Pin \in PinsOf(toUpload) /\ Pin \in Range(todo)
  BY <1>1, HeadAndTail DEF Pin
<1>3. PinsOf(toUpload) \subseteq Pins
  BY ConvertRange DEF TypeOK
<1>4. Pin \in Pins
  BY <1>2, <1>3
<1> HIDE DEF Pins
<1>5. Pin.id \in DOMAIN Hub /\ Commit[Pin.revision] \in DOMAIN Hub[Pin.id]
  BY <1>4, CatalogAssumption
<1>6. Dir \in Directories(Pin.id)
  BY <1>5 DEF TypeOK, Dir
<1>7. Pin.revision \in Revisions
  BY <1>4 DEF Revisions
<1> QED BY <1>1, <1>2, <1>4, <1>5, <1>6, <1>7

\* Setting the directory of Pin changes no other.
LEMMA SetDirOnly ==
  ASSUME TypeOK, Pin.id \in DOMAIN Hub, NEW d, SetDir(d)
  PROVE  OnlyDir(d)
BY DEF TypeOK, SetDir, OnlyDir

\* Leaving the directories alone leaves that of Pin alone.
LEMMA SameDirOnly ==
  ASSUME UNCHANGED hub
  PROVE  OnlyDir(Dir)
BY DEF OnlyDir, Dir

\* All of StageInv but what is said about the phases of the removal.
Framed == /\ TypeOK /\ Looping /\ MarkerTrue /\ NamelessTrue
          /\ Mirroring /\ Caching /\ Copying /\ OneCachedArtifact

\* The two parts make up the invariant.
LEMMA StageParts == StageInv <=> Framed /\ Trimming
BY DEF StageInv, Framed

\* What a marker in d vouches for is there.
Marked(d) ==
  \A pin \in Pins : pin.id = Pin.id /\ d.marker = pin.revision => Finished(d, pin)

Sure(d) ==
  \A pin \in Pins :
    /\ pin.id = Pin.id /\ d.marker = Empty /\ HasSnapshot(d, pin.revision)
    /\ pin.id \notin doubtful /\ ~ Underway(pin)'
    => Finished(d, pin)

\* Empty is the marker of no revision.
LEMMA EmptyIsNone ==
  /\ \A pin \in Pins : pin.revision # Empty /\ pin.revision # None
  /\ Empty # None /\ Empty \notin Revisions
<1>1. \A pin \in Pins : pin.revision \in Revisions
  BY DEF Revisions
<1> QED BY <1>1, CatalogAssumption

\* The directories as they are satisfy both, unless a snapshot is underway.
LEMMA DirMarked ==
  ASSUME StageInv, phase \in Downloading
  PROVE  /\ Marked(Dir)
         /\ \A pin \in Pins :
              /\ pin.id = Pin.id /\ Dir.marker = Empty /\ HasSnapshot(Dir, pin.revision)
              /\ pin.id \notin doubtful /\ ~ Underway(pin)
              => Finished(Dir, pin)
         /\ phase \notin {"fetch", "snapshots"} => Sure(Dir)
<1>1. MarkerTrue /\ NamelessTrue
  BY DEF StageInv
<1>2. Marked(Dir)
  BY <1>1 DEF Marked, MarkerTrue, Dir
<1>3. ASSUME NEW pin \in Pins, pin.id = Pin.id, Dir.marker = Empty,
             HasSnapshot(Dir, pin.revision), pin.id \notin doubtful, ~ Underway(pin)
      PROVE  Finished(Dir, pin)
  BY <1>1, <1>3 DEF NamelessTrue, Dir
<1>4. phase \notin {"fetch", "snapshots"} => \A pin \in Pins : ~ Underway(pin)
  BY DEF Underway
<1>5. phase \notin {"fetch", "snapshots"} => Sure(Dir)
  BY <1>3, <1>4 DEF Sure
<1> QED BY <1>2, <1>3, <1>5

\* A step of the download of one repository: what it does not touch.
LEMMA DownloadFrame ==
  ASSUME StageInv, phase \in Downloading, phase' \in Downloading,
         UNCHANGED <<ociVars, registryVars, runVars, doubtful, toUpload, todo, failed, faults>>,
         NEW d \in Directories(Pin.id), OnlyDir(d), Marked(d), Sure(d)
  PROVE  /\ Framed'
         /\ Pin' = Pin /\ Dir' = d
<1>1. /\ TypeOK /\ Looping /\ MarkerTrue /\ NamelessTrue /\ Mirroring
      /\ Copying /\ OneCachedArtifact
  BY DEF StageInv
<1>2. /\ oci' = oci /\ harbor' = harbor /\ images' = images /\ catalog' = catalog
      /\ serve' = serve /\ uninstall' = uninstall /\ wanted' = wanted
      /\ toUpload' = toUpload /\ todo' = todo /\ failed' = failed
      /\ copies' = copies /\ doubtful' = doubtful /\ faults' = faults
  BY DEF registryVars, runVars, ociVars
<1>3. Pin' = Pin /\ Dir' = d
  BY <1>2 DEF Pin, Dir, OnlyDir
<1>4. \A id \in DOMAIN Hub : hub'[id] = IF id = Pin.id THEN d ELSE hub[id]
  BY <1>1 DEF TypeOK, OnlyDir
<1>5. /\ phase # "recover" /\ phase' # "recover" /\ phase \in Working /\ phase' \in Working
      /\ phase' \notin Uploading \cup {"check", "report", "images", "delete", "done", "idle"}
      /\ phase \notin Uploading \cup {"check", "report", "images", "delete", "done", "idle"}
      /\ phase # "gc" /\ phase' # "gc"
  BY DEF Downloading, Uploading, Working
<1>6. Doing = phase /\ Doing' = phase'
  BY <1>5 DEF Doing
<1>7. TypeOK'
  <2>1. DOMAIN hub' = DOMAIN Hub /\ \A id \in DOMAIN Hub : hub'[id] \in Directories(id)
    BY <1>1, <1>4 DEF TypeOK, OnlyDir
  <2> QED BY <1>1, <1>2, <1>5, <1>6, <2>1 DEF TypeOK
<1>8. Looping'
  BY <1>1, <1>2, <1>5, <1>6 DEF Looping, PinsOf
<1>9. MarkerTrue'
  <2> SUFFICES ASSUME NEW pin \in Pins, hub'[pin.id].marker = pin.revision
               PROVE  Finished(hub'[pin.id], pin)
    BY DEF MarkerTrue
  <2>1. pin.id \in DOMAIN Hub
    BY CatalogAssumption
  <2> QED BY <1>1, <1>4, <2>1 DEF MarkerTrue, Marked
<1>10. Mirroring'
  BY <1>1, <1>2, <1>5, <1>6 DEF Mirroring, Ref
<1>11. Caching'
  BY <1>5 DEF Caching, Uploading
<1>12. OneCachedArtifact' /\ Copying'
  BY <1>1, <1>2, <1>5 DEF OneCachedArtifact, Copying, Untagged, Tagged
<1>13. NamelessTrue'
  <2> SUFFICES ASSUME NEW pin \in Pins, hub'[pin.id].marker = Empty,
                      HasSnapshot(hub'[pin.id], pin.revision),
                      pin.id \notin doubtful', ~ Underway(pin)'
               PROVE  Finished(hub'[pin.id], pin)
    BY DEF NamelessTrue
  <2>1. pin.id \in DOMAIN Hub
    BY CatalogAssumption
  <2>2. CASE pin.id = Pin.id
    BY <1>2, <1>4, <2>1, <2>2 DEF Sure
  <2>3. CASE pin.id # Pin.id
    <3>1. ~ Underway(pin)
      BY <2>3 DEF Underway
    <3> QED BY <1>1, <1>2, <1>4, <2>1, <2>3, <3>1 DEF NamelessTrue
  <2> QED BY <2>2, <2>3
<1> QED BY <1>3, <1>7, <1>8, <1>9, <1>10, <1>11, <1>12, <1>13 DEF Framed

\* What RemoveUnselected removes of a finished download is what planDownload
\* did not choose.
LEMMA UnselectedIs ==
  ASSUME NEW pin \in Pins, NEW d \in Directories(pin.id), Finished(d, pin)
  PROVE  Unselected(d, pin.revision) = Linked(d, pin.revision) \ planDownload(pin)
<1>1. CASE HasSnapshot(d, pin.revision)
  <2>1. pin.id \in DOMAIN Hub
    BY CatalogAssumption
  <2>2. d.snapshots \in Snapshots(pin.id)
    BY DirectoryFields
  <2>3. /\ pin.revision \in DOMAIN Hub[pin.id]
        /\ Linked(d, pin.revision) \subseteq DOMAIN Hub[pin.id][pin.revision]
    BY <1>1, <2>1, <2>2, SnapshotsAre DEF HasSnapshot, Linked
  <2>4. Commit[pin.revision] = pin.revision
    BY <2>3, CatalogAssumption
  <2>5. planDownload(pin) = Select(DOMAIN Hub[pin.id][pin.revision])
    BY <2>4 DEF planDownload
  <2>6. planDownload(pin) \subseteq Linked(d, pin.revision)
    BY <2>4 DEF Finished
  <2>7. Select(Linked(d, pin.revision)) = planDownload(pin)
    BY <2>3, <2>5, <2>6, SelectStable
  <2> QED BY <2>7 DEF Unselected
<1>2. CASE ~HasSnapshot(d, pin.revision)
  BY <1>2 DEF Unselected, Linked
<1> QED BY <1>1, <1>2

\* A snapshot named by the pinned revision is the one of the pinned commit.
LEMMA NamedByCommit ==
  ASSUME NEW pin \in Pins, NEW d \in Directories(pin.id), HasSnapshot(d, pin.revision)
  PROVE  Commit[pin.revision] = pin.revision
<1>1. pin.id \in DOMAIN Hub
  BY CatalogAssumption
<1>2. d.snapshots \in Snapshots(pin.id)
  BY DirectoryFields
<1>3. pin.revision \in DOMAIN Hub[pin.id]
  BY <1>1, <1>2, SnapshotsAre DEF HasSnapshot
<1> QED BY <1>3, CatalogAssumption

\* A finished download stays one as long as nothing is taken away.
LEMMA FinishedGrows ==
  ASSUME NEW pin, NEW d, NEW e, Finished(d, pin), d.blobs \subseteq e.blobs,
         Linked(d, Commit[pin.revision]) \subseteq Linked(e, Commit[pin.revision])
  PROVE  Finished(e, pin)
BY DEF Finished

\* Prepare reuses a directory only on the word of the marker of this pin.
LEMMA PrepareStage == ASSUME StageInv, Prepare PROVE StageInv'
<1>1. phase = "prepare" /\ phase \in Downloading /\ phase' \in {"reuse", "fetch"} /\ phase' \in Downloading
  BY DEF Prepare, Goto, Downloading
<1>2. TypeOK /\ Looping
  BY DEF StageInv
<1>3. Pin \in Pins /\ Dir \in Directories(Pin.id) /\ Pin.id \in DOMAIN Hub
  BY <1>1, <1>2, PinFacts
<1>4. OnlyDir(Dir)
  BY SameDirOnly DEF Prepare, cacheVars
<1>5. UNCHANGED <<ociVars, registryVars, runVars, doubtful, toUpload, todo, failed, faults>>
  BY DEF Prepare, Goto, cacheVars, ociVars
<1>6. Marked(Dir) /\ Sure(Dir)
  BY <1>1, DirMarked
<1>7. /\ Framed'
      /\ Pin' = Pin /\ Dir' = Dir
  BY <1>1, <1>3, <1>4, <1>5, <1>6, DownloadFrame
<1>8. phase' = "reuse" => complete(Dir, Pin.revision)
  BY DEF Prepare, Goto
<1>9. Trimming'
  BY <1>1, <1>7, <1>8 DEF Trimming
<1> QED BY <1>7, <1>9 DEF StageInv, Framed

\* The CLI only adds files and blobs.
LEMMA FetchAdds ==
  ASSUME StageInv, fetchFile
  PROVE  \E d \in Directories(Pin.id), p \in Pending(Dir, Pin) :
           /\ OnlyDir(d) /\ d.ref = Dir.ref /\ d.marker = Dir.marker
           /\ \/ /\ d.snapshots = Dir.snapshots
                 /\ d.blobs = Dir.blobs \cup {Hub[Pin.id][Commit[Pin.revision]][p]}
              \/ /\ d.blobs = Dir.blobs
                 /\ DOMAIN d.snapshots = DOMAIN Dir.snapshots \cup {Commit[Pin.revision]}
                 /\ \A c \in DOMAIN d.snapshots :
                      d.snapshots[c] = IF c = Commit[Pin.revision]
                                       THEN Linked(Dir, Commit[Pin.revision]) \cup {p}
                                       ELSE Dir.snapshots[c]
<1> DEFINE commit == Commit[Pin.revision]
           old == Dir.snapshots
<1>1. phase \in Downloading
  BY DEF fetchFile, Downloading
<1>2. TypeOK /\ Looping
  BY DEF StageInv
<1>3. /\ Pin \in Pins /\ Dir \in Directories(Pin.id) /\ Pin.id \in DOMAIN Hub
      /\ commit \in DOMAIN Hub[Pin.id]
  BY <1>1, <1>2, PinFacts
<1>4. PICK p \in Pending(Dir, Pin) :
        SetDir(IF Hub[Pin.id][commit][p] \in Dir.blobs
               THEN [Dir EXCEPT !.snapshots = Linking(Dir, commit, p)]
               ELSE [Dir EXCEPT !.blobs = Dir.blobs \cup {Hub[Pin.id][commit][p]}])
  BY DEF fetchFile
<1>5. p \in DOMAIN Hub[Pin.id][commit]
  BY DEF Pending, planDownload, Select
<1>6. old \in Snapshots(Pin.id) /\ Dir.blobs \in SUBSET Blobs(Pin.id)
  BY <1>3, DirectoryFields
<1>7. CASE Hub[Pin.id][commit][p] \in Dir.blobs
  <2> DEFINE grown == Linking(Dir, commit, p)
             d == [Dir EXCEPT !.snapshots = grown]
  <2>1. /\ grown \in Snapshots(Pin.id) /\ DOMAIN grown = DOMAIN old \cup {commit}
        /\ \A c \in DOMAIN grown : grown[c] = IF c = commit THEN Linked(Dir, commit) \cup {p}
                                                            ELSE old[c]
    <3> DEFINE L == Linked(Dir, commit)
    <3>1. L = IF commit \in DOMAIN old THEN old[commit] ELSE {}
      BY DEF Linked, HasSnapshot
    <3>2. grown = [c \in DOMAIN old \cup {commit} |-> IF c = commit THEN L \cup {p} ELSE old[c]]
      BY DEF Linking
    <3> HIDE DEF commit, old, L, grown
    <3>3. /\ grown \in Snapshots(Pin.id) /\ DOMAIN grown = DOMAIN old \cup {commit}
          /\ \A c \in DOMAIN grown : grown[c] = IF c = commit THEN L \cup {p} ELSE old[c]
      BY <1>3, <1>5, <1>6, <3>1, <3>2, PathAdded
    <3> QED BY <3>3 DEF L
  <2> HIDE DEF grown
  <2>2. /\ d \in Directories(Pin.id) /\ d.snapshots = grown
        /\ d.blobs = Dir.blobs /\ d.ref = Dir.ref /\ d.marker = Dir.marker
    BY <1>3, <2>1, DirectoryEdits
  <2>3. SetDir(d)
    BY <1>4, <1>7 DEF grown
  <2> HIDE DEF d
  <2>4. OnlyDir(d)
    BY <1>2, <1>3, <2>3, SetDirOnly
  <2> QED BY <2>1, <2>2, <2>4
<1>8. CASE Hub[Pin.id][commit][p] \notin Dir.blobs
  <2> DEFINE blobs == Dir.blobs \cup {Hub[Pin.id][commit][p]}
             d == [Dir EXCEPT !.blobs = blobs]
  <2>1. blobs \in SUBSET Blobs(Pin.id)
    BY <1>3, <1>5, <1>6 DEF Blobs, Range
  <2>2. SetDir(d)
    BY <1>4, <1>8
  <2> HIDE DEF blobs
  <2>3. /\ d \in Directories(Pin.id) /\ d.blobs = blobs
        /\ d.snapshots = Dir.snapshots /\ d.ref = Dir.ref /\ d.marker = Dir.marker
    BY <1>3, <2>1, DirectoryEdits
  <2> HIDE DEF d
  <2>4. OnlyDir(d)
    BY <1>2, <1>3, <2>2, SetDirOnly
  <2> QED BY <2>3, <2>4 DEF blobs
<1> QED BY <1>7, <1>8

\* A download leaves what is finished finished.
LEMMA FetchStage == ASSUME StageInv, fetchFile PROVE StageInv'
<1>1. phase = "fetch" /\ phase' = "fetch" /\ phase \in Downloading /\ phase' \in Downloading
  BY DEF fetchFile, Downloading
<1>2. TypeOK /\ Looping
  BY DEF StageInv
<1>3. PICK d \in Directories(Pin.id), p \in Pending(Dir, Pin) :
        /\ OnlyDir(d) /\ d.ref = Dir.ref /\ d.marker = Dir.marker
        /\ \/ /\ d.snapshots = Dir.snapshots
              /\ d.blobs = Dir.blobs \cup {Hub[Pin.id][Commit[Pin.revision]][p]}
           \/ /\ d.blobs = Dir.blobs
              /\ DOMAIN d.snapshots = DOMAIN Dir.snapshots \cup {Commit[Pin.revision]}
              /\ \A c \in DOMAIN d.snapshots :
                   d.snapshots[c] = IF c = Commit[Pin.revision]
                                    THEN Linked(Dir, Commit[Pin.revision]) \cup {p}
                                    ELSE Dir.snapshots[c]
  BY FetchAdds
<1>4. Dir.blobs \subseteq d.blobs /\ \A c : Linked(Dir, c) \subseteq Linked(d, c)
  <2>1. Dir.blobs \subseteq d.blobs
    BY <1>3
  <2>2. ASSUME NEW c PROVE Linked(Dir, c) \subseteq Linked(d, c)
    BY <1>3 DEF Linked, HasSnapshot
  <2> QED BY <2>1, <2>2
<1>5. Marked(d)
  <2> SUFFICES ASSUME NEW pin \in Pins, pin.id = Pin.id, d.marker = pin.revision
               PROVE  Finished(d, pin)
    BY DEF Marked
  <2>1. Finished(Dir, pin)
    BY <1>1, <1>3, DirMarked DEF Marked
  <2> QED BY <1>4, <2>1, FinishedGrows
<1>9. Sure(d)
  <2> SUFFICES ASSUME NEW pin \in Pins, pin.id = Pin.id, d.marker = Empty,
                      HasSnapshot(d, pin.revision), pin.id \notin doubtful, ~ Underway(pin)'
               PROVE  Finished(d, pin)
    BY DEF Sure
  <2>1. Pin' = Pin /\ todo' = todo
    BY DEF fetchFile, Pin
  <2>2. pin.revision # Commit[Pin.revision] /\ ~ Underway(pin)
    BY <1>1, <2>1 DEF Underway
  <2>3. HasSnapshot(Dir, pin.revision)
    BY <1>3, <2>2 DEF HasSnapshot
  <2>4. Finished(Dir, pin)
    BY <1>1, <1>3, <2>2, <2>3, DirMarked
  <2> QED BY <1>4, <2>4, FinishedGrows
<1>6. UNCHANGED <<ociVars, registryVars, runVars, doubtful, toUpload, todo, failed, faults>>
  BY DEF fetchFile
<1>7. Framed'
  BY <1>1, <1>3, <1>5, <1>6, <1>9, DownloadFrame
<1>8. Trimming'
  BY <1>1 DEF Trimming
<1> QED BY <1>7, <1>8 DEF StageInv, Framed

\* The CLI ends when every file to load is linked and has its blob.
LEMMA DownloadedStage == ASSUME StageInv, downloaded PROVE StageInv'
<1>1. phase = "fetch" /\ phase' = "ref" /\ phase \in Downloading /\ phase' \in Downloading
  BY DEF downloaded, Goto, Downloading
<1>2. TypeOK /\ Looping
  BY DEF StageInv
<1>3. Pin \in Pins /\ Dir \in Directories(Pin.id)
  BY <1>1, <1>2, PinFacts
<1>4. OnlyDir(Dir)
  BY SameDirOnly DEF downloaded, cacheVars
<1>5. UNCHANGED <<ociVars, registryVars, runVars, doubtful, toUpload, todo, failed, faults>>
  BY DEF downloaded, Goto, cacheVars, ociVars
<1>6. Finished(Dir, Pin)
  <2>1. Pending(Dir, Pin) = {}
    BY DEF downloaded
  <2> QED BY <2>1 DEF Pending, Finished, BlobsOf
<1>8. Marked(Dir) /\ Sure(Dir)
  <2> SUFFICES ASSUME NEW pin \in Pins, pin.id = Pin.id, Dir.marker = Empty,
                      HasSnapshot(Dir, pin.revision), pin.id \notin doubtful
               PROVE  Finished(Dir, pin)
    BY <1>1, DirMarked DEF Sure
  <2>1. CASE Underway(pin)
    <3>1. Commit[pin.revision] = pin.revision /\ pin.revision = Commit[Pin.revision]
      BY <1>1, <1>3, <2>1, NamedByCommit DEF Underway
    <3> QED BY <1>6, <3>1 DEF Finished, planDownload
  <2>2. CASE ~ Underway(pin)
    BY <1>1, <2>2, DirMarked
  <2> QED BY <2>1, <2>2
<1>7. /\ Framed'
      /\ Pin' = Pin /\ Dir' = Dir
  BY <1>1, <1>3, <1>4, <1>5, <1>8, DownloadFrame
<1>9. Trimming'
  BY <1>1, <1>6, <1>7 DEF Trimming
<1> QED BY <1>7, <1>9 DEF StageInv, Framed

\* EnsureRef writes refs/main, and nothing else.
LEMMA RefOnly ==
  ASSUME StageInv, phase \in Downloading, NEW target,
         target \in EnsureRef(Dir, Pin.revision) \cup {Empty},
         SetDir([Dir EXCEPT !.ref = target])
  PROVE  \E d \in Directories(Pin.id) :
           /\ OnlyDir(d) /\ d.ref = target
           /\ d.snapshots = Dir.snapshots /\ d.blobs = Dir.blobs /\ d.marker = Dir.marker
<1>1. TypeOK /\ Looping
  BY DEF StageInv
<1>2. Dir \in Directories(Pin.id) /\ Pin.id \in DOMAIN Hub
  BY <1>1, PinFacts
<1>3. Dir.snapshots \in Snapshots(Pin.id) /\ Dir.ref \in DOMAIN Hub[Pin.id] \cup {None, Empty}
  BY <1>2, DirectoryFields
<1>4. DOMAIN Dir.snapshots \subseteq DOMAIN Hub[Pin.id]
  BY <1>2, <1>3, SnapshotsAre
<1>5. target \in DOMAIN Hub[Pin.id] \cup {None, Empty}
  BY <1>3, <1>4 DEF EnsureRef, HasSnapshot
<1> DEFINE d == [Dir EXCEPT !.ref = target]
<1>6. /\ d \in Directories(Pin.id) /\ d.ref = target
      /\ d.snapshots = Dir.snapshots /\ d.blobs = Dir.blobs /\ d.marker = Dir.marker
  BY <1>2, <1>5, DirectoryEdits
<1>7. OnlyDir(d)
  <2> HIDE DEF d
  <2> QED BY <1>1, <1>2, SetDirOnly DEF d
<1> HIDE DEF d
<1> QED BY <1>6, <1>7

\* What Linked and Finished say depends on the snapshots and the blobs alone.
LEMMA SameFiles ==
  ASSUME NEW d, NEW e, d.snapshots = e.snapshots, d.blobs = e.blobs
  PROVE  /\ \A c : Linked(d, c) = Linked(e, c)
         /\ \A c : HasSnapshot(d, c) <=> HasSnapshot(e, c)
         /\ \A pin : Finished(d, pin) <=> Finished(e, pin)
         /\ \A pin : referencedBlobs(d, pin) = referencedBlobs(e, pin)
BY DEF Linked, HasSnapshot, Finished, referencedBlobs

\* A marker that is right about the pinned revision vouches for its files.
LEMMA VouchedFinished ==
  ASSUME StageInv, phase \in {"reuse", "unselect", "snapshots", "blobs"}, Vouched
  PROVE  Finished(Dir, Pin)
<1>1. phase \in Downloading /\ TypeOK /\ Looping /\ Trimming
  BY DEF Downloading, StageInv
<1>2. Pin \in Pins /\ complete(Dir, Pin.revision)
  BY <1>1, PinFacts DEF Trimming
<1>3. CASE Dir.marker = Pin.revision
  BY <1>1, <1>2, <1>3, DirMarked DEF Marked
<1>4. CASE Dir.marker # Pin.revision
  <2>1. Dir.marker = Empty /\ HasSnapshot(Dir, Pin.revision) /\ Pin.id \notin doubtful
    BY <1>2, <1>4 DEF complete, Vouched
  <2>2. ~ Underway(Pin)
    BY <1>1 DEF Underway, Trimming
  <2> QED BY <1>1, <1>2, <2>1, <2>2, DirMarked
<1> QED BY <1>3, <1>4

\* EnsureRef touches no file, so that what is finished stays so.
LEMMA WriteRefStage == ASSUME StageInv, writeRef PROVE StageInv'
<1>1. /\ phase \in {"reuse", "ref"} /\ phase \in Downloading /\ phase' \in Downloading
      /\ phase' = IF phase = "reuse" THEN "unselect" ELSE "mark"
  BY DEF writeRef, Goto, Downloading
<1>2. TypeOK /\ Looping /\ MarkerTrue /\ Trimming
  BY DEF StageInv
<1>3. Pin \in Pins /\ Dir \in Directories(Pin.id)
  BY <1>1, <1>2, PinFacts
<1>4. PICK target \in EnsureRef(Dir, Pin.revision) : SetDir([Dir EXCEPT !.ref = target])
  BY DEF writeRef
<1>5. PICK d \in Directories(Pin.id) :
           /\ OnlyDir(d) /\ d.ref = target
           /\ d.snapshots = Dir.snapshots /\ d.blobs = Dir.blobs /\ d.marker = Dir.marker
  BY <1>1, <1>4, RefOnly
<1>6. UNCHANGED <<ociVars, registryVars, runVars, doubtful, toUpload, todo, failed, faults>>
  BY DEF writeRef, Goto
<1>7. Marked(d) /\ Sure(d)
  <2>1. Marked(Dir) /\ Sure(Dir)
    BY <1>1, DirMarked
  <2> QED BY <1>5, <2>1, SameFiles DEF Marked, Sure
<1>8. /\ Framed'
      /\ Pin' = Pin /\ Dir' = d
  BY <1>1, <1>5, <1>6, <1>7, DownloadFrame
<1>9. CASE phase = "ref"
  <2>1. Finished(d, Pin)
    BY <1>2, <1>5, <1>9, SameFiles DEF Trimming
  <2> QED BY <1>1, <1>8, <1>9, <2>1 DEF Trimming, StageInv, Framed
<1>10. CASE phase = "reuse"
  <2>1. complete(Dir, Pin.revision)
    BY <1>2, <1>10 DEF Trimming
  <2>2. Vouched' <=> Vouched
    BY <1>5, <1>6, <1>8 DEF Vouched
  <2>3. ASSUME Vouched
        PROVE  doomed' = Linked(d, Pin.revision) \ planDownload(Pin)
    <3>1. Finished(Dir, Pin)
      BY <1>10, <2>3, VouchedFinished
    <3>2. doomed' = Linked(Dir, Pin.revision) \ planDownload(Pin)
      BY <1>3, <1>10, <3>1, UnselectedIs DEF writeRef
    <3> QED BY <1>5, <3>2, SameFiles
  <2>4. doomed' \subseteq Linked(d, Pin.revision)
    BY <1>5, <1>10, SameFiles DEF writeRef, Unselected
  <2>5. complete(d, Pin.revision)
    BY <1>5, <2>1, SameFiles DEF complete
  <2> QED BY <1>1, <1>8, <1>10, <2>2, <2>3, <2>4, <2>5 DEF Trimming, StageInv, Framed
<1> QED BY <1>1, <1>9, <1>10

\* Complete writes the marker of a finished download, and nothing else.
LEMMA MarkerOnly ==
  ASSUME StageInv, Complete
  PROVE  \E d \in Directories(Pin.id) :
           /\ OnlyDir(d) /\ d.marker = Pin.revision
           /\ d.snapshots = Dir.snapshots /\ d.blobs = Dir.blobs /\ d.ref = Dir.ref
<1>1. TypeOK /\ Looping /\ phase \in Downloading
  BY DEF StageInv, Complete, Downloading
<1>2. Dir \in Directories(Pin.id) /\ Pin.id \in DOMAIN Hub /\ Pin.revision \in Revisions
  BY <1>1, PinFacts
<1> DEFINE d == [Dir EXCEPT !.marker = Pin.revision]
<1>3. /\ d \in Directories(Pin.id) /\ d.marker = Pin.revision
      /\ d.snapshots = Dir.snapshots /\ d.blobs = Dir.blobs /\ d.ref = Dir.ref
  BY <1>2, DirectoryEdits
<1>4. OnlyDir(d)
  <2>1. SetDir(d)
    BY DEF Complete
  <2> HIDE DEF d
  <2> QED BY <1>1, <1>2, <2>1, SetDirOnly
<1> HIDE DEF d
<1> QED BY <1>3, <1>4

\* The marker is written for a download that is finished.
LEMMA CompleteStage == ASSUME StageInv, Complete PROVE StageInv'
<1>1. /\ phase = "mark" /\ phase \in Downloading /\ phase' \in Downloading
      /\ phase' = "unselect"
  BY DEF Complete, Goto, Downloading
<1>2. TypeOK /\ Looping /\ MarkerTrue /\ Trimming
  BY DEF StageInv
<1>3. Pin \in Pins /\ Dir \in Directories(Pin.id)
  BY <1>1, <1>2, PinFacts
<1>4. PICK d \in Directories(Pin.id) :
           /\ OnlyDir(d) /\ d.marker = Pin.revision
           /\ d.snapshots = Dir.snapshots /\ d.blobs = Dir.blobs /\ d.ref = Dir.ref
  BY MarkerOnly
<1>5. Finished(Dir, Pin) /\ Finished(d, Pin)
  BY <1>1, <1>2, <1>4, SameFiles DEF Trimming
<1>6. Marked(d) /\ Sure(d)
  <2>1. Marked(d)
    BY <1>4, <1>5 DEF Marked, Finished, planDownload
  <2>2. d.marker # Empty
    BY <1>3, <1>4, EmptyIsNone
  <2> QED BY <2>1, <2>2 DEF Sure
<1>7. UNCHANGED <<ociVars, registryVars, runVars, doubtful, toUpload, todo, failed, faults>>
  BY DEF Complete, Goto
<1>8. /\ Framed'
      /\ Pin' = Pin /\ Dir' = d
  BY <1>1, <1>4, <1>6, <1>7, DownloadFrame
<1>9. doomed' = Linked(d, Pin.revision) \ planDownload(Pin)
  BY <1>3, <1>4, <1>5, UnselectedIs, SameFiles DEF Complete
<1>10. complete(d, Pin.revision)
  BY <1>4 DEF complete
<1>11. doomed' \subseteq Linked(d, Pin.revision)
  BY <1>9
<1> QED BY <1>1, <1>8, <1>9, <1>10, <1>11 DEF Trimming, StageInv, Framed

\* Taking a file away that is not to be loaded leaves a download finished.
LEMMA RemoveUnselectedFile ==
  ASSUME StageInv, RemoveUnselected
  PROVE  \E d \in Directories(Pin.id), p \in doomed :
           /\ OnlyDir(d) /\ doomed' = doomed \ {p} /\ HasSnapshot(Dir, Pin.revision)
           /\ d.marker = Dir.marker /\ d.blobs = Dir.blobs /\ d.ref = Dir.ref
           /\ DOMAIN d.snapshots = DOMAIN Dir.snapshots
           /\ \A x \in DOMAIN Dir.snapshots :
                d.snapshots[x] = IF x = Pin.revision THEN Dir.snapshots[x] \ {p}
                                                     ELSE Dir.snapshots[x]
<1>1. TypeOK /\ Looping /\ Trimming /\ phase = "unselect" /\ phase \in Downloading
  BY DEF StageInv, RemoveUnselected, Downloading
<1>2. Dir \in Directories(Pin.id) /\ Pin.id \in DOMAIN Hub
  BY <1>1, PinFacts
<1>3. PICK p \in doomed :
        /\ SetDir([Dir EXCEPT !.snapshots[Pin.revision] = @ \ {p}])
        /\ doomed' = doomed \ {p}
  BY DEF RemoveUnselected
<1>4. Pin.revision \in DOMAIN Dir.snapshots
  BY <1>1, <1>3 DEF Trimming, Linked, HasSnapshot
<1> DEFINE s == Dir.snapshots
           t == [s EXCEPT ![Pin.revision] = s[Pin.revision] \ {p}]
           d == [Dir EXCEPT !.snapshots = t]
<1>5. s \in Snapshots(Pin.id)
  BY <1>2, DirectoryFields
<1>6. /\ t \in Snapshots(Pin.id) /\ DOMAIN t = DOMAIN s
      /\ \A x \in DOMAIN s : t[x] = IF x = Pin.revision THEN s[Pin.revision] \ {p} ELSE s[x]
  <2> HIDE DEF s
  <2> QED BY <1>2, <1>4, <1>5, PathRemoved DEF s
<1>7. SetDir(d)
  BY <1>3
<1> HIDE DEF t
<1>8. /\ d \in Directories(Pin.id) /\ d.snapshots = t
      /\ d.blobs = Dir.blobs /\ d.ref = Dir.ref /\ d.marker = Dir.marker
  BY <1>2, <1>6, DirectoryEdits
<1> HIDE DEF d
<1>9. OnlyDir(d)
  BY <1>1, <1>2, <1>7, SetDirOnly
<1> QED BY <1>3, <1>4, <1>6, <1>8, <1>9 DEF HasSnapshot

\* RemoveUnselected removes nothing a marker vouches for.
LEMMA RemoveUnselectedStage == ASSUME StageInv, RemoveUnselected PROVE StageInv'
<1>1. /\ phase = "unselect" /\ phase \in Downloading /\ phase' \in Downloading
      /\ phase' = "unselect"
  BY DEF RemoveUnselected, Downloading
<1>2. TypeOK /\ Looping /\ MarkerTrue /\ Trimming
  BY DEF StageInv
<1>3. Pin \in Pins /\ Dir \in Directories(Pin.id)
  BY <1>1, <1>2, PinFacts
<1>4. PICK d \in Directories(Pin.id), p \in doomed :
           /\ OnlyDir(d) /\ doomed' = doomed \ {p} /\ HasSnapshot(Dir, Pin.revision)
           /\ d.marker = Dir.marker /\ d.blobs = Dir.blobs /\ d.ref = Dir.ref
           /\ DOMAIN d.snapshots = DOMAIN Dir.snapshots
           /\ \A x \in DOMAIN Dir.snapshots :
                d.snapshots[x] = IF x = Pin.revision THEN Dir.snapshots[x] \ {p}
                                                     ELSE Dir.snapshots[x]
  BY RemoveUnselectedFile
<1>5. /\ complete(Dir, Pin.revision) /\ Commit[Pin.revision] = Pin.revision
      /\ doomed \subseteq Linked(Dir, Pin.revision)
      /\ Vouched => /\ doomed = Linked(Dir, Pin.revision) \ planDownload(Pin)
                    /\ Finished(Dir, Pin)
  BY <1>1, <1>2, <1>3, <1>4, NamedByCommit, VouchedFinished DEF Trimming
<1>6. Linked(d, Pin.revision) = Linked(Dir, Pin.revision) \ {p}
  BY <1>4 DEF Linked, HasSnapshot
<1>7. Vouched => Finished(d, Pin)
  BY <1>4, <1>5, <1>6 DEF Finished
<1>13. Marked(d)
  <2>1. \A pin \in Pins : d.marker = pin.revision => pin.revision = Pin.revision /\ Vouched
    BY <1>4, <1>5, EmptyIsNone DEF complete, Vouched
  <2> QED BY <1>7, <2>1 DEF Marked, Finished, planDownload
<1>14. Sure(d)
  <2> SUFFICES ASSUME NEW pin \in Pins, pin.id = Pin.id, d.marker = Empty,
                      HasSnapshot(d, pin.revision), pin.id \notin doubtful
               PROVE  Finished(d, pin)
    BY DEF Sure
  <2>1. CASE pin.revision = Pin.revision
    BY <1>7, <2>1 DEF Finished, planDownload, Vouched
  <2>2. CASE pin.revision # Pin.revision
    <3>1. HasSnapshot(Dir, pin.revision) /\ ~ Underway(pin)
      BY <1>1, <1>4 DEF HasSnapshot, Underway
    <3>2. Finished(Dir, pin) /\ Commit[pin.revision] = pin.revision
      BY <1>1, <1>3, <1>4, <3>1, DirMarked, NamedByCommit
    <3>3. Linked(d, pin.revision) = Linked(Dir, pin.revision)
      BY <1>4, <2>2, <3>1 DEF Linked, HasSnapshot
    <3> QED BY <1>4, <3>2, <3>3 DEF Finished
  <2> QED BY <2>1, <2>2
<1>9. UNCHANGED <<ociVars, registryVars, runVars, doubtful, toUpload, todo, failed, faults>>
  BY DEF RemoveUnselected
<1>10. /\ Framed'
       /\ Pin' = Pin /\ Dir' = d
  BY <1>1, <1>4, <1>9, <1>13, <1>14, DownloadFrame
<1>11. /\ doomed' \subseteq Linked(d, Pin.revision)
       /\ Vouched => doomed' = Linked(d, Pin.revision) \ planDownload(Pin)
  BY <1>4, <1>5, <1>6
<1>12. complete(d, Pin.revision) /\ (Vouched' <=> Vouched)
  BY <1>4, <1>5, <1>9, <1>10 DEF complete, Vouched, HasSnapshot
<1> QED BY <1>1, <1>10, <1>11, <1>12 DEF Trimming, StageInv, Framed

\* A sequence is one of its own elements.
LEMMA OwnRange ==
  ASSUME NEW T, NEW s \in Seq(T)
  PROVE  s \in Seq(Range(s)) /\ Range(s) \subseteq T
BY DEF Range

\* After the last repository the artifacts are uploaded.
LEMMA NextRepositoryStage ==
  ASSUME StageInv, phase \in Downloading \ {"fetch", "snapshots"}, NextRepository,
         UNCHANGED <<cacheVars, registryVars, runVars, doubtful, toUpload>>
  PROVE  StageInv'
<1>1. /\ TypeOK /\ Looping /\ MarkerTrue /\ NamelessTrue /\ Mirroring
      /\ Copying /\ OneCachedArtifact
  BY DEF StageInv
<1>2. /\ hub' = hub /\ oci' = oci /\ harbor' = harbor /\ images' = images
      /\ catalog' = catalog /\ serve' = serve /\ uninstall' = uninstall
      /\ wanted' = wanted /\ toUpload' = toUpload
      /\ copies' = copies /\ doubtful' = doubtful
  BY DEF cacheVars, registryVars, runVars
<1>3. failed' = failed /\ faults' = faults
  BY DEF NextRepository, EnterUpload, Goto
<1>4. todo \in Seq(PinsOf(toUpload)) \ {<<>>}
  BY <1>1, PinFacts
<1>5. /\ phase # "recover" /\ phase \in Working \ {"check"} /\ Doing = phase
      /\ toUpload # <<>>
  BY <1>1 DEF Downloading, Working, Doing, Looping
<1>6. MarkerTrue' /\ OneCachedArtifact' /\ NamelessTrue' /\ Copying'
  <2>1. phase \notin {"fetch", "snapshots", "gc"} /\ phase' \notin {"fetch", "snapshots", "gc"}
    BY DEF NextRepository, EnterUpload, Goto, Downloading
  <2>2. MarkerTrue' /\ OneCachedArtifact' /\ Copying'
    BY <1>1, <1>2, <1>3, <2>1 DEF MarkerTrue, OneCachedArtifact, Copying, Untagged, Tagged
  <2>3. NamelessTrue'
    BY <1>1, <1>2, <2>1 DEF NamelessTrue, Underway
  <2> QED BY <2>2, <2>3
<1>7. CASE Len(todo) > 1
  <2>1. phase' = "prepare" /\ todo' = Tail(todo)
    BY <1>7 DEF NextRepository, Goto
  <2>2. Doing' = "prepare"
    BY <2>1 DEF Doing
  <2>3. todo' \in Seq(PinsOf(toUpload)) \ {<<>>}
    BY <1>4, <1>7, <2>1, HeadAndTail
  <2>4. TypeOK'
    BY <1>1, <1>2, <1>3, <1>5, <2>1, <2>2 DEF TypeOK, Working, Downloading
  <2>5. Looping'
    BY <1>2, <1>5, <2>1, <2>2, <2>3 DEF Looping, PinsOf, Downloading, Uploading
  <2>6. Trimming' /\ Caching'
    BY <2>1 DEF Trimming, Caching
  <2>7. Mirroring'
    BY <1>1, <1>2, <1>5, <2>1, <2>2 DEF Mirroring, Ref, Uploading
  <2> QED BY <1>6, <2>4, <2>5, <2>6, <2>7 DEF StageInv
<1>8. CASE ~(Len(todo) > 1)
  <2>1. phase' = "resolve" /\ todo' = toUpload
    BY <1>8 DEF NextRepository, EnterUpload, Goto
  <2>2. Doing' = "resolve"
    BY <2>1 DEF Doing
  <2>3. todo' \in Seq(Range(toUpload)) \ {<<>>}
    BY <1>1, <1>5, <2>1, OwnRange DEF TypeOK
  <2>4. TypeOK'
    BY <1>1, <1>2, <1>3, <1>5, <2>1, <2>2 DEF TypeOK, Working, Uploading
  <2>5. Looping'
    BY <1>2, <1>5, <2>1, <2>2, <2>3 DEF Looping, Downloading
  <2>6. Trimming' /\ Caching'
    BY <2>1 DEF Trimming, Caching
  <2>7. Mirroring'
    BY <1>1, <1>2, <1>5, <2>1, <2>2 DEF Mirroring, Ref
  <2> QED BY <1>6, <2>4, <2>5, <2>6, <2>7 DEF StageInv
<1> QED BY <1>7, <1>8

\* When the snapshot holds what is to be loaded and no more, the others go.
LEMMA UnselectDoneStage == ASSUME StageInv, unselectDone PROVE StageInv'
<1>1. /\ phase = "unselect" /\ doomed = {} /\ phase \in Downloading
      /\ phase \in Downloading \ {"fetch", "snapshots"}
  BY DEF unselectDone, Downloading
<1>2. TypeOK /\ Looping /\ Trimming
  BY DEF StageInv
<1>3. CASE ~HasSnapshot(Dir, Pin.revision)
  BY <1>1, <1>3, NextRepositoryStage DEF unselectDone
<1>4. CASE HasSnapshot(Dir, Pin.revision)
  <2>1. Pin \in Pins /\ Dir \in Directories(Pin.id)
    BY <1>1, <1>2, PinFacts
  <2>2. /\ phase' = "snapshots" /\ phase' \in Downloading
        /\ doomed' = DOMAIN Dir.snapshots \ {Pin.revision}
        /\ UNCHANGED <<ociVars, registryVars, runVars, doubtful, toUpload, todo, failed, faults>>
    BY <1>4 DEF unselectDone, Goto, Downloading, cacheVars, ociVars
  <2>3. OnlyDir(Dir)
    BY SameDirOnly DEF unselectDone, cacheVars
  <2>4. Marked(Dir) /\ Sure(Dir)
    BY <1>1, DirMarked
  <2>5. /\ Framed'
        /\ Pin' = Pin /\ Dir' = Dir
    BY <1>1, <2>1, <2>2, <2>3, <2>4, DownloadFrame
  <2>6. /\ complete(Dir, Pin.revision)
        /\ Vouched => Linked(Dir, Pin.revision) \subseteq planDownload(Pin)
    BY <1>1, <1>2 DEF Trimming
  <2>7. Vouched => planDownload(Pin) \subseteq Linked(Dir, Pin.revision)
    BY <1>1, <1>4, <2>1, VouchedFinished, NamedByCommit DEF Finished
  <2>8. Vouched' <=> Vouched
    BY <2>2, <2>5 DEF Vouched
  <2> QED BY <1>4, <2>2, <2>5, <2>6, <2>7, <2>8 DEF Trimming, StageInv, Framed
<1> QED BY <1>3, <1>4

\* What PruneOtherRevisions removes is never of the pinned snapshot.
LEMMA RemoveOtherSnapshot ==
  ASSUME StageInv, removeSnapshot
  PROVE  \E d \in Directories(Pin.id), c \in doomed :
           /\ OnlyDir(d) /\ c # Pin.revision
           /\ d.marker = Dir.marker /\ d.blobs = Dir.blobs /\ d.ref = Dir.ref
           /\ \A x \in DOMAIN d.snapshots \ {c} : d.snapshots[x] = Dir.snapshots[x]
           /\ \/ DOMAIN d.snapshots = DOMAIN Dir.snapshots \ {c} /\ doomed' = doomed \ {c}
              \/ DOMAIN d.snapshots = DOMAIN Dir.snapshots /\ doomed' = doomed
<1>1. TypeOK /\ Looping /\ Trimming /\ phase = "snapshots" /\ phase \in Downloading
  BY DEF StageInv, removeSnapshot, Downloading
<1>2. Dir \in Directories(Pin.id) /\ Pin.id \in DOMAIN Hub
  BY <1>1, PinFacts
<1>3. PICK c \in doomed :
        \/ /\ SetDir([Dir EXCEPT !.snapshots =
                        [s \in DOMAIN Dir.snapshots \ {c} |-> Dir.snapshots[s]]])
           /\ doomed' = doomed \ {c}
        \/ /\ \E p \in Dir.snapshots[c] :
                SetDir([Dir EXCEPT !.snapshots =
                          [Dir.snapshots EXCEPT ![c] = Dir.snapshots[c] \ {p}]])
           /\ UNCHANGED doomed
  BY DEF removeSnapshot
<1>4. c \in DOMAIN Dir.snapshots /\ c # Pin.revision
  BY <1>1, <1>3 DEF Trimming
<1>5. Dir.snapshots \in Snapshots(Pin.id)
  BY <1>2, DirectoryFields
<1>6. ASSUME NEW t \in Snapshots(Pin.id), SetDir([Dir EXCEPT !.snapshots = t])
      PROVE  \E d \in Directories(Pin.id) :
               /\ OnlyDir(d) /\ d.snapshots = t
               /\ d.marker = Dir.marker /\ d.blobs = Dir.blobs /\ d.ref = Dir.ref
  <2> DEFINE d == [Dir EXCEPT !.snapshots = t]
  <2>1. /\ d \in Directories(Pin.id) /\ d.snapshots = t
        /\ d.blobs = Dir.blobs /\ d.ref = Dir.ref /\ d.marker = Dir.marker
    BY <1>2, DirectoryEdits
  <2>2. SetDir(d)
    BY <1>6
  <2> HIDE DEF d
  <2>3. OnlyDir(d)
    BY <1>1, <1>2, <2>2, SetDirOnly
  <2> QED BY <2>1, <2>3
<1>7. CASE /\ SetDir([Dir EXCEPT !.snapshots =
                        [s \in DOMAIN Dir.snapshots \ {c} |-> Dir.snapshots[s]]])
           /\ doomed' = doomed \ {c}
  <2> DEFINE t == [s \in DOMAIN Dir.snapshots \ {c} |-> Dir.snapshots[s]]
  <2>1. /\ t \in Snapshots(Pin.id) /\ DOMAIN t = DOMAIN Dir.snapshots \ {c}
        /\ \A x \in DOMAIN Dir.snapshots \ {c} : t[x] = Dir.snapshots[x]
    BY <1>2, <1>5, SnapshotRemoved
  <2>2. SetDir([Dir EXCEPT !.snapshots = t])
    BY <1>7
  <2> HIDE DEF t
  <2> QED BY <1>4, <1>6, <1>7, <2>1, <2>2
<1>8. CASE /\ \E p \in Dir.snapshots[c] :
                SetDir([Dir EXCEPT !.snapshots =
                          [Dir.snapshots EXCEPT ![c] = Dir.snapshots[c] \ {p}]])
           /\ UNCHANGED doomed
  <2>1. PICK p : SetDir([Dir EXCEPT !.snapshots =
                          [Dir.snapshots EXCEPT ![c] = Dir.snapshots[c] \ {p}]])
    BY <1>8
  <2> DEFINE t == [Dir.snapshots EXCEPT ![c] = Dir.snapshots[c] \ {p}]
  <2>2. /\ t \in Snapshots(Pin.id) /\ DOMAIN t = DOMAIN Dir.snapshots
        /\ \A x \in DOMAIN Dir.snapshots :
             t[x] = IF x = c THEN Dir.snapshots[c] \ {p} ELSE Dir.snapshots[x]
    BY <1>2, <1>4, <1>5, PathRemoved
  <2>3. SetDir([Dir EXCEPT !.snapshots = t])
    BY <2>1
  <2> HIDE DEF t
  <2> QED BY <1>4, <1>6, <1>8, <2>2, <2>3
<1> QED BY <1>3, <1>7, <1>8

\* PruneOtherRevisions removes other snapshots while the marker names this pin.
LEMMA RemoveSnapshotStage == ASSUME StageInv, removeSnapshot PROVE StageInv'
<1>1. /\ phase = "snapshots" /\ phase \in Downloading /\ phase' \in Downloading
      /\ phase' = "snapshots"
  BY DEF removeSnapshot, Downloading
<1>2. TypeOK /\ Looping /\ MarkerTrue /\ Trimming
  BY DEF StageInv
<1>3. Pin \in Pins /\ Dir \in Directories(Pin.id)
  BY <1>1, <1>2, PinFacts
<1>4. PICK d \in Directories(Pin.id), c \in doomed :
           /\ OnlyDir(d) /\ c # Pin.revision
           /\ d.marker = Dir.marker /\ d.blobs = Dir.blobs /\ d.ref = Dir.ref
           /\ \A x \in DOMAIN d.snapshots \ {c} : d.snapshots[x] = Dir.snapshots[x]
           /\ \/ DOMAIN d.snapshots = DOMAIN Dir.snapshots \ {c} /\ doomed' = doomed \ {c}
              \/ DOMAIN d.snapshots = DOMAIN Dir.snapshots /\ doomed' = doomed
  BY RemoveOtherSnapshot
<1>5. /\ complete(Dir, Pin.revision) /\ HasSnapshot(Dir, Pin.revision)
      /\ Vouched => Linked(Dir, Pin.revision) = planDownload(Pin)
      /\ doomed = DOMAIN Dir.snapshots \ {Pin.revision}
  BY <1>1, <1>2 DEF Trimming
<1>6. Commit[Pin.revision] = Pin.revision /\ (Vouched => Finished(Dir, Pin))
  BY <1>1, <1>3, <1>5, NamedByCommit, VouchedFinished
<1>7. HasSnapshot(d, Pin.revision) /\ Linked(d, Pin.revision) = Linked(Dir, Pin.revision)
  BY <1>4, <1>5 DEF Linked, HasSnapshot
<1>8. Vouched => Finished(d, Pin)
  BY <1>4, <1>6, <1>7 DEF Finished
<1>9. Marked(d)
  <2>1. \A pin \in Pins : d.marker = pin.revision => pin.revision = Pin.revision /\ Vouched
    BY <1>4, <1>5, EmptyIsNone DEF complete, Vouched
  <2> QED BY <1>8, <2>1 DEF Marked, Finished, planDownload
<1>10. UNCHANGED <<ociVars, registryVars, runVars, doubtful, toUpload, todo, failed, faults>>
  BY DEF removeSnapshot
<1>12. doomed' = DOMAIN d.snapshots \ {Pin.revision}
  BY <1>4, <1>5
<1>14. Sure(d)
  <2> SUFFICES ASSUME NEW pin \in Pins, pin.id = Pin.id, d.marker = Empty,
                      HasSnapshot(d, pin.revision), pin.id \notin doubtful, ~ Underway(pin)'
               PROVE  Finished(d, pin)
    BY DEF Sure
  <2>1. Pin' = Pin
    BY <1>10 DEF Pin
  <2>2. pin.revision = Pin.revision
    BY <1>1, <1>12, <2>1 DEF Underway, HasSnapshot
  <2> QED BY <1>8, <2>2 DEF Finished, planDownload, Vouched
<1>11. /\ Framed'
       /\ Pin' = Pin /\ Dir' = d
  BY <1>1, <1>4, <1>9, <1>10, <1>14, DownloadFrame
<1>13. complete(d, Pin.revision) /\ (Vouched => Linked(d, Pin.revision) = planDownload(Pin))
  BY <1>4, <1>5, <1>7 DEF complete
<1>15. Vouched' <=> Vouched
  BY <1>4, <1>10, <1>11 DEF Vouched
<1> QED BY <1>1, <1>7, <1>11, <1>12, <1>13, <1>15 DEF Trimming, StageInv, Framed

\* Only the pinned snapshot is left.
LEMMA SnapshotsDoneStage == ASSUME StageInv, snapshotsDone PROVE StageInv'
<1>1. /\ phase = "snapshots" /\ phase \in Downloading /\ phase' \in Downloading
      /\ phase' = "blobs" /\ doomed = {}
  BY DEF snapshotsDone, Goto, Downloading
<1>2. TypeOK /\ Looping /\ MarkerTrue /\ Trimming
  BY DEF StageInv
<1>3. Pin \in Pins /\ Dir \in Directories(Pin.id)
  BY <1>1, <1>2, PinFacts
<1>4. OnlyDir(Dir)
  BY SameDirOnly DEF snapshotsDone, cacheVars
<1>5. UNCHANGED <<ociVars, registryVars, runVars, doubtful, toUpload, todo, failed, faults>>
  BY DEF snapshotsDone, Goto, cacheVars, ociVars
<1>8. /\ complete(Dir, Pin.revision) /\ HasSnapshot(Dir, Pin.revision)
      /\ Vouched => Linked(Dir, Pin.revision) = planDownload(Pin)
      /\ DOMAIN Dir.snapshots = {Pin.revision}
  BY <1>1, <1>2 DEF Trimming, HasSnapshot
<1>6. Marked(Dir) /\ Sure(Dir)
  <2>1. \A pin \in Pins : HasSnapshot(Dir, pin.revision) => pin.revision = Pin.revision
    BY <1>8 DEF HasSnapshot
  <2>2. Vouched => Finished(Dir, Pin)
    BY <1>1, VouchedFinished
  <2> QED BY <1>1, <2>1, <2>2, DirMarked DEF Sure, Finished, planDownload, Vouched
<1>7. /\ Framed'
      /\ Pin' = Pin /\ Dir' = Dir
  BY <1>1, <1>3, <1>4, <1>5, <1>6, DownloadFrame
<1>10. Vouched' <=> Vouched
  BY <1>5, <1>7 DEF Vouched
<1>9. doomed' = Dir.blobs \ referencedBlobs(Dir, Pin)
  BY DEF snapshotsDone
<1> QED BY <1>1, <1>7, <1>8, <1>9, <1>10 DEF Trimming, StageInv, Framed

\* The blobs that go are the ones the pinned snapshot does not use.
LEMMA RemoveOtherBlob ==
  ASSUME StageInv, removeBlob
  PROVE  \E d \in Directories(Pin.id), b \in doomed :
           /\ OnlyDir(d) /\ doomed' = doomed \ {b} /\ d.blobs = Dir.blobs \ {b}
           /\ d.marker = Dir.marker /\ d.snapshots = Dir.snapshots /\ d.ref = Dir.ref
<1>1. TypeOK /\ Looping /\ phase \in Downloading
  BY DEF StageInv, removeBlob, Downloading
<1>2. Dir \in Directories(Pin.id) /\ Pin.id \in DOMAIN Hub
  BY <1>1, PinFacts
<1>3. PICK b \in doomed : /\ SetDir([Dir EXCEPT !.blobs = Dir.blobs \ {b}])
                          /\ doomed' = doomed \ {b}
  BY DEF removeBlob
<1> DEFINE blobs == Dir.blobs \ {b}
           d == [Dir EXCEPT !.blobs = blobs]
<1>4. blobs \in SUBSET Blobs(Pin.id)
  BY <1>2, DirectoryFields
<1>5. SetDir(d)
  BY <1>3
<1> HIDE DEF blobs
<1>6. /\ d \in Directories(Pin.id) /\ d.blobs = blobs
      /\ d.snapshots = Dir.snapshots /\ d.ref = Dir.ref /\ d.marker = Dir.marker
  BY <1>2, <1>4, DirectoryEdits
<1> HIDE DEF d
<1>7. OnlyDir(d)
  BY <1>1, <1>2, <1>5, SetDirOnly
<1> QED BY <1>3, <1>6, <1>7 DEF blobs

\* PruneOtherRevisions removes the blobs the pinned snapshot does not use.
LEMMA RemoveBlobStage == ASSUME StageInv, removeBlob PROVE StageInv'
<1>1. /\ phase = "blobs" /\ phase \in Downloading /\ phase' \in Downloading
      /\ phase' = "blobs"
  BY DEF removeBlob, Downloading
<1>2. TypeOK /\ Looping /\ MarkerTrue /\ Trimming
  BY DEF StageInv
<1>3. Pin \in Pins /\ Dir \in Directories(Pin.id)
  BY <1>1, <1>2, PinFacts
<1>4. PICK d \in Directories(Pin.id), b \in doomed :
           /\ OnlyDir(d) /\ doomed' = doomed \ {b} /\ d.blobs = Dir.blobs \ {b}
           /\ d.marker = Dir.marker /\ d.snapshots = Dir.snapshots /\ d.ref = Dir.ref
  BY RemoveOtherBlob
<1>5. /\ complete(Dir, Pin.revision) /\ HasSnapshot(Dir, Pin.revision)
      /\ Vouched => Linked(Dir, Pin.revision) = planDownload(Pin)
      /\ DOMAIN Dir.snapshots = {Pin.revision}
      /\ doomed = Dir.blobs \ referencedBlobs(Dir, Pin)
  BY <1>1, <1>2 DEF Trimming
<1>6. Commit[Pin.revision] = Pin.revision /\ (Vouched => Finished(Dir, Pin))
  BY <1>1, <1>3, <1>5, NamedByCommit, VouchedFinished
<1>7. /\ HasSnapshot(d, Pin.revision)
      /\ Vouched => Linked(d, Pin.revision) = planDownload(Pin)
      /\ referencedBlobs(d, Pin) = referencedBlobs(Dir, Pin)
  BY <1>4, <1>5 DEF Linked, HasSnapshot, referencedBlobs
<1>8. Vouched => Finished(d, Pin)
  BY <1>4, <1>5, <1>6, <1>7 DEF Finished, referencedBlobs
<1>9. Marked(d) /\ Sure(d)
  <2>1. \A pin \in Pins : d.marker = pin.revision => pin.revision = Pin.revision /\ Vouched
    BY <1>4, <1>5, EmptyIsNone DEF complete, Vouched
  <2>2. Marked(d)
    BY <1>8, <2>1 DEF Marked, Finished, planDownload
  <2>3. \A pin \in Pins : HasSnapshot(d, pin.revision) => pin.revision = Pin.revision
    BY <1>4, <1>5 DEF HasSnapshot
  <2> QED BY <1>8, <2>2, <2>3 DEF Sure, Finished, planDownload, Vouched
<1>10. UNCHANGED <<ociVars, registryVars, runVars, doubtful, toUpload, todo, failed, faults>>
  BY DEF removeBlob
<1>11. /\ Framed'
       /\ Pin' = Pin /\ Dir' = d
  BY <1>1, <1>4, <1>9, <1>10, DownloadFrame
<1>12. /\ doomed' = d.blobs \ referencedBlobs(d, Pin) /\ complete(d, Pin.revision)
       /\ DOMAIN d.snapshots = {Pin.revision} /\ (Vouched' <=> Vouched)
  BY <1>4, <1>5, <1>7, <1>10, <1>11 DEF complete, Vouched
<1> QED BY <1>1, <1>7, <1>11, <1>12 DEF Trimming, StageInv, Framed

\* The next repository, or the upload, follows.
LEMMA BlobsDoneStage == ASSUME StageInv, blobsDone PROVE StageInv'
BY NextRepositoryStage DEF blobsDone, Downloading

-----------------------------------------------------------------------------
(* The stage around the download                                           *)

\* While artifacts are uploaded, Model is one of the models to upload.
LEMMA ModelFacts ==
  ASSUME TypeOK, Looping, phase \in Uploading
  PROVE  /\ Model \in Range(toUpload) /\ Model \in Range(Models) /\ Model \in Range(todo)
         /\ todo \in Seq(Range(toUpload)) \ {<<>>}
         /\ Ref(Model) = <<Ref(Model)[1], Ref(Model)[2]>> /\ Ref(Model)[1] = Model
         /\ toUpload # <<>> /\ Doing = phase /\ phase \in Working \ {"check"}
<1>1. todo \in Seq(Range(toUpload)) \ {<<>>}
  BY DEF Looping
<1>2. Model \in Range(toUpload) /\ Model \in Range(todo)
  BY <1>1, HeadAndTail DEF Model
<1>3. Model \in Range(Models)
  BY <1>2, OwnRange DEF TypeOK
<1>4. Doing = phase /\ phase \in Working \ {"check"}
  BY DEF Doing, Uploading, Working
<1>5. Ref(Model) = <<Ref(Model)[1], Ref(Model)[2]>> /\ Ref(Model)[1] = Model
  BY DEF Ref
<1>6. toUpload # <<>>
  BY <1>4 DEF Looping
<1> QED BY <1>1, <1>2, <1>3, <1>4, <1>5, <1>6

\* A step outside the removals and the collection that touches no cache keeps
\* what is said about them.
LEMMA RestKept ==
  ASSUME StageInv, hub' = hub, oci' = oci, copies' = copies, doubtful' = doubtful,
         faults' = faults,
         phase \notin {"fetch", "snapshots", "gc"}, phase' \notin {"fetch", "snapshots", "gc"}
  PROVE  MarkerTrue' /\ NamelessTrue' /\ Copying' /\ OneCachedArtifact'
<1>1. MarkerTrue' /\ NamelessTrue'
  BY DEF StageInv, MarkerTrue, NamelessTrue, Underway
<1>2. Copying' /\ OneCachedArtifact'
  BY DEF StageInv, Copying, OneCachedArtifact, Untagged, Tagged
<1> QED BY <1>1, <1>2

\* A set with at most one more member.
LEMMA OneMore ==
  ASSUME NEW U, IsFiniteSet(U), NEW x, NEW V, V \subseteq U \cup {x}
  PROVE  /\ IsFiniteSet(V) /\ Cardinality(V) \in Nat /\ Cardinality(U) \in Nat
         /\ Cardinality(V) <= Cardinality(U) + 1
<1>1. /\ IsFiniteSet(U \cup {x})
      /\ Cardinality(U \cup {x}) = IF x \in U THEN Cardinality(U) ELSE Cardinality(U) + 1
  BY FS_AddElement
<1>2. IsFiniteSet(V) /\ Cardinality(V) <= Cardinality(U \cup {x})
  BY <1>1, FS_Subset
<1>3. Cardinality(V) \in Nat /\ Cardinality(U) \in Nat
  BY <1>2, FS_CardinalityType
<1> QED BY <1>1, <1>2, <1>3

\* A subset has no more members.
LEMMA NoMore ==
  ASSUME NEW U, IsFiniteSet(U), NEW V, V \subseteq U
  PROVE  /\ IsFiniteSet(V) /\ Cardinality(V) \in Nat /\ Cardinality(U) \in Nat
         /\ Cardinality(V) <= Cardinality(U)
<1>1. IsFiniteSet(V) /\ Cardinality(V) <= Cardinality(U)
  BY FS_Subset
<1> QED BY <1>1, FS_CardinalityType

\* Each fault leaves at most one copy without a tag.
LEMMA FaultCopies ==
  ASSUME StageInv, oci' = oci, faults' = faults + 1, phase' # "gc", NEW x,
         copies' = copies \/ (phase # "gc" /\ copies' = copies \cup {x})
  PROVE  Copying' /\ OneCachedArtifact'
<1>1. Copying /\ OneCachedArtifact
  BY DEF StageInv
<1>2. IsFiniteSet(copies) /\ Tagged \subseteq copies /\ faults \in Nat /\ Tagged' = Tagged
  BY <1>1 DEF Copying, Tagged
<1>3. IsFiniteSet(Untagged)
  BY <1>2, NoMore DEF Untagged
<1>4. CASE copies' = copies
  <2>1. Untagged' = Untagged /\ Cardinality(Untagged) \in Nat
    BY <1>2, <1>3, <1>4, NoMore DEF Untagged
  <2>2. Cardinality(Untagged) <= faults + 1
    BY <1>1, <1>2, <2>1 DEF Copying
  <2> QED BY <1>1, <1>2, <1>4, <2>1, <2>2 DEF Copying, OneCachedArtifact
<1>5. CASE phase # "gc" /\ copies' = copies \cup {x}
  <2>1. Untagged' \subseteq Untagged \cup {x} /\ IsFiniteSet(copies')
    BY <1>2, <1>5, OneMore DEF Untagged
  <2>2. /\ Cardinality(Untagged') <= Cardinality(Untagged) + 1
        /\ Cardinality(Untagged') \in Nat /\ Cardinality(Untagged) \in Nat
    BY <1>3, <2>1, OneMore
  <2>3. Cardinality(Untagged) <= faults
    BY <1>1, <1>5 DEF Copying
  <2>4. Cardinality(Untagged') <= faults'
    BY <1>2, <2>2, <2>3
  <2>5. Tagged' \subseteq copies' /\ faults' \in Nat
    BY <1>2, <1>5
  <2> QED BY <1>1, <2>1, <2>4, <2>5 DEF Copying, OneCachedArtifact
<1> QED BY <1>4, <1>5

\* What is cut off under an empty marker is doubtful from then on.
LEMMA FaultNameless ==
  ASSUME StageInv, hub' = hub, doubtful' = doubtful \cup CutOff,
         phase' \notin {"fetch", "snapshots"}
  PROVE  NamelessTrue'
<1> SUFFICES ASSUME NEW pin \in Pins, hub[pin.id].marker = Empty,
                    HasSnapshot(hub[pin.id], pin.revision), pin.id \notin doubtful \cup CutOff
             PROVE  Finished(hub[pin.id], pin)
  BY DEF NamelessTrue
<1>1. ~ Underway(pin)
  BY DEF Underway, CutOff, Dir
<1> QED BY <1>1 DEF StageInv, NamelessTrue

\* A failing step leaves what it found, or more, and the operator may retry it.
LEMMA FailingStage ==
  ASSUME StageInv, phase \in Working, NEW kind, Failing(kind), UNCHANGED oci, Copying',
         DOMAIN harbor \subseteq DOMAIN harbor', images \subseteq images',
         \A ref \in DOMAIN harbor' : ref = <<ref[1], ref[2]>> /\ ref[1] \in Range(Models),
         DOMAIN hub' = DOMAIN Hub, \A id \in DOMAIN Hub : hub'[id] \in Directories(id),
         MarkerTrue', NamelessTrue'
  PROVE  StageInv'
<1>1. TypeOK /\ Looping /\ Mirroring /\ OneCachedArtifact
  BY DEF StageInv
<1>2. /\ catalog' = catalog /\ serve' = serve /\ uninstall' = uninstall
      /\ wanted' = wanted /\ toUpload' = toUpload
      /\ phase' = IF kind \in Retryable(phase) THEN "recover" ELSE "idle"
      /\ failed' = IF kind \in Retryable(phase) THEN phase ELSE None
      /\ faults' = faults + 1
  BY DEF Failing, runVars
<1>3. Doing = phase /\ phase \notin {"recover", "idle", "done"}
  BY DEF Doing, Working, Downloading, Uploading
<1>4. Doing' \in {phase, "idle"} /\ phase' \in {"recover", "idle"}
  BY <1>2, <1>3 DEF Doing
<1>5. TypeOK'
  <2>1. \A ref \in DOMAIN oci' : ref = <<ref[1], ref[2]>> /\ ref[1] \in Range(Models)
    BY <1>1 DEF TypeOK
  <2>2. Doing' \in Working \cup {"idle", "done"} /\ (phase' # "recover" => failed' = None)
    BY <1>2, <1>4
  <2> QED BY <1>1, <1>2, <2>1, <2>2 DEF TypeOK
<1>6. phase' \notin Downloading \cup Uploading
  BY <1>4 DEF Downloading, Uploading
<1>7. Doing' \in Working => Doing' = Doing
  BY <1>3, <1>4 DEF Working, Downloading, Uploading
<1>8. Looping'
  <2>1. Downloading \cup Uploading \subseteq Working
    BY DEF Working
  <2> QED BY <1>1, <1>2, <1>6, <1>7, <2>1 DEF Looping
<1>9. Trimming' /\ Caching'
  BY <1>4 DEF Trimming, Caching
<1>10. Mirroring'
  <2>1. imagesToUpload' = imagesToUpload /\ \A m : Ref(m)' = Ref(m)
    BY <1>2 DEF imagesToUpload, Ref
  <2>2. Doing' \in {"images", "delete", "done"} => Doing' = Doing
    BY <1>4, <1>3
  <2> QED BY <1>1, <1>2, <1>4, <1>6, <1>7, <2>1, <2>2 DEF Mirroring
<1>11. OneCachedArtifact'
  BY <1>1, <1>4 DEF OneCachedArtifact, Copying
<1> QED BY <1>5, <1>8, <1>9, <1>10, <1>11 DEF StageInv

\* Directories nobody touches keep their types and their markers.
LEMMA HubSame ==
  ASSUME StageInv, UNCHANGED hub
  PROVE  /\ DOMAIN hub' = DOMAIN Hub /\ \A id \in DOMAIN Hub : hub'[id] \in Directories(id)
         /\ MarkerTrue'
BY DEF StageInv, TypeOK, MarkerTrue

\* A step that fails has changed nothing.
LEMMA StepFailsStage == ASSUME StageInv, StepFails PROVE StageInv'
<1>1. hub' = hub /\ oci' = oci /\ copies' = copies /\ harbor' = harbor /\ images' = images /\ phase \in Working
  BY DEF StepFails, cacheVars, registryVars
<1>2. PICK kind : Failing(kind)
  BY DEF StepFails
<1>3. \A ref \in DOMAIN harbor' : ref = <<ref[1], ref[2]>> /\ ref[1] \in Range(Models)
  BY <1>1 DEF StageInv, TypeOK
<1>4. faults' = faults + 1 /\ phase' \notin {"fetch", "snapshots", "gc"}
  BY <1>2 DEF Failing
<1>5. NamelessTrue'
  BY <1>1, <1>4, FaultNameless DEF StepFails
<1>6. Copying'
  BY <1>1, <1>4, FaultCopies
<1> QED BY <1>1, <1>2, <1>3, <1>5, <1>6, HubSame, FailingStage

\* Images that were uploaded before the step failed stay in Harbor.
LEMMA ImagesInPartStage == ASSUME StageInv, imagesInPart PROVE StageInv'
<1>1. /\ hub' = hub /\ oci' = oci /\ copies' = copies /\ harbor' = harbor
      /\ doubtful' = doubtful /\ phase = "images" /\ phase \in Working
  BY DEF imagesInPart, cacheVars, Working
<1>2. PICK kind : Failing(kind)
  BY DEF imagesInPart
<1>3. \A ref \in DOMAIN harbor' : ref = <<ref[1], ref[2]>> /\ ref[1] \in Range(Models)
  BY <1>1 DEF StageInv, TypeOK
<1>4. images \subseteq images'
  BY DEF imagesInPart
<1>5. faults' = faults + 1 /\ phase' \notin {"fetch", "snapshots", "gc"}
  BY <1>2 DEF Failing
<1>6. NamelessTrue'
  BY <1>1, <1>5, FaultNameless DEF CutOff
<1>7. Copying'
  BY <1>1, <1>5, FaultCopies
<1> QED BY <1>1, <1>2, <1>3, <1>4, <1>6, <1>7, HubSame, FailingStage

\* A store with one more artifact.
LEMMA WithDomain ==
  ASSUME NEW store, NEW ref, NEW layers
  PROVE  /\ DOMAIN With(store, ref, layers) = DOMAIN store \cup {ref}
         /\ \A r \in DOMAIN store \cup {ref} :
              With(store, ref, layers)[r] = IF r = ref THEN layers ELSE store[r]
BY DEF With

\* An artifact whose push was not answered is in Harbor all the same.
LEMMA PushUnansweredStage == ASSUME StageInv, pushUnanswered PROVE StageInv'
<1>1. /\ hub' = hub /\ oci' = oci /\ copies' = copies /\ images' = images
      /\ Failing("network") /\ doubtful' = doubtful /\ phase = "push"
      /\ phase \in Working /\ phase \in Uploading
  BY DEF pushUnanswered, cacheVars, Working, Uploading
<1>2. DOMAIN harbor' = DOMAIN harbor \cup {Ref(Model)}
  BY WithDomain DEF pushUnanswered
<1>3. Ref(Model) = <<Ref(Model)[1], Ref(Model)[2]>> /\ Ref(Model)[1] \in Range(Models)
  BY <1>1, ModelFacts DEF StageInv
<1>4. \A ref \in DOMAIN harbor' : ref = <<ref[1], ref[2]>> /\ ref[1] \in Range(Models)
  BY <1>2, <1>3 DEF StageInv, TypeOK
<1>5. faults' = faults + 1 /\ phase' \notin {"fetch", "snapshots", "gc"}
  BY <1>1 DEF Failing
<1>6. NamelessTrue'
  BY <1>1, <1>5, FaultNameless DEF CutOff
<1>7. Copying'
  BY <1>1, <1>5, FaultCopies
<1> QED BY <1>1, <1>2, <1>4, <1>6, <1>7, HubSame, FailingStage

\* A ref that is cut short is written anew before anything relies on it.
LEMMA RefCutStage == ASSUME StageInv, refCut PROVE StageInv'
<1>1. /\ oci' = oci /\ copies' = copies /\ doubtful' = doubtful /\ images' = images /\ harbor' = harbor /\ Failing("local")
      /\ phase \in Working /\ phase \in Downloading
      /\ phase \in {"reuse", "ref"}
  BY DEF refCut, registryVars, ociVars, Working, Downloading
<1>2. PICK d \in Directories(Pin.id) :
           /\ OnlyDir(d) /\ d.ref = Empty
           /\ d.snapshots = Dir.snapshots /\ d.blobs = Dir.blobs /\ d.marker = Dir.marker
  BY <1>1, RefOnly DEF refCut
<1>3. TypeOK /\ Looping /\ MarkerTrue /\ NamelessTrue
  BY DEF StageInv
<1>4. \A id \in DOMAIN Hub : hub'[id] = IF id = Pin.id THEN d ELSE hub[id]
  BY <1>2, <1>3 DEF TypeOK, OnlyDir
<1>5. DOMAIN hub' = DOMAIN Hub /\ \A id \in DOMAIN Hub : hub'[id] \in Directories(id)
  BY <1>2, <1>3, <1>4 DEF TypeOK, OnlyDir
<1>6. MarkerTrue'
  <2> SUFFICES ASSUME NEW pin \in Pins, hub'[pin.id].marker = pin.revision
               PROVE  Finished(hub'[pin.id], pin)
    BY DEF MarkerTrue
  <2>1. pin.id \in DOMAIN Hub
    BY CatalogAssumption
  <2>2. CASE pin.id = Pin.id
    BY <1>2, <1>3, <1>4, <2>1, <2>2, SameFiles DEF MarkerTrue, Dir
  <2>3. CASE pin.id # Pin.id
    BY <1>3, <1>4, <2>1, <2>3 DEF MarkerTrue
  <2> QED BY <2>2, <2>3
<1>7. \A ref \in DOMAIN harbor' : ref = <<ref[1], ref[2]>> /\ ref[1] \in Range(Models)
  BY <1>1, <1>3 DEF TypeOK
<1>8. faults' = faults + 1 /\ phase' \notin {"fetch", "snapshots", "gc"}
  BY <1>1 DEF Failing
<1>9. Copying'
  BY <1>1, <1>8, FaultCopies
<1>10. NamelessTrue'
  <2> SUFFICES ASSUME NEW pin \in Pins, hub'[pin.id].marker = Empty,
                      HasSnapshot(hub'[pin.id], pin.revision), pin.id \notin doubtful
               PROVE  Finished(hub'[pin.id], pin)
    BY <1>1 DEF NamelessTrue
  <2>1. pin.id \in DOMAIN Hub /\ ~ Underway(pin)
    BY <1>1, CatalogAssumption DEF Underway
  <2>2. CASE pin.id = Pin.id
    BY <1>2, <1>3, <1>4, <2>1, <2>2, SameFiles DEF NamelessTrue, Dir
  <2>3. CASE pin.id # Pin.id
    BY <1>3, <1>4, <2>1, <2>3 DEF NamelessTrue
  <2> QED BY <2>2, <2>3
<1> QED BY <1>1, <1>5, <1>6, <1>7, <1>9, <1>10, FailingStage

\* A marker whose write is cut short makes its repository doubtful.
LEMMA MarkerCutOnly ==
  ASSUME StageInv, markerIsCut
  PROVE  \E d \in Directories(Pin.id) :
           /\ OnlyDir(d) /\ d.marker = Empty
           /\ d.snapshots = Dir.snapshots /\ d.blobs = Dir.blobs /\ d.ref = Dir.ref
<1>1. TypeOK /\ Looping /\ phase \in Downloading
  BY DEF StageInv, markerIsCut, Downloading
<1>2. Dir \in Directories(Pin.id) /\ Pin.id \in DOMAIN Hub
  BY <1>1, PinFacts
<1> DEFINE d == [Dir EXCEPT !.marker = Empty]
<1>3. /\ d \in Directories(Pin.id) /\ d.marker = Empty
      /\ d.snapshots = Dir.snapshots /\ d.blobs = Dir.blobs /\ d.ref = Dir.ref
  BY <1>2, DirectoryEdits
<1>4. OnlyDir(d)
  <2>1. SetDir(d)
    BY DEF markerIsCut
  <2> HIDE DEF d
  <2> QED BY <1>1, <1>2, <2>1, SetDirOnly
<1> HIDE DEF d
<1> QED BY <1>3, <1>4

\* An empty marker names no revision, so that no other marker is wrong.
LEMMA MarkerCutStage == ASSUME StageInv, markerIsCut PROVE StageInv'
<1>1. /\ oci' = oci /\ copies' = copies /\ images' = images /\ harbor' = harbor
      /\ Failing("local") /\ phase = "mark" /\ doubtful' = doubtful \cup {Pin.id}
      /\ phase \in Working /\ phase \in Downloading
  BY DEF markerIsCut, registryVars, ociVars, Working, Downloading
<1>2. PICK d \in Directories(Pin.id) :
           /\ OnlyDir(d) /\ d.marker = Empty
           /\ d.snapshots = Dir.snapshots /\ d.blobs = Dir.blobs /\ d.ref = Dir.ref
  BY MarkerCutOnly
<1>3. TypeOK /\ Looping /\ MarkerTrue /\ NamelessTrue
  BY DEF StageInv
<1>4. \A id \in DOMAIN Hub : hub'[id] = IF id = Pin.id THEN d ELSE hub[id]
  BY <1>2, <1>3 DEF TypeOK, OnlyDir
<1>5. DOMAIN hub' = DOMAIN Hub /\ \A id \in DOMAIN Hub : hub'[id] \in Directories(id)
  BY <1>2, <1>3, <1>4 DEF TypeOK, OnlyDir
<1>6. MarkerTrue'
  <2> SUFFICES ASSUME NEW pin \in Pins, hub'[pin.id].marker = pin.revision
               PROVE  Finished(hub'[pin.id], pin)
    BY DEF MarkerTrue
  <2>1. pin.id \in DOMAIN Hub /\ pin.revision # Empty
    BY CatalogAssumption, EmptyIsNone
  <2> QED BY <1>2, <1>3, <1>4, <2>1 DEF MarkerTrue
<1>7. \A ref \in DOMAIN harbor' : ref = <<ref[1], ref[2]>> /\ ref[1] \in Range(Models)
  BY <1>1, <1>3 DEF TypeOK
<1>8. faults' = faults + 1 /\ phase' \notin {"fetch", "snapshots", "gc"}
  BY <1>1 DEF Failing
<1>9. Copying'
  BY <1>1, <1>8, FaultCopies
<1>10. NamelessTrue'
  <2> SUFFICES ASSUME NEW pin \in Pins, hub'[pin.id].marker = Empty,
                      HasSnapshot(hub'[pin.id], pin.revision), pin.id \notin doubtful'
               PROVE  Finished(hub'[pin.id], pin)
    BY DEF NamelessTrue
  <2>1. pin.id \in DOMAIN Hub /\ ~ Underway(pin) /\ pin.id # Pin.id /\ pin.id \notin doubtful
    BY <1>1, CatalogAssumption DEF Underway
  <2> QED BY <1>3, <1>4, <2>1 DEF NamelessTrue
<1> QED BY <1>1, <1>5, <1>6, <1>7, <1>9, <1>10, FailingStage

\* A build that fails half-way leaves one copy without a tag.
LEMMA BuildInPartStage == ASSUME StageInv, buildInPart PROVE StageInv'
<1>1. /\ hub' = hub /\ oci' = oci /\ harbor' = harbor /\ images' = images
      /\ doubtful' = doubtful /\ phase = "build" /\ phase \in Working
      /\ copies' = copies \cup {<<Ref(Model), packStore(Model)>>}
  BY DEF buildInPart, registryVars, Working, Uploading
<1>2. PICK kind : Failing(kind)
  BY DEF buildInPart
<1>3. \A ref \in DOMAIN harbor' : ref = <<ref[1], ref[2]>> /\ ref[1] \in Range(Models)
  BY <1>1 DEF StageInv, TypeOK
<1>4. faults' = faults + 1 /\ phase' \notin {"fetch", "snapshots", "gc"}
  BY <1>2 DEF Failing
<1>5. NamelessTrue'
  BY <1>1, <1>4, FaultNameless DEF CutOff
<1>6. Copying'
  <2> DEFINE x == <<Ref(Model), packStore(Model)>>
  <2>1. phase # "gc" /\ copies' = copies \cup {x}
    BY <1>1
  <2> HIDE DEF x
  <2> QED BY <1>1, <1>4, <2>1, FaultCopies
<1> QED BY <1>1, <1>2, <1>3, <1>5, <1>6, HubSame, FailingStage

\* A run starts from what the earlier ones left on disk.
LEMMA StartRunStage == ASSUME StageInv, StartRun PROVE StageInv'
<1>1. /\ hub' = hub /\ oci' = oci /\ harbor' = harbor /\ phase' = "check" /\ failed' = None
      /\ catalog' \in Catalogs /\ toUpload' = <<>> /\ phase \in {"idle", "done"}
      /\ copies' = copies /\ doubtful' = doubtful /\ faults' = faults
  BY DEF StartRun, cacheVars, registryVars
<1>2. PICK s \in Selections : serve' = s.serve /\ uninstall' = s.uninstall
  BY DEF StartRun
<1>3. Doing' = "check"
  BY <1>1 DEF Doing
<1>4. TypeOK'
  <2>1. <<>> \in Seq(Range(Models))
    OBVIOUS
  <2>2. "check" \in Working /\ "check" # "recover"
    BY DEF Working
  <2>3. serve' \cap uninstall' = {} /\ serve' \subseteq Range(Models) \cup Simulated
    BY <1>2, SelectionAssumption
  <2> QED BY <1>1, <1>3, <2>1, <2>2, <2>3 DEF TypeOK, StageInv
<1>5. Looping'
  BY <1>1, <1>3 DEF Looping, Downloading, Uploading
<1>6. Trimming' /\ Caching'
  BY <1>1 DEF Trimming, Caching
<1>7. Mirroring'
  BY <1>1, <1>3 DEF Mirroring, Uploading
<1>8. MarkerTrue' /\ NamelessTrue' /\ Copying' /\ OneCachedArtifact'
  BY <1>1, RestKept
<1> QED BY <1>4, <1>5, <1>6, <1>7, <1>8 DEF StageInv

\* What the check does not list is in Harbor.
LEMMA CheckStage == ASSUME StageInv, checkModelArtifacts PROVE StageInv'
<1>1. /\ hub' = hub /\ oci' = oci /\ harbor' = harbor /\ phase' = "report" /\ failed' = failed
      /\ catalog' = catalog /\ serve' = serve /\ uninstall' = uninstall /\ phase = "check"
      /\ copies' = copies /\ doubtful' = doubtful /\ faults' = faults
  BY DEF checkModelArtifacts, Goto, cacheVars, registryVars, runVars
<1> DEFINE S == {m \in serve \ Simulated : ~modelExistsInHarbor(m)}
<1>2. toUpload' = InOrder(S)
  BY DEF checkModelArtifacts
<1>3. toUpload' \in Seq(Range(Models)) /\ Range(toUpload') = Range(Models) \cap S
  <2> HIDE DEF S
  <2> QED BY <1>2, InOrderRange
<1>4. Doing' = "report" /\ TypeOK
  BY <1>1 DEF Doing, StageInv
<1>5. TypeOK'
  BY <1>1, <1>3, <1>4 DEF TypeOK, Working
<1>6. Looping'
  BY <1>1, <1>4 DEF Looping, Downloading, Uploading
<1>7. Trimming' /\ Caching'
  BY <1>1 DEF Trimming, Caching
<1>8. Mirroring'
  <2>1. \A m \in serve \ Simulated : Ref(m) \in DOMAIN harbor \/ m \in Range(toUpload')
    BY <1>3, <1>4 DEF modelExistsInHarbor, TypeOK
  <2>2. \A m : Ref(m)' = Ref(m)
    BY <1>1 DEF Ref
  <2> QED BY <1>1, <1>4, <2>1, <2>2 DEF Mirroring, Uploading
<1>9. MarkerTrue' /\ NamelessTrue' /\ Copying' /\ OneCachedArtifact'
  BY <1>1, RestKept
<1> QED BY <1>5, <1>6, <1>7, <1>8, <1>9 DEF StageInv

\* The report changes nothing, and the download follows.
LEMMA ReportStage == ASSUME StageInv, reportModelStorage PROVE StageInv'
<1>1. /\ hub' = hub /\ oci' = oci /\ harbor' = harbor /\ failed' = failed
      /\ catalog' = catalog /\ serve' = serve /\ uninstall' = uninstall /\ phase = "report"
      /\ toUpload' = toUpload /\ todo' = convertModels(toUpload)
      /\ phase' = IF toUpload = <<>> THEN "images" ELSE "prepare"
      /\ copies' = copies /\ doubtful' = doubtful /\ faults' = faults
  BY DEF reportModelStorage, EnterDownload, Goto, cacheVars, registryVars, runVars
<1>2. Doing' = phase' /\ Doing = "report" /\ TypeOK /\ Mirroring
  BY <1>1 DEF Doing, StageInv
<1>3. TypeOK'
  BY <1>1, <1>2 DEF TypeOK, Working, Downloading
<1>4. /\ convertModels(toUpload) \in Seq(PinsOf(toUpload))
      /\ toUpload # <<>> => convertModels(toUpload) # <<>>
  BY <1>2, ConvertRange DEF TypeOK
<1>5. PinsOf(toUpload)' = PinsOf(toUpload)
  BY <1>1 DEF PinsOf
<1>6. Looping'
  BY <1>1, <1>2, <1>4, <1>5 DEF Looping, Downloading, Uploading
<1>7. Trimming' /\ Caching'
  BY <1>1 DEF Trimming, Caching
<1>8. Mirroring'
  <2>1. \A m \in serve \ Simulated : Ref(m) \in DOMAIN harbor \/ m \in Range(toUpload)
    BY <1>2 DEF Mirroring, Working
  <2>2. \A m : Ref(m)' = Ref(m)
    BY <1>1 DEF Ref
  <2>3. Range(<<>>) = {}
    BY DEF Range
  <2> QED BY <1>1, <1>2, <2>1, <2>2, <2>3 DEF Mirroring, Uploading
<1>9. MarkerTrue' /\ NamelessTrue' /\ Copying' /\ OneCachedArtifact'
  BY <1>1, RestKept
<1> QED BY <1>3, <1>6, <1>7, <1>8, <1>9 DEF StageInv

\* A step of the upload of one model: what it does not touch.
LEMMA UploadFrame ==
  ASSUME StageInv, phase \in Uploading, phase' \in Uploading,
         UNCHANGED <<hub, registryVars, runVars, doubtful, toUpload, todo, failed>>,
         \A ref \in DOMAIN oci' : ref = <<ref[1], ref[2]>> /\ ref[1] \in Range(Models)
  PROVE  /\ TypeOK' /\ Looping' /\ Trimming' /\ MarkerTrue' /\ NamelessTrue' /\ Mirroring'
         /\ Model' = Model /\ Ref(Model)' = Ref(Model)
<1>1. TypeOK /\ Looping /\ MarkerTrue /\ NamelessTrue /\ Mirroring
  BY DEF StageInv
<1>2. /\ hub' = hub /\ harbor' = harbor /\ images' = images /\ catalog' = catalog
      /\ serve' = serve /\ uninstall' = uninstall /\ wanted' = wanted
      /\ toUpload' = toUpload /\ todo' = todo /\ failed' = failed
  BY DEF registryVars, runVars
<1>3. /\ Doing = phase /\ Doing' = phase' /\ phase' # "recover" /\ phase # "recover"
      /\ phase' \in Working \ {"check", "images", "delete"} /\ phase' \notin Downloading
      /\ phase' \notin {"done", "images", "delete"} /\ phase \in Working \ {"check"}
  BY DEF Doing, Uploading, Working, Downloading
<1>4. Model' = Model /\ \A m : Ref(m)' = Ref(m)
  BY <1>2 DEF Model, Ref
<1>5. TypeOK'
  BY <1>1, <1>2, <1>3 DEF TypeOK
<1>6. Looping'
  BY <1>1, <1>2, <1>3 DEF Looping
<1>7. Trimming'
  BY DEF Trimming, Uploading
<1>8. Mirroring'
  BY <1>1, <1>2, <1>3, <1>4 DEF Mirroring
<1>9. MarkerTrue' /\ NamelessTrue'
  <2>1. doubtful' = doubtful /\ phase \notin {"fetch", "snapshots"}
        /\ phase' \notin {"fetch", "snapshots"}
    BY DEF Uploading
  <2> QED BY <1>1, <1>2, <2>1 DEF MarkerTrue, NamelessTrue, Underway
<1>10. Ref(Model)' = Ref(Model)
  BY <1>2, <1>4 DEF Ref
<1> QED BY <1>4, <1>5, <1>6, <1>7, <1>8, <1>9, <1>10

\* Without an artifact of this pin, the artifacts of the model are superseded.
LEMMA ResolveStage == ASSUME StageInv, resolveCache PROVE StageInv'
<1>1. /\ phase = "resolve" /\ phase' \in {"push", "untag", "build"} /\ oci' = oci
      /\ copies' = copies /\ faults' = faults
      /\ phase \in Uploading /\ phase' \in Uploading
      /\ UNCHANGED <<hub, registryVars, runVars, doubtful, toUpload, todo, failed>>
  BY DEF resolveCache, Goto, cacheVars, Uploading
<1>2. \A ref \in DOMAIN oci' : ref = <<ref[1], ref[2]>> /\ ref[1] \in Range(Models)
  BY <1>1 DEF StageInv, TypeOK
<1>3. /\ TypeOK' /\ Looping' /\ Trimming' /\ MarkerTrue' /\ NamelessTrue' /\ Mirroring'
      /\ Model' = Model /\ Ref(Model)' = Ref(Model)
  BY <1>1, <1>2, UploadFrame
<1>4. Caching'
  <2>1. CASE Ref(Model) \in DOMAIN oci
    <3>1. phase' = "push"
      BY <2>1 DEF resolveCache, Goto
    <3> QED BY <1>1, <1>3, <2>1, <3>1 DEF Caching
  <2>2. CASE Ref(Model) \notin DOMAIN oci
    <3>1. /\ doomed' = Superseded(Model)
          /\ phase' = IF Superseded(Model) = {} THEN "build" ELSE "untag"
      BY <2>2 DEF resolveCache, Goto
    <3>2. Superseded(Model) = {ref \in DOMAIN oci : ref[1] = Model}
      BY <2>2 DEF Superseded
    <3> QED BY <1>1, <1>3, <2>2, <3>1, <3>2 DEF Caching
  <2> QED BY <2>1, <2>2
<1>5. Copying' /\ OneCachedArtifact'
  BY <1>1 DEF StageInv, Copying, OneCachedArtifact, Untagged, Tagged
<1> QED BY <1>3, <1>4, <1>5 DEF StageInv

\* Only artifacts of the model go, and they were superseded.
LEMMA PruneStage == ASSUME StageInv, pruneSupersededArtifacts PROVE StageInv'
<1>1. /\ phase = "untag" /\ copies' = copies /\ faults' = faults
      /\ UNCHANGED <<hub, registryVars, runVars, doubtful, toUpload, todo, failed>>
  BY DEF pruneSupersededArtifacts, Goto
<1>2. PICK ref \in doomed : /\ oci' = [r \in DOMAIN oci \ {ref} |-> oci[r]]
                            /\ doomed' = doomed \ {ref}
                            /\ phase' = IF doomed = {ref} THEN "gc" ELSE "untag"
  BY DEF pruneSupersededArtifacts, Goto
<1>3. DOMAIN oci' = DOMAIN oci \ {ref} /\ \A r \in DOMAIN oci' : oci'[r] = oci[r]
  BY <1>2
<1>4. \A r \in DOMAIN oci' : r = <<r[1], r[2]>> /\ r[1] \in Range(Models)
  BY <1>3 DEF StageInv, TypeOK
<1>5. /\ doomed = {r \in DOMAIN oci : r[1] = Model}
      /\ \A x, y \in DOMAIN oci : x[1] = y[1] => x = y
  BY <1>1 DEF StageInv, Caching, OneCachedArtifact
<1>6. doomed = {ref} /\ ref \in DOMAIN oci /\ phase' = "gc"
  BY <1>2, <1>5
<1>7. phase \in Uploading /\ phase' \in Uploading
  BY <1>1, <1>6 DEF Uploading
<1>8. /\ TypeOK' /\ Looping' /\ Trimming' /\ MarkerTrue' /\ NamelessTrue' /\ Mirroring'
      /\ Model' = Model /\ Ref(Model)' = Ref(Model)
  BY <1>1, <1>4, <1>7, UploadFrame
<1>9. Caching'
  <2>1. \A r \in DOMAIN oci' : r[1] # Model
    BY <1>3, <1>5, <1>6
  <2> QED BY <1>6, <1>8, <2>1 DEF Caching
<1>10. Copying'
  <2>1. /\ Tagged \subseteq copies /\ IsFiniteSet(copies) /\ faults \in Nat
        /\ Cardinality(Untagged) <= faults
    BY <1>1 DEF StageInv, Copying
  <2>2. Tagged' \subseteq Tagged
    BY <1>3 DEF Tagged
  <2>3. \A t \in Tagged : t \in Tagged' \/ t = <<ref, oci[ref]>>
    BY <1>3 DEF Tagged
  <2>4. Untagged' \subseteq Untagged \cup {<<ref, oci[ref]>>}
    BY <1>1, <2>3 DEF Untagged
  <2>5. IsFiniteSet(Untagged)
    BY <2>1, NoMore DEF Untagged
  <2>6. /\ Cardinality(Untagged') <= Cardinality(Untagged) + 1
        /\ Cardinality(Untagged') \in Nat /\ Cardinality(Untagged) \in Nat
    BY <2>4, <2>5, OneMore
  <2>7. Cardinality(Untagged') <= faults' + 1
    BY <1>1, <2>1, <2>6
  <2> QED BY <1>1, <1>6, <2>1, <2>2, <2>7 DEF Copying
<1>11. OneCachedArtifact'
  BY <1>3, <1>5, <1>6 DEF OneCachedArtifact
<1> QED BY <1>8, <1>9, <1>10, <1>11 DEF StageInv

\* A collection leaves the copies that have a tag, and no others.
LEMMA CollectStage == ASSUME StageInv, collect PROVE StageInv'
<1>1. /\ phase = "gc" /\ phase' = "build" /\ copies' = Tagged /\ faults' = faults
      /\ oci' = oci /\ phase \in Uploading /\ phase' \in Uploading
      /\ UNCHANGED <<hub, registryVars, runVars, doubtful, toUpload, todo, failed>>
  BY DEF collect, Goto, Uploading
<1>2. \A ref \in DOMAIN oci' : ref = <<ref[1], ref[2]>> /\ ref[1] \in Range(Models)
  BY <1>1 DEF StageInv, TypeOK
<1>3. /\ TypeOK' /\ Looping' /\ Trimming' /\ MarkerTrue' /\ NamelessTrue' /\ Mirroring'
      /\ Model' = Model /\ Ref(Model)' = Ref(Model)
  BY <1>1, <1>2, UploadFrame
<1>4. Caching'
  BY <1>1, <1>3 DEF StageInv, Caching
<1>5. Tagged' = Tagged /\ Untagged' = {}
  BY <1>1 DEF Tagged, Untagged
<1>6. IsFiniteSet(copies') /\ faults \in Nat
  BY <1>1, NoMore DEF StageInv, Copying
<1>7. Cardinality(Untagged') <= faults'
  BY <1>1, <1>5, <1>6, FS_EmptySet
<1>8. Copying'
  BY <1>1, <1>5, <1>6, <1>7 DEF Copying
<1>9. OneCachedArtifact'
  BY <1>1, <1>7 DEF StageInv, OneCachedArtifact
<1> QED BY <1>3, <1>4, <1>8, <1>9 DEF StageInv

\* The tag is written when no other artifact of the model is left.
LEMMA BuildStage == ASSUME StageInv, buildCache PROVE StageInv'
<1> DEFINE new == <<Ref(Model), packStore(Model)>>
<1>1. /\ phase = "build" /\ phase' = "push" /\ phase \in Uploading /\ phase' \in Uploading
      /\ copies' = copies \cup {new} /\ faults' = faults
      /\ UNCHANGED <<hub, registryVars, runVars, doubtful, toUpload, todo, failed>>
  BY DEF buildCache, Goto, Uploading
<1>2. /\ oci' = With(oci, Ref(Model), packStore(Model))
      /\ DOMAIN oci' = DOMAIN oci \cup {Ref(Model)}
  BY WithDomain DEF buildCache
<1>3. /\ Ref(Model) = <<Ref(Model)[1], Ref(Model)[2]>> /\ Ref(Model)[1] = Model
      /\ Model \in Range(Models)
  BY <1>1, ModelFacts DEF StageInv
<1>4. \A r \in DOMAIN oci' : r = <<r[1], r[2]>> /\ r[1] \in Range(Models)
  BY <1>2, <1>3 DEF StageInv, TypeOK
<1>5. /\ TypeOK' /\ Looping' /\ Trimming' /\ MarkerTrue' /\ NamelessTrue' /\ Mirroring'
      /\ Model' = Model /\ Ref(Model)' = Ref(Model)
  BY <1>1, <1>4, UploadFrame
<1>6. \A r \in DOMAIN oci : r[1] # Model
  BY <1>1 DEF StageInv, Caching
<1>7. Caching'
  BY <1>1, <1>2, <1>5 DEF Caching
<1>8. Copying'
  <2>1. /\ Tagged \subseteq copies /\ IsFiniteSet(copies) /\ faults \in Nat
        /\ Cardinality(Untagged) <= faults
    BY <1>1 DEF StageInv, Copying
  <2>2. /\ oci'[Ref(Model)] = packStore(Model)
        /\ \A r \in DOMAIN oci : oci'[r] = oci[r]
    BY <1>2, <1>3, <1>6 DEF With
  <2>3. Tagged' = Tagged \cup {new}
    <3> HIDE DEF new
    <3>1. new = <<Ref(Model), oci'[Ref(Model)]>>
      BY <2>2 DEF new
    <3> QED BY <1>2, <2>2, <3>1 DEF Tagged
  <2> HIDE DEF new
  <2>4. Untagged' \subseteq Untagged
    BY <1>1, <2>3 DEF Untagged
  <2>5. IsFiniteSet(Untagged)
    BY <2>1, NoMore DEF Untagged
  <2>6. /\ Cardinality(Untagged') <= Cardinality(Untagged)
        /\ Cardinality(Untagged') \in Nat /\ Cardinality(Untagged) \in Nat
    BY <2>4, <2>5, NoMore
  <2>7. Cardinality(Untagged') <= faults'
    BY <1>1, <2>1, <2>6
  <2>8. IsFiniteSet(copies')
    BY <1>1, <2>1, OneMore
  <2> QED BY <1>1, <2>1, <2>3, <2>7, <2>8 DEF Copying
<1>9. OneCachedArtifact'
  <2>1. \A x, y \in DOMAIN oci' : x[1] = y[1] => x = y
    BY <1>2, <1>3, <1>6 DEF StageInv, OneCachedArtifact
  <2> QED BY <1>1, <1>8, <2>1 DEF OneCachedArtifact, Copying
<1> QED BY <1>5, <1>7, <1>8, <1>9 DEF StageInv

\* A model that was pushed is in Harbor, the others are still ahead.
LEMMA PushStage == ASSUME StageInv, push PROVE StageInv'
<1>1. /\ phase = "push" /\ phase \in Uploading /\ hub' = hub /\ oci' = oci /\ images' = images
      /\ catalog' = catalog /\ serve' = serve /\ uninstall' = uninstall /\ wanted' = wanted
      /\ toUpload' = toUpload /\ todo' = Tail(todo) /\ failed' = failed
      /\ phase' = IF Len(todo) > 1 THEN "resolve" ELSE "images"
      /\ copies' = copies /\ doubtful' = doubtful /\ faults' = faults
  BY DEF push, NextModel, Goto, cacheVars, runVars, Uploading
<1>2. DOMAIN harbor' = DOMAIN harbor \cup {Ref(Model)}
  BY WithDomain DEF push
<1>3. /\ Model \in Range(Models) /\ todo \in Seq(Range(toUpload)) \ {<<>>}
      /\ Ref(Model) = <<Ref(Model)[1], Ref(Model)[2]>> /\ Ref(Model)[1] = Model
      /\ toUpload # <<>> /\ Doing = phase
  BY <1>1, ModelFacts DEF StageInv
<1>4. Doing' = phase' /\ phase' \in {"resolve", "images"}
  BY <1>1 DEF Doing
<1>5. /\ Tail(todo) \in Seq(Range(toUpload)) /\ Range(todo) = {Model} \cup Range(Tail(todo))
      /\ Len(todo) > 1 => Tail(todo) # <<>>
      /\ ~(Len(todo) > 1) => Range(todo) = {Model}
  BY <1>3, HeadAndTail DEF Model
<1>6. TypeOK'
  <2>1. \A r \in DOMAIN harbor' : r = <<r[1], r[2]>> /\ r[1] \in Range(Models)
    BY <1>2, <1>3 DEF StageInv, TypeOK
  <2> QED BY <1>1, <1>4, <2>1 DEF StageInv, TypeOK, Working, Uploading
<1>7. Looping'
  BY <1>1, <1>3, <1>4, <1>5 DEF Looping, Downloading, Uploading
<1>8. Trimming' /\ Caching'
  BY <1>4 DEF Trimming, Caching
<1>9. Mirroring'
  <2>1. \A m \in serve \ Simulated : Ref(m) \in DOMAIN harbor \/ m \in Range(todo)
    BY <1>1 DEF StageInv, Mirroring
  <2>2. \A m \in serve \ Simulated : Ref(m) \in DOMAIN harbor \/ m \in Range(toUpload)
    BY <1>1, <1>3 DEF StageInv, Mirroring, Working, Uploading
  <2>3. \A m \in serve \ Simulated : Ref(m) \in DOMAIN harbor' \/ m \in Range(Tail(todo))
    BY <1>2, <1>5, <2>1
  <2>4. ~(Len(todo) > 1) => \A m \in serve \ Simulated : Ref(m) \in DOMAIN harbor'
    BY <1>2, <1>5, <2>1
  <2>5. \A m : Ref(m)' = Ref(m)
    BY <1>1 DEF Ref
  <2>6. \A m \in serve \ Simulated : Ref(m) \in DOMAIN harbor' \/ m \in Range(toUpload)
    BY <1>2, <2>2
  <2>7. phase' # "delete" /\ Doing' \notin {"delete", "done"}
    BY <1>4
  <2>8. phase' \in Uploading => Len(todo) > 1
    BY <1>1 DEF Uploading
  <2>9. Doing' \in {"images", "delete", "done"} => ~(Len(todo) > 1)
    BY <1>1, <1>4
  <2> QED BY <1>1, <2>3, <2>4, <2>5, <2>6, <2>7, <2>8, <2>9 DEF Mirroring
<1>10. MarkerTrue' /\ NamelessTrue' /\ Copying' /\ OneCachedArtifact'
  BY <1>1, RestKept
<1> QED BY <1>6, <1>7, <1>8, <1>9, <1>10 DEF StageInv

\* Every image of this run is in Harbor before models are deleted.
LEMMA UploadImagesStage == ASSUME StageInv, uploadImages PROVE StageInv'
<1>1. /\ phase = "images" /\ hub' = hub /\ oci' = oci /\ harbor' = harbor
      /\ catalog' = catalog /\ serve' = serve /\ uninstall' = uninstall /\ wanted' = wanted
      /\ toUpload' = toUpload /\ failed' = failed /\ phase' = AfterImages
      /\ images' = images \cup imagesToUpload /\ doomed' = uninstall \ Simulated
      /\ copies' = copies /\ doubtful' = doubtful /\ faults' = faults
  BY DEF uploadImages, Goto, cacheVars, runVars
<1>2. phase' \in {"done", "delete"} /\ Doing = "images" /\ Doing' = phase'
  BY <1>1 DEF AfterImages, Doing
<1>3. TypeOK' /\ Looping' /\ Trimming' /\ Caching'
  BY <1>1, <1>2 DEF StageInv, TypeOK, Looping, Trimming, Caching, Working, Downloading, Uploading
<1>4. Mirroring'
  <2>1. \A m \in serve \ Simulated : Ref(m) \in DOMAIN harbor
    BY <1>2 DEF StageInv, Mirroring
  <2>2. imagesToUpload' = imagesToUpload /\ \A m : Ref(m)' = Ref(m)
    BY <1>1 DEF imagesToUpload, Ref
  <2>3. phase' \notin Uploading
    BY <1>2 DEF Uploading
  <2> QED BY <1>1, <2>1, <2>2, <2>3 DEF Mirroring
<1>5. MarkerTrue' /\ NamelessTrue' /\ Copying' /\ OneCachedArtifact'
  BY <1>1, <1>2, RestKept
<1> QED BY <1>3, <1>4, <1>5 DEF StageInv

\* What is deleted is not served.
LEMMA DeleteStage == ASSUME StageInv, deleteUninstalledModels PROVE StageInv'
<1>1. /\ phase = "delete" /\ hub' = hub /\ oci' = oci /\ images' = images
      /\ catalog' = catalog /\ serve' = serve /\ uninstall' = uninstall /\ wanted' = wanted
      /\ toUpload' = toUpload /\ failed' = failed
      /\ copies' = copies /\ doubtful' = doubtful /\ faults' = faults
  BY DEF deleteUninstalledModels, Goto, cacheVars, runVars
<1>2. PICK m \in doomed :
        /\ harbor' = [r \in {x \in DOMAIN harbor : x[1] # m} |-> harbor[r]]
        /\ doomed' = doomed \ {m}
        /\ phase' = IF doomed = {m} THEN "done" ELSE "delete"
  BY DEF deleteUninstalledModels, Goto
<1>3. DOMAIN harbor' = {x \in DOMAIN harbor : x[1] # m}
  BY <1>2
<1>4. phase' \in {"done", "delete"} /\ Doing = "delete" /\ Doing' = phase'
  BY <1>1, <1>2 DEF Doing
<1>5. TypeOK' /\ Looping' /\ Trimming' /\ Caching'
  BY <1>1, <1>3, <1>4 DEF StageInv, TypeOK, Looping, Trimming, Caching, Working, Downloading, Uploading
<1>6. Mirroring'
  <2>1. /\ \A n \in serve \ Simulated : Ref(n) \in DOMAIN harbor
        /\ imagesToUpload \subseteq images /\ doomed \subseteq uninstall
    BY <1>1, <1>4 DEF StageInv, Mirroring
  <2>2. serve \cap uninstall = {}
    BY DEF StageInv, TypeOK
  <2>3. \A n : Ref(n)[1] = n
    BY DEF Ref
  <2>4. \A n \in serve \ Simulated : Ref(n) \in DOMAIN harbor'
    BY <1>3, <2>1, <2>2, <2>3
  <2>5. imagesToUpload' = imagesToUpload /\ \A n : Ref(n)' = Ref(n)
    BY <1>1 DEF imagesToUpload, Ref
  <2>6. phase' \notin Uploading
    BY <1>4 DEF Uploading
  <2> QED BY <1>1, <1>2, <2>1, <2>4, <2>5, <2>6 DEF Mirroring
<1>7. MarkerTrue' /\ NamelessTrue' /\ Copying' /\ OneCachedArtifact'
  BY <1>1, <1>4, RestKept
<1> QED BY <1>5, <1>6, <1>7 DEF StageInv

\* A retry starts the step from its beginning.
LEMMA RetryStage == ASSUME StageInv, Retry PROVE StageInv'
<1>1. /\ phase = "recover" /\ failed' = None /\ hub' = hub /\ oci' = oci /\ harbor' = harbor
      /\ images' = images /\ catalog' = catalog /\ serve' = serve /\ uninstall' = uninstall
      /\ wanted' = wanted /\ toUpload' = toUpload
      /\ copies' = copies /\ doubtful' = doubtful /\ faults' = faults
      /\ phase' \notin {"fetch", "snapshots", "gc"}
  BY DEF Retry, cacheVars, registryVars, runVars
<1>2. Doing = failed /\ TypeOK /\ Looping /\ Mirroring
  BY <1>1 DEF Doing, StageInv
<1>3. MarkerTrue' /\ NamelessTrue' /\ Copying' /\ OneCachedArtifact'
  BY <1>1, RestKept
<1>4. imagesToUpload' = imagesToUpload /\ PinsOf(toUpload)' = PinsOf(toUpload)
      /\ \A m : Ref(m)' = Ref(m)
  BY <1>1 DEF imagesToUpload, Ref, PinsOf
<1>5. CASE /\ failed \in Downloading /\ phase' = "prepare"
           /\ todo' = convertModels(toUpload) /\ doomed' = {}
  <2>1. Doing' = "prepare" /\ failed \in Working \ {"check"} /\ toUpload # <<>>
    BY <1>2, <1>5 DEF Doing, Working, Downloading, Looping
  <2>2. convertModels(toUpload) \in Seq(PinsOf(toUpload)) \ {<<>>}
    BY <1>2, <2>1, ConvertRange DEF TypeOK
  <2>3. TypeOK'
    BY <1>1, <1>2, <1>5, <2>1 DEF TypeOK, Working, Downloading
  <2>4. Looping' /\ Trimming' /\ Caching'
    BY <1>1, <1>4, <1>5, <2>1, <2>2 DEF Looping, Trimming, Caching, Downloading, Uploading
  <2>5. Mirroring'
    BY <1>1, <1>2, <1>4, <1>5, <2>1 DEF Mirroring, Uploading
  <2> QED BY <1>3, <2>3, <2>4, <2>5 DEF StageInv
<1>6. CASE /\ failed \in Uploading /\ phase' = "resolve" /\ todo' = toUpload /\ doomed' = {}
  <2>1. Doing' = "resolve" /\ failed \in Working \ {"check"} /\ toUpload # <<>>
    BY <1>2, <1>6 DEF Doing, Working, Uploading, Looping
  <2>2. toUpload \in Seq(Range(toUpload)) \ {<<>>}
    BY <1>2, <2>1, OwnRange DEF TypeOK
  <2>3. TypeOK'
    BY <1>1, <1>2, <1>6, <2>1 DEF TypeOK, Working, Uploading
  <2>4. Looping' /\ Trimming' /\ Caching'
    BY <1>1, <1>4, <1>6, <2>1, <2>2 DEF Looping, Trimming, Caching, Downloading, Uploading
  <2>5. Mirroring'
    BY <1>1, <1>2, <1>4, <1>6, <2>1 DEF Mirroring
  <2> QED BY <1>3, <2>3, <2>4, <2>5 DEF StageInv
<1>7. CASE failed \in {"check", "images"} /\ phase' = failed
  <2>1. Doing' = failed /\ phase' # "recover" /\ phase' \notin Downloading \cup Uploading
    BY <1>7 DEF Doing, Downloading, Uploading
  <2>2. TypeOK'
    BY <1>1, <1>2, <2>1 DEF TypeOK
  <2>3. Looping' /\ Trimming' /\ Caching'
    BY <1>7, <2>1 DEF Looping, Trimming, Caching, Downloading, Uploading
  <2>4. Mirroring'
    BY <1>1, <1>2, <1>4, <1>7, <2>1 DEF Mirroring
  <2> QED BY <1>3, <2>2, <2>3, <2>4 DEF StageInv
<1>8. CASE failed = "delete" /\ phase' = "delete" /\ doomed' = uninstall \ Simulated
  <2>1. Doing' = failed /\ phase' \notin Downloading \cup Uploading
    BY <1>8 DEF Doing, Downloading, Uploading
  <2>2. TypeOK'
    BY <1>1, <1>2, <1>8, <2>1 DEF TypeOK
  <2>3. Looping' /\ Trimming' /\ Caching'
    BY <1>8, <2>1 DEF Looping, Trimming, Caching, Downloading, Uploading
  <2>4. Mirroring'
    BY <1>1, <1>2, <1>4, <1>8, <2>1 DEF Mirroring
  <2> QED BY <1>3, <2>2, <2>3, <2>4 DEF StageInv
<1> QED BY <1>5, <1>6, <1>7, <1>8 DEF Retry

\* The stage is over, passed or not.
LEMMA StopStage ==
  ASSUME StageInv, phase' = "idle" \/ (phase' = "done" /\ Doing = "delete"), failed' = None,
         UNCHANGED <<cacheVars, registryVars, runVars, toUpload>>, NamelessTrue', Copying'
  PROVE  StageInv'
<1>1. /\ hub' = hub /\ oci' = oci /\ harbor' = harbor /\ images' = images
      /\ catalog' = catalog /\ serve' = serve /\ uninstall' = uninstall
      /\ wanted' = wanted /\ toUpload' = toUpload
  BY DEF cacheVars, registryVars, runVars
<1>2. Doing' = phase' /\ phase' \in {"idle", "done"}
  BY DEF Doing
<1>3. TypeOK' /\ Looping' /\ Trimming' /\ Caching'
  BY <1>1, <1>2 DEF StageInv, TypeOK, Looping, Trimming, Caching, Downloading, Uploading
<1>4. Mirroring'
  <2>1. imagesToUpload' = imagesToUpload /\ \A n : Ref(n)' = Ref(n)
    BY <1>1 DEF imagesToUpload, Ref
  <2>2. phase' \notin Working
    BY <1>2 DEF Working, Downloading, Uploading
  <2>3. phase' \notin Uploading \cup {"delete"}
    BY <1>2 DEF Uploading
  <2> QED BY <1>1, <1>2, <2>1, <2>2, <2>3 DEF StageInv, Mirroring
<1>5. MarkerTrue' /\ OneCachedArtifact'
  BY <1>1, <1>2 DEF StageInv, MarkerTrue, OneCachedArtifact, Copying
<1> QED BY <1>3, <1>4, <1>5 DEF StageInv

\* What earlier installers left satisfies the invariant.
LEMMA InitStage == Init => StageInv
<1> SUFFICES ASSUME Init PROVE StageInv
  OBVIOUS
<1>1. /\ hub \in EarlierCaches /\ oci = <<>> /\ harbor = <<>> /\ catalog \in Catalogs
      /\ serve = {} /\ toUpload = <<>> /\ phase = "idle" /\ failed = None
      /\ copies = {} /\ faults = 0
  BY DEF Init
<1>2. Doing = "idle" /\ DOMAIN oci = {} /\ DOMAIN harbor = {}
  BY <1>1 DEF Doing
<1>3. TypeOK
  <2>1. <<>> \in Seq(Range(Models))
    OBVIOUS
  <2>2. DOMAIN hub = DOMAIN Hub /\ \A id \in DOMAIN Hub : hub[id] \in Directories(id)
    BY <1>1, EarlierAssumption
  <2> QED BY <1>1, <1>2, <2>1, <2>2 DEF TypeOK
<1>4. MarkerTrue /\ NamelessTrue
  BY <1>1, EarlierAssumption DEF MarkerTrue, NamelessTrue
<1>5. Looping /\ Trimming /\ Caching
  BY <1>1, <1>2 DEF Looping, Trimming, Caching, Downloading, Uploading
<1>6. Mirroring
  BY <1>1, <1>2 DEF Mirroring, Working, Downloading, Uploading
<1>7. Tagged = {} /\ Untagged = {}
  BY <1>1, <1>2 DEF Tagged, Untagged
<1>8. Copying
  BY <1>1, <1>7, FS_EmptySet DEF Copying
<1>9. OneCachedArtifact
  BY <1>1, <1>2, <1>8 DEF OneCachedArtifact, Copying
<1> QED BY <1>3, <1>4, <1>5, <1>6, <1>8, <1>9 DEF StageInv

\* Every step of the stage keeps the invariant.
LEMMA StepStage == StageInv /\ [Next]_vars => StageInv'
<1> SUFFICES ASSUME StageInv, [Next]_vars PROVE StageInv'
  OBVIOUS
<1>1. CASE UNCHANGED vars
  <2>1. /\ hub' = hub /\ oci' = oci /\ harbor' = harbor /\ images' = images
        /\ catalog' = catalog /\ serve' = serve /\ uninstall' = uninstall /\ wanted' = wanted
        /\ toUpload' = toUpload /\ phase' = phase /\ todo' = todo /\ doomed' = doomed
        /\ failed' = failed /\ copies' = copies /\ doubtful' = doubtful /\ faults' = faults
    BY <1>1 DEF vars
  <2>2. Doing' = Doing /\ Pin' = Pin /\ Dir' = Dir /\ Model' = Model
        /\ imagesToUpload' = imagesToUpload /\ PinsOf(toUpload)' = PinsOf(toUpload)
        /\ Ref(Model)' = Ref(Model) /\ \A m : Ref(m)' = Ref(m)
    BY <2>1 DEF Doing, Pin, Dir, Model, imagesToUpload, PinsOf, Ref
  <2>3. TypeOK' /\ MarkerTrue' /\ OneCachedArtifact'
    BY <2>1, <2>2 DEF StageInv, TypeOK, MarkerTrue, OneCachedArtifact, Untagged, Tagged
  <2>4. Looping' /\ Caching'
    BY <2>1, <2>2 DEF StageInv, Looping, Caching
  <2>5. Trimming'
    BY <2>1, <2>2 DEF StageInv, Trimming, Vouched
  <2>6. Mirroring'
    BY <2>1, <2>2 DEF StageInv, Mirroring
  <2>7. Copying' /\ NamelessTrue'
    BY <2>1, <2>2 DEF StageInv, Copying, Untagged, Tagged, NamelessTrue, Underway
  <2> QED BY <2>3, <2>4, <2>5, <2>6, <2>7 DEF StageInv
<1>2. CASE download
  BY <1>2, PrepareStage, FetchStage, DownloadedStage, WriteRefStage, CompleteStage,
     RemoveUnselectedStage, UnselectDoneStage, RemoveSnapshotStage, SnapshotsDoneStage,
     RemoveBlobStage, BlobsDoneStage DEF download
<1>3. CASE upload
  BY <1>3, ResolveStage, PruneStage, CollectStage, BuildStage, PushStage, UploadImagesStage, DeleteStage
     DEF upload
<1>4. CASE SkipDelete
  <2>1. NamelessTrue' /\ Copying'
    BY <1>4, RestKept DEF SkipDelete, cacheVars
  <2> QED BY <1>4, <2>1, StopStage DEF SkipDelete, Doing
<1>5. CASE Abort
  <2>1. NamelessTrue' /\ Copying'
    BY <1>5, RestKept DEF Abort, cacheVars
  <2> QED BY <1>5, <2>1, StopStage DEF Abort
<1>6. CASE Crash
  <2>1. NamelessTrue'
    BY <1>6, FaultNameless DEF Crash, cacheVars
  <2>2. Copying'
    BY <1>6, FaultCopies DEF Crash, cacheVars
  <2> QED BY <1>6, <2>1, <2>2, StopStage DEF Crash
<1> QED BY <1>1, <1>2, <1>3, <1>4, <1>5, <1>6, StartRunStage, CheckStage, ReportStage,
           StepFailsStage, RefCutStage, MarkerCutStage, BuildInPartStage, PushUnansweredStage, ImagesInPartStage, RetryStage
           DEF Next

\* In every run of the stage, whatever fails and is retried: the loops go
\* through what they are meant to, nothing a marker vouches for is removed, and
\* what is not in Harbor is still ahead.
THEOREM StageInvariant == Spec => []StageInv
BY InitStage, StepStage, PTL DEF Spec

\* Every variable has its type.
THEOREM TypeCorrect == Spec => []TypeOK
<1>1. StageInv => TypeOK
  BY DEF StageInv
<1> QED BY <1>1, StageInvariant, PTL

\* A completion marker is true for as long as it stands (Manager.Prepare,
\* Complete, RemoveUnselected, PruneOtherRevisions).
THEOREM MarkersTrue == Spec => []MarkerTrue
<1>1. StageInv => MarkerTrue
  BY DEF StageInv
<1> QED BY <1>1, StageInvariant, PTL

\* No model has two tags in the OCI cache, and the copies without a tag are at
\* most as many as the steps that failed or were killed
\* (pruneSupersededArtifacts, buildCache).
THEOREM OneArtifact == Spec => []OneCachedArtifact
<1>1. StageInv => OneCachedArtifact
  BY DEF StageInv
<1> QED BY <1>1, StageInvariant, PTL

\* When the stage has passed, everything this run deploys is in Harbor
\* (checkModelArtifacts, uploadModels, uploadImages, deleteUninstalledModels).
THEOREM Mirrored == Spec => []DoneMeansMirrored
<1>1. StageInv => DoneMeansMirrored
  <2> SUFFICES ASSUME StageInv, phase = "done" PROVE DoneMeansMirrored
    BY DEF DoneMeansMirrored
  <2>1. Doing = "done"
    BY DEF Doing
  <2> QED BY <2>1 DEF StageInv, Mirroring, DoneMeansMirrored
<1> QED BY <1>1, StageInvariant, PTL

-----------------------------------------------------------------------------
(* What an artifact holds                                                  *)

\* A release has one pin of a repository.
LEMMA OnePin ==
  ASSUME OnePinPerRelease, TypeOK,
         NEW p \in PinsOf(toUpload), NEW q \in PinsOf(toUpload), p.id = q.id
  PROVE  p = q
<1>1. \A m \in Range(toUpload) : m \in Range(Models)
  BY OwnRange DEF TypeOK
<1>2. PICK m \in Range(toUpload), n \in Range(toUpload) :
        p \in Range(catalog[m]) /\ q \in Range(catalog[n])
  BY DEF PinsOf
<1>3. catalog \in Catalogs
  BY DEF TypeOK
<1> QED BY <1>1, <1>2, <1>3 DEF OnePinPerRelease

\* What is not cut short is trimmed: nothing is asked of its directory.
LEMMA SteadyStep ==
  ASSUME AbbreviatedPinsStay, TypeOK, Steady, Pin \in Pins, NEW d, OnlyDir(d),
         Abbreviated(Pin) => Untrimmed(d, Pin)
  PROVE  Steady'
<1> SUFFICES ASSUME NEW pin \in Pins, Abbreviated(pin) PROVE Untrimmed(hub'[pin.id], pin)
  BY DEF Steady
<1>1. pin.id \in DOMAIN hub
  BY CatalogAssumption DEF TypeOK
<1>2. CASE pin.id = Pin.id
  <2>1. pin = Pin
    BY <1>2 DEF AbbreviatedPinsStay
  <2> QED BY <2>1 DEF OnlyDir
<1>3. CASE pin.id # Pin.id
  BY <1>1, <1>3 DEF OnlyDir, Steady
<1> QED BY <1>2, <1>3

\* A step of the download of one repository leaves the others, which hold
\* their pins or are still ahead.
LEMMA DownloadKeeps ==
  ASSUME OnePinPerRelease, AbbreviatedPinsStay, StageInv, ReleaseInv,
         phase \in Downloading, phase' \in Downloading,
         UNCHANGED <<ociVars, registryVars, runVars, doubtful, toUpload, todo, failed, faults>>,
         NEW d, OnlyDir(d), Abbreviated(Pin) => Untrimmed(d, Pin),
         phase' \in {"mark", "unselect", "snapshots", "blobs"} => d.ref = Commit[Pin.revision]
  PROVE  ReleaseInv'
<1>1. TypeOK /\ Looping /\ Steady /\ Held /\ Packed
  BY DEF StageInv, ReleaseInv
<1>2. /\ oci' = oci /\ harbor' = harbor /\ catalog' = catalog /\ toUpload' = toUpload
      /\ todo' = todo /\ doubtful' = doubtful
  BY DEF registryVars, runVars, ociVars
<1>3. Pin \in Pins /\ Pin \in PinsOf(toUpload) /\ Pin \in Range(todo)
  BY <1>1, PinFacts
<1>4. Steady'
  BY <1>1, <1>3, SteadyStep
<1>5. RefWritten'
  BY <1>2 DEF RefWritten, Pin, Dir, OnlyDir
<1>6. PinsOf(toUpload)' = PinsOf(toUpload) /\ PinsOf(toUpload) \subseteq Pins
  <2>1. PinsOf(toUpload) \subseteq Pins
    BY <1>1, ConvertRange DEF TypeOK
  <2> QED BY <1>2, <2>1 DEF PinsOf
<1>7. \A pin \in PinsOf(toUpload) :
        pin \in Range(todo) \/ pin.id \in doubtful \/ HoldsPin(hub'[pin.id], pin)
  <2> SUFFICES ASSUME NEW pin \in PinsOf(toUpload), pin \notin Range(todo),
                      pin.id \notin doubtful
               PROVE  HoldsPin(hub'[pin.id], pin)
    OBVIOUS
  <2>1. pin.id # Pin.id
    BY <1>1, <1>3, OnePin
  <2>2. pin.id \in DOMAIN hub
    BY <1>1, <1>6, CatalogAssumption DEF TypeOK
  <2>3. hub'[pin.id] = hub[pin.id]
    BY <2>1, <2>2 DEF OnlyDir
  <2> QED BY <1>1, <2>3 DEF Held
<1>8. Doing' = phase' /\ phase' \notin Uploading
  BY DEF Doing, Downloading, Uploading
<1>9. Held'
  BY <1>2, <1>6, <1>7, <1>8 DEF Held
<1>10. Packed'
  BY <1>1, <1>2 DEF Packed
<1> QED BY <1>4, <1>5, <1>9, <1>10 DEF ReleaseInv

\* Without a snapshot of the pinned name, a finished download is of a pin that
\* is cut short.
LEMMA NoSnapshotIsAbbreviated ==
  ASSUME NEW pin \in Pins, NEW d, Finished(d, pin), ~HasSnapshot(d, pin.revision)
  PROVE  Abbreviated(pin)
<1>1. planDownload(pin) # {}
  BY CatalogAssumption
<1>2. HasSnapshot(d, Commit[pin.revision])
  BY <1>1 DEF Finished, Linked
<1> QED BY <1>2 DEF Abbreviated

\* A snapshot of the pinned name is of a pin that is not cut short.
LEMMA SnapshotIsFull ==
  ASSUME NEW pin \in Pins, NEW d \in Directories(pin.id), HasSnapshot(d, pin.revision)
  PROVE  ~Abbreviated(pin)
BY NamedByCommit DEF Abbreviated

\* Prepare, the end of the CLI and the end of a removal touch no directory.
LEMMA StandsKeeps ==
  ASSUME OnePinPerRelease, AbbreviatedPinsStay, StageInv, ReleaseInv,
         phase \in Downloading, phase' \in Downloading,
         UNCHANGED <<hub, ociVars, registryVars, runVars, doubtful, toUpload, todo, failed, faults>>,
         \/ phase' \notin {"mark", "unselect", "snapshots", "blobs"}
         \/ phase \in {"unselect", "snapshots", "blobs"}
  PROVE  ReleaseInv'
<1>1. TypeOK /\ Looping /\ Steady /\ RefWritten
  BY DEF StageInv, ReleaseInv
<1>2. Pin \in Pins
  BY <1>1, PinFacts
<1>3. OnlyDir(Dir)
  BY SameDirOnly
<1>4. Abbreviated(Pin) => Untrimmed(Dir, Pin)
  BY <1>1, <1>2 DEF Steady, Dir
<1>5. phase' \in {"mark", "unselect", "snapshots", "blobs"} => Dir.ref = Commit[Pin.revision]
  BY <1>1 DEF RefWritten
<1> QED BY <1>3, <1>4, <1>5, DownloadKeeps

\* The CLI links and fetches files of the plan alone.
LEMMA FetchKeeps ==
  ASSUME OnePinPerRelease, AbbreviatedPinsStay, StageInv, ReleaseInv, fetchFile
  PROVE  ReleaseInv'
<1>1. TypeOK /\ Looping /\ Steady
  BY DEF StageInv, ReleaseInv
<1>2. /\ phase = "fetch" /\ phase' = "fetch" /\ phase \in Downloading /\ phase' \in Downloading
      /\ UNCHANGED <<ociVars, registryVars, runVars, doubtful, toUpload, todo, failed, faults>>
  BY DEF fetchFile, Downloading
<1>3. Pin \in Pins
  BY <1>1, <1>2, PinFacts
<1> DEFINE commit == Commit[Pin.revision]
<1>4. PICK d \in Directories(Pin.id), p \in Pending(Dir, Pin) :
           /\ OnlyDir(d) /\ d.ref = Dir.ref /\ d.marker = Dir.marker
           /\ \/ /\ d.snapshots = Dir.snapshots
                 /\ d.blobs = Dir.blobs \cup {Hub[Pin.id][commit][p]}
              \/ /\ d.blobs = Dir.blobs
                 /\ DOMAIN d.snapshots = DOMAIN Dir.snapshots \cup {commit}
                 /\ \A c \in DOMAIN d.snapshots :
                      d.snapshots[c] = IF c = commit THEN Linked(Dir, commit) \cup {p}
                                                     ELSE Dir.snapshots[c]
  BY FetchAdds
<1>5. p \in planDownload(Pin)
  BY <1>4 DEF Pending
<1>6. ASSUME Abbreviated(Pin) PROVE Untrimmed(d, Pin)
  <2>1. /\ Dir.ref \in {None, Empty, commit} /\ DOMAIN Dir.snapshots \subseteq {commit}
        /\ Linked(Dir, commit) \subseteq planDownload(Pin)
        /\ Dir.blobs \subseteq BlobsOf(Pin.id, commit, planDownload(Pin))
    BY <1>1, <1>3, <1>6 DEF Steady, Dir, Untrimmed
  <2>2. Hub[Pin.id][commit][p] \in BlobsOf(Pin.id, commit, planDownload(Pin))
    BY <1>5 DEF BlobsOf
  <2>3. CASE d.snapshots = Dir.snapshots /\ d.blobs = Dir.blobs \cup {Hub[Pin.id][commit][p]}
    BY <1>4, <2>1, <2>2, <2>3 DEF Untrimmed, Linked, HasSnapshot
  <2>4. CASE /\ d.blobs = Dir.blobs
             /\ DOMAIN d.snapshots = DOMAIN Dir.snapshots \cup {commit}
             /\ d.snapshots[commit] = Linked(Dir, commit) \cup {p}
    <3>1. Linked(d, commit) = Linked(Dir, commit) \cup {p}
      BY <2>4 DEF Linked, HasSnapshot
    <3> QED BY <1>4, <1>5, <2>1, <2>4, <3>1 DEF Untrimmed
  <2> QED BY <1>4, <2>3, <2>4
<1> QED BY <1>2, <1>4, <1>6, DownloadKeeps

\* EnsureRef writes the pinned commit: the snapshot is named by it, or the
\* directory never had another.
LEMMA EnsureRefWrites ==
  ASSUME NEW pin \in Pins, NEW d \in Directories(pin.id),
         Finished(d, pin) \/ HasSnapshot(d, pin.revision),
         Abbreviated(pin) => Untrimmed(d, pin), NEW target \in EnsureRef(d, pin.revision)
  PROVE  target = Commit[pin.revision]
<1>1. CASE HasSnapshot(d, pin.revision)
  BY <1>1, NamedByCommit DEF EnsureRef
<1>2. CASE ~HasSnapshot(d, pin.revision)
  <2>1. Untrimmed(d, pin)
    BY <1>2, NoSnapshotIsAbbreviated
  <2> QED BY <1>2, <2>1 DEF EnsureRef, Untrimmed
<1> QED BY <1>1, <1>2

\* After EnsureRef refs/main leads to the pinned commit.
LEMMA WriteRefKeeps ==
  ASSUME OnePinPerRelease, AbbreviatedPinsStay, StageInv, ReleaseInv, writeRef
  PROVE  ReleaseInv'
<1>1. TypeOK /\ Looping /\ Trimming /\ MarkerTrue /\ Steady
  BY DEF StageInv, ReleaseInv
<1>2. /\ phase \in {"reuse", "ref"} /\ phase \in Downloading /\ phase' \in Downloading
      /\ UNCHANGED <<ociVars, registryVars, runVars, doubtful, toUpload, todo, failed, faults>>
  BY DEF writeRef, Goto, Downloading
<1>3. Pin \in Pins /\ Dir \in Directories(Pin.id)
  BY <1>1, <1>2, PinFacts
<1>4. Finished(Dir, Pin) \/ HasSnapshot(Dir, Pin.revision)
  BY <1>1, <1>2, <1>3, VouchedFinished DEF Trimming, complete, Vouched
<1>5. Abbreviated(Pin) => Untrimmed(Dir, Pin)
  BY <1>1, <1>3 DEF Steady, Dir
<1>6. PICK target \in EnsureRef(Dir, Pin.revision) : SetDir([Dir EXCEPT !.ref = target])
  BY DEF writeRef
<1>7. target = Commit[Pin.revision]
  BY <1>3, <1>4, <1>5, <1>6, EnsureRefWrites
<1>8. PICK d \in Directories(Pin.id) :
           /\ OnlyDir(d) /\ d.ref = target
           /\ d.snapshots = Dir.snapshots /\ d.blobs = Dir.blobs /\ d.marker = Dir.marker
  BY <1>2, <1>6, RefOnly
<1>9. Abbreviated(Pin) => Untrimmed(d, Pin)
  BY <1>5, <1>7, <1>8, SameFiles DEF Untrimmed
<1> QED BY <1>2, <1>7, <1>8, <1>9, DownloadKeeps

\* The marker is none of what an artifact holds.
LEMMA CompleteKeeps ==
  ASSUME OnePinPerRelease, AbbreviatedPinsStay, StageInv, ReleaseInv, Complete
  PROVE  ReleaseInv'
<1>1. TypeOK /\ Looping /\ Steady /\ RefWritten
  BY DEF StageInv, ReleaseInv
<1>2. /\ phase = "mark" /\ phase \in Downloading /\ phase' \in Downloading
      /\ UNCHANGED <<ociVars, registryVars, runVars, doubtful, toUpload, todo, failed, faults>>
  BY DEF Complete, Goto, Downloading
<1>3. Pin \in Pins
  BY <1>1, <1>2, PinFacts
<1>4. PICK d \in Directories(Pin.id) :
           /\ OnlyDir(d) /\ d.marker = Pin.revision
           /\ d.snapshots = Dir.snapshots /\ d.blobs = Dir.blobs /\ d.ref = Dir.ref
  BY MarkerOnly
<1>5. Abbreviated(Pin) => Untrimmed(Dir, Pin)
  BY <1>1, <1>3 DEF Steady, Dir
<1>6. Abbreviated(Pin) => Untrimmed(d, Pin)
  BY <1>4, <1>5, SameFiles DEF Untrimmed
<1>7. d.ref = Commit[Pin.revision]
  BY <1>1, <1>2, <1>4 DEF RefWritten
<1> QED BY <1>2, <1>4, <1>6, <1>7, DownloadKeeps

\* What is removed is removed from the directory of a pin that is not cut
\* short, and refs/main stays.
LEMMA RemovalsKeep ==
  ASSUME OnePinPerRelease, AbbreviatedPinsStay, StageInv, ReleaseInv,
         RemoveUnselected \/ removeSnapshot \/ removeBlob
  PROVE  ReleaseInv'
<1>1. TypeOK /\ Looping /\ Trimming /\ RefWritten
  BY DEF StageInv, ReleaseInv
<1>2. /\ phase \in {"unselect", "snapshots", "blobs"} /\ phase \in Downloading
      /\ phase' = phase
      /\ UNCHANGED <<ociVars, registryVars, runVars, doubtful, toUpload, todo, failed, faults>>
  BY DEF RemoveUnselected, removeSnapshot, removeBlob, Downloading
<1>3. Pin \in Pins /\ Dir \in Directories(Pin.id)
  BY <1>1, <1>2, PinFacts
<1>4. PICK d \in Directories(Pin.id) : OnlyDir(d) /\ d.ref = Dir.ref
  BY RemoveUnselectedFile, RemoveOtherSnapshot, RemoveOtherBlob
<1>5. HasSnapshot(Dir, Pin.revision)
  <2>1. CASE RemoveUnselected
    BY <2>1, RemoveUnselectedFile
  <2>2. CASE removeSnapshot \/ removeBlob
    BY <1>1, <2>2 DEF Trimming, removeSnapshot, removeBlob
  <2> QED BY <2>1, <2>2
<1>6. ~Abbreviated(Pin)
  BY <1>3, <1>5, SnapshotIsFull
<1>7. d.ref = Commit[Pin.revision]
  BY <1>1, <1>2, <1>4 DEF RefWritten
<1> QED BY <1>2, <1>4, <1>6, <1>7, DownloadKeeps

\* A repository whose unused blobs are gone holds its pin and nothing else.
LEMMA TrimmedHolds ==
  ASSUME StageInv, ReleaseInv, blobsDone
  PROVE  Pin.id \in doubtful \/ HoldsPin(Dir, Pin)
<1> SUFFICES ASSUME Pin.id \notin doubtful PROVE HoldsPin(Dir, Pin)
  OBVIOUS
<1>1. /\ TypeOK /\ Looping /\ Trimming /\ MarkerTrue /\ RefWritten
      /\ phase = "blobs" /\ doomed = {} /\ phase \in Downloading
  BY DEF StageInv, ReleaseInv, blobsDone, Downloading
<1>2. Pin \in Pins /\ Dir \in Directories(Pin.id)
  BY <1>1, PinFacts
<1>3. /\ Vouched /\ HasSnapshot(Dir, Pin.revision)
      /\ Linked(Dir, Pin.revision) = planDownload(Pin)
      /\ DOMAIN Dir.snapshots = {Pin.revision}
      /\ Dir.blobs \subseteq referencedBlobs(Dir, Pin)
  BY <1>1 DEF Trimming, Vouched
<1>4. Commit[Pin.revision] = Pin.revision /\ Finished(Dir, Pin)
  BY <1>1, <1>2, <1>3, NamedByCommit, VouchedFinished
<1>5. Dir.snapshots[Pin.revision] = planDownload(Pin)
  BY <1>3 DEF Linked
<1>6. Dir.blobs = BlobsOf(Pin.id, Pin.revision, planDownload(Pin))
  BY <1>3, <1>4 DEF referencedBlobs, Finished
<1>7. Dir.ref = Pin.revision
  BY <1>1, <1>4 DEF RefWritten
<1> QED BY <1>3, <1>4, <1>5, <1>6, <1>7 DEF HoldsPin

\* Without a snapshot of the pinned name nothing is trimmed, and there is
\* nothing to trim.
LEMMA UntrimmedHolds ==
  ASSUME StageInv, ReleaseInv, unselectDone, ~HasSnapshot(Dir, Pin.revision)
  PROVE  HoldsPin(Dir, Pin)
<1>1. /\ TypeOK /\ Looping /\ Trimming /\ MarkerTrue /\ RefWritten /\ Steady
      /\ phase = "unselect" /\ phase \in Downloading
  BY DEF StageInv, ReleaseInv, unselectDone, Downloading
<1>2. Pin \in Pins /\ Dir \in Directories(Pin.id)
  BY <1>1, PinFacts
<1>3. Finished(Dir, Pin)
  BY <1>1, VouchedFinished DEF Trimming, complete, Vouched
<1>4. Untrimmed(Dir, Pin)
  BY <1>1, <1>2, <1>3, NoSnapshotIsAbbreviated DEF Steady, Dir
<1> DEFINE commit == Commit[Pin.revision]
<1>5. planDownload(Pin) # {}
  BY <1>2, CatalogAssumption
<1>6. HasSnapshot(Dir, commit) /\ Linked(Dir, commit) = planDownload(Pin)
  BY <1>3, <1>4, <1>5 DEF Finished, Untrimmed, Linked
<1>7. DOMAIN Dir.snapshots = {commit} /\ Dir.snapshots[commit] = planDownload(Pin)
  BY <1>4, <1>6 DEF Untrimmed, Linked, HasSnapshot
<1>8. Dir.blobs = BlobsOf(Pin.id, commit, planDownload(Pin))
  BY <1>3, <1>4 DEF Finished, Untrimmed
<1>9. Dir.ref = commit
  BY <1>1 DEF RefWritten
<1> QED BY <1>7, <1>8, <1>9 DEF HoldsPin

\* After the last repository every pin is held.
LEMMA NextRepositoryKeeps ==
  ASSUME StageInv, ReleaseInv, phase \in Downloading, NextRepository,
         Pin.id \in doubtful \/ HoldsPin(Dir, Pin),
         UNCHANGED <<cacheVars, registryVars, runVars, doubtful, toUpload>>
  PROVE  ReleaseInv'
<1>1. TypeOK /\ Looping /\ Steady /\ Held /\ Packed
  BY DEF StageInv, ReleaseInv
<1>2. /\ hub' = hub /\ oci' = oci /\ harbor' = harbor /\ catalog' = catalog
      /\ toUpload' = toUpload /\ doubtful' = doubtful
  BY DEF cacheVars, registryVars, runVars
<1>3. todo \in Seq(PinsOf(toUpload)) \ {<<>>}
  BY <1>1, PinFacts
<1>4. /\ Range(todo) = {Pin} \cup Range(Tail(todo))
      /\ ~(Len(todo) > 1) => Range(todo) = {Pin}
  BY <1>3, HeadAndTail DEF Pin
<1>5. PinsOf(toUpload)' = PinsOf(toUpload)
  BY <1>2 DEF PinsOf
<1>6. Steady' /\ Packed'
  BY <1>1, <1>2 DEF Steady, Packed
<1>7. \A pin \in PinsOf(toUpload) :
        pin \in Range(todo) \/ pin.id \in doubtful \/ HoldsPin(hub[pin.id], pin)
  BY <1>1 DEF Held
<1>8. Pin.id \in doubtful \/ HoldsPin(hub[Pin.id], Pin)
  BY DEF Dir
<1>9. CASE Len(todo) > 1
  <2>1. phase' = "prepare" /\ todo' = Tail(todo) /\ Doing' = "prepare"
    BY <1>9 DEF NextRepository, Goto, Doing
  <2>2. RefWritten'
    BY <2>1 DEF RefWritten
  <2>3. \A pin \in PinsOf(toUpload) :
          pin \in Range(todo') \/ pin.id \in doubtful \/ HoldsPin(hub[pin.id], pin)
    BY <1>4, <1>7, <1>8, <2>1
  <2>4. Held'
    BY <1>2, <1>5, <2>1, <2>3 DEF Held, Uploading
  <2> QED BY <1>6, <2>2, <2>4 DEF ReleaseInv
<1>10. CASE ~(Len(todo) > 1)
  <2>1. phase' = "resolve" /\ Doing' = "resolve"
    BY <1>10 DEF NextRepository, EnterUpload, Goto, Doing
  <2>2. RefWritten'
    BY <2>1 DEF RefWritten
  <2>3. \A pin \in PinsOf(toUpload) : pin.id \in doubtful \/ HoldsPin(hub[pin.id], pin)
    BY <1>4, <1>7, <1>8, <1>10
  <2>4. Held'
    BY <1>2, <1>5, <2>1, <2>3 DEF Held, Downloading
  <2> QED BY <1>6, <2>2, <2>4 DEF ReleaseInv
<1> QED BY <1>9, <1>10

\* The steps of a download.
LEMMA DownloadStepKeeps ==
  ASSUME OnePinPerRelease, AbbreviatedPinsStay, StageInv, ReleaseInv, download
  PROVE  ReleaseInv'
<1>1. CASE Prepare
  <2>1. /\ phase \in Downloading /\ phase' \in {"reuse", "fetch"} /\ phase' \in Downloading
        /\ UNCHANGED <<hub, ociVars, registryVars, runVars, doubtful, toUpload, todo, failed, faults>>
    BY <1>1 DEF Prepare, Goto, Downloading, cacheVars, ociVars
  <2> QED BY <2>1, StandsKeeps
<1>2. CASE downloaded
  <2>1. /\ phase \in Downloading /\ phase' = "ref" /\ phase' \in Downloading
        /\ UNCHANGED <<hub, ociVars, registryVars, runVars, doubtful, toUpload, todo, failed, faults>>
    BY <1>2 DEF downloaded, Goto, Downloading, cacheVars, ociVars
  <2> QED BY <2>1, StandsKeeps
<1>3. CASE snapshotsDone
  <2>1. /\ phase = "snapshots" /\ phase \in Downloading /\ phase' \in Downloading
        /\ UNCHANGED <<hub, ociVars, registryVars, runVars, doubtful, toUpload, todo, failed, faults>>
    BY <1>3 DEF snapshotsDone, Goto, Downloading, cacheVars, ociVars
  <2> QED BY <2>1, StandsKeeps
<1>4. CASE unselectDone /\ HasSnapshot(Dir, Pin.revision)
  <2>1. /\ phase = "unselect" /\ phase \in Downloading /\ phase' \in Downloading
        /\ UNCHANGED <<hub, ociVars, registryVars, runVars, doubtful, toUpload, todo, failed, faults>>
    BY <1>4 DEF unselectDone, Goto, Downloading, cacheVars, ociVars
  <2> QED BY <2>1, StandsKeeps
<1>5. CASE unselectDone /\ ~HasSnapshot(Dir, Pin.revision)
  <2>1. /\ phase \in Downloading /\ NextRepository
        /\ UNCHANGED <<cacheVars, registryVars, runVars, doubtful, toUpload>>
    BY <1>5 DEF unselectDone, Downloading
  <2> QED BY <1>5, <2>1, UntrimmedHolds, NextRepositoryKeeps
<1>6. CASE blobsDone
  <2>1. /\ phase \in Downloading /\ NextRepository
        /\ UNCHANGED <<cacheVars, registryVars, runVars, doubtful, toUpload>>
    BY <1>6 DEF blobsDone, Downloading
  <2> QED BY <1>6, <2>1, TrimmedHolds, NextRepositoryKeeps
<1> QED BY <1>1, <1>2, <1>3, <1>4, <1>5, <1>6, FetchKeeps, WriteRefKeeps, CompleteKeeps,
           RemovalsKeep DEF download

\* What is packed of a model holds the pins of the release that packs it.
LEMMA PackHolds ==
  ASSUME TypeOK, Looping, Held, phase \in Uploading
  PROVE  \A pin \in Range(catalog[Model]) :
           pin.id \in doubtful \/ HoldsPin(packStore(Model)[pin.id], pin)
<1>1. Model \in Range(toUpload) /\ Doing = phase
  BY ModelFacts
<1> SUFFICES ASSUME NEW pin \in Range(catalog[Model]), pin.id \notin doubtful
             PROVE  HoldsPin(packStore(Model)[pin.id], pin)
  OBVIOUS
<1>2. pin \in PinsOf(toUpload)
  BY <1>1 DEF PinsOf
<1>3. HoldsPin(hub[pin.id], pin)
  BY <1>1, <1>2 DEF Held
<1>4. pin.id \in modelDirs(Model)
  BY DEF modelDirs
<1>5. packStore(Model)[pin.id] =
        [snapshots |-> hub[pin.id].snapshots, blobs |-> hub[pin.id].blobs,
         ref |-> hub[pin.id].ref]
  BY <1>4 DEF packStore
<1>6. /\ packStore(Model)[pin.id].snapshots = hub[pin.id].snapshots
      /\ packStore(Model)[pin.id].blobs = hub[pin.id].blobs
      /\ packStore(Model)[pin.id].ref = hub[pin.id].ref
  BY <1>5
<1> QED BY <1>3, <1>6 DEF HoldsPin

\* A store with one more artifact that holds what a release with its tag pins.
LEMMA PackedWith ==
  ASSUME NEW store, NEW apart, PackedIn(store, apart), NEW ref, NEW layers, NEW c \in Catalogs,
         Tag[c[ref[1]][1].revision] = ref[2],
         \A pin \in Range(c[ref[1]]) : pin.id \in apart \/ HoldsPin(layers[pin.id], pin)
  PROVE  PackedIn(With(store, ref, layers), apart)
<1> DEFINE s == With(store, ref, layers)
<1>1. /\ DOMAIN s = DOMAIN store \cup {ref}
      /\ \A r \in DOMAIN s : s[r] = IF r = ref THEN layers ELSE store[r]
  BY DEF With
<1> HIDE DEF s
<1>2. ASSUME NEW r \in DOMAIN s
      PROVE  \E e \in Catalogs : /\ Tag[e[r[1]][1].revision] = r[2]
                                 /\ \A pin \in Range(e[r[1]]) :
                                      pin.id \in apart \/ HoldsPin(s[r][pin.id], pin)
  <2>1. CASE r = ref
    <3>1. s[r] = layers
      BY <1>1, <2>1
    <3> QED BY <2>1, <3>1
  <2>2. CASE r # ref
    <3>1. s[r] = store[r] /\ r \in DOMAIN store
      BY <1>1, <2>2
    <3> QED BY <3>1 DEF PackedIn
  <2> QED BY <2>1, <2>2
<1>3. PackedIn(s, apart)
  BY <1>2 DEF PackedIn
<1> QED BY <1>3 DEF s

\* Taking artifacts away.
LEMMA PackedWithout ==
  ASSUME NEW store, NEW apart, PackedIn(store, apart), NEW S, S \subseteq DOMAIN store
  PROVE  PackedIn([r \in S |-> store[r]], apart)
BY DEF PackedIn

\* A repository that is doubtful stays so.
LEMMA PackedStays ==
  ASSUME Packed, oci' = oci, harbor' = harbor, doubtful \subseteq doubtful'
  PROVE  Packed'
<1>1. ASSUME NEW store, PackedIn(store, doubtful) PROVE PackedIn(store, doubtful')
  BY <1>1 DEF PackedIn
<1> QED BY <1>1 DEF Packed

\* Outside a download, with the directories left alone, only the artifacts
\* have to be looked at.
LEMMA OtherStepKeeps ==
  ASSUME ReleaseInv, UNCHANGED hub, phase' \notin Downloading, Packed',
         doubtful \subseteq doubtful',
         Doing' \in Uploading => Doing \in Uploading /\ UNCHANGED <<catalog, toUpload>>
  PROVE  ReleaseInv'
<1>1. Steady /\ Held
  BY DEF ReleaseInv
<1>2. Steady'
  BY <1>1 DEF Steady
<1>3. RefWritten'
  BY DEF RefWritten, Downloading
<1>4. ASSUME Doing' \in Uploading
      PROVE  \A pin \in PinsOf(toUpload)' :
               pin.id \in doubtful' \/ HoldsPin(hub'[pin.id], pin)
  <2>1. PinsOf(toUpload)' = PinsOf(toUpload)
    BY <1>4 DEF PinsOf
  <2> QED BY <1>1, <1>4, <2>1 DEF Held
<1>5. Held'
  BY <1>4 DEF Held
<1> QED BY <1>2, <1>3, <1>5 DEF ReleaseInv

\* A pushed artifact is a copy of a cached one.
LEMMA PushPacks ==
  ASSUME StageInv, ReleaseInv, phase = "push",
         harbor' = With(harbor, Ref(Model), oci[Ref(Model)]), UNCHANGED <<oci, doubtful>>
  PROVE  Packed'
<1>1. Ref(Model) \in DOMAIN oci /\ PackedIn(oci, doubtful) /\ PackedIn(harbor, doubtful)
  BY DEF StageInv, Caching, ReleaseInv, Packed
<1>2. PICK c \in Catalogs :
        /\ Tag[c[Ref(Model)[1]][1].revision] = Ref(Model)[2]
        /\ \A pin \in Range(c[Ref(Model)[1]]) :
             pin.id \in doubtful \/ HoldsPin(oci[Ref(Model)][pin.id], pin)
  BY <1>1 DEF PackedIn
<1>3. PackedIn(With(harbor, Ref(Model), oci[Ref(Model)]), doubtful)
  BY <1>1, <1>2, PackedWith
<1> QED BY <1>1, <1>3 DEF Packed

\* The steps of an upload.
LEMMA UploadStepKeeps ==
  ASSUME StageInv, ReleaseInv, upload
  PROVE  ReleaseInv'
<1>1. PackedIn(oci, doubtful) /\ PackedIn(harbor, doubtful) /\ TypeOK /\ Looping /\ Held
  BY DEF StageInv, ReleaseInv, Packed
<1>2. /\ hub' = hub /\ catalog' = catalog /\ toUpload' = toUpload /\ doubtful' = doubtful
      /\ phase' \notin Downloading /\ phase' # "recover"
      /\ phase' \in Uploading => phase \in Uploading
  BY DEF upload, resolveCache, pruneSupersededArtifacts, collect, buildCache, push, uploadImages,
         deleteUninstalledModels, NextModel, Goto, cacheVars, runVars, AfterImages,
         Downloading, Uploading
<1>3. Doing' \in Uploading => Doing \in Uploading /\ UNCHANGED <<catalog, toUpload>>
  BY <1>2 DEF Doing, Uploading
<1>4. CASE resolveCache \/ collect \/ uploadImages
  <2>1. Packed'
    BY <1>1, <1>2, <1>4 DEF resolveCache, collect, uploadImages, cacheVars, registryVars, Packed
  <2> QED BY <1>2, <1>3, <2>1, OtherStepKeeps
<1>5. CASE pruneSupersededArtifacts
  <2>1. PICK ref \in doomed : oci' = [r \in DOMAIN oci \ {ref} |-> oci[r]]
    BY <1>5 DEF pruneSupersededArtifacts
  <2>2. harbor' = harbor
    BY <1>5 DEF pruneSupersededArtifacts, registryVars
  <2>3. PackedIn(oci', doubtful)
    BY <1>1, <2>1, PackedWithout
  <2>4. Packed'
    BY <1>1, <1>2, <2>2, <2>3 DEF Packed
  <2> QED BY <1>2, <1>3, <2>4, OtherStepKeeps
<1>6. CASE buildCache
  <2>1. /\ phase \in Uploading /\ harbor' = harbor
        /\ oci' = With(oci, Ref(Model), packStore(Model))
    BY <1>6 DEF buildCache, registryVars, Uploading
  <2>2. /\ catalog \in Catalogs /\ Ref(Model)[1] = Model
        /\ Tag[catalog[Model][1].revision] = Ref(Model)[2]
    BY <1>1 DEF TypeOK, Ref
  <2>3. \A pin \in Range(catalog[Model]) :
          pin.id \in doubtful \/ HoldsPin(packStore(Model)[pin.id], pin)
    BY <1>1, <2>1, PackHolds
  <2>4. PackedIn(oci', doubtful)
    BY <1>1, <2>1, <2>2, <2>3, PackedWith
  <2>5. Packed'
    BY <1>1, <1>2, <2>1, <2>4 DEF Packed
  <2> QED BY <1>2, <1>3, <2>5, OtherStepKeeps
<1>7. CASE push
  <2>1. Packed'
    BY <1>7, <1>2, PushPacks DEF push, cacheVars
  <2> QED BY <1>2, <1>3, <2>1, OtherStepKeeps
<1>8. CASE deleteUninstalledModels
  <2>1. PICK m \in doomed : harbor' = [r \in {x \in DOMAIN harbor : x[1] # m} |-> harbor[r]]
    BY <1>8 DEF deleteUninstalledModels
  <2>2. oci' = oci
    BY <1>8 DEF deleteUninstalledModels, cacheVars
  <2>3. PackedIn(harbor', doubtful)
    BY <1>1, <2>1, PackedWithout
  <2>4. Packed'
    BY <1>1, <1>2, <2>2, <2>3 DEF Packed
  <2> QED BY <1>2, <1>3, <2>4, OtherStepKeeps
<1> QED BY <1>4, <1>5, <1>6, <1>7, <1>8 DEF upload

\* A step that fails: an upload may be retried, and a ref that was cut short
\* is what EnsureRef replaces.
LEMMA FailureKeeps ==
  ASSUME AbbreviatedPinsStay, StageInv, ReleaseInv,
         StepFails \/ refCut \/ markerIsCut \/ buildInPart \/ pushUnanswered \/ imagesInPart
  PROVE  ReleaseInv'
<1>1. TypeOK /\ Looping /\ Steady /\ Packed
  BY DEF StageInv, ReleaseInv
<1>2. PICK kind : Failing(kind)
  BY DEF StepFails, refCut, markerIsCut, buildInPart, pushUnanswered, imagesInPart
<1>3. phase \in Working
  BY DEF StepFails, refCut, markerIsCut, buildInPart, pushUnanswered, imagesInPart, Working,
         Downloading, Uploading
<1>4. /\ catalog' = catalog /\ toUpload' = toUpload /\ phase' \in {"recover", "idle"}
      /\ phase' = "recover" => failed' = phase
  BY <1>2 DEF Failing, runVars
<1>5. phase # "recover"
  BY <1>3 DEF Working, Downloading, Uploading
<1>6. Doing = phase /\ Doing' \in {phase, "idle"}
  BY <1>4, <1>5 DEF Doing
<1>7. phase' \notin Downloading /\ "idle" \notin Uploading
  BY <1>4 DEF Downloading, Uploading
<1>8. CASE StepFails \/ buildInPart \/ imagesInPart
  <2>1. hub' = hub /\ oci' = oci /\ harbor' = harbor /\ doubtful \subseteq doubtful'
    BY <1>8 DEF StepFails, buildInPart, imagesInPart, cacheVars, registryVars
  <2>2. Packed'
    BY <1>1, <2>1, PackedStays
  <2> QED BY <1>4, <1>6, <1>7, <2>1, <2>2, OtherStepKeeps
<1>9. CASE pushUnanswered
  <2>1. hub' = hub /\ Packed' /\ doubtful' = doubtful
    BY <1>9, PushPacks DEF pushUnanswered, cacheVars
  <2> QED BY <1>4, <1>6, <1>7, <2>1, OtherStepKeeps
<1>10. CASE refCut \/ markerIsCut
  <2>1. /\ phase \in {"reuse", "ref", "mark"} /\ phase \in Downloading /\ oci' = oci
        /\ harbor' = harbor /\ doubtful \subseteq doubtful'
    BY <1>10 DEF refCut, markerIsCut, ociVars, registryVars, Downloading
  <2>2. Pin \in Pins
    BY <1>1, <2>1, PinFacts
  <2>3. PICK d \in Directories(Pin.id) :
           /\ OnlyDir(d) /\ d.ref \in {Empty, Dir.ref}
           /\ d.snapshots = Dir.snapshots /\ d.blobs = Dir.blobs
    <3>1. CASE refCut
      BY <2>1, <3>1, RefOnly DEF refCut
    <3>2. CASE markerIsCut
      BY <3>2, MarkerCutOnly
    <3> QED BY <1>10, <3>1, <3>2
  <2>4. Abbreviated(Pin) => Untrimmed(Dir, Pin)
    BY <1>1, <2>2 DEF Steady, Dir
  <2>5. Abbreviated(Pin) => Untrimmed(d, Pin)
    BY <2>3, <2>4, SameFiles DEF Untrimmed
  <2>6. Steady'
    BY <1>1, <2>2, <2>3, <2>5, SteadyStep
  <2>7. Doing' \notin Uploading
    BY <1>6, <2>1 DEF Uploading
  <2>8. RefWritten' /\ Held'
    BY <1>4, <1>7, <2>7 DEF RefWritten, Held
  <2>9. Packed'
    BY <1>1, <2>1, PackedStays
  <2> QED BY <2>6, <2>8, <2>9 DEF ReleaseInv
<1> QED BY <1>8, <1>9, <1>10

\* A download starts with every pin ahead.
LEMMA EnterKeeps ==
  ASSUME StageInv, ReleaseInv, phase' = "prepare", todo' = convertModels(toUpload),
         UNCHANGED <<cacheVars, registryVars, runVars, doubtful, toUpload>>
  PROVE  ReleaseInv'
<1>1. TypeOK /\ Steady /\ Packed
  BY DEF StageInv, ReleaseInv
<1>2. /\ hub' = hub /\ oci' = oci /\ harbor' = harbor /\ catalog' = catalog
      /\ toUpload' = toUpload /\ doubtful' = doubtful
  BY DEF cacheVars, registryVars, runVars
<1>3. Steady' /\ Packed' /\ PinsOf(toUpload)' = PinsOf(toUpload)
  BY <1>1, <1>2 DEF Steady, Packed, PinsOf
<1>4. Range(todo') = PinsOf(toUpload)
  BY <1>1, ConvertRange DEF TypeOK
<1>5. Doing' = "prepare"
  BY DEF Doing
<1>6. RefWritten' /\ Held'
  BY <1>3, <1>4, <1>5 DEF RefWritten, Held, Uploading
<1> QED BY <1>3, <1>6 DEF ReleaseInv

\* A retry starts the step from its beginning, with what the step before left.
LEMMA RetryKeeps ==
  ASSUME StageInv, ReleaseInv, Retry
  PROVE  ReleaseInv'
<1>1. /\ hub' = hub /\ oci' = oci /\ harbor' = harbor /\ catalog' = catalog
      /\ toUpload' = toUpload /\ UNCHANGED <<cacheVars, registryVars, runVars, doubtful, toUpload>>
      /\ Doing = failed /\ doubtful' = doubtful
  BY DEF Retry, cacheVars, registryVars, runVars, Doing
<1>2. Packed'
  BY <1>1 DEF ReleaseInv, Packed
<1>3. CASE phase' = "prepare" /\ todo' = convertModels(toUpload)
  BY <1>1, <1>3, EnterKeeps
<1>4. CASE /\ phase' \in {"resolve", "check", "images", "delete"}
           /\ phase' = "resolve" => failed \in Uploading
  <2>1. Doing' = phase' /\ phase' \notin Downloading
    BY <1>4 DEF Doing, Downloading
  <2>2. Doing' \in Uploading => Doing \in Uploading
    BY <1>1, <1>4, <2>1 DEF Uploading
  <2> QED BY <1>1, <1>2, <2>1, <2>2, OtherStepKeeps
<1> QED BY <1>3, <1>4 DEF Retry

\* Initially nothing is packed, and the directories of the pins that are cut
\* short have nothing but them.
LEMMA InitRelease == ASSUME AbbreviatedPinsStay, Init PROVE ReleaseInv
<1>1. /\ hub \in EarlierCaches /\ phase = "idle" /\ DOMAIN oci = {} /\ DOMAIN harbor = {}
  BY DEF Init
<1>2. Doing = "idle"
  BY <1>1 DEF Doing
<1>3. Steady
  BY <1>1 DEF Steady, AbbreviatedPinsStay
<1>4. RefWritten /\ Held
  BY <1>1, <1>2 DEF RefWritten, Held, Downloading, Uploading
<1>5. Packed
  BY <1>1 DEF Packed, PackedIn
<1> QED BY <1>3, <1>4, <1>5 DEF ReleaseInv

\* Every step keeps what the artifacts hold.
LEMMA StepRelease ==
  ASSUME OnePinPerRelease, AbbreviatedPinsStay, StageInv, ReleaseInv, [Next]_vars
  PROVE  ReleaseInv'
<1>1. CASE UNCHANGED vars
  <2>1. /\ hub' = hub /\ oci' = oci /\ harbor' = harbor /\ catalog' = catalog
        /\ toUpload' = toUpload /\ phase' = phase /\ todo' = todo /\ failed' = failed
        /\ doubtful' = doubtful
    BY <1>1 DEF vars
  <2>2. /\ Doing' = Doing /\ Pin' = Pin /\ Dir' = Dir
        /\ PinsOf(toUpload)' = PinsOf(toUpload)
    BY <2>1 DEF Doing, Pin, Dir, PinsOf
  <2> QED BY <2>1, <2>2 DEF ReleaseInv, Steady, RefWritten, Held, Packed
<1>2. CASE StartRun \/ checkModelArtifacts
  <2>1. /\ hub' = hub /\ oci' = oci /\ harbor' = harbor /\ phase' \in {"check", "report"}
        /\ doubtful' = doubtful
    BY <1>2 DEF StartRun, checkModelArtifacts, cacheVars, registryVars, Goto
  <2>2. Packed'
    BY <2>1, PackedStays DEF ReleaseInv
  <2>3. Doing' \notin Uploading /\ phase' \notin Downloading
    BY <2>1 DEF Doing, Uploading, Downloading
  <2> QED BY <2>1, <2>2, <2>3, OtherStepKeeps
<1>3. CASE reportModelStorage
  <2>1. /\ UNCHANGED <<cacheVars, registryVars, runVars, doubtful, toUpload>>
        /\ todo' = convertModels(toUpload) /\ phase' \in {"prepare", "images"}
        /\ hub' = hub /\ oci' = oci /\ harbor' = harbor /\ doubtful' = doubtful
    BY <1>3 DEF reportModelStorage, EnterDownload, Goto, cacheVars, registryVars
  <2>2. CASE phase' = "prepare"
    BY <2>1, <2>2, EnterKeeps
  <2>3. CASE phase' = "images"
    <3>1. Packed'
      BY <2>1, PackedStays DEF ReleaseInv
    <3>2. Doing' \notin Uploading /\ phase' \notin Downloading
      BY <2>3 DEF Doing, Uploading, Downloading
    <3> QED BY <2>1, <3>1, <3>2, OtherStepKeeps
  <2> QED BY <2>1, <2>2, <2>3
<1>4. CASE SkipDelete \/ Abort \/ Crash
  <2>1. /\ hub' = hub /\ oci' = oci /\ harbor' = harbor /\ phase' \in {"idle", "done"}
        /\ doubtful \subseteq doubtful'
    BY <1>4 DEF SkipDelete, Abort, Crash, cacheVars, registryVars
  <2>2. Packed'
    BY <2>1, PackedStays DEF ReleaseInv
  <2>3. Doing' \notin Uploading /\ phase' \notin Downloading
    BY <2>1 DEF Doing, Uploading, Downloading
  <2> QED BY <2>1, <2>2, <2>3, OtherStepKeeps
<1> QED BY <1>1, <1>2, <1>3, <1>4, DownloadStepKeeps, UploadStepKeeps, FailureKeeps,
           RetryKeeps DEF Next

\* Whatever is interrupted and retried: a repository that was dealt with holds
\* its pin until it is packed, and an artifact holds what a release with its
\* tag pins, apart from the repositories that were cut off under a marker that
\* names no revision (an older installer's, or one cut short); if a release pins a repository once, and a repository whose pin is
\* cut short never has another (Prepare, EnsureRef, Complete, RemoveUnselected,
\* PruneOtherRevisions, cacheArtifact, uploadModels).
THEOREM ReleaseInvariant ==
  ASSUME OnePinPerRelease, AbbreviatedPinsStay PROVE Spec => []ReleaseInv
<1>1. Init => ReleaseInv
  BY InitRelease
<1>2. StageInv /\ ReleaseInv /\ [Next]_vars => ReleaseInv'
  BY StepRelease
<1> QED BY <1>1, <1>2, StageInvariant, PTL DEF Spec

\* An artifact in the OCI cache or in Harbor holds exactly what every release
\* that asks for its tag pins (cacheArtifact, checkModelArtifacts), apart from
\* the repositories that were cut off under a marker that names no revision; if
\* in addition two releases that give a model one tag pin the same of it.
THEOREM ArtifactsHold ==
  ASSUME OnePinPerRelease, AbbreviatedPinsStay, TagNamesPins PROVE
         Spec => []ArtifactIsPinOrDoubtful
<1>1. ASSUME TypeOK, Packed PROVE ArtifactIsPinOrDoubtful
  <2> SUFFICES ASSUME NEW store \in {oci, harbor}, NEW ref \in DOMAIN store,
                      NEW c \in Catalogs, Tag[c[ref[1]][1].revision] = ref[2],
                      NEW pin \in Range(c[ref[1]]), pin.id \notin doubtful
               PROVE  HoldsPin(store[ref][pin.id], pin)
    BY DEF ArtifactIsPinOrDoubtful
  <2>1. PackedIn(store, doubtful)
    BY <1>1 DEF Packed
  <2>2. PICK d \in Catalogs :
          /\ Tag[d[ref[1]][1].revision] = ref[2]
          /\ \A q \in Range(d[ref[1]]) :
               q.id \in doubtful \/ HoldsPin(store[ref][q.id], q)
    BY <2>1 DEF PackedIn
  <2>3. ref[1] \in Range(Models)
    BY <1>1 DEF TypeOK
  <2>4. PICK q \in Range(d[ref[1]]) :
          q.id = pin.id /\ Commit[q.revision] = Commit[pin.revision]
    BY <2>2, <2>3 DEF TagNamesPins
  <2>5. HoldsPin(store[ref][q.id], q)
    BY <2>2, <2>4
  <2>6. planDownload(q) = planDownload(pin)
    BY <2>4 DEF planDownload
  <2> QED BY <2>4, <2>5, <2>6 DEF HoldsPin
<1>2. StageInv /\ ReleaseInv => ArtifactIsPinOrDoubtful
  BY <1>1 DEF StageInv, ReleaseInv
<1> QED BY <1>2, StageInvariant, ReleaseInvariant, PTL

=============================================================================
