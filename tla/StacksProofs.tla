---------------------------- MODULE StacksProofs ----------------------------
(***************************************************************************)
(* What Config.Resolve promises for every valid definition, and the        *)
(* properties of Stacks for any sites, names, credentials, hand edits,     *)
(* failures and crashes, over any number of runs.                          *)
(***************************************************************************)
EXTENDS Stacks, WellFoundedInduction, NaturalsInduction, TLAPS

-----------------------------------------------------------------------------
(* Numbers and sequences                                                   *)

\* A set of naturals has a least element, which stands in for induction.
LEMMA LeastElement ==
  ASSUME NEW T \in SUBSET Nat, T # {}
  PROVE  \E m \in T : \A k \in T : m <= k
<1> DEFINE R == {ss \in Nat \X Nat : ss[1] < ss[2]}
<1>1. IsWellFoundedOn(R, Nat)
  BY NatLessThanWellFounded DEF OpToRel
<1>2. \A y, m \in Nat : y < m => <<y, m>> \in R
  OBVIOUS
<1>3. PICK m \in T : \A y \in T : ~(<<y, m>> \in R)
  BY <1>1, WFMin
<1>4. \A k \in T : m <= k
  <2> TAKE k \in T
  <2>1. k \in Nat /\ m \in Nat
    OBVIOUS
  <2>2. ~(<<k, m>> \in R)
    BY <1>3
  <2> HIDE DEF R
  <2>3. ~(k < m)
    BY <1>2, <2>1, <2>2
  <2> QED BY <2>1, <2>3
<1> QED BY <1>4

\* A sequence, whatever its elements are.
IsSequence(s) == s \in Seq(ToSet(s))

\* Concatenation gives a sequence and joins the elements.
LEMMA ConcatRange ==
  ASSUME NEW s, NEW t, IsSequence(s), IsSequence(t)
  PROVE  IsSequence(s \o t) /\ ToSet(s \o t) = ToSet(s) \cup ToSet(t)
<1> DEFINE T == ToSet(s) \cup ToSet(t)
<1>a. s \in Seq(T) /\ t \in Seq(T)
  BY DEF IsSequence, ToSet
<1> HIDE DEF T
<1>1. /\ s \o t \in Seq(T) /\ DOMAIN s = 1 .. Len(s) /\ DOMAIN t = 1 .. Len(t)
      /\ Len(s) \in Nat /\ Len(t) \in Nat
      /\ DOMAIN (s \o t) = 1 .. Len(s) + Len(t)
      /\ \A i \in 1 .. Len(s) : (s \o t)[i] = s[i]
      /\ \A i \in 1 .. Len(t) : (s \o t)[Len(s) + i] = t[i]
  BY <1>a
<1>2. \A i \in 1 .. Len(s) + Len(t) :
        i \in 1 .. Len(s) \/ \E j \in 1 .. Len(t) : i = Len(s) + j
  <2> TAKE i \in 1 .. Len(s) + Len(t)
  <2>1. CASE i <= Len(s)
    BY <1>1, <2>1
  <2>2. CASE i > Len(s)
    <3>1. i - Len(s) \in 1 .. Len(t) /\ i = Len(s) + (i - Len(s))
      BY <1>1, <2>2
    <3> QED BY <3>1
  <2> QED BY <1>1, <2>1, <2>2
<1>3. ToSet(s \o t) \subseteq ToSet(s) \cup ToSet(t)
  BY <1>1, <1>2 DEF ToSet
<1>4. /\ \A i \in 1 .. Len(s) : i \in 1 .. Len(s) + Len(t)
      /\ \A i \in 1 .. Len(t) : Len(s) + i \in 1 .. Len(s) + Len(t)
  BY <1>1
<1>5. ToSet(s) \cup ToSet(t) \subseteq ToSet(s \o t)
  BY <1>1, <1>4 DEF ToSet
<1>6. ToSet(s \o t) = T
  BY <1>3, <1>5 DEF T
<1> QED BY <1>1, <1>6 DEF IsSequence, T

-----------------------------------------------------------------------------
(* Config.Resolve                                                          *)

\* The equation of the recursive function in Resolve.
AfterEntries(f, s, src, ans) ==
  [i \in 0 .. Len(s) |-> IF i = 0 THEN [ok |-> TRUE, values |-> <<>>]
                        ELSE ResolveEntry(f[i - 1], s[i], src, ans)]

\* The recursive function in Resolve exists: a first place where it stops
\* being one would have a next value all the same.
LEMMA ResolveExists ==
  ASSUME NEW s, Len(s) \in Nat, NEW src, NEW ans
  PROVE  \E f : f = AfterEntries(f, s, src, ans)
<1> DEFINE next(f, i) == IF i = 0 THEN [ok |-> TRUE, values |-> <<>>]
                         ELSE ResolveEntry(f[i - 1], s[i], src, ans)
           Upto(f, n) == f = [i \in 0 .. n |-> next(f, i)]
           Missing == {n \in 0 .. Len(s) : ~ \E f : Upto(f, n)}
<1>1. SUFFICES ASSUME Missing # {}
               PROVE  FALSE
  <2>1. Len(s) \in 0 .. Len(s)
    OBVIOUS
  <2> QED BY <2>1 DEF AfterEntries
<1>2. Missing \in SUBSET Nat
  OBVIOUS
<1>3. PICK m \in Missing : \A k \in Missing : m <= k
  BY <1>1, <1>2, LeastElement
<1>4. m \in Nat /\ m \in 0 .. Len(s) /\ ~ \E f : Upto(f, m)
  <2> HIDE DEF Upto
  <2> QED BY <1>3
<1>5. CASE m = 0
  <2> DEFINE f == [i \in 0 .. 0 |-> [ok |-> TRUE, values |-> <<>>]]
  <2>1. Upto(f, 0)
    OBVIOUS
  <2> QED BY <1>4, <1>5, <2>1
<1>6. CASE m # 0
  <2>1. m - 1 \in 0 .. Len(s) /\ m - 1 \notin Missing
    <3> HIDE DEF Missing
    <3> QED BY <1>3, <1>4, <1>6
  <2>2. PICK f : Upto(f, m - 1)
    <3> HIDE DEF Upto
    <3> QED BY <2>1
  <2> DEFINE g == [i \in 0 .. m |-> IF i = m THEN next(f, m) ELSE f[i]]
  <2>3. \A i \in 0 .. m : i # m => f[i] = next(f, i)
    <3> HIDE DEF next
    <3>1. f = [i \in 0 .. m - 1 |-> next(f, i)]
      BY <2>2
    <3>2. \A i \in 0 .. m - 1 : f[i] = next(f, i)
      BY <3>1
    <3>3. \A i \in 0 .. m : i # m => i \in 0 .. m - 1
      BY <1>4
    <3> QED BY <3>2, <3>3
  <2>4. \A i \in 0 .. m : i # 0 => g[i - 1] = f[i - 1]
    BY <1>4
  <2>5. \A i \in 0 .. m : next(g, i) = next(f, i)
    BY <2>4
  <2>6. \A i \in 0 .. m : g[i] = next(g, i)
    BY <2>3, <2>5
  <2>7. g = [i \in 0 .. m |-> g[i]]
    OBVIOUS
  <2> HIDE DEF g, next
  <2>8. g = [i \in 0 .. m |-> next(g, i)]
    BY <2>6, <2>7
  <2> QED BY <1>4, <2>8
<1> QED BY <1>5, <1>6

\* What Resolve returns is the last value of a function that starts from
\* nothing and follows ResolveEntry.
LEMMA ResolveUnfolds ==
  ASSUME NEW T, NEW s \in Seq(T), NEW src, NEW ans
  PROVE  \E f : /\ f[0] = [ok |-> TRUE, values |-> <<>>]
                /\ \A i \in 1 .. Len(s) : f[i] = ResolveEntry(f[i - 1], s[i], src, ans)
                /\ Resolve(s, src, ans) = f[Len(s)]
<1> DEFINE g == CHOOSE f : f = AfterEntries(f, s, src, ans)
<1>1. Len(s) \in Nat
  OBVIOUS
<1>2. \E f : f = AfterEntries(f, s, src, ans)
  BY <1>1, ResolveExists
<1>3. g = AfterEntries(g, s, src, ans)
  BY <1>2
<1>4. Resolve(s, src, ans) = g[Len(s)]
  BY DEF Resolve, AfterEntries
<1> HIDE DEF g
<1>5. g[0] = [ok |-> TRUE, values |-> <<>>]
  BY <1>1, <1>3 DEF AfterEntries
<1>6. \A i \in 1 .. Len(s) : g[i] = ResolveEntry(g[i - 1], s[i], src, ans)
  <2> TAKE i \in 1 .. Len(s)
  <2>1. i \in 0 .. Len(s) /\ i # 0
    BY <1>1
  <2> QED BY <1>3, <2>1 DEF AfterEntries
<1> QED BY <1>4, <1>5, <1>6

\* What Resolve promises about an entry: its key is written exactly when its
\* condition holds in the values that are written and a value was found, the
\* value is that of Entry.resolve, and it passed the entry's policy.
Honoured(e, values, src, ans) ==
  LET value == resolve(e, src, ans)
  IN  /\ e.key \in DOMAIN values <=> Active(e, values) /\ value # Absent
      /\ e.key \in DOMAIN values => values[e.key] = value
      /\ Active(e, values) =>
           /\ e.required => value # Absent /\ ~isEmpty(value)
           /\ e.validate => TrimSpace(value) # Malformed

\* An entry leaves the record of Resolve a record.
LEMMA EntryShape ==
  ASSUME NEW acc, NEW e, NEW src, NEW ans,
         acc = [ok |-> acc.ok, values |-> acc.values]
  PROVE  LET after == ResolveEntry(acc, e, src, ans)
         IN  after = [ok |-> after.ok, values |-> after.values]
<1> DEFINE a == acc.ok
           b == acc.values
<1> HIDE DEF a, b
<1>1. acc = [ok |-> a, values |-> b]
  BY DEF a, b
<1>a. \A v : /\ [acc EXCEPT !.values = v] = [ok |-> a, values |-> v]
             /\ [acc EXCEPT !.ok = v] = [ok |-> v, values |-> b]
  BY <1>1, SMT
<1>2. \/ ResolveEntry(acc, e, src, ans) = acc
      \/ ResolveEntry(acc, e, src, ans) = [ok |-> FALSE, values |-> acc.values]
      \/ \E v : ResolveEntry(acc, e, src, ans) = [ok |-> acc.ok, values |-> v]
  BY <1>a DEF ResolveEntry, a, b
<1> QED BY <1>2

\* The key of d, and the one its condition looks at, are among keys.
Settled(d, keys) ==
  /\ d.key \in keys
  /\ d.when # Always => d.when[1] \in keys

\* One entry: when it passes, it is honoured, and so is every entry before it,
\* because it adds at most a key that none of them has or looks at.
LEMMA EntryHonoured ==
  ASSUME NEW acc, NEW e, NEW src, NEW ans, NEW keys,
         acc = [ok |-> acc.ok, values |-> acc.values],
         ResolveEntry(acc, e, src, ans).ok,
         DOMAIN acc.values \subseteq keys, e.key \notin keys,
         e.when # Always => e.when[1] \in keys
  PROVE  /\ acc.ok
         /\ LET after == ResolveEntry(acc, e, src, ans)
            IN  /\ after = [ok |-> after.ok, values |-> after.values]
                /\ DOMAIN after.values \subseteq keys \cup {e.key}
                /\ Honoured(e, after.values, src, ans)
                /\ \A d : Settled(d, keys) /\ Honoured(d, acc.values, src, ans)
                       => Honoured(d, after.values, src, ans)
<1> DEFINE after == ResolveEntry(acc, e, src, ans)
           value == resolve(e, src, ans)
           missing == e.required /\ (value = Absent \/ isEmpty(value))
           refused == e.validate /\ TrimSpace(value) = Malformed
<1>1. after = IF ~acc.ok \/ ~Active(e, acc.values) THEN acc
              ELSE IF missing \/ refused THEN [acc EXCEPT !.ok = FALSE]
              ELSE IF value = Absent THEN acc
              ELSE [acc EXCEPT !.values = With(acc.values, e.key, value)]
  BY DEF ResolveEntry
<1> HIDE DEF after, value
<1>2. [acc EXCEPT !.ok = FALSE].ok = FALSE
  OBVIOUS
<1>3. acc.ok
  BY <1>1, <1>2 DEF after
<1>4. CASE ~Active(e, acc.values) \/ value = Absent
  <2>1. after = acc /\ (Active(e, acc.values) => ~missing /\ ~refused)
    BY <1>1, <1>2, <1>4 DEF after
  <2>2. Honoured(e, acc.values, src, ans)
    BY <1>4, <2>1 DEF Honoured, value
  <2> QED BY <1>3, <2>1, <2>2 DEF after
<1>5. CASE Active(e, acc.values) /\ value # Absent
  <2>1. ~missing /\ ~refused
    BY <1>1, <1>2, <1>3, <1>5 DEF after
  <2>2. after = [acc EXCEPT !.values = With(acc.values, e.key, value)]
    BY <1>1, <1>3, <1>5, <2>1
  <2>3. after = [ok |-> after.ok, values |-> after.values]
        /\ after.values = With(acc.values, e.key, value)
    BY <2>2
  <2>4. /\ DOMAIN after.values = DOMAIN acc.values \cup {e.key}
        /\ after.values[e.key] = value
        /\ \A k \in keys : /\ k \in DOMAIN after.values <=> k \in DOMAIN acc.values
                           /\ k \in DOMAIN acc.values => after.values[k] = acc.values[k]
    BY <2>3 DEF With
  <2>5. \A d : (d.when # Always => d.when[1] \in keys) =>
               (Active(d, after.values) <=> Active(d, acc.values))
    BY <2>4 DEF Active
  <2>6. Honoured(e, after.values, src, ans)
    BY <1>5, <2>1, <2>4, <2>5 DEF Honoured, value
  <2>7. \A d : Settled(d, keys) /\ Honoured(d, acc.values, src, ans)
                       => Honoured(d, after.values, src, ans)
    <3> SUFFICES ASSUME NEW d, Settled(d, keys),
                        Honoured(d, acc.values, src, ans)
                 PROVE  Honoured(d, after.values, src, ans)
      BY Zenon
    <3>1. Active(d, after.values) <=> Active(d, acc.values)
      BY <2>5 DEF Settled
    <3>2. /\ d.key \in DOMAIN after.values <=> d.key \in DOMAIN acc.values
          /\ d.key \in DOMAIN acc.values => after.values[d.key] = acc.values[d.key]
      BY <2>4 DEF Settled
    <3> QED BY <3>1, <3>2 DEF Honoured
  <2>8. DOMAIN after.values \subseteq keys \cup {e.key}
    BY <2>4
  <2> QED BY <1>3, <2>3, <2>6, <2>7, <2>8, Zenon DEF after
<1> QED BY <1>4, <1>5

\* Config.Resolve honours every entry, whatever the installer supplies and
\* the operator answers: of the entries that pass Validate, a first one that
\* is not honoured would have to be so by EntryHonoured.
THEOREM ResolveHonours ==
  ASSUME NEW T, NEW entries \in Seq(T), NEW src, NEW ans,
         Validate(entries), Resolve(entries, src, ans).ok
  PROVE  LET values == Resolve(entries, src, ans).values
         IN  /\ DOMAIN values \subseteq KeysOf(entries)
             /\ \A e \in ToSet(entries) : Honoured(e, values, src, ans)
<1> DEFINE keys(n) == {entries[j].key : j \in 1 .. n}
<1>1. Len(entries) \in Nat /\ DOMAIN entries = 1 .. Len(entries)
  OBVIOUS
<1>2. PICK f : /\ f[0] = [ok |-> TRUE, values |-> <<>>]
               /\ \A i \in 1 .. Len(entries) :
                    f[i] = ResolveEntry(f[i - 1], entries[i], src, ans)
               /\ Resolve(entries, src, ans) = f[Len(entries)]
  BY ResolveUnfolds
<1> DEFINE Good(n) == /\ f[n] = [ok |-> f[n].ok, values |-> f[n].values]
                      /\ f[n].ok =>
                           /\ DOMAIN f[n].values \subseteq keys(n)
                           /\ \A j \in 1 .. n : Honoured(entries[j], f[n].values, src, ans)
           Wrong == {n \in 0 .. Len(entries) : ~Good(n)}
<1>3. Good(0)
  <2>1. DOMAIN f[0].values = {}
    BY <1>2
  <2> QED BY <1>2, <2>1
<1>4. ASSUME NEW n \in 1 .. Len(entries), Good(n - 1) PROVE Good(n)
  <2> DEFINE e == entries[n]
             acc == f[n - 1]
  <2>1. n \in Nat /\ n - 1 \in Nat /\ n \in DOMAIN entries
    BY <1>1
  <2>2. /\ \A j \in 1 .. n - 1 : entries[j].key # e.key
        /\ e.when # Always => \E j \in 1 .. n - 1 : entries[j].key = e.when[1]
    BY <2>1 DEF Validate
  <2>3. e.key \notin keys(n - 1) /\ (e.when # Always => e.when[1] \in keys(n - 1))
    BY <2>2
  <2>4. \A j \in 1 .. n - 1 :
          /\ entries[j].key \in keys(n - 1)
          /\ entries[j].when # Always => entries[j].when[1] \in keys(n - 1)
    <3> TAKE j \in 1 .. n - 1
    <3>1. j \in DOMAIN entries /\ \A l \in 1 .. j - 1 : l \in 1 .. n - 1
      BY <1>1, <2>1
    <3> QED BY <3>1 DEF Validate
  <2>5. keys(n) = keys(n - 1) \cup {e.key}
    <3>1. \A j \in 1 .. n : j \in 1 .. n - 1 \/ j = n
      BY <2>1
    <3>2. n \in 1 .. n /\ \A j \in 1 .. n - 1 : j \in 1 .. n
      BY <2>1
    <3> QED BY <3>1, <3>2
  <2>6. f[n] = ResolveEntry(acc, e, src, ans)
    BY <1>2
  <2>7. acc = [ok |-> acc.ok, values |-> acc.values]
    BY <1>4
  <2>8. \A j \in 1 .. n : j \in 1 .. n - 1 \/ j = n
    BY <2>1
  <2>9. f[n] = [ok |-> f[n].ok, values |-> f[n].values]
    BY <2>6, <2>7, EntryShape
  <2>10. ASSUME f[n].ok
         PROVE  /\ DOMAIN f[n].values \subseteq keys(n)
                /\ \A j \in 1 .. n : Honoured(entries[j], f[n].values, src, ans)
    <3> DEFINE ks == keys(n - 1)
    <3>1. acc.ok
      <4>1. ~acc.ok => ResolveEntry(acc, e, src, ans) = acc
        BY DEF ResolveEntry
      <4> QED BY <2>6, <2>10, <4>1
    <3>2. /\ DOMAIN acc.values \subseteq ks
          /\ \A j \in 1 .. n - 1 : Honoured(entries[j], acc.values, src, ans)
      BY <1>4, <3>1
    <3> HIDE DEF acc, e, ks
    <3>3. /\ DOMAIN f[n].values \subseteq ks \cup {e.key}
          /\ Honoured(e, f[n].values, src, ans)
          /\ \A d : Settled(d, ks) /\ Honoured(d, acc.values, src, ans)
                       => Honoured(d, f[n].values, src, ans)
      <4>1. ResolveEntry(acc, e, src, ans).ok
        BY <2>6, <2>10 DEF acc, e
      <4>2. e.key \notin ks /\ (e.when # Always => e.when[1] \in ks)
        BY <2>3 DEF ks, e
      <4> DEFINE r == ResolveEntry(acc, e, src, ans)
      <4>3. DOMAIN acc.values \subseteq ks
        BY <3>2
      <4>4. /\ DOMAIN r.values \subseteq ks \cup {e.key}
            /\ Honoured(e, r.values, src, ans)
            /\ \A d : Settled(d, ks) /\ Honoured(d, acc.values, src, ans)
                       => Honoured(d, r.values, src, ans)
        BY <2>7, <4>1, <4>2, <4>3, EntryHonoured, Zenon
      <4> QED BY <2>6, <4>4, Zenon
    <3>4. ASSUME NEW j \in 1 .. n - 1 PROVE Honoured(entries[j], f[n].values, src, ans)
      BY <2>4, <3>2, <3>3, <3>4 DEF ks, Settled
    <3>5. DOMAIN f[n].values \subseteq keys(n)
      BY <2>5, <3>3 DEF ks, e
    <3>6. Honoured(entries[n], f[n].values, src, ans)
      BY <3>3 DEF e
    <3> QED BY <2>8, <3>4, <3>5, <3>6
  <2> QED BY <2>9, <2>10
<1>5. ASSUME Wrong # {} PROVE FALSE
  <2>1. PICK m \in Wrong : \A k \in Wrong : m <= k
    <3>1. Wrong \in SUBSET Nat
      OBVIOUS
    <3> QED BY <1>5, <3>1, LeastElement
  <2> HIDE DEF Good
  <2>2. m \in 0 .. Len(entries) /\ ~Good(m) /\ m # 0
    BY <1>3, <2>1
  <2>3. m \in 1 .. Len(entries) /\ m - 1 \in 0 .. Len(entries) /\ ~(m <= m - 1)
    BY <1>1, <2>2
  <2>4. Good(m - 1)
    BY <2>1, <2>3
  <2> QED BY <1>4, <2>2, <2>3, <2>4
<1>6. Good(Len(entries))
  <2>1. Len(entries) \in 0 .. Len(entries)
    BY <1>1
  <2> HIDE DEF Good
  <2> QED BY <1>5, <2>1
<1>7. /\ keys(Len(entries)) = KeysOf(entries)
      /\ \A e \in ToSet(entries) : \E j \in 1 .. Len(entries) : e = entries[j]
  BY <1>1 DEF KeysOf, ToSet
<1>8. f[Len(entries)].ok
  BY <1>2
<1> QED BY <1>2, <1>6, <1>7, <1>8

-----------------------------------------------------------------------------
(* The entries of the stacks                                               *)

\* A function on 1 .. n is a sequence, with the elements it has.
LEMMA FunctionRange ==
  ASSUME NEW n \in Nat, NEW g, DOMAIN g = 1 .. n, g = [i \in 1 .. n |-> g[i]]
  PROVE  IsSequence(g) /\ \A i \in 1 .. n : g[i] \in ToSet(g)
<1>1. \A i \in 1 .. n : g[i] \in ToSet(g)
  BY DEF ToSet
<1> QED BY <1>1 DEF IsSequence

\* Entries of one shape form a sequence.
LEMMA EntriesRange ==
  ASSUME NEW keys, IsSequence(keys)
  PROVE  /\ IsSequence(Entries(HandOnly, keys)) /\ IsSequence(Entries(Defaulted, keys))
         /\ IsSequence(Entries(RequiredDefault, keys))
         /\ IsSequence(Entries(RequiredValue, keys))
         /\ IsSequence(Entries(RequiredSecret, keys))
         /\ IsSequence(Entries(RequiredImage, keys))
         /\ IsSequence(Entries(RequiredOverride, keys))
         /\ IsSequence(Entries(KCCredential, keys)) /\ IsSequence(Entries(Optional, keys))
<1>1. DOMAIN keys = 1 .. Len(keys) /\ Len(keys) \in Nat
  BY DEF IsSequence
<1>2. IsSequence(Entries(HandOnly, keys))
  BY <1>1, FunctionRange DEF Entries
<1>3. IsSequence(Entries(Defaulted, keys))
  BY <1>1, FunctionRange DEF Entries
<1>4. IsSequence(Entries(RequiredDefault, keys))
  BY <1>1, FunctionRange DEF Entries
<1>5. IsSequence(Entries(RequiredValue, keys))
  BY <1>1, FunctionRange DEF Entries
<1>6. IsSequence(Entries(RequiredSecret, keys))
  BY <1>1, FunctionRange DEF Entries
<1>7. IsSequence(Entries(RequiredImage, keys))
  BY <1>1, FunctionRange DEF Entries
<1>8. IsSequence(Entries(RequiredOverride, keys))
  BY <1>1, FunctionRange DEF Entries
<1>9. IsSequence(Entries(KCCredential, keys))
  BY <1>1, FunctionRange DEF Entries
<1>10. IsSequence(Entries(Optional, keys))
  BY <1>1, FunctionRange DEF Entries
<1> QED BY <1>2, <1>3, <1>4, <1>5, <1>6, <1>7, <1>8, <1>9, <1>10

\* The entry for a key is among them.
LEMMA EntryFor ==
  ASSUME NEW keys, IsSequence(keys), NEW k \in ToSet(keys)
  PROVE  /\ RequiredValue(Entry(k)) \in ToSet(Entries(RequiredValue, keys))
         /\ KCCredential(Entry(k)) \in ToSet(Entries(KCCredential, keys))
<1>1. PICK i \in DOMAIN keys : k = keys[i]
  BY DEF ToSet
<1>2. RequiredValue(Entry(k)) \in ToSet(Entries(RequiredValue, keys))
  BY <1>1 DEF Entries, ToSet
<1>3. KCCredential(Entry(k)) \in ToSet(Entries(KCCredential, keys))
  BY <1>1 DEF Entries, ToSet
<1> QED BY <1>2, <1>3

\* Short tuples and what they hold.
LEMMA TupleRange ==
  ASSUME NEW a, NEW b, NEW c
  PROVE  /\ IsSequence(<<a>>) /\ ToSet(<<a>>) = {a}
         /\ IsSequence(<<a, b>>) /\ ToSet(<<a, b>>) = {a, b}
         /\ IsSequence(<<a, b, c>>) /\ ToSet(<<a, b, c>>) = {a, b, c}
         /\ b \in ToSet(<<a, b>>) /\ c \in ToSet(<<a, b, c>>)
<1>1. ToSet(<<a>>) = {a} /\ ToSet(<<a, b>>) = {a, b} /\ ToSet(<<a, b, c>>) = {a, b, c}
  BY DEF ToSet
<1> QED BY <1>1 DEF IsSequence

\* The entries of gateway-provider that describe the Gateway.
LEMMA GatewayEntries ==
  ASSUME NEW p
  PROVE  /\ IsSequence(gatewayEntries(p))
         /\ {RequiredValue(Entry("cloudProvider")),
             Default(Optional(Entry("gatewayClassName")), defaultsForProvider(p)),
             WhenEquals(Validated(Required(Prompt(Entry("albSubnetId"), "input"))),
                        "gatewayClassName", AGC),
             Value(Entry("certManagerIssuer"))} \subseteq ToSet(gatewayEntries(p))
<1> DEFINE k1 == <<"cloudProvider", "kubeconfig">>
           s1 == Entries(RequiredValue, k1)
           s2 == <<Value(Entry("context")), Prompt(Entry("gatewayHostname"), "input"),
                   Default(Optional(Entry("gatewayClassName")), defaultsForProvider(p))>>
           k3 == <<"gatewayNamespace", "infraStackRef">>
           s3 == Entries(HandOnly, k3)
           s4 == <<WhenEquals(Default(Optional(Entry("albName")), "shared-alb"),
                              "gatewayClassName", AGC),
                   WhenEquals(Validated(Required(Prompt(Entry("albSubnetId"), "input"))),
                              "gatewayClassName", AGC)>>
           k5 == <<"gatewayStaticIPName", "gatewayStaticIP", "provider", "namespace",
                   "istioHub", "istioTag", "installGatewayApiCrds">>
           s5 == Entries(HandOnly, k5)
           k6 == <<"gatewayApiCrdsPath", "gieCrdsPath">>
           s6 == Entries(Defaulted, k6)
           k7 == <<"gatewayCertName", "tlsCertAnnotation">>
           s7 == Entries(HandOnly, k7)
           s8 == <<Value(Entry("certManagerIssuer"))>>
           k9 == <<"tlsSecretName", "bootstrapTlsSecret">>
           s9 == Entries(HandOnly, k9)
<1>1. gatewayEntries(p) = (s1 \o s2 \o s3 \o s4) \o (s5 \o s6 \o s7 \o s8 \o s9)
  BY DEF gatewayEntries, gatewayCoreEntries, gatewayOptionalEntries
<1>2. /\ IsSequence(k1) /\ IsSequence(k3) /\ IsSequence(k6) /\ IsSequence(k7)
      /\ IsSequence(k9) /\ ToSet(k1) = {"cloudProvider", "kubeconfig"}
  BY TupleRange, Zenon
<1>3. IsSequence(k5)
  BY DEF IsSequence, ToSet
<1>4. /\ IsSequence(s2)
      /\ Default(Optional(Entry("gatewayClassName")), defaultsForProvider(p)) \in ToSet(s2)
  BY TupleRange, Zenon
<1>5. /\ IsSequence(s4)
      /\ WhenEquals(Validated(Required(Prompt(Entry("albSubnetId"), "input"))),
                    "gatewayClassName", AGC) \in ToSet(s4)
  BY TupleRange, Zenon
<1>6. IsSequence(s8) /\ Value(Entry("certManagerIssuer")) \in ToSet(s8)
  BY TupleRange
<1> HIDE DEF k1, k3, k5, k6, k7, k9, s2, s4, s8
<1>7. IsSequence(s1) /\ RequiredValue(Entry("cloudProvider")) \in ToSet(s1)
  BY <1>2, EntriesRange, EntryFor
<1>8. IsSequence(s3) /\ IsSequence(s5) /\ IsSequence(s6) /\ IsSequence(s7) /\ IsSequence(s9)
  BY <1>2, <1>3, EntriesRange
<1> HIDE DEF s1, s3, s5, s6, s7, s9
<1>9. /\ IsSequence(s1 \o s2 \o s3 \o s4)
      /\ ToSet(s1 \o s2 \o s3 \o s4) = ToSet(s1) \cup ToSet(s2) \cup ToSet(s3) \cup ToSet(s4)
  BY <1>4, <1>5, <1>7, <1>8, ConcatRange
<1>10. /\ IsSequence(s5 \o s6 \o s7 \o s8 \o s9)
       /\ ToSet(s5 \o s6 \o s7 \o s8 \o s9)
            = ToSet(s5) \cup ToSet(s6) \cup ToSet(s7) \cup ToSet(s8) \cup ToSet(s9)
  BY <1>6, <1>8, ConcatRange
<1>11. /\ IsSequence(gatewayEntries(p))
       /\ ToSet(s1) \cup ToSet(s2) \cup ToSet(s4) \cup ToSet(s8) \subseteq ToSet(gatewayEntries(p))
  BY <1>1, <1>9, <1>10, ConcatRange
<1> QED BY <1>4, <1>5, <1>6, <1>7, <1>11

\* The entries of app-shaide that carry the Knowledge Center.
LEMMA ShaideEntries ==
  /\ IsSequence(shaideEntries)
  /\ Default(Value(Entry("knowledgeCenterEnabled")), "false") \in ToSet(shaideEntries)
  /\ \A k \in KCKeys : KCCredential(Entry(k)) \in ToSet(shaideEntries)
<1> DEFINE s2 == Entries(Optional, <<"kubeconfig", "context", "gatewayHostname", "placement">>)
           s3 == <<Default(Value(Entry("webappEnabled")), "false"),
                   Default(Value(Entry("knowledgeCenterEnabled")), "false")>>
           s4 == Entries(RequiredDefault, <<"namespace", "shaideServiceAccountName">>)
<1>1. /\ IsSequence(shaideRuntimeEntries)
      /\ Default(Value(Entry("knowledgeCenterEnabled")), "false") \in ToSet(shaideRuntimeEntries)
  <2>1. IsSequence(<<RequiredValue(Entry("cloudProvider"))>>)
    BY TupleRange, Zenon
  <2>2. IsSequence(<<"kubeconfig", "context", "gatewayHostname", "placement">>)
    BY DEF IsSequence, ToSet
  <2>3. IsSequence(s2)
    BY <2>2, EntriesRange, Zenon
  <2>4. IsSequence(s3) /\ Default(Value(Entry("knowledgeCenterEnabled")), "false") \in ToSet(s3)
    BY TupleRange, Zenon
  <2>5. IsSequence(<<"namespace", "shaideServiceAccountName">>)
    BY TupleRange, Zenon
  <2>6. IsSequence(s4)
    BY <2>5, EntriesRange, Zenon
  <2>7. shaideRuntimeEntries = <<RequiredValue(Entry("cloudProvider"))>> \o s2 \o s3 \o s4
    BY DEF shaideRuntimeEntries
  <2> HIDE DEF s2, s3, s4
  <2> DEFINE s1 == <<RequiredValue(Entry("cloudProvider"))>>
  <2> HIDE DEF s1
  <2>8. IsSequence(s1 \o s2 \o s3 \o s4) /\ ToSet(s3) \subseteq ToSet(s1 \o s2 \o s3 \o s4)
    <3>1. IsSequence(s1)
      BY <2>1 DEF s1
    <3> QED BY <2>3, <2>4, <2>6, <3>1, ConcatRange
  <2> QED BY <2>4, <2>7, <2>8 DEF s1
<1>2. IsSequence(shaideImageEntries)
  <2> DEFINE k1 == <<"shaideServerImage", "controlPanelImage">>
             t1 == Entries(RequiredImage, k1)
             t2 == <<WhenEquals(RequiredImage(Entry("webappImage")), "webappEnabled", "true")>>
             k3 == <<"rustfsImage", "qdrantImage">>
             t3 == Entries(RequiredImage, k3)
             t4 == <<Optional(Entry("busyboxImage")),
                     WhenKC(RequiredImage(Entry("knowledgeCenterImage")))>>
  <2>1. IsSequence(k1) /\ IsSequence(k3) /\ IsSequence(t2) /\ IsSequence(t4)
    BY TupleRange, Zenon
  <2>2. shaideImageEntries = t1 \o t2 \o t3 \o t4
    BY DEF shaideImageEntries
  <2> HIDE DEF k1, k3, t2, t4
  <2>3. IsSequence(t1) /\ IsSequence(t3)
    BY <2>1, EntriesRange
  <2> HIDE DEF t1, t3
  <2> QED BY <2>1, <2>2, <2>3, ConcatRange
<1>3. IsSequence(shaideServiceEntries)
  <2> DEFINE k1 == <<"controlPanelService", "webappService", "rustfsService", "qdrantService">>
             t1 == Entries(RequiredDefault, k1)
             k2 == <<"gatewayName", "gatewayNamespace">>
             t2 == Entries(Defaulted, k2)
             k3 == <<"shaideServerUiFqdn", "shaideServerUiPort", "shaideServerS3Fqdn",
                     "shaideServerS3Port", "s3User", "vectorDBUrl", "databaseUrl",
                     "rustfsWebhookArn">>
             t3 == Entries(RequiredDefault, k3)
             k4 == <<"rustLibBacktrace", "rustSpantrace", "trial">>
             t4 == Entries(Defaulted, k4)
             k5 == <<"rustfsNotifyWebhookEnableShaide", "rustfsNotifyWebhookEndpointShaide",
                     "rustfsNotifyWebhookQueueDirShaide">>
             t5 == Entries(RequiredDefault, k5)
  <2>1. IsSequence(k2) /\ IsSequence(k4) /\ IsSequence(k5)
    BY TupleRange, Zenon
  <2>2. IsSequence(k1)
    BY DEF IsSequence, ToSet
  <2>3. IsSequence(k3)
    BY DEF IsSequence, ToSet
  <2>4. shaideServiceEntries = t1 \o t2 \o t3 \o t4 \o t5
    BY DEF shaideServiceEntries
  <2> HIDE DEF k1, k2, k3, k4, k5
  <2>5. IsSequence(t1) /\ IsSequence(t2) /\ IsSequence(t3) /\ IsSequence(t4) /\ IsSequence(t5)
    BY <2>1, <2>2, <2>3, EntriesRange
  <2> HIDE DEF t1, t2, t3, t4, t5
  <2> QED BY <2>4, <2>5, ConcatRange
<1>4. IsSequence(shaideSecretEntries)
  <2> DEFINE k1 == <<"adminAuthKey", "s3Password", "jwtSecret", "sessionSecret">>
  <2>1. IsSequence(k1)
    BY DEF IsSequence, ToSet
  <2>2. shaideSecretEntries = Entries(RequiredSecret, k1)
    BY DEF shaideSecretEntries
  <2> HIDE DEF k1
  <2> QED BY <2>1, <2>2, EntriesRange
<1>5. /\ IsSequence(shaideKCEntries)
      /\ \A k \in KCKeys : KCCredential(Entry(k)) \in ToSet(shaideKCEntries)
  <2>1. IsSequence(KCKeySeq)
    BY DEF IsSequence, ToSet, KCKeySeq
  <2>2. KCKeys \subseteq ToSet(KCKeySeq)
    <3>1. /\ DOMAIN KCKeySeq = 1 .. 8
          /\ KCKeySeq[1] = "kcInternalToken" /\ KCKeySeq[2] = "kcWebhookToken"
          /\ KCKeySeq[3] = "kcGatewayToken" /\ KCKeySeq[4] = "kcScopedToken"
          /\ KCKeySeq[5] = "kcContextSigningKey" /\ KCKeySeq[6] = "kcContextPublicKey"
          /\ KCKeySeq[7] = "kcEmbeddingPassword" /\ KCKeySeq[8] = "kcEmbeddingUsername"
      BY DEF KCKeySeq
    <3> QED BY <3>1 DEF KCKeys, KCTokens, KCKeyPair, ToSet
  <2> QED BY <2>1, <2>2, EntriesRange, EntryFor DEF shaideKCEntries
<1>6. IsSequence(shaideOptionalEntries)
  <2> DEFINE k1 == <<"infraStackRef", "nodeSelectorKey", "nodeSelector",
      "nodeSelectorShaide", "nodeSelectorControlPanel", "nodeSelectorWebapp",
      "nodeSelectorRustfs", "nodeSelectorQdrant",
      "nodeSelectorKnowledgeCenter", "mcpNamespace",
      "knowledgeCenterCpuRequest", "knowledgeCenterMemoryRequest",
      "knowledgeCenterCpuLimit", "knowledgeCenterMemoryLimit",
      "storageClassName", "pvNodeHostname", "shaidePVSize", "rustfsPVSize",
      "qdrantPVSize", "rustfsClientNamespaces", "rustfsConsoleEnabled",
      "serviceAccountAnnotations">>
  <2>1. IsSequence(k1)
    BY DEF IsSequence, ToSet
  <2>2. shaideOptionalEntries = Entries(HandOnly, k1)
    BY DEF shaideOptionalEntries
  <2> HIDE DEF k1
  <2> QED BY <2>1, <2>2, EntriesRange
<1>7. /\ IsSequence(shaideEntries)
      /\ ToSet(shaideRuntimeEntries) \cup ToSet(shaideKCEntries) \subseteq ToSet(shaideEntries)
  BY <1>1, <1>2, <1>3, <1>4, <1>5, <1>6, ConcatRange DEF shaideEntries
<1> QED BY <1>1, <1>5, <1>7

\* The entries of app-mcp that carry the Knowledge Center.
LEMMA MCPEntries ==
  /\ IsSequence(mcpEntries)
  /\ Default(Value(Entry("knowledgeCenterEnabled")), "false") \in ToSet(mcpEntries)
  /\ \A k \in MCPKeys : KCCredential(Entry(k)) \in ToSet(mcpEntries)
<1>1. /\ IsSequence(mcpCoreEntries)
      /\ Default(Value(Entry("knowledgeCenterEnabled")), "false") \in ToSet(mcpCoreEntries)
  <2> DEFINE k1 == <<"kubeconfig", "context">>
             t1 == Entries(Optional, k1)
             t2 == <<Entry("namespace")>>
             k3 == <<"shaideNamespace", "shaideServiceAccountName">>
             t3 == Entries(RequiredOverride, k3)
             t4 == <<Default(Value(Entry("knowledgeCenterEnabled")), "false")>>
             k5 == <<"datasources", "placement", "imagePullSecrets">>
             t5 == Entries(Optional, k5)
             k6 == <<"companyCACert", "companyCATrustEnvVar", "nodeSelectorKey",
                     "nodeSelector", "mcpAtlassianOAuthClientSecret",
                     "knowledgeCenterMcpCpuRequest", "knowledgeCenterMcpMemoryRequest",
                     "knowledgeCenterMcpCpuLimit", "knowledgeCenterMcpMemoryLimit">>
             t6 == Entries(HandOnly, k6)
  <2>1. IsSequence(k1) /\ IsSequence(k3) /\ IsSequence(k5) /\ IsSequence(t2)
    BY TupleRange, Zenon
  <2>2. IsSequence(k6)
    BY DEF IsSequence, ToSet
  <2>3. IsSequence(t4) /\ Default(Value(Entry("knowledgeCenterEnabled")), "false") \in ToSet(t4)
    BY TupleRange
  <2>4. mcpCoreEntries = t1 \o t2 \o t3 \o t4 \o t5 \o t6
    BY DEF mcpCoreEntries
  <2> HIDE DEF k1, k3, k5, k6, t2, t4
  <2>5. IsSequence(t1) /\ IsSequence(t3) /\ IsSequence(t5) /\ IsSequence(t6)
    BY <2>1, <2>2, EntriesRange
  <2> HIDE DEF t1, t3, t5, t6
  <2>6. IsSequence(t1 \o t2 \o t3 \o t4 \o t5 \o t6)
        /\ ToSet(t4) \subseteq ToSet(t1 \o t2 \o t3 \o t4 \o t5 \o t6)
    BY <2>1, <2>3, <2>5, ConcatRange
  <2> QED BY <2>3, <2>4, <2>6
<1>2. /\ IsSequence(mcpKCEntries)
      /\ \A k \in MCPKeys : KCCredential(Entry(k)) \in ToSet(mcpKCEntries)
  <2> DEFINE t1 == <<WhenKC(RequiredImage(Entry("knowledgeCenterMcpImage")))>>
             k2 == <<"kcGatewayToken", "kcScopedToken", "kcContextPublicKey">>
             t2 == Entries(KCCredential, k2)
  <2>1. IsSequence(k2) /\ IsSequence(t1)
    BY TupleRange, Zenon
  <2>2. ToSet(k2) = MCPKeys
    <3>1. ToSet(k2) = {"kcGatewayToken", "kcScopedToken", "kcContextPublicKey"}
      BY DEF ToSet
    <3> HIDE DEF k2
    <3> QED BY <3>1 DEF MCPKeys
  <2>3. mcpKCEntries = t1 \o t2
    BY DEF mcpKCEntries
  <2> HIDE DEF k2, t1
  <2>4. IsSequence(t2) /\ \A k \in MCPKeys : KCCredential(Entry(k)) \in ToSet(t2)
    BY <2>1, <2>2, EntriesRange, EntryFor
  <2> HIDE DEF t2
  <2> QED BY <2>1, <2>3, <2>4, ConcatRange
<1> QED BY <1>1, <1>2, ConcatRange DEF mcpEntries

\* The entries of monitoring for the classes of its claims.
LEMMA MonitoringEntries ==
  /\ IsSequence(monitoringEntries)
  /\ \A k \in StorageKeys : Optional(Entry(k)) \in ToSet(monitoringEntries)
<1>1. IsSequence(monitoringCoreEntries)
  <2> DEFINE k1 == <<"platform", "kubeconfig">>
             t1 == Entries(RequiredValue, k1)
             t2 == <<Value(Entry("context")), Required(Prompt(Entry("components"), "select"))>>
             k3 == <<"namespace", "s3Endpoint", "s3User">>
             t3 == Entries(Defaulted, k3)
             t4 == <<RequiredSecret(Entry("s3Password"))>>
             k5 == <<"s3BucketLoki", "s3ClientImage">>
             t5 == Entries(Defaulted, k5)
  <2>1. IsSequence(k1) /\ IsSequence(k3) /\ IsSequence(k5) /\ IsSequence(t2) /\ IsSequence(t4)
    BY TupleRange, Zenon
  <2>2. monitoringCoreEntries = t1 \o t2 \o t3 \o t4 \o t5
    BY DEF monitoringCoreEntries
  <2> HIDE DEF k1, k3, k5, t2, t4
  <2>3. IsSequence(t1) /\ IsSequence(t3) /\ IsSequence(t5)
    BY <2>1, EntriesRange
  <2> HIDE DEF t1, t3, t5
  <2> QED BY <2>1, <2>2, <2>3, ConcatRange
<1>2. /\ IsSequence(monitoringChartEntries)
      /\ \A k \in StorageKeys : Optional(Entry(k)) \in ToSet(monitoringChartEntries)
  <2>1. /\ DOMAIN monitoringChartEntries = 1 .. 11
        /\ monitoringChartEntries = [i \in 1 .. 11 |-> monitoringChartEntries[i]]
        /\ monitoringChartEntries[3] = Optional(Entry("lokiStorageClass"))
        /\ monitoringChartEntries[11] = Optional(Entry("prometheusStorageClass"))
    BY DEF monitoringChartEntries
  <2>2. IsSequence(monitoringChartEntries)
    BY <2>1, FunctionRange
  <2> QED BY <2>1, <2>2 DEF StorageKeys, ToSet
<1> QED BY <1>1, <1>2, ConcatRange DEF monitoringEntries

\* What each of these entries asks for.
LEMMA EntryFields ==
  ASSUME NEW k
  PROVE  /\ LET e == KCCredential(Entry(k))
            IN  /\ e.key = k /\ e.source = "optional" /\ e.prompt = "none"
                /\ e.default = Absent /\ e.required
                /\ e.when = <<"knowledgeCenterEnabled", "true">>
         /\ LET e == Default(Value(Entry(k)), "false")
            IN  e.key = k /\ e.source = "value" /\ e.when = Always
         /\ LET e == Optional(Entry(k))
            IN  /\ e.key = k /\ e.source = "optional" /\ e.prompt = "none"
                /\ e.default = Absent /\ e.when = Always
         /\ LET e == RequiredValue(Entry(k))
            IN  e.key = k /\ e.source = "value" /\ e.required /\ e.when = Always
         /\ LET e == Value(Entry(k))
            IN  /\ e.key = k /\ e.source = "value" /\ e.when = Always
         /\ \A v : LET e == Default(Optional(Entry(k)), v)
                   IN  e.key = k /\ e.source = "optional" /\ e.when = Always
         /\ LET e == WhenEquals(Validated(Required(Prompt(Entry(k), "input"))),
                                "gatewayClassName", AGC)
            IN  /\ e.key = k /\ e.source = "none" /\ e.prompt = "input" /\ e.required
                /\ e.when = <<"gatewayClassName", AGC>>
<1> DEFINE a == KCCredential(Entry(k))
           b == Default(Value(Entry(k)), "false")
           c == Optional(Entry(k))
           d == RequiredValue(Entry(k))
           f == Value(Entry(k))
           g(v) == Default(Optional(Entry(k)), v)
           h == WhenEquals(Validated(Required(Prompt(Entry(k), "input"))),
                           "gatewayClassName", AGC)
<1>1. /\ a.key = k /\ a.source = "optional" /\ a.prompt = "none"
      /\ a.default = Absent /\ a.required
      /\ a.when = <<"knowledgeCenterEnabled", "true">>
  BY SMT DEF Entry, KCCredential, WhenKC, WhenEquals, Validated, Required, Optional
<1>2. b.key = k /\ b.source = "value" /\ b.when = Always
  BY SMT DEF Entry, Default, Value
<1>3. c.key = k /\ c.source = "optional" /\ c.prompt = "none" /\ c.default = Absent /\ c.when = Always
  BY SMT DEF Entry, Optional
<1>4. d.key = k /\ d.source = "value" /\ d.required /\ d.when = Always
  BY SMT DEF Entry, RequiredValue, Required, Value
<1>5. f.key = k /\ f.source = "value" /\ f.when = Always
  BY SMT DEF Entry, Value
<1>6. \A v : g(v).key = k /\ g(v).source = "optional" /\ g(v).when = Always
  BY SMT DEF Entry, Default, Optional
<1>7. /\ h.key = k /\ h.source = "none" /\ h.prompt = "input" /\ h.required
      /\ h.when = <<"gatewayClassName", AGC>>
  BY SMT DEF Entry, WhenEquals, Validated, Required, Prompt
<1> QED BY <1>1, <1>2, <1>3, <1>4, <1>5, <1>6, <1>7, Zenon

\* What an entry resolves to, by where its value comes from.
LEMMA ResolvedValue ==
  ASSUME NEW e, NEW src, NEW ans
  PROVE  /\ e.source = "value" /\ src[e.key] # Absent => resolve(e, src, ans) = src[e.key]
         /\ e.source = "optional" /\ ~isEmpty(src[e.key]) /\ src[e.key] # Absent =>
              resolve(e, src, ans) = src[e.key]
         /\ e.source = "optional" /\ e.prompt = "none" /\ e.default = Absent =>
              \/ resolve(e, src, ans) = Absent
              \/ resolve(e, src, ans) = src[e.key] /\ ~isEmpty(src[e.key])
         /\ e.source = "none" /\ e.prompt = "input" =>
              resolve(e, src, ans) = TrimSpace(ans[e.key])
<1>1. /\ e.source = "value" => SourceValue(e, src) = src[e.key]
      /\ e.source = "none" => SourceValue(e, src) = Absent
      /\ e.source = "optional" =>
           SourceValue(e, src) = IF isEmpty(src[e.key]) THEN Absent ELSE src[e.key]
  BY SMT DEF SourceValue
<1>2. "input" # "none"
  BY SMT
<1> QED BY <1>1, <1>2 DEF resolve, resolvePrompt

\* The values of app-shaide and of app-mcp: the answer is written, and a
\* credential exactly when the answer is yes, as the installer supplied it.
LEMMA KnowledgeCenterWritten ==
  ASSUME NEW entries, NEW src, NEW ans, NEW k,
         IsSequence(entries), Validate(entries), Resolve(entries, src, ans).ok,
         Default(Value(Entry("knowledgeCenterEnabled")), "false") \in ToSet(entries),
         KCCredential(Entry(k)) \in ToSet(entries),
         src["knowledgeCenterEnabled"] \in {"true", "false"}
  PROVE  LET values == Resolve(entries, src, ans).values
         IN  /\ "knowledgeCenterEnabled" \in DOMAIN values
             /\ values["knowledgeCenterEnabled"] = src["knowledgeCenterEnabled"]
             /\ src["knowledgeCenterEnabled"] = "true" =>
                  /\ k \in DOMAIN values
                  /\ values[k] = src[k]
             /\ src["knowledgeCenterEnabled"] = "false" => k \notin DOMAIN values
<1> DEFINE values == Resolve(entries, src, ans).values
           answer == Default(Value(Entry("knowledgeCenterEnabled")), "false")
           e == KCCredential(Entry(k))
<1>1. /\ answer.key = "knowledgeCenterEnabled" /\ answer.source = "value" /\ answer.when = Always
      /\ e.key = k /\ e.source = "optional" /\ e.prompt = "none"
      /\ e.default = Absent /\ e.required
      /\ e.when = <<"knowledgeCenterEnabled", "true">>
  <2>1. answer.key = "knowledgeCenterEnabled" /\ answer.source = "value" /\ answer.when = Always
    BY EntryFields, ZenonT(30)
  <2>2. /\ e.key = k /\ e.source = "optional" /\ e.prompt = "none"
        /\ e.default = Absent /\ e.required
        /\ e.when = <<"knowledgeCenterEnabled", "true">>
    BY EntryFields, ZenonT(30)
  <2> QED BY <2>1, <2>2, ZenonT(30)
<1>2. Honoured(answer, values, src, ans) /\ Honoured(e, values, src, ans)
  <2>1. entries \in Seq(ToSet(entries))
    BY DEF IsSequence
  <2>2. \A d \in ToSet(entries) : Honoured(d, values, src, ans)
    BY <2>1, ResolveHonours, Zenon
  <2> QED BY <2>2
<1> HIDE DEF values, answer, e
<1>3. src["knowledgeCenterEnabled"] # Absent
  BY SMT DEF Absent
<1>4. resolve(answer, src, ans) = src["knowledgeCenterEnabled"]
  BY <1>1, <1>3, ResolvedValue
<1>5. /\ "knowledgeCenterEnabled" \in DOMAIN values
      /\ values["knowledgeCenterEnabled"] = src["knowledgeCenterEnabled"]
  BY <1>1, <1>2, <1>3, <1>4 DEF Honoured, Active
<1>6. /\ e.when # Always /\ e.when[1] = "knowledgeCenterEnabled" /\ e.when[2] = "true"
  BY <1>1 DEF Always
<1>7. Active(e, values) <=> src["knowledgeCenterEnabled"] = "true"
  BY <1>5, <1>6 DEF Active
<1>8. resolve(e, src, ans) # Absent => resolve(e, src, ans) = src[k]
  BY <1>1, ResolvedValue
<1>9. ASSUME src["knowledgeCenterEnabled"] = "true" PROVE k \in DOMAIN values /\ values[k] = src[k]
  BY <1>1, <1>2, <1>7, <1>8, <1>9 DEF Honoured
<1>10. ASSUME src["knowledgeCenterEnabled"] = "false" PROVE k \notin DOMAIN values
  <2>1. "false" # "true"
    BY SMT
  <2> QED BY <1>1, <1>2, <1>7, <1>10, <2>1 DEF Honoured
<1> QED BY <1>5, <1>9, <1>10 DEF values

\* The keys of these entries are among the keys the installer supplies.
LEMMA KeysSupplied ==
  KCKeys \cup MCPKeys \cup StorageKeys
    \cup {"knowledgeCenterEnabled", "cloudProvider", "gatewayClassName", "albSubnetId",
          "certManagerIssuer"} \subseteq AllKeys
<1>1. \A e \in ToSet(shaideEntries) \cup ToSet(mcpEntries) \cup ToSet(monitoringEntries)
               \cup ToSet(gatewayEntries(Azure)) : e.key \in AllKeys
  BY DEF AllKeys, KeysOf
<1>2. KCKeys \subseteq AllKeys
  BY <1>1, ShaideEntries, EntryFields
<1>3. MCPKeys \subseteq AllKeys
  BY <1>1, MCPEntries, EntryFields
<1>4. StorageKeys \subseteq AllKeys
  BY <1>1, MonitoringEntries, EntryFields
<1>5. "knowledgeCenterEnabled" \in AllKeys
  BY <1>1, ShaideEntries, EntryFields
<1>6. {"cloudProvider", "gatewayClassName", "albSubnetId", "certManagerIssuer"} \subseteq AllKeys
  BY <1>1, GatewayEntries, EntryFields
<1> QED BY <1>2, <1>3, <1>4, <1>5, <1>6

\* What the installer supplies for a key, and what is answered.
LEMMA Supplied ==
  ASSUME NEW values, NEW k \in AllKeys
  PROVE  /\ k \in DOMAIN values => /\ Sources(values)[k] = values[k]
                                   /\ Answers(values)[k] = values[k]
         /\ k \notin DOMAIN values /\ k = "cloudProvider" => Sources(values)[k] = platform
  BY DEF Sources, Answers

\* A file after the values of Resolve were written to it.
LEMMA WrittenGet ==
  ASSUME NEW file, NEW values, NEW k
  PROVE  /\ k \in DOMAIN values => Get(Written(file, values), k) = values[k]
         /\ k \notin DOMAIN values => Get(Written(file, values), k) = Get(file, k)
         /\ k \in DOMAIN Written(file, values) <=> k \in DOMAIN values \/ k \in DOMAIN file
         /\ k \in DOMAIN values => Written(file, values)[k] = values[k]
         /\ k \notin DOMAIN values /\ k \in DOMAIN file => Written(file, values)[k] = file[k]
  BY DEF Get, Written, Over

\* Resolve returns a record, whatever the entries are.
LEMMA ResolveShape ==
  ASSUME NEW entries, NEW src, NEW ans, IsSequence(entries)
  PROVE  LET r == Resolve(entries, src, ans) IN r = [ok |-> r.ok, values |-> r.values]
<1>1. entries \in Seq(ToSet(entries)) /\ Len(entries) \in Nat
  BY DEF IsSequence
<1>2. PICK f : /\ f[0] = [ok |-> TRUE, values |-> <<>>]
               /\ \A i \in 1 .. Len(entries) :
                    f[i] = ResolveEntry(f[i - 1], entries[i], src, ans)
               /\ Resolve(entries, src, ans) = f[Len(entries)]
  BY <1>1, ResolveUnfolds
<1> DEFINE Good(n) == f[n] = [ok |-> f[n].ok, values |-> f[n].values]
           Wrong == {n \in 0 .. Len(entries) : ~Good(n)}
<1>3. Good(0)
  BY <1>2
<1>4. ASSUME NEW n \in 1 .. Len(entries), Good(n - 1) PROVE Good(n)
  BY <1>2, <1>4, EntryShape
<1> HIDE DEF Good
<1>5. ASSUME Wrong # {} PROVE FALSE
  <2>1. PICK m \in Wrong : \A k \in Wrong : m <= k
    <3>1. Wrong \in SUBSET Nat
      BY <1>1
    <3> QED BY <1>5, <3>1, LeastElement
  <2>2. m \in 0 .. Len(entries) /\ ~Good(m) /\ m # 0
    BY <1>3, <2>1
  <2>3. m \in 1 .. Len(entries) /\ m - 1 \in 0 .. Len(entries) /\ ~(m <= m - 1)
    BY <1>1, <2>2
  <2>4. Good(m - 1)
    BY <2>1, <2>3
  <2> QED BY <1>4, <2>2, <2>3, <2>4
<1>6. Good(Len(entries))
  BY <1>1, <1>5
<1> QED BY <1>2, <1>6 DEF Good

\* Checks only turn a result down.
LEMMA CheckedFields ==
  ASSUME NEW r, NEW passes \in BOOLEAN, r = [ok |-> r.ok, values |-> r.values]
  PROVE  /\ Checked(r, passes).ok => r.ok /\ passes
         /\ Checked(r, passes).values = r.values
<1> DEFINE a == r.ok
           b == r.values
<1>1. r = [ok |-> a, values |-> b]
  OBVIOUS
<1> HIDE DEF a, b
<1>2. Checked(r, passes).ok = (a /\ passes) /\ Checked(r, passes).values = b
  BY <1>1, SMT DEF Checked
<1> QED BY <1>2 DEF a, b

\* Write leaves the file alone and fails, or writes the values.
LEMMA WriteOutcome ==
  ASSUME TypeOK, NEW stack, NEW resolved, NEW runtime, Write(stack, resolved, runtime)
  PROVE  \/ files' = files /\ StepFails(stack)
         \/ /\ resolved.ok
            /\ files' = [files EXCEPT ![stack] = Written(files[stack], resolved.values)]
            /\ pc' = <<stack, "up">> /\ rt' = runtime
  BY DEF Write, Goto

\* A set of credentials that is completed is a full one, and keeps the tokens
\* there were.
LEMMA CompleteKeeps ==
  ASSUME TypeOK, gen < Len(Generated)
  PROVE  LET creds == CompleteCredentials(retained, Generated[gen + 1])
         IN  /\ creds \in Credentials
             /\ \A k \in KCTokens : retained[k] # Empty => creds[k] = retained[k]
<1> DEFINE label == Generated[gen + 1]
           creds == CompleteCredentials(retained, label)
<1>1. label \in STRING
  BY StacksAssumption DEF TypeOK
<1> HIDE DEF label
<1>2. retained = [k \in KCKeys |-> retained[k]]
      /\ \A k \in KCKeys : retained[k] = Get(files["shaide"], k)
  BY DEF retained
<1>3. \A k \in KCKeys : retained[k] = Empty \/ retained[k] \in STRING
  BY <1>2 DEF TypeOK, Get
<1>4. KCTokens \cup KCKeyPair \subseteq KCKeys /\ KCTokens \cap KCKeyPair = {}
  BY SMT DEF KCTokens, KCKeyPair, KCKeys
<1>5. {"kcContextSigningKey", "kcContextPublicKey"} = KCKeyPair
  BY DEF KCKeyPair
<1>6. ValidateKeyPair(retained) =>
        /\ \A k \in KCKeyPair : retained[k] # Empty
        /\ retained["kcContextSigningKey"] = retained["kcContextPublicKey"]
  BY SMT DEF ValidateKeyPair
<1>7. /\ DOMAIN creds = KCKeys
      /\ creds = [k \in KCKeys |-> creds[k]]
      /\ \A k \in KCKeyPair : creds[k] = IF ValidateKeyPair(retained) THEN retained[k] ELSE label
      /\ \A k \in KCKeys \ KCKeyPair : creds[k] = IF retained[k] = Empty THEN label ELSE retained[k]
  BY <1>4 DEF CompleteCredentials, OrElse
<1> HIDE DEF creds
<1>8. \A k \in KCKeys : creds[k] \in STRING
  BY <1>1, <1>3, <1>6, <1>7
<1>9. creds["kcContextSigningKey"] = creds["kcContextPublicKey"]
  BY <1>5, <1>6, <1>7
<1>10. creds \in Credentials
  BY <1>7, <1>8, <1>9 DEF Credentials
<1>11. \A k \in KCTokens : retained[k] # Empty => creds[k] = retained[k]
  BY <1>4, <1>7
<1> QED BY <1>10, <1>11 DEF creds, label

\* The answer and, when it is yes, a full set of credentials that keeps the
\* stored tokens are in the stack file.
ShaideFileWritten ==
  \E values, creds :
     /\ files' = [files EXCEPT !["shaide"] = Written(files["shaide"], values)]
     /\ pc' = <<"shaide", "up">>
     /\ rt' = [rt EXCEPT !.credentials = IF rt.kc THEN creds ELSE <<>>]
     /\ creds \in Credentials
     /\ \A k \in KCTokens : retained[k] # Empty => creds[k] = retained[k]
     /\ "knowledgeCenterEnabled" \in DOMAIN values
     /\ values["knowledgeCenterEnabled"] = FormatBool(rt.kc)
     /\ rt.kc => \A k \in KCKeys : k \in DOMAIN values /\ values[k] = creds[k]
     /\ ~rt.kc => \A k \in KCKeys : k \notin DOMAIN values

\* DeployAppShaide fails without touching the file, or writes the answer and,
\* when it is yes, the completed credentials.
LEMMA ShaideConfigured ==
  ASSUME TypeOK, NEW secret, ConfigureShaide(secret)
  PROVE  \/ files' = files /\ StepFails("shaide")
         \/ ShaideFileWritten
<1> DEFINE creds == CompleteCredentials(retained, Generated[gen + 1])
           source == IF rt.kc THEN creds ELSE [k \in KCKeys |-> Empty]
           given == [gatewayHostname |-> rt.hostname, webappEnabled |-> FormatBool(rt.webapp),
                     knowledgeCenterEnabled |-> FormatBool(rt.kc)]
           src == Sources(Over(given, source))
           ans == [k \in KeysOf(shaideSecretEntries) |-> secret]
           resolved == Resolve(shaideEntries, src, ans)
           accepted == (~rt.kc \/ ValidCredentials(creds)) /\ checkShaideCredentials(resolved.values)
           runtime == [rt EXCEPT !.credentials = IF rt.kc THEN creds ELSE <<>>]
<1>1. gen < Len(Generated) /\ Write("shaide", Checked(resolved, accepted), runtime)
  <2>1. knowledgeCenterCredentials(Generated[gen + 1]).values = creds
        /\ knowledgeCenterCredentials(Generated[gen + 1]).ok = ValidCredentials(creds)
    BY DEF knowledgeCenterCredentials
  <2> QED BY <2>1 DEF ConfigureShaide
<1>2. /\ creds \in Credentials
      /\ \A k \in KCTokens : retained[k] # Empty => creds[k] = retained[k]
  BY <1>1, CompleteKeeps
<1>3. rt.kc \in BOOLEAN
  BY DEF TypeOK
<1> HIDE DEF creds
<1>4. DOMAIN source = KCKeys /\ (rt.kc => source = creds)
  BY <1>2 DEF Credentials
<1> HIDE DEF source
<1>5. /\ DOMAIN given = {"gatewayHostname", "webappEnabled", "knowledgeCenterEnabled"}
      /\ given["knowledgeCenterEnabled"] = FormatBool(rt.kc)
  OBVIOUS
<1> HIDE DEF given
<1>6. /\ "knowledgeCenterEnabled" \in DOMAIN Over(given, source)
      /\ Over(given, source)["knowledgeCenterEnabled"] = FormatBool(rt.kc)
      /\ \A k \in KCKeys : k \in DOMAIN Over(given, source) /\ Over(given, source)[k] = source[k]
  <2>1. KCKeys \cap DOMAIN given = {}
    BY <1>5 DEF KCKeys, KCTokens, KCKeyPair
  <2> QED BY <1>4, <1>5, <2>1 DEF Over
<1>7. /\ src["knowledgeCenterEnabled"] = FormatBool(rt.kc)
      /\ \A k \in KCKeys : src[k] = source[k]
  BY <1>6, KeysSupplied, Supplied
<1>8. /\ FormatBool(rt.kc) \in {"true", "false"}
      /\ FormatBool(rt.kc) = "true" <=> rt.kc
      /\ FormatBool(rt.kc) = "false" <=> ~rt.kc
  BY <1>3, SMT DEF FormatBool
<1> HIDE DEF src, ans
<1>9. resolved = [ok |-> resolved.ok, values |-> resolved.values]
  BY ShaideEntries, ResolveShape
<1>10. accepted \in BOOLEAN
  OBVIOUS
<1> HIDE DEF resolved, accepted, runtime
<1>11. CASE files' = files /\ StepFails("shaide")
  BY <1>11
<1>12. CASE /\ Checked(resolved, accepted).ok
            /\ files' = [files EXCEPT !["shaide"] =
                           Written(files["shaide"], Checked(resolved, accepted).values)]
            /\ pc' = <<"shaide", "up">> /\ rt' = runtime
  <2>1. resolved.ok /\ Checked(resolved, accepted).values = resolved.values
    BY <1>9, <1>10, <1>12, CheckedFields
  <2> DEFINE values == resolved.values
  <2>2. ASSUME NEW k \in KCKeys
        PROVE  /\ "knowledgeCenterEnabled" \in DOMAIN values
               /\ values["knowledgeCenterEnabled"] = FormatBool(rt.kc)
               /\ rt.kc => k \in DOMAIN values /\ values[k] = source[k]
               /\ ~rt.kc => k \notin DOMAIN values
    <3>1. Validate(shaideEntries)
      BY DefinitionsAssumption DEF DefinitionsValid
    <3>2. src["knowledgeCenterEnabled"] \in {"true", "false"} /\ src[k] = source[k]
      BY <1>7, <1>8
    <3>3. /\ "knowledgeCenterEnabled" \in DOMAIN values
          /\ values["knowledgeCenterEnabled"] = src["knowledgeCenterEnabled"]
          /\ src["knowledgeCenterEnabled"] = "true" => k \in DOMAIN values /\ values[k] = src[k]
          /\ src["knowledgeCenterEnabled"] = "false" => k \notin DOMAIN values
      <4>1. Resolve(shaideEntries, src, ans).ok
        BY <2>1 DEF resolved
      <4>2. KCCredential(Entry(k)) \in ToSet(shaideEntries)
        BY ShaideEntries
      <4> QED BY <3>1, <3>2, <4>1, <4>2, ShaideEntries, KnowledgeCenterWritten, Zenon DEF resolved
    <3> QED BY <1>7, <1>8, <3>2, <3>3
  <2>3. "kcGatewayToken" \in KCKeys
    BY DEF KCKeys, KCTokens
  <2> HIDE DEF values
  <2>4. /\ "knowledgeCenterEnabled" \in DOMAIN values
        /\ values["knowledgeCenterEnabled"] = FormatBool(rt.kc)
        /\ rt.kc => \A k \in KCKeys : k \in DOMAIN values /\ values[k] = creds[k]
        /\ ~rt.kc => \A k \in KCKeys : k \notin DOMAIN values
    BY <1>4, <2>2, <2>3
  <2>5. /\ files' = [files EXCEPT !["shaide"] = Written(files["shaide"], values)]
        /\ rt' = [rt EXCEPT !.credentials = IF rt.kc THEN creds ELSE <<>>]
    BY <1>12, <2>1 DEF values, runtime
  <2> QED BY <1>2, <1>12, <2>4, <2>5, Zenon DEF ShaideFileWritten
<1> QED BY <1>1, <1>11, <1>12, WriteOutcome

\* DeployAppMCP fails without touching the file, or writes the answer and the
\* credentials app-shaide got.
LEMMA MCPConfigured ==
  ASSUME TypeOK, ConfigureMCP, rt.credentials \in Credentials
  PROVE  \/ files' = files /\ StepFails("mcp")
         \/ \E values :
              /\ files' = [files EXCEPT !["mcp"] = Written(files["mcp"], values)]
              /\ pc' = <<"mcp", "up">> /\ rt' = rt
              /\ "knowledgeCenterEnabled" \in DOMAIN values
              /\ values["knowledgeCenterEnabled"] = "true"
              /\ \A k \in MCPKeys : k \in DOMAIN values /\ values[k] = rt.credentials[k]
<1> DEFINE source == rt.credentials
           src == Sources(Over(MCPIdentity, source))
           ans == <<>>
           resolved == Resolve(mcpEntries, src, ans)
           accepted == checkMCP(resolved.values)
<1>1. Write("mcp", Checked(resolved, accepted), rt)
  BY DEF ConfigureMCP
<1>2. DOMAIN source = KCKeys
  BY DEF Credentials
<1> HIDE DEF source
<1>3. /\ DOMAIN MCPIdentity = {"knowledgeCenterEnabled", "shaideNamespace",
                              "shaideServiceAccountName"}
      /\ MCPIdentity["knowledgeCenterEnabled"] = "true"
  BY DEF MCPIdentity
<1>4. /\ "knowledgeCenterEnabled" \in DOMAIN Over(MCPIdentity, source)
      /\ Over(MCPIdentity, source)["knowledgeCenterEnabled"] = "true"
      /\ \A k \in MCPKeys : /\ k \in DOMAIN Over(MCPIdentity, source)
                            /\ Over(MCPIdentity, source)[k] = source[k]
  <2>1. MCPKeys \cap DOMAIN MCPIdentity = {} /\ MCPKeys \subseteq KCKeys
    BY <1>3 DEF MCPKeys, KCKeys, KCTokens, KCKeyPair
  <2> QED BY <1>2, <1>3, <2>1 DEF Over
<1>5. src["knowledgeCenterEnabled"] = "true" /\ \A k \in MCPKeys : src[k] = source[k]
  BY <1>4, KeysSupplied, Supplied
<1> HIDE DEF src, ans
<1>6. resolved = [ok |-> resolved.ok, values |-> resolved.values]
  BY MCPEntries, ResolveShape
<1>7. accepted \in BOOLEAN
  BY DEF checkMCP
<1> HIDE DEF resolved, accepted
<1>8. CASE files' = files /\ StepFails("mcp")
  BY <1>8
<1>9. CASE /\ Checked(resolved, accepted).ok
           /\ files' = [files EXCEPT !["mcp"] =
                          Written(files["mcp"], Checked(resolved, accepted).values)]
           /\ pc' = <<"mcp", "up">> /\ rt' = rt
  <2>1. resolved.ok /\ Checked(resolved, accepted).values = resolved.values
    BY <1>6, <1>7, <1>9, CheckedFields
  <2> DEFINE values == resolved.values
  <2>2. ASSUME NEW k \in MCPKeys
        PROVE  /\ "knowledgeCenterEnabled" \in DOMAIN values
               /\ values["knowledgeCenterEnabled"] = "true"
               /\ k \in DOMAIN values /\ values[k] = source[k]
    <3>1. Validate(mcpEntries) /\ KCCredential(Entry(k)) \in ToSet(mcpEntries)
      BY DefinitionsAssumption, MCPEntries DEF DefinitionsValid
    <3>2. src["knowledgeCenterEnabled"] \in {"true", "false"} /\ src[k] = source[k]
      BY <1>5
    <3>3. /\ "knowledgeCenterEnabled" \in DOMAIN values
          /\ values["knowledgeCenterEnabled"] = src["knowledgeCenterEnabled"]
          /\ src["knowledgeCenterEnabled"] = "true" => k \in DOMAIN values /\ values[k] = src[k]
          /\ src["knowledgeCenterEnabled"] = "false" => k \notin DOMAIN values
      <4>1. Resolve(mcpEntries, src, ans).ok
        BY <2>1 DEF resolved
      <4>2. KCCredential(Entry(k)) \in ToSet(mcpEntries) /\ IsSequence(mcpEntries)
            /\ Default(Value(Entry("knowledgeCenterEnabled")), "false") \in ToSet(mcpEntries)
        BY MCPEntries
      <4> QED BY <3>1, <3>2, <4>1, <4>2, KnowledgeCenterWritten, Zenon DEF resolved
    <3> QED BY <1>5, <3>2, <3>3
  <2>3. "kcGatewayToken" \in MCPKeys
    BY DEF MCPKeys
  <2> HIDE DEF values
  <2>4. /\ "knowledgeCenterEnabled" \in DOMAIN values
        /\ values["knowledgeCenterEnabled"] = "true"
        /\ \A k \in MCPKeys : k \in DOMAIN values /\ values[k] = rt.credentials[k]
    BY <2>2, <2>3 DEF source
  <2>5. files' = [files EXCEPT !["mcp"] = Written(files["mcp"], values)]
    BY <1>9, <2>1 DEF values
  <2> QED BY <1>9, <2>4, <2>5, Zenon
<1> QED BY <1>1, <1>8, <1>9, WriteOutcome

\* The site is one of those the constants allow.
LEMMA SiteTyped ==
  ASSUME TypeOK
  PROVE  /\ platform \in Platforms /\ Absent \notin gatewayClasses
         /\ \A class \in gatewayClasses : ~isEmpty(class)
         /\ AGC \in gatewayClasses => platform = Azure
         /\ \A edit \in site.edits : edit[3] \in STRING
<1>1. site \in Site
  BY StacksAssumption DEF TypeOK
<1>2. platform \in Platforms
  BY <1>1 DEF Site, platform
<1>3. /\ Absent \notin gatewayClasses
      /\ \A class \in gatewayClasses : ~isEmpty(class)
      /\ AGC \in gatewayClasses => platform = Azure
  <2>0. site.controllers \subseteq OtherClasses
    BY <1>1 DEF Site
  <2> DEFINE own == defaultsForProvider(platform)
  <2>1. AGC # Istio /\ Istio \notin {Absent, Empty, Blank}
    BY SMT DEF AGC, Istio, Absent, Empty, Blank
  <2>2. own \notin {Absent, Empty, Blank} /\ (own = AGC => platform = Azure)
    BY SMT DEF defaultsForProvider, AGC, Istio, Absent, Empty, Blank
  <2>3. \A class \in OtherClasses : class \notin {AGC, Empty, Blank, Absent}
    BY StacksAssumption
  <2> HIDE DEF own
  <2>4. gatewayClasses = {Istio, own} \cup site.controllers
    BY DEF gatewayClasses, own
  <2> QED BY <2>0, <2>1, <2>2, <2>3, <2>4 DEF isEmpty, TrimSpace
<1>4. \A edit \in site.edits : edit[3] \in STRING
  BY <1>1 DEF Site
<1> QED BY <1>2, <1>3, <1>4

\* What the prompts offer, and what an operator who accepts them keeps.
LEMMA ChoicesOffered ==
  ASSUME NEW choice \in gatewayOptions(site.choose), TypeOK, GatewayLive
  PROVE  /\ choice.class \in gatewayClasses
         /\ choice.issuer \in Issuers \cup {Empty}
         /\ choice.accepted \in Acceptance
         /\ choice.accepted = "offered" =>
              /\ choice.class = live.gateway.class
              /\ choice.issuer = live.gateway.issuer
              /\ choice.class = AGC => choice.subnet \in {live.gateway.subnet, Empty}
<1>1. defaultsForProvider(platform) \in gatewayClasses /\ Istio \in gatewayClasses
  BY DEF defaultsForProvider, gatewayClasses
<1>2. ASSUME NEW seen \in Lookups, choice = Preselected(seen)
      PROVE  /\ choice.class \in gatewayClasses
             /\ choice.issuer \in Issuers \cup {Empty}
             /\ choice.accepted \in Acceptance
             /\ choice.accepted = "offered" =>
                  /\ choice.class = live.gateway.class
                  /\ choice.issuer = live.gateway.issuer
                  /\ choice.class = AGC => choice.subnet \in {live.gateway.subnet, Empty}
  <2> DEFINE class == InUse(seen, "class")
             issuer == InUse(seen, "issuer")
  <2>1. /\ choice.class = gatewayClassChoice(offeredClasses(seen.classes), class)
        /\ choice.issuer = selectCertManagerIssuer(seen.issuers, issuer)
        /\ choice.accepted = Accepted(seen)
        /\ choice.class = AGC => choice.subnet = discoverALB(seen.subnets)
    BY <1>2 DEF Preselected
  <2>2. /\ seen.gateway \in {live.gateway, None}
        /\ seen.classes = None \/ seen.classes \subseteq gatewayClasses
        /\ seen.issuers = None \/ seen.issuers \subseteq Issuers
    BY DEF Lookups
  <2>3. \/ seen.subnets = None
        \/ live.gateway # None /\ live.gateway.subnet # Empty => live.gateway.subnet \in seen.subnets
    BY DEF Lookups
  <2>4. offeredClasses(seen.classes) \subseteq gatewayClasses
    BY <1>1, <2>2 DEF offeredClasses
  <2>5. issuer \in Issuers \cup {Empty}
    BY <2>2 DEF InUse, GatewayLive
  <2> HIDE DEF class, issuer
  <2>6. choice.class \in gatewayClasses
    BY <1>1, <2>1, <2>4 DEF gatewayClassChoice
  <2>7. choice.issuer \in Issuers \cup {Empty}
    BY <2>1, <2>2, <2>5 DEF selectCertManagerIssuer, issuerChoice
  <2>8. choice.accepted \in Acceptance
    BY <2>1 DEF Accepted, Acceptance
  <2>9. ASSUME choice.accepted = "offered"
        PROVE  /\ choice.class = live.gateway.class
               /\ choice.issuer = live.gateway.issuer
               /\ choice.class = AGC => choice.subnet \in {live.gateway.subnet, Empty}
    <3>1. /\ seen.gateway # None
          /\ class \in offeredClasses(seen.classes) /\ issuer \in offeredIssuers(seen.issuers)
      BY <2>1, <2>9 DEF Accepted, class, issuer
    <3>2. live.gateway # None /\ class = live.gateway.class /\ issuer = live.gateway.issuer
      BY <2>2, <3>1 DEF InUse, class, issuer
    <3>3. choice.class = class
      BY <2>1, <3>1 DEF gatewayClassChoice
    <3>4. choice.issuer = issuer
      BY <2>1, <3>1 DEF offeredIssuers, selectCertManagerIssuer, issuerChoice
    <3>5. ASSUME choice.class = AGC PROVE choice.subnet \in {live.gateway.subnet, Empty}
      <4>1. live.gateway.subnet # Empty
        BY <3>2, <3>3, <3>5 DEF GatewayLive
      <4>2. CASE /\ seen.subnets # None
                 /\ \E s \in seen.subnets : seen.subnets = {s}
        <5>1. PICK s \in seen.subnets : seen.subnets = {s}
          BY <4>2
        <5>2. s = live.gateway.subnet
          BY <2>3, <3>2, <4>1, <4>2, <5>1
        <5>3. discoverALB(seen.subnets) \in seen.subnets
          BY <4>2 DEF discoverALB
        <5> QED BY <2>1, <3>5, <5>1, <5>2, <5>3
      <4>3. CASE ~ (/\ seen.subnets # None
                    /\ \E s \in seen.subnets : seen.subnets = {s})
        BY <2>1, <3>5, <4>3 DEF discoverALB
      <4> QED BY <4>2, <4>3
    <3> QED BY <3>2, <3>3, <3>4, <3>5
  <2> QED BY <2>6, <2>7, <2>8, <2>9
<1>3. ASSUME choice \in OfferedChoices
      PROVE  /\ choice.class \in gatewayClasses /\ choice.issuer \in Issuers \cup {Empty}
             /\ choice.accepted = "no"
  BY <1>3 DEF OfferedChoices
<1>4. "no" \in Acceptance /\ "no" # "offered"
  BY DEF Acceptance
<1>5. (\E seen \in Lookups : choice = Preselected(seen)) \/ choice \in OfferedChoices
  BY DEF gatewayOptions
<1> QED BY <1>2, <1>3, <1>4, <1>5

\* The values of gateway-provider: the platform, the class and the issuer as
\* they were chosen and, for an AGC, a subnet that is not blank.
LEMMA GatewayWritten ==
  ASSUME NEW p, NEW src, NEW ans, Validate(gatewayEntries(p)),
         Resolve(gatewayEntries(p), src, ans).ok,
         src["cloudProvider"] # Absent, src["certManagerIssuer"] # Absent,
         src["gatewayClassName"] # Absent, ~isEmpty(src["gatewayClassName"])
  PROVE  LET values == Resolve(gatewayEntries(p), src, ans).values
         IN  /\ {"cloudProvider", "certManagerIssuer", "gatewayClassName"} \subseteq DOMAIN values
             /\ values["cloudProvider"] = src["cloudProvider"]
             /\ values["certManagerIssuer"] = src["certManagerIssuer"]
             /\ values["gatewayClassName"] = src["gatewayClassName"]
             /\ src["gatewayClassName"] = AGC =>
                  /\ "albSubnetId" \in DOMAIN values
                  /\ values["albSubnetId"] = TrimSpace(ans["albSubnetId"])
                  /\ ~isEmpty(values["albSubnetId"])
<1> DEFINE values == Resolve(gatewayEntries(p), src, ans).values
           provider == RequiredValue(Entry("cloudProvider"))
           class == Default(Optional(Entry("gatewayClassName")), defaultsForProvider(p))
           subnet == WhenEquals(Validated(Required(Prompt(Entry("albSubnetId"), "input"))),
                                "gatewayClassName", AGC)
           issuer == Value(Entry("certManagerIssuer"))
<1>1. /\ provider.key = "cloudProvider" /\ provider.source = "value" /\ provider.when = Always
      /\ class.key = "gatewayClassName" /\ class.source = "optional" /\ class.when = Always
      /\ subnet.key = "albSubnetId" /\ subnet.source = "none" /\ subnet.prompt = "input"
      /\ subnet.required /\ subnet.when = <<"gatewayClassName", AGC>>
      /\ issuer.key = "certManagerIssuer" /\ issuer.source = "value" /\ issuer.when = Always
  <2>1. provider.key = "cloudProvider" /\ provider.source = "value" /\ provider.when = Always
    BY EntryFields, ZenonT(30)
  <2>2. class.key = "gatewayClassName" /\ class.source = "optional" /\ class.when = Always
    BY SMT DEF Entry, Default, Optional
  <2>3. /\ subnet.key = "albSubnetId" /\ subnet.source = "none" /\ subnet.prompt = "input"
        /\ subnet.required /\ subnet.when = <<"gatewayClassName", AGC>>
    BY EntryFields, ZenonT(30)
  <2>4. issuer.key = "certManagerIssuer" /\ issuer.source = "value" /\ issuer.when = Always
    BY EntryFields, ZenonT(30)
  <2> HIDE DEF provider, class, subnet, issuer
  <2> QED BY <2>1, <2>2, <2>3, <2>4
<1>2. /\ Honoured(provider, values, src, ans) /\ Honoured(class, values, src, ans)
      /\ Honoured(subnet, values, src, ans) /\ Honoured(issuer, values, src, ans)
  <2>1. gatewayEntries(p) \in Seq(ToSet(gatewayEntries(p)))
    BY GatewayEntries DEF IsSequence
  <2>2. \A d \in ToSet(gatewayEntries(p)) : Honoured(d, values, src, ans)
    BY <2>1, ResolveHonours, Zenon
  <2> QED BY <2>2, GatewayEntries
<1> HIDE DEF values, provider, class, subnet, issuer
<1>3. /\ resolve(provider, src, ans) = src["cloudProvider"]
      /\ resolve(class, src, ans) = src["gatewayClassName"]
      /\ resolve(issuer, src, ans) = src["certManagerIssuer"]
      /\ resolve(subnet, src, ans) = TrimSpace(ans["albSubnetId"])
  BY <1>1, ResolvedValue
<1>4. "cloudProvider" \in DOMAIN values /\ values["cloudProvider"] = src["cloudProvider"]
  BY <1>1, <1>2, <1>3 DEF Honoured, Active
<1>5. "gatewayClassName" \in DOMAIN values /\ values["gatewayClassName"] = src["gatewayClassName"]
  BY <1>1, <1>2, <1>3 DEF Honoured, Active
<1>6. "certManagerIssuer" \in DOMAIN values /\ values["certManagerIssuer"] = src["certManagerIssuer"]
  BY <1>1, <1>2, <1>3 DEF Honoured, Active
<1>7. ASSUME src["gatewayClassName"] = AGC
      PROVE  /\ "albSubnetId" \in DOMAIN values
             /\ values["albSubnetId"] = TrimSpace(ans["albSubnetId"])
             /\ ~isEmpty(values["albSubnetId"])
  <2>1. subnet.when[1] = "gatewayClassName" /\ subnet.when[2] = AGC
    BY <1>1
  <2>2. Active(subnet, values)
    BY <1>5, <1>7, <2>1 DEF Active
  <2> QED BY <1>1, <1>2, <1>3, <2>2 DEF Honoured
<1> QED BY <1>4, <1>5, <1>6, <1>7 DEF values

\* The Gateway that was chosen is in the stack file.
GatewayFileWritten(choice) ==
  \E values :
     /\ files' = [files EXCEPT !["gateway"] = Written(files["gateway"], values)]
     /\ pc' = <<"gateway", "up">>
     /\ DOMAIN rt' = DOMAIN rt /\ rt'.accepted = choice.accepted
     /\ rt'.kc = rt.kc /\ rt'.credentials = rt.credentials
     /\ {"cloudProvider", "certManagerIssuer", "gatewayClassName"} \subseteq DOMAIN values
     /\ values["cloudProvider"] = platform
     /\ values["gatewayClassName"] = choice.class
     /\ values["certManagerIssuer"] = choice.issuer
     /\ choice.class = AGC => /\ "albSubnetId" \in DOMAIN values
                              /\ values["albSubnetId"] = TrimSpace(choice.subnet)
                              /\ ~isEmpty(values["albSubnetId"])

\* DeployGatewayProvider fails without touching the file, or writes the
\* Gateway that was chosen.
LEMMA GatewayConfigured ==
  ASSUME TypeOK, GatewayLive, NEW choice, NEW hostname, ConfigureGateway(choice, hostname)
  PROVE  \/ files' = files /\ StepFails("gateway")
         \/ GatewayFileWritten(choice)
<1> DEFINE given == [gatewayClassName |-> choice.class, certManagerIssuer |-> choice.issuer]
           asked == [gatewayHostname |-> hostname, albSubnetId |-> choice.subnet]
           src == Sources(given)
           ans == Answers(asked)
           resolved == Resolve(gatewayEntries(platform), src, ans)
           runtime == [rememberHostname(rt, hostname) EXCEPT !.accepted = choice.accepted]
<1>1. choice \in gatewayOptions(site.choose) /\ Write("gateway", resolved, runtime)
  BY DEF ConfigureGateway
<1>2. choice.class \in gatewayClasses /\ choice.issuer \in Issuers \cup {Empty}
  BY <1>1, ChoicesOffered
<1>3. /\ DOMAIN given = {"gatewayClassName", "certManagerIssuer"}
      /\ given["gatewayClassName"] = choice.class /\ given["certManagerIssuer"] = choice.issuer
      /\ "albSubnetId" \in DOMAIN asked /\ asked["albSubnetId"] = choice.subnet
  OBVIOUS
<1> HIDE DEF given, asked
<1>4. "cloudProvider" \notin DOMAIN given
  BY <1>3
<1>5. /\ src["cloudProvider"] = platform /\ src["gatewayClassName"] = choice.class
      /\ src["certManagerIssuer"] = choice.issuer /\ ans["albSubnetId"] = choice.subnet
  BY <1>3, <1>4, KeysSupplied, Supplied
<1>6. platform # Absent /\ platform \in Platforms
  <2>1. Absent \notin {Azure, OnPrem, GCP, AWS}
    BY SMT DEF Azure, OnPrem, GCP, AWS, Absent
  <2> QED BY <2>1, SiteTyped DEF Platforms
<1>7. choice.issuer # Absent
  <2>1. Empty # Absent
    BY SMT DEF Empty, Absent
  <2> QED BY <1>2, <2>1, StacksAssumption
<1>8. choice.class # Absent /\ ~isEmpty(choice.class)
  BY <1>2, SiteTyped
<1> HIDE DEF src, ans, runtime
<1>9. CASE files' = files /\ StepFails("gateway")
  BY <1>9
<1>10. CASE /\ resolved.ok
            /\ files' = [files EXCEPT !["gateway"] = Written(files["gateway"], resolved.values)]
            /\ pc' = <<"gateway", "up">> /\ rt' = runtime
  <2> DEFINE values == resolved.values
  <2>1. Validate(gatewayEntries(platform))
    BY <1>6, DefinitionsAssumption DEF DefinitionsValid
  <2>2. /\ {"cloudProvider", "certManagerIssuer", "gatewayClassName"} \subseteq DOMAIN values
        /\ values["cloudProvider"] = src["cloudProvider"]
        /\ values["certManagerIssuer"] = src["certManagerIssuer"]
        /\ values["gatewayClassName"] = src["gatewayClassName"]
        /\ src["gatewayClassName"] = AGC =>
             /\ "albSubnetId" \in DOMAIN values
             /\ values["albSubnetId"] = TrimSpace(ans["albSubnetId"])
             /\ ~isEmpty(values["albSubnetId"])
    <3>1. /\ src["cloudProvider"] # Absent /\ src["certManagerIssuer"] # Absent
          /\ src["gatewayClassName"] # Absent /\ ~isEmpty(src["gatewayClassName"])
      BY <1>5, <1>6, <1>7, <1>8
    <3>2. resolved.ok
      BY <1>10
    <3> QED BY <2>1, <3>1, <3>2, GatewayWritten, Zenon
  <2> HIDE DEF values
  <2>3. /\ values["cloudProvider"] = platform
        /\ values["gatewayClassName"] = choice.class
        /\ values["certManagerIssuer"] = choice.issuer
        /\ choice.class = AGC => /\ "albSubnetId" \in DOMAIN values
                                 /\ values["albSubnetId"] = TrimSpace(choice.subnet)
                                 /\ ~isEmpty(values["albSubnetId"])
    BY <1>5, <2>2
  <2>4. files' = [files EXCEPT !["gateway"] = Written(files["gateway"], values)]
    BY <1>10 DEF values
  <2>5. /\ DOMAIN rt' = DOMAIN rt /\ rt'.accepted = choice.accepted
        /\ rt'.kc = rt.kc /\ rt'.credentials = rt.credentials
    <3>1. DOMAIN rt = DOMAIN FreshRuntime
      BY DEF TypeOK
    <3>2. {"kc", "credentials", "accepted", "hostname"} \subseteq DOMAIN rt
      BY <3>1 DEF FreshRuntime
    <3> QED BY <1>10, <3>2 DEF runtime, rememberHostname
  <2> HIDE DEF resolved
  <2> QED BY <1>10, <2>2, <2>3, <2>4, <2>5, Zenon DEF GatewayFileWritten
<1> QED BY <1>1, <1>9, <1>10, WriteOutcome

\* DeployMonitoring fails without touching the file, or writes the class of
\* every claim there is.
LEMMA MonitoringConfigured ==
  ASSUME TypeOK, ClaimsNamed, NEW selected, ConfigureMonitoring(selected)
  PROVE  \/ files' = files /\ StepFails("monitoring")
         \/ \E values :
              /\ files' = [files EXCEPT !["monitoring"] = Written(files["monitoring"], values)]
              /\ pc' = <<"monitoring", "up">>
              /\ rt' = [rt EXCEPT !.class = selected]
              /\ \A k \in StorageKeys \cap DOMAIN values : values[k] # Absent
              /\ Claimed("loki") => /\ "lokiStorageClass" \in DOMAIN values
                                    /\ values["lokiStorageClass"] = live.pvc["loki"]
              /\ Claimed("prometheus") =>
                   /\ "prometheusStorageClass" \in DOMAIN values
                   /\ values["prometheusStorageClass"] = live.pvc["prometheus"]
<1> DEFINE class == monitoringStorageClasses(selected)
           given == [lokiStorageClass |-> class["loki"],
                     prometheusStorageClass |-> class["prometheus"]]
           src == Sources(given)
           ans == Answers(<<>>)
           resolved == Resolve(monitoringEntries, src, ans)
           runtime == [rt EXCEPT !.class = selected]
<1>1. Write("monitoring", resolved, runtime)
  BY DEF ConfigureMonitoring
<1>2. /\ Claimed("loki") => class["loki"] = live.pvc["loki"]
      /\ Claimed("prometheus") => class["prometheus"] = live.pvc["prometheus"]
  BY DEF monitoringStorageClasses, Claims
<1> HIDE DEF class
<1>3. /\ DOMAIN given = StorageKeys
      /\ given["lokiStorageClass"] = class["loki"]
      /\ given["prometheusStorageClass"] = class["prometheus"]
  BY DEF StorageKeys
<1> HIDE DEF given
<1>4. \A k \in StorageKeys : src[k] = given[k]
  BY <1>3, KeysSupplied, Supplied
<1>5. \A c \in Claims : Claimed(c) => ~isEmpty(live.pvc[c]) /\ live.pvc[c] # Absent
  BY DEF ClaimsNamed, Claimed, isEmpty, TrimSpace
<1> HIDE DEF src, ans, runtime
<1>6. CASE files' = files /\ StepFails("monitoring")
  BY <1>6
<1>7. CASE /\ resolved.ok
           /\ files' = [files EXCEPT !["monitoring"] =
                          Written(files["monitoring"], resolved.values)]
           /\ pc' = <<"monitoring", "up">> /\ rt' = runtime
  <2> DEFINE values == resolved.values
  <2>1. \A d \in ToSet(monitoringEntries) : Honoured(d, values, src, ans)
    <3>1. Validate(monitoringEntries)
      BY DefinitionsAssumption DEF DefinitionsValid
    <3>2. monitoringEntries \in Seq(ToSet(monitoringEntries))
      BY MonitoringEntries DEF IsSequence
    <3> QED BY <1>7, <3>1, <3>2, ResolveHonours, Zenon
  <2> HIDE DEF values
  <2>2. ASSUME NEW k \in StorageKeys
        PROVE  /\ k \in DOMAIN values => values[k] # Absent
               /\ src[k] # Absent /\ ~isEmpty(src[k]) =>
                    k \in DOMAIN values /\ values[k] = src[k]
    <3> DEFINE e == Optional(Entry(k))
    <3>1. e.key = k /\ e.source = "optional" /\ e.when = Always
      BY EntryFields, ZenonT(30)
    <3>2. e \in ToSet(monitoringEntries)
      BY MonitoringEntries
    <3> HIDE DEF e
    <3>3. Honoured(e, values, src, ans)
      BY <2>1, <3>2
    <3>4. src[k] # Absent /\ ~isEmpty(src[k]) => resolve(e, src, ans) = src[k]
      BY <3>1, ResolvedValue
    <3> QED BY <3>1, <3>3, <3>4 DEF Honoured, Active
  <2>3. {"lokiStorageClass", "prometheusStorageClass"} = StorageKeys
    BY DEF StorageKeys
  <2>4. {"loki", "prometheus"} = Claims
    BY DEF Claims
  <2>5. Claimed("loki") => /\ "lokiStorageClass" \in DOMAIN values
                           /\ values["lokiStorageClass"] = live.pvc["loki"]
    BY <1>2, <1>3, <1>4, <1>5, <2>2, <2>3, <2>4
  <2>6. Claimed("prometheus") => /\ "prometheusStorageClass" \in DOMAIN values
                                 /\ values["prometheusStorageClass"] = live.pvc["prometheus"]
    BY <1>2, <1>3, <1>4, <1>5, <2>2, <2>3, <2>4
  <2>7. \A k \in StorageKeys \cap DOMAIN values : values[k] # Absent
    BY <2>2
  <2>8. /\ files' = [files EXCEPT !["monitoring"] = Written(files["monitoring"], values)]
        /\ rt' = [rt EXCEPT !.class = selected]
    BY <1>7 DEF values, runtime
  <2> HIDE DEF resolved
  <2> QED BY <1>7, <2>5, <2>6, <2>7, <2>8, Zenon
<1> HIDE DEF resolved
<1> QED BY <1>1, <1>6, <1>7, WriteOutcome

-----------------------------------------------------------------------------
(* The inductive invariant                                                 *)

\* Nothing is promised yet before app-shaide and between the runs.
Early == {Idle, <<"harbor", "configure">>, <<"harbor", "up">>, <<"gateway", "configure">>,
          <<"shaide", "configure">>}

\* Where a run has not come to a promise, only what outlives it is at stake.
LEMMA EarlyStep ==
  ASSUME TypeOK', pc' \in Early, GatewayLive', NoAbsentClass', ClaimsNamed'
  PROVE  IndInv'
<1>1. /\ pc' # <<"shaide", "up">> /\ pc' # <<"shaide", "account">> /\ pc' # <<"mcp", "up">>
      /\ pc' # <<"gateway", "up">> /\ pc' # <<"monitoring", "up">>
      /\ pc' \notin ShaideDeployed
  BY SMT DEF Early, Idle, Done, ShaideDeployed
<1>2. AccountReady \subseteq ShaideDeployed /\ MCPDeployed \subseteq ShaideDeployed
  BY DEF AccountReady, MCPDeployed, ShaideDeployed
<1>3. ShaideFile' /\ ShaideLive' /\ AccountLive' /\ MCPFile' /\ MCPLive'
  BY <1>1, <1>2 DEF ShaideFile, ShaideLive, AccountLive, MCPFile, MCPLive, At
<1>4. GatewayFile' /\ ClassKept'
  BY <1>1 DEF GatewayFile, ClassKept, At
<1> QED BY <1>3, <1>4 DEF IndInv

\* The empty runtime has its types.
LEMMA FreshTyped ==
  /\ DOMAIN FreshRuntime = {"kc", "webapp", "hostname", "credentials", "accepted", "class"}
  /\ FreshRuntime.kc = FALSE /\ FreshRuntime.accepted = "no" /\ "no" \in Acceptance
  /\ FreshRuntime.credentials = <<>>
  BY DEF FreshRuntime, Acceptance

\* A step that fails starts over or ends the run.
LEMMA FailsTyped ==
  ASSUME TypeOK, NEW stack \in StackNames, StepFails(stack)
  PROVE  /\ pc' \in RunSteps
         /\ DOMAIN rt' = DOMAIN FreshRuntime
         /\ rt'.kc \in BOOLEAN /\ rt'.accepted \in Acceptance
         /\ rt'.credentials \in Credentials \cup {<<>>}
         /\ pc' = Idle \/ (pc' = <<stack, "configure">> /\ rt' = rt)
<1>1. CASE pc' = <<stack, "configure">> /\ rt' = rt
  BY <1>1 DEF TypeOK, RunSteps
<1>2. CASE pc' = Idle /\ rt' = FreshRuntime
  BY <1>2, FreshTyped DEF RunSteps
<1> QED BY <1>1, <1>2 DEF StepFails, Goto

\* The names of the stacks.
LEMMA StackNamed ==
  /\ "harbor" \in StackNames /\ "gateway" \in StackNames /\ "shaide" \in StackNames
  /\ "mcp" \in StackNames /\ "monitoring" \in StackNames
  /\ \A s \in StackNames : <<s, "configure">> \in RunSteps /\ <<s, "up">> \in RunSteps
  /\ Idle \in RunSteps /\ Done \in RunSteps /\ <<"shaide", "account">> \in RunSteps
  BY DEF StackNames, RunSteps

\* Selecting components starts a run with a fresh runtime.
LEMMA StartInv ==
  ASSUME IndInv, NEW answer \in site.select, Start(answer[1], answer[2])
  PROVE  IndInv'
<1>1. answer[2] \in BOOLEAN
  <2>1. site \in Site
    BY StacksAssumption DEF IndInv, TypeOK
  <2> QED BY <2>1 DEF Site
<1> DEFINE first == [FreshRuntime EXCEPT !.webapp = answer[1]]
<1>2. /\ DOMAIN first = DOMAIN FreshRuntime /\ first.accepted = "no"
      /\ first.credentials = <<>>
  BY FreshTyped
<1>3. rt' = [first EXCEPT !.kc = answer[2]]
  BY DEF Start, selectKnowledgeCenter, selectWebApp
<1> HIDE DEF first
<1>4. /\ DOMAIN rt' = DOMAIN FreshRuntime /\ rt'.kc \in BOOLEAN /\ rt'.accepted \in Acceptance
      /\ rt'.credentials \in Credentials \cup {<<>>}
  BY <1>1, <1>2, <1>3, FreshTyped
<1>5. pc' \in {<<"harbor", "configure">>, <<"gateway", "configure">>}
      /\ UNCHANGED <<site, files, live, gen, edits>>
  BY DEF Start, Goto
<1>6. TypeOK'
  BY <1>4, <1>5, StackNamed DEF IndInv, TypeOK
<1>7. GatewayLive' /\ NoAbsentClass' /\ ClaimsNamed'
  BY <1>5 DEF IndInv, GatewayLive, NoAbsentClass, ClaimsNamed, gatewayClasses, platform
<1>8. pc' \in Early
  BY <1>5 DEF Early
<1> QED BY <1>6, <1>7, <1>8, EarlyStep

\* A crash keeps the files and the cluster.
LEMMA CrashInv ==
  ASSUME IndInv, Crash
  PROVE  IndInv'
<1>1. TypeOK'
  BY FreshTyped, StackNamed DEF Crash, IndInv, TypeOK
<1>2. GatewayLive' /\ NoAbsentClass' /\ ClaimsNamed'
  BY DEF Crash, IndInv, GatewayLive, NoAbsentClass, ClaimsNamed, gatewayClasses, platform
<1>3. pc' \in Early
  BY DEF Crash, Early
<1> QED BY <1>1, <1>2, <1>3, EarlyStep

\* A hand edit may put any text in a file, but not the mark of a missing one.
LEMMA HandEditInv ==
  ASSUME IndInv, NEW edit \in site.edits, HandEdit(edit[1], edit[2], edit[3])
  PROVE  IndInv'
<1> DEFINE stack == edit[1]
           key == edit[2]
           value == edit[3]
           edited(file) == IF value = Absent THEN Restrict(file, DOMAIN file \ {key})
                                             ELSE With(file, key, value)
<1>1. value \in STRING
  BY SiteTyped DEF IndInv
<1>2. /\ pc' = Idle /\ rt' = FreshRuntime /\ edits < MaxEdits /\ edits' = edits + 1
      /\ files' = [files EXCEPT ![stack] = edited(files[stack])]
      /\ UNCHANGED <<site, live, gen>>
  BY DEF HandEdit
<1> HIDE DEF stack, key, value
<1>3. ASSUME NEW file, NEW k
      PROVE  /\ k \in DOMAIN edited(file) /\ k # key =>
                  k \in DOMAIN file /\ edited(file)[k] = file[k]
             /\ k \in DOMAIN edited(file) /\ k = key =>
                  edited(file)[k] = value /\ value # Absent
  BY DEF Restrict, With
<1> HIDE DEF edited
<1>4. \A s \in StackNames : files'[s] = files[s] \/ files'[s] = edited(files[s])
  BY <1>2 DEF IndInv, TypeOK
<1>5. \A k \in KCKeys \cap DOMAIN files'["shaide"] : files'["shaide"][k] \in STRING
  BY <1>1, <1>3, <1>4, StackNamed DEF IndInv, TypeOK
<1>6. edits' \in 0 .. MaxEdits
  BY <1>2, StacksAssumption DEF IndInv, TypeOK
<1>7. DOMAIN files' = StackNames
  BY <1>2 DEF IndInv, TypeOK
<1>8. TypeOK'
  BY <1>2, <1>5, <1>6, <1>7, FreshTyped, StackNamed DEF IndInv, TypeOK
<1>9. NoAbsentClass'
  <2>1. Empty # Absent
    BY SMT DEF Empty, Absent
  <2>2. \A k \in StorageKeys \cap DOMAIN files["monitoring"] : files["monitoring"][k] # Absent
    BY DEF IndInv, NoAbsentClass, Get
  <2>3. \A k \in StorageKeys \cap DOMAIN files'["monitoring"] : files'["monitoring"][k] # Absent
    BY <1>3, <1>4, <2>2, StackNamed
  <2> QED BY <2>1, <2>3 DEF NoAbsentClass, Get
<1>10. GatewayLive' /\ ClaimsNamed'
  BY <1>2 DEF IndInv, GatewayLive, ClaimsNamed, gatewayClasses, platform
<1>11. pc' \in Early
  BY <1>2 DEF Early
<1> QED BY <1>8, <1>9, <1>10, <1>11, EarlyStep

\* Harbor's step writes its own file, and nothing else rests on it.
LEMMA HarborInv ==
  ASSUME IndInv,
         (\E password, node \in {Empty, "answer"} : ConfigureHarbor(password, node)) \/ UpHarbor
  PROVE  IndInv'
<1>1. ASSUME NEW password, NEW node, ConfigureHarbor(password, node) PROVE IndInv'
  <2> DEFINE resolved == Resolve(harborEntries, Sources(<<>>),
                                 Answers([adminPassword |-> password, nodeHostname |-> node]))
  <2>1. Write("harbor", resolved, rt) /\ UNCHANGED <<site, live, gen, edits>>
    BY <1>1 DEF ConfigureHarbor
  <2> HIDE DEF resolved
  <2>2. /\ DOMAIN files' = StackNames /\ pc' \in RunSteps /\ pc' \in Early
        /\ files'["shaide"] = files["shaide"] /\ files'["monitoring"] = files["monitoring"]
        /\ DOMAIN rt' = DOMAIN FreshRuntime
        /\ rt'.kc \in BOOLEAN /\ rt'.accepted \in Acceptance
        /\ rt'.credentials \in Credentials \cup {<<>>}
    <3>1. CASE files' = files /\ StepFails("harbor")
      BY <3>1, FailsTyped, StackNamed DEF IndInv, TypeOK, Early
    <3>2. CASE /\ files' = [files EXCEPT !["harbor"] = Written(files["harbor"], resolved.values)]
               /\ pc' = <<"harbor", "up">> /\ rt' = rt
      BY <3>2, StackNamed DEF IndInv, TypeOK, Early
    <3> QED BY <2>1, <3>1, <3>2, WriteOutcome DEF IndInv
  <2>3. TypeOK'
    BY <2>1, <2>2 DEF IndInv, TypeOK
  <2>4. GatewayLive' /\ NoAbsentClass' /\ ClaimsNamed'
    BY <2>1, <2>2 DEF IndInv, GatewayLive, NoAbsentClass, ClaimsNamed, gatewayClasses, platform
  <2> QED BY <2>2, <2>3, <2>4, EarlyStep
<1>2. ASSUME UpHarbor PROVE IndInv'
  <2>1. /\ UNCHANGED <<site, files, gen, edits>>
        /\ \/ StepFails("harbor") /\ live' = live
           \/ /\ \E h : live' = [live EXCEPT !.harbor = h]
              /\ pc' = <<"gateway", "configure">> /\ rt' = rt
    BY <1>2 DEF UpHarbor, Goto, NextStep
  <2>2. /\ pc' \in RunSteps /\ pc' \in Early
        /\ DOMAIN rt' = DOMAIN FreshRuntime
        /\ rt'.kc \in BOOLEAN /\ rt'.accepted \in Acceptance
        /\ rt'.credentials \in Credentials \cup {<<>>}
    BY <2>1, FailsTyped, StackNamed DEF IndInv, TypeOK, Early
  <2>3. DOMAIN live' = DOMAIN live /\ live'.gateway = live.gateway /\ live'.pvc = live.pvc
    BY <2>1 DEF IndInv, TypeOK
  <2>4. TypeOK'
    BY <2>1, <2>2, <2>3 DEF IndInv, TypeOK
  <2>5. GatewayLive' /\ NoAbsentClass' /\ ClaimsNamed'
    BY <2>1, <2>3 DEF IndInv, GatewayLive, NoAbsentClass, ClaimsNamed, gatewayClasses, platform
  <2> QED BY <2>2, <2>4, <2>5, EarlyStep
<1> QED BY <1>1, <1>2

\* Writing the Gateway's file describes a Gateway that keeps its association,
\* and the one that runs when that was accepted.
LEMMA ConfigureGatewayInv ==
  ASSUME IndInv, NEW choice, NEW hostname, ConfigureGateway(choice, hostname)
  PROVE  IndInv'
<1>1. UNCHANGED <<site, live, gen, edits>> /\ choice \in gatewayOptions(site.choose)
  BY DEF ConfigureGateway
<1>2. GatewayLive' /\ ClaimsNamed'
  BY <1>1 DEF IndInv, GatewayLive, ClaimsNamed, gatewayClasses, platform
<1>3. CASE files' = files /\ StepFails("gateway")
  <2>1. TypeOK' /\ NoAbsentClass'
    BY <1>1, <1>3, FailsTyped, StackNamed DEF IndInv, TypeOK, NoAbsentClass
  <2>2. pc' \in Early
    BY <1>3, FailsTyped, StackNamed DEF IndInv, Early
  <2> QED BY <1>2, <2>1, <2>2, EarlyStep
<1>4. ASSUME NEW values,
             files' = [files EXCEPT !["gateway"] = Written(files["gateway"], values)],
             pc' = <<"gateway", "up">>,
             DOMAIN rt' = DOMAIN rt, rt'.accepted = choice.accepted,
             rt'.kc = rt.kc, rt'.credentials = rt.credentials,
             {"cloudProvider", "certManagerIssuer", "gatewayClassName"} \subseteq DOMAIN values,
             values["cloudProvider"] = platform,
             values["gatewayClassName"] = choice.class,
             values["certManagerIssuer"] = choice.issuer,
             choice.class = AGC => /\ "albSubnetId" \in DOMAIN values
                                   /\ values["albSubnetId"] = TrimSpace(choice.subnet)
                                   /\ ~isEmpty(values["albSubnetId"])
      PROVE  IndInv'
  <2> DEFINE file == files'["gateway"]
  <2>1. /\ DOMAIN files' = StackNames /\ file = Written(files["gateway"], values)
        /\ files'["shaide"] = files["shaide"] /\ files'["monitoring"] = files["monitoring"]
    BY <1>4, StackNamed DEF IndInv, TypeOK
  <2>2. TypeOK' /\ NoAbsentClass'
    <3>1. NoAbsentClass'
      BY <2>1 DEF IndInv, NoAbsentClass
    <3>2. /\ DOMAIN rt' = DOMAIN FreshRuntime /\ rt'.kc \in BOOLEAN /\ rt'.accepted \in Acceptance
          /\ rt'.credentials \in Credentials \cup {<<>>} /\ pc' \in RunSteps
      BY <1>1, <1>4, ChoicesOffered, StackNamed DEF IndInv, TypeOK
    <3> QED BY <1>1, <2>1, <3>1, <3>2 DEF IndInv, TypeOK
  <2>3. /\ choice.class \in gatewayClasses /\ choice.issuer \in Issuers \cup {Empty}
        /\ choice.accepted \in Acceptance
        /\ choice.accepted = "offered" =>
             /\ choice.class = live.gateway.class
             /\ choice.issuer = live.gateway.issuer
             /\ choice.class = AGC => choice.subnet \in {live.gateway.subnet, Empty}
    BY <1>1, ChoicesOffered DEF IndInv
  <2>4. /\ Get(file, "cloudProvider") = platform
        /\ Get(file, "gatewayClassName") = choice.class
        /\ Get(file, "certManagerIssuer") = choice.issuer
        /\ choice.class = AGC => /\ Get(file, "albSubnetId") = TrimSpace(choice.subnet)
                                 /\ ~isEmpty(Get(file, "albSubnetId"))
    BY <1>4, <2>1, WrittenGet
  <2>5. choice.class = AGC => Get(file, "albSubnetId") \notin {Empty, Blank}
    BY <2>4 DEF isEmpty, TrimSpace
  <2>6. /\ live.gateway # None => TrimSpace(live.gateway.subnet) = live.gateway.subnet
        /\ TrimSpace(Empty) = Empty
    BY DEF IndInv, GatewayLive, TrimSpace
  <2>7. platform' = platform /\ gatewayClasses' = gatewayClasses /\ live' = live
    BY <1>1 DEF platform, gatewayClasses
  <2> HIDE DEF file
  <2>8. /\ Get(file, "gatewayClassName") \in gatewayClasses
        /\ Get(file, "certManagerIssuer") \in Issuers \cup {Empty}
        /\ rt'.accepted = "offered" /\ live.gateway # None =>
             /\ Get(file, "gatewayClassName") = live.gateway.class
             /\ Get(file, "certManagerIssuer") = live.gateway.issuer
             /\ live.gateway.class = AGC => Get(file, "albSubnetId") = live.gateway.subnet
    BY <1>4, <2>3, <2>4, <2>5, <2>6
  <2>9. GatewayFile'
    BY <2>4, <2>5, <2>7, <2>8 DEF GatewayFile, file
  <2>10. /\ pc' # <<"shaide", "up">> /\ pc' # <<"shaide", "account">> /\ pc' # <<"mcp", "up">>
         /\ pc' # <<"monitoring", "up">> /\ pc' \notin ShaideDeployed
    BY <1>4, SMT DEF Done, ShaideDeployed
  <2>11. AccountReady \subseteq ShaideDeployed /\ MCPDeployed \subseteq ShaideDeployed
    BY DEF AccountReady, MCPDeployed, ShaideDeployed
  <2>12. ShaideFile' /\ ShaideLive' /\ AccountLive' /\ MCPFile' /\ MCPLive' /\ ClassKept'
    BY <2>10, <2>11 DEF ShaideFile, ShaideLive, AccountLive, MCPFile, MCPLive, ClassKept, At
  <2> QED BY <1>2, <2>2, <2>9, <2>12 DEF IndInv
<1>5. TypeOK /\ GatewayLive
  BY DEF IndInv
<1>6. CASE GatewayFileWritten(choice)
  BY <1>4, <1>6, Zenon DEF GatewayFileWritten
<1> QED BY <1>3, <1>5, <1>6, GatewayConfigured, Zenon

\* The Gateway that a file describes between Write and the program.
LEMMA GatewayDeployed ==
  ASSUME TypeOK, GatewayFile, At("gateway", "up"),
         NEW gateway, gateway = DeployedGateway(loadGateway(files["gateway"])), gateway # None
  PROVE  /\ gateway.class = Get(files["gateway"], "gatewayClassName")
         /\ gateway.class \in gatewayClasses
         /\ gateway.issuer = Get(files["gateway"], "certManagerIssuer")
         /\ gateway.issuer \in Issuers \cup {Empty}
         /\ gateway.subnet # Blank
         /\ gateway.class = AGC <=> gateway.subnet # Empty
         /\ gateway.class = AGC => gateway.subnet = Get(files["gateway"], "albSubnetId")
         /\ gateway.class # AGC => gateway.subnet = Empty
<1> DEFINE file == files["gateway"]
           cfg == loadGateway(file)
<1>1. /\ gateway.class = cfg.class /\ gateway.issuer = cfg.issuer /\ gateway.subnet = cfg.subnet
  BY DEF DeployedGateway
<1>2. /\ Get(file, "cloudProvider") = platform
      /\ Get(file, "gatewayClassName") \in gatewayClasses
      /\ Get(file, "gatewayClassName") = AGC => Get(file, "albSubnetId") \notin {Empty, Blank}
      /\ Get(file, "certManagerIssuer") \in Issuers \cup {Empty}
  BY DEF GatewayFile
<1>3. Get(file, "gatewayClassName") # Empty
  BY <1>2, SiteTyped DEF isEmpty, TrimSpace
<1>4. cfg.class = Get(file, "gatewayClassName")
  BY <1>3 DEF loadGateway, OrElse
<1>5. cfg.issuer = Get(file, "certManagerIssuer")
  BY DEF loadGateway
<1>6. cfg.subnet = IF platform = Azure /\ cfg.class = AGC THEN Get(file, "albSubnetId") ELSE Empty
  BY <1>2, <1>3 DEF loadGateway, OrElse, UsesAGC
<1>7. cfg.class = AGC => platform = Azure
  BY <1>2, <1>4, SiteTyped
<1>8. Empty # Blank
  BY SMT DEF Empty, Blank
<1> HIDE DEF file, cfg
<1> QED BY <1>1, <1>2, <1>4, <1>5, <1>6, <1>7, <1>8 DEF file

\* The Gateway is updated, or was before the update failed.
LEMMA UpGatewayInv ==
  ASSUME IndInv, UpGateway
  PROVE  IndInv'
<1> DEFINE gateway == DeployedGateway(loadGateway(files["gateway"]))
<1>1. /\ UNCHANGED <<site, files, gen, edits>> /\ At("gateway", "up")
      /\ live' = live \/ live' = [live EXCEPT !.gateway = gateway]
      /\ \/ StepFails("gateway")
         \/ rt' = [exportedHostname(rt, gateway) EXCEPT !.accepted = "no"] /\ pc' = <<"shaide", "configure">>
  BY DEF UpGateway, Goto, NextStep
<1> HIDE DEF gateway
<1>2. /\ pc' \in RunSteps /\ pc' \in Early
      /\ DOMAIN rt' = DOMAIN FreshRuntime
      /\ rt'.kc \in BOOLEAN /\ rt'.accepted \in Acceptance
      /\ rt'.credentials \in Credentials \cup {<<>>}
  <2>1. CASE StepFails("gateway")
    BY <2>1, FailsTyped, StackNamed DEF IndInv, Early
  <2>2. CASE rt' = [exportedHostname(rt, gateway) EXCEPT !.accepted = "no"] /\ pc' = <<"shaide", "configure">>
    <3> DEFINE first == exportedHostname(rt, gateway)
    <3>1. /\ DOMAIN first = DOMAIN rt /\ first.kc = rt.kc /\ first.credentials = rt.credentials
      BY FreshTyped DEF exportedHostname, IndInv, TypeOK
    <3> HIDE DEF first
    <3>2. rt' = [first EXCEPT !.accepted = "no"]
      BY <2>2 DEF first
    <3>3. /\ DOMAIN rt' = DOMAIN FreshRuntime
          /\ rt'.kc \in BOOLEAN /\ rt'.accepted \in Acceptance
          /\ rt'.credentials \in Credentials \cup {<<>>}
      BY <3>1, <3>2, FreshTyped DEF IndInv, TypeOK
    <3>4. pc' \in RunSteps /\ pc' \in Early
      BY <2>2, StackNamed DEF Early
    <3> QED BY <3>3, <3>4
  <2> QED BY <1>1, <2>1, <2>2
<1>3. /\ DOMAIN live' = DOMAIN live /\ live'.pvc = live.pvc
      /\ live'.gateway = live.gateway \/ live'.gateway = gateway
  BY <1>1 DEF IndInv, TypeOK
<1>4. TypeOK'
  BY <1>1, <1>2, <1>3 DEF IndInv, TypeOK
<1>5. NoAbsentClass' /\ ClaimsNamed'
  BY <1>1, <1>3 DEF IndInv, NoAbsentClass, ClaimsNamed
<1>6. gateway # None =>
        /\ gateway.class \in gatewayClasses
        /\ gateway.issuer \in Issuers \cup {Empty}
        /\ gateway.subnet # Blank
        /\ gateway.class = AGC <=> gateway.subnet # Empty
  BY <1>1, GatewayDeployed DEF IndInv, gateway
<1>7. gatewayClasses' = gatewayClasses
  BY <1>1 DEF gatewayClasses, platform
<1>8. GatewayLive'
  BY <1>3, <1>6, <1>7 DEF IndInv, GatewayLive
<1> QED BY <1>2, <1>4, <1>5, <1>8, EarlyStep

\* Writing app-shaide's file stores this run's credentials.
LEMMA ConfigureShaideInv ==
  ASSUME IndInv, NEW secret, ConfigureShaide(secret)
  PROVE  IndInv'
<1>1. UNCHANGED <<site, live, edits>> /\ gen' \in 0 .. Len(Generated)
  <2>1. UNCHANGED <<site, live, edits>> /\ gen < Len(Generated) /\ gen' \in {gen, gen + 1}
    BY DEF ConfigureShaide
  <2> QED BY <2>1, StacksAssumption DEF IndInv, TypeOK
<1>2. GatewayLive' /\ ClaimsNamed'
  BY <1>1 DEF IndInv, GatewayLive, ClaimsNamed, gatewayClasses, platform
<1>3. CASE files' = files /\ StepFails("shaide")
  <2>1. TypeOK' /\ NoAbsentClass'
    BY <1>1, <1>3, FailsTyped, StackNamed DEF IndInv, TypeOK, NoAbsentClass
  <2>2. pc' \in Early
    BY <1>3, FailsTyped, StackNamed DEF IndInv, Early
  <2> QED BY <1>2, <2>1, <2>2, EarlyStep
<1>4. ASSUME NEW values, NEW creds,
             files' = [files EXCEPT !["shaide"] = Written(files["shaide"], values)],
             pc' = <<"shaide", "up">>,
             rt' = [rt EXCEPT !.credentials = IF rt.kc THEN creds ELSE <<>>],
             creds \in Credentials,
             "knowledgeCenterEnabled" \in DOMAIN values,
             values["knowledgeCenterEnabled"] = FormatBool(rt.kc),
             rt.kc => \A k \in KCKeys : k \in DOMAIN values /\ values[k] = creds[k],
             ~rt.kc => \A k \in KCKeys : k \notin DOMAIN values
      PROVE  IndInv'
  <2> DEFINE file == files'["shaide"]
  <2>1. /\ DOMAIN files' = StackNames /\ file = Written(files["shaide"], values)
        /\ files'["monitoring"] = files["monitoring"]
    BY <1>4, StackNamed DEF IndInv, TypeOK
  <2>2. /\ DOMAIN rt' = DOMAIN FreshRuntime /\ rt'.kc = rt.kc /\ rt.kc \in BOOLEAN
        /\ rt'.accepted \in Acceptance
        /\ rt'.credentials = IF rt.kc THEN creds ELSE <<>>
    BY <1>4, FreshTyped DEF IndInv, TypeOK
  <2>3. \A k \in KCKeys : creds[k] \in STRING
    BY <1>4 DEF Credentials
  <2>4. \A k \in KCKeys \cap DOMAIN file : file[k] \in STRING
    BY <1>4, <2>1, <2>2, <2>3, WrittenGet DEF IndInv, TypeOK
  <2>5. /\ Get(file, "knowledgeCenterEnabled") = FormatBool(rt.kc)
        /\ rt.kc => \A k \in KCKeys : Get(file, k) = creds[k]
    BY <1>4, <2>1, WrittenGet
  <2> HIDE DEF file
  <2>6. TypeOK'
    BY <1>1, <1>4, <2>1, <2>2, <2>4, StackNamed DEF IndInv, TypeOK, file
  <2>7. NoAbsentClass'
    BY <2>1 DEF IndInv, NoAbsentClass
  <2>8. ShaideFile'
    BY <1>4, <2>2, <2>5 DEF ShaideFile, file
  <2>9. /\ pc' # <<"shaide", "account">> /\ pc' # <<"mcp", "up">> /\ pc' # <<"gateway", "up">>
        /\ pc' # <<"monitoring", "up">> /\ pc' \notin ShaideDeployed
    BY <1>4, SMT DEF Done, ShaideDeployed
  <2>10. AccountReady \subseteq ShaideDeployed /\ MCPDeployed \subseteq ShaideDeployed
    BY DEF AccountReady, MCPDeployed, ShaideDeployed
  <2>11. ShaideLive' /\ AccountLive' /\ MCPFile' /\ MCPLive' /\ GatewayFile' /\ ClassKept'
    BY <2>9, <2>10 DEF ShaideLive, AccountLive, MCPFile, MCPLive, GatewayFile, ClassKept, At
  <2> QED BY <1>2, <2>6, <2>7, <2>8, <2>11 DEF IndInv
<1>5. TypeOK
  BY DEF IndInv
<1>6. CASE ShaideFileWritten
  BY <1>4, <1>6, Zenon DEF ShaideFileWritten
<1> QED BY <1>3, <1>5, <1>6, ShaideConfigured, Zenon

\* A step of a later stage that fails ends the run or starts the step over.
LEMMA LateFails ==
  ASSUME IndInv, TypeOK', NEW stack \in {"mcp", "monitoring"}, StepFails(stack),
         pc \in AccountReady, stack = "monitoring" => pc \in MCPDeployed,
         live'.shaide = live.shaide, live'.account = live.account,
         stack = "monitoring" => live'.mcp = live.mcp,
         GatewayLive', NoAbsentClass', ClaimsNamed'
  PROVE  IndInv'
<1>1. stack \in StackNames
  BY DEF StackNames
<1>2. CASE pc' = Idle
  <2>1. pc' \in Early
    BY <1>2 DEF Early
  <2> QED BY <2>1, EarlyStep
<1>3. CASE pc' = <<stack, "configure">> /\ rt' = rt
  <2>1. /\ pc' # <<"shaide", "up">> /\ pc' # <<"shaide", "account">> /\ pc' # <<"mcp", "up">>
        /\ pc' # <<"gateway", "up">> /\ pc' # <<"monitoring", "up">>
    BY <1>3, SMT
  <2>2. pc \in ShaideDeployed /\ (pc' \in MCPDeployed => stack = "monitoring")
    BY <1>3, SMT DEF ShaideDeployed, AccountReady, MCPDeployed, Done
  <2>3. ShaideFile' /\ MCPFile' /\ GatewayFile' /\ ClassKept'
    BY <2>1 DEF ShaideFile, MCPFile, GatewayFile, ClassKept, At
  <2>4. ShaideLive'
    BY <1>3, <2>2 DEF IndInv, ShaideLive
  <2>5. AccountLive'
    BY <1>3, <2>1 DEF IndInv, AccountLive, At
  <2>6. MCPLive'
    BY <1>3, <2>2 DEF IndInv, MCPLive
  <2> QED BY <2>3, <2>4, <2>5, <2>6 DEF IndInv
<1> QED BY <1>1, <1>2, <1>3, FailsTyped DEF IndInv

\* app-shaide comes up with the credentials of its file.
LEMMA UpShaideInv ==
  ASSUME IndInv, UpShaide
  PROVE  IndInv'
<1> DEFINE cfg == loadShaide(files["shaide"])
           shaide == [kc |-> cfg.kc, webapp |-> cfg.webapp, hostname |-> cfg.hostname]
<1>1. /\ UNCHANGED <<site, files, gen, edits>> /\ At("shaide", "up")
      /\ live' = live \/ live' = [live EXCEPT !.shaide = shaide]
      /\ \/ StepFails("shaide")
         \/ /\ live' = [live EXCEPT !.shaide = shaide] /\ rt' = rt
            /\ pc' = IF rt.kc THEN <<"shaide", "account">> ELSE <<"mcp", "configure">>
  BY DEF UpShaide, Goto, NextStep
<1>2. shaide.kc = cfg.kc
  OBVIOUS
<1> HIDE DEF shaide
<1>3. /\ DOMAIN live' = DOMAIN live /\ live'.pvc = live.pvc /\ live'.gateway = live.gateway
  BY <1>1 DEF IndInv, TypeOK
<1>4. GatewayLive' /\ NoAbsentClass' /\ ClaimsNamed'
  BY <1>1, <1>3 DEF IndInv, GatewayLive, NoAbsentClass, ClaimsNamed, gatewayClasses, platform
<1>5. CASE StepFails("shaide")
  <2>1. TypeOK'
    BY <1>1, <1>3, <1>5, FailsTyped, StackNamed DEF IndInv, TypeOK
  <2>2. pc' \in Early
    BY <1>5, FailsTyped, StackNamed DEF IndInv, Early
  <2> QED BY <1>4, <2>1, <2>2, EarlyStep
<1>6. CASE /\ live' = [live EXCEPT !.shaide = shaide] /\ rt' = rt
           /\ pc' = IF rt.kc THEN <<"shaide", "account">> ELSE <<"mcp", "configure">>
  <2>1. rt.kc \in BOOLEAN /\ live'.shaide = shaide
    BY <1>6 DEF IndInv, TypeOK
  <2>2. TypeOK'
    BY <1>1, <1>3, <1>6, <2>1, StackNamed DEF IndInv, TypeOK
  <2>3. live'.shaide.kc = IF rt.kc THEN rt.credentials ELSE <<>>
    <3>1. /\ Get(files["shaide"], "knowledgeCenterEnabled") = FormatBool(rt.kc)
          /\ rt.kc => /\ rt.credentials \in Credentials
                      /\ \A k \in KCKeys : Get(files["shaide"], k) = rt.credentials[k]
      BY <1>1 DEF IndInv, ShaideFile
    <3>2. FormatBool(rt.kc) = "true" <=> rt.kc
      BY <2>1, SMT DEF FormatBool
    <3>3. cfg.kc = IF rt.kc THEN [k \in KCKeys |-> Get(files["shaide"], k)] ELSE <<>>
      BY <3>1, <3>2 DEF loadShaide
    <3>4. rt.kc => rt.credentials = [k \in KCKeys |-> rt.credentials[k]]
      BY <3>1 DEF Credentials
    <3> HIDE DEF cfg
    <3> QED BY <1>2, <2>1, <3>1, <3>3, <3>4
  <2>4. rt.kc => rt.credentials \in Credentials
    BY <1>1 DEF IndInv, ShaideFile
  <2>5. /\ pc' # <<"shaide", "up">> /\ pc' # <<"mcp", "up">>
        /\ pc' # <<"gateway", "up">> /\ pc' # <<"monitoring", "up">>
        /\ pc' \notin MCPDeployed /\ (pc' \in AccountReady => ~rt.kc)
        /\ (pc' = <<"shaide", "account">> => rt.kc)
    BY <1>6, <2>1, SMT DEF MCPDeployed, AccountReady, Done
  <2>6. ShaideFile' /\ MCPFile' /\ GatewayFile' /\ ClassKept' /\ MCPLive'
    BY <2>5 DEF ShaideFile, MCPFile, GatewayFile, ClassKept, MCPLive, At
  <2>7. ShaideLive'
    BY <1>6, <2>1, <2>3, <2>4 DEF ShaideLive
  <2>8. AccountLive'
    BY <1>6, <2>5 DEF AccountLive, At
  <2> QED BY <1>4, <2>2, <2>6, <2>7, <2>8 DEF IndInv
<1> QED BY <1>1, <1>5, <1>6

\* The account is created, or signs in, with the password of this run.
LEMMA AccountInv ==
  ASSUME IndInv, ensureAccount
  PROVE  IndInv'
<1> DEFINE password == rt.credentials["kcEmbeddingPassword"]
<1>1. /\ UNCHANGED <<site, files, gen, edits>> /\ At("shaide", "account")
      /\ \/ StepFails("shaide") /\ (live' = live \/ \E a : live' = [live EXCEPT !.account = a])
         \/ /\ live' = [live EXCEPT !.account = password] /\ rt' = rt
            /\ pc' = <<"mcp", "configure">>
  BY DEF ensureAccount, Goto, NextStep
<1> HIDE DEF password
<1>2. /\ DOMAIN live' = DOMAIN live /\ live'.pvc = live.pvc /\ live'.gateway = live.gateway
      /\ live'.shaide = live.shaide
  BY <1>1 DEF IndInv, TypeOK
<1>3. GatewayLive' /\ NoAbsentClass' /\ ClaimsNamed'
  BY <1>1, <1>2 DEF IndInv, GatewayLive, NoAbsentClass, ClaimsNamed, gatewayClasses, platform
<1>4. CASE StepFails("shaide")
  <2>1. TypeOK'
    BY <1>1, <1>2, <1>4, FailsTyped, StackNamed DEF IndInv, TypeOK
  <2>2. pc' \in Early
    BY <1>4, FailsTyped, StackNamed DEF IndInv, Early
  <2> QED BY <1>3, <2>1, <2>2, EarlyStep
<1>5. CASE /\ live' = [live EXCEPT !.account = password] /\ rt' = rt
           /\ pc' = <<"mcp", "configure">>
  <2>1. TypeOK'
    BY <1>1, <1>2, <1>5, StackNamed DEF IndInv, TypeOK
  <2>2. live'.account = password
    BY <1>5 DEF IndInv, TypeOK
  <2>3. /\ pc' # <<"shaide", "up">> /\ pc' # <<"shaide", "account">> /\ pc' # <<"mcp", "up">>
        /\ pc' # <<"gateway", "up">> /\ pc' # <<"monitoring", "up">> /\ pc' \notin MCPDeployed
    BY <1>5, SMT DEF MCPDeployed, Done
  <2>4. pc \in ShaideDeployed
    BY <1>1 DEF ShaideDeployed, At
  <2>5. ShaideFile' /\ MCPFile' /\ GatewayFile' /\ ClassKept' /\ MCPLive'
    BY <2>3 DEF ShaideFile, MCPFile, GatewayFile, ClassKept, MCPLive, At
  <2>6. ShaideLive'
    BY <1>2, <1>5, <2>4 DEF IndInv, ShaideLive
  <2>7. AccountLive'
    BY <1>5, <2>2, <2>3 DEF AccountLive, At, password
  <2> QED BY <1>3, <2>1, <2>5, <2>6, <2>7 DEF IndInv
<1> QED BY <1>1, <1>4, <1>5

\* Writing app-mcp's file gives it the credentials that app-shaide got.
LEMMA ConfigureMCPInv ==
  ASSUME IndInv, ConfigureMCP
  PROVE  IndInv'
<1>1. UNCHANGED <<site, live, gen, edits>> /\ pc = <<"mcp", "configure">> /\ rt.kc
  BY DEF ConfigureMCP, At
<1>2. GatewayLive' /\ ClaimsNamed'
  BY <1>1 DEF IndInv, GatewayLive, ClaimsNamed, gatewayClasses, platform
<1>3. pc \in AccountReady /\ pc \in ShaideDeployed
  BY <1>1, SMT DEF AccountReady, ShaideDeployed
<1>4. TypeOK /\ rt.credentials \in Credentials
  BY <1>1, <1>3 DEF IndInv, ShaideLive
<1>5. CASE files' = files /\ StepFails("mcp")
  <2>1. TypeOK' /\ NoAbsentClass'
    BY <1>1, <1>5, FailsTyped, StackNamed DEF IndInv, TypeOK, NoAbsentClass
  <2>2. "mcp" # "monitoring"
    BY SMT
  <2> QED BY <1>1, <1>2, <1>3, <1>5, <2>1, <2>2, LateFails
<1>6. ASSUME NEW values,
             files' = [files EXCEPT !["mcp"] = Written(files["mcp"], values)],
             pc' = <<"mcp", "up">>, rt' = rt,
             "knowledgeCenterEnabled" \in DOMAIN values,
             values["knowledgeCenterEnabled"] = "true",
             \A k \in MCPKeys : k \in DOMAIN values /\ values[k] = rt.credentials[k]
      PROVE  IndInv'
  <2>1. /\ DOMAIN files' = StackNames /\ files'["mcp"] = Written(files["mcp"], values)
        /\ files'["shaide"] = files["shaide"] /\ files'["monitoring"] = files["monitoring"]
    BY <1>6, StackNamed DEF IndInv, TypeOK
  <2>2. TypeOK'
    BY <1>1, <1>6, <2>1, StackNamed DEF IndInv, TypeOK
  <2>3. NoAbsentClass'
    BY <2>1 DEF IndInv, NoAbsentClass
  <2>4. /\ Get(files'["mcp"], "knowledgeCenterEnabled") = "true"
        /\ \A k \in MCPKeys : Get(files'["mcp"], k) = rt.credentials[k]
    BY <1>6, <2>1, WrittenGet
  <2>5. MCPFile'
    BY <1>1, <1>6, <2>4 DEF MCPFile
  <2>6. /\ pc' # <<"shaide", "up">> /\ pc' # <<"shaide", "account">>
        /\ pc' # <<"gateway", "up">> /\ pc' # <<"monitoring", "up">> /\ pc' \notin MCPDeployed
    BY <1>6, SMT DEF MCPDeployed, Done
  <2>7. ShaideFile' /\ GatewayFile' /\ ClassKept' /\ MCPLive'
    BY <2>6 DEF ShaideFile, GatewayFile, ClassKept, MCPLive, At
  <2>8. ShaideLive'
    BY <1>1, <1>3, <1>6 DEF IndInv, ShaideLive
  <2>9. AccountLive'
    BY <1>1, <1>3, <1>6, <2>6 DEF IndInv, AccountLive, At
  <2> QED BY <1>2, <2>2, <2>3, <2>5, <2>7, <2>8, <2>9 DEF IndInv
<1>7. CASE \E values :
              /\ files' = [files EXCEPT !["mcp"] = Written(files["mcp"], values)]
              /\ pc' = <<"mcp", "up">> /\ rt' = rt
              /\ "knowledgeCenterEnabled" \in DOMAIN values
              /\ values["knowledgeCenterEnabled"] = "true"
              /\ \A k \in MCPKeys : k \in DOMAIN values /\ values[k] = rt.credentials[k]
  BY <1>6, <1>7, Zenon
<1> QED BY <1>4, <1>5, <1>7, MCPConfigured, Zenon

\* app-mcp comes up with the credentials of its file, or is removed.
LEMMA MCPInv ==
  ASSUME IndInv, UpMCP \/ removeAppMCP
  PROVE  IndInv'
<1> DEFINE mcp == IF rt.kc THEN [k \in MCPKeys |-> rt.credentials[k]] ELSE None
<1>1. /\ UNCHANGED <<site, files, gen, edits>>
      /\ pc \in {<<"mcp", "configure">>, <<"mcp", "up">>}
      /\ live' = live \/ \E m : live' = [live EXCEPT !.mcp = m]
      /\ \/ StepFails("mcp")
         \/ /\ live' = [live EXCEPT !.mcp = mcp] /\ rt' = rt
            /\ pc' = <<"monitoring", "configure">>
  <2>1. CASE UpMCP
    <3>1. rt.kc /\ loadMCP(files["mcp"]).kc = mcp
      BY <2>1 DEF UpMCP, IndInv, MCPFile, loadMCP
    <3> QED BY <2>1, <3>1 DEF UpMCP, Goto, NextStep, At
  <2>2. CASE removeAppMCP
    BY <2>2 DEF removeAppMCP, Goto, NextStep, At
  <2> QED BY <2>1, <2>2
<1> HIDE DEF mcp
<1>2. /\ DOMAIN live' = DOMAIN live /\ live'.pvc = live.pvc /\ live'.gateway = live.gateway
      /\ live'.shaide = live.shaide /\ live'.account = live.account
  BY <1>1 DEF IndInv, TypeOK
<1>3. GatewayLive' /\ NoAbsentClass' /\ ClaimsNamed'
  BY <1>1, <1>2 DEF IndInv, GatewayLive, NoAbsentClass, ClaimsNamed, gatewayClasses, platform
<1>4. pc \in AccountReady /\ pc \in ShaideDeployed
  BY <1>1, SMT DEF AccountReady, ShaideDeployed
<1>5. CASE StepFails("mcp")
  <2>1. TypeOK'
    BY <1>1, <1>2, <1>5, FailsTyped, StackNamed DEF IndInv, TypeOK
  <2>2. "mcp" # "monitoring"
    BY SMT
  <2> QED BY <1>2, <1>3, <1>4, <1>5, <2>1, <2>2, LateFails
<1>6. CASE /\ live' = [live EXCEPT !.mcp = mcp] /\ rt' = rt
           /\ pc' = <<"monitoring", "configure">>
  <2>1. TypeOK'
    BY <1>1, <1>2, <1>6, StackNamed DEF IndInv, TypeOK
  <2>2. live'.mcp = mcp
    BY <1>6 DEF IndInv, TypeOK
  <2>3. /\ pc' # <<"shaide", "up">> /\ pc' # <<"shaide", "account">> /\ pc' # <<"mcp", "up">>
        /\ pc' # <<"gateway", "up">> /\ pc' # <<"monitoring", "up">>
    BY <1>6, SMT
  <2>4. ShaideFile' /\ MCPFile' /\ GatewayFile' /\ ClassKept'
    BY <2>3 DEF ShaideFile, MCPFile, GatewayFile, ClassKept, At
  <2>5. ShaideLive'
    BY <1>2, <1>4, <1>6 DEF IndInv, ShaideLive
  <2>6. AccountLive'
    BY <1>2, <1>4, <1>6, <2>3 DEF IndInv, AccountLive, At
  <2>7. MCPLive'
    BY <1>6, <2>2 DEF MCPLive, mcp
  <2> QED BY <1>3, <2>1, <2>4, <2>5, <2>6, <2>7 DEF IndInv
<1> QED BY <1>1, <1>5, <1>6

\* What the program reads for a claim.
LEMMA ClaimReads ==
  /\ ClaimClass("loki") =
       OrElse(Get(files["monitoring"], "lokiStorageClass"), ClusterDefault)
  /\ ClaimClass("prometheus") =
       OrElse(Get(files["monitoring"], "prometheusStorageClass"), ClusterDefault)
<1>1. "prometheus" # "loki"
  BY SMT
<1> QED BY <1>1 DEF ClaimClass, loadMonitoring

\* Writing the monitoring file asks every claim there is for its own class.
LEMMA ConfigureMonitoringInv ==
  ASSUME IndInv, NEW selected, ConfigureMonitoring(selected)
  PROVE  IndInv'
<1>1. UNCHANGED <<site, live, gen, edits>> /\ pc = <<"monitoring", "configure">>
  BY DEF ConfigureMonitoring, At
<1>2. GatewayLive' /\ ClaimsNamed'
  BY <1>1 DEF IndInv, GatewayLive, ClaimsNamed, gatewayClasses, platform
<1>3. pc \in AccountReady /\ pc \in ShaideDeployed /\ pc \in MCPDeployed
  BY <1>1, SMT DEF AccountReady, ShaideDeployed, MCPDeployed
<1>4. TypeOK /\ ClaimsNamed
  BY DEF IndInv
<1>5. CASE files' = files /\ StepFails("monitoring")
  <2>1. TypeOK' /\ NoAbsentClass'
    BY <1>1, <1>5, FailsTyped, StackNamed DEF IndInv, TypeOK, NoAbsentClass
  <2> QED BY <1>1, <1>2, <1>3, <1>5, <2>1, LateFails
<1>6. ASSUME NEW values,
             files' = [files EXCEPT !["monitoring"] = Written(files["monitoring"], values)],
             pc' = <<"monitoring", "up">>,
             rt' = [rt EXCEPT !.class = selected],
             \A k \in StorageKeys \cap DOMAIN values : values[k] # Absent,
             Claimed("loki") => /\ "lokiStorageClass" \in DOMAIN values
                                /\ values["lokiStorageClass"] = live.pvc["loki"],
             Claimed("prometheus") =>
               /\ "prometheusStorageClass" \in DOMAIN values
               /\ values["prometheusStorageClass"] = live.pvc["prometheus"]
      PROVE  IndInv'
  <2> DEFINE file == files'["monitoring"]
  <2>1. /\ DOMAIN files' = StackNames /\ file = Written(files["monitoring"], values)
        /\ files'["shaide"] = files["shaide"]
    BY <1>6, StackNamed DEF IndInv, TypeOK
  <2>2. /\ DOMAIN rt' = DOMAIN FreshRuntime /\ rt'.kc = rt.kc /\ rt'.accepted = rt.accepted
        /\ rt'.credentials = rt.credentials
    BY <1>6, FreshTyped DEF IndInv, TypeOK
  <2>3. TypeOK'
    BY <1>1, <1>6, <2>1, <2>2, StackNamed DEF IndInv, TypeOK
  <2>4. NoAbsentClass'
    BY <1>6, <2>1, WrittenGet DEF IndInv, NoAbsentClass
  <2>5. \A c \in Claims : live.pvc[c] # None => live.pvc[c] # Empty
    BY <1>4 DEF ClaimsNamed
  <2>6. /\ live.pvc["loki"] # None => Get(file, "lokiStorageClass") = live.pvc["loki"]
        /\ live.pvc["prometheus"] # None =>
             Get(file, "prometheusStorageClass") = live.pvc["prometheus"]
    BY <1>6, <2>1, WrittenGet DEF Claimed
  <2> HIDE DEF file
  <2>7. /\ ClaimClass("loki")' = OrElse(Get(file, "lokiStorageClass"), ClusterDefault)
        /\ ClaimClass("prometheus")' =
             OrElse(Get(file, "prometheusStorageClass"), ClusterDefault)
    <3>1. "prometheus" # "loki"
      BY SMT
    <3> QED BY <3>1 DEF ClaimClass, loadMonitoring, file
  <2>8. \A c \in Claims : live.pvc[c] # None => ClaimClass(c)' = live.pvc[c]
    <3>1. live.pvc["loki"] # None => ClaimClass("loki")' = live.pvc["loki"]
      BY <2>5, <2>6, <2>7 DEF OrElse, Claims
    <3>2. live.pvc["prometheus"] # None => ClaimClass("prometheus")' = live.pvc["prometheus"]
      BY <2>5, <2>6, <2>7 DEF OrElse, Claims
    <3> QED BY <3>1, <3>2 DEF Claims
  <2>9. ClassKept'
    BY <1>1, <2>8 DEF ClassKept
  <2>10. /\ pc' # <<"shaide", "up">> /\ pc' # <<"shaide", "account">>
         /\ pc' # <<"mcp", "up">> /\ pc' # <<"gateway", "up">>
    BY <1>6, SMT
  <2>11. ShaideFile' /\ MCPFile' /\ GatewayFile'
    BY <2>10 DEF ShaideFile, MCPFile, GatewayFile, At
  <2>12. ShaideLive'
    BY <1>1, <1>3, <2>2 DEF IndInv, ShaideLive
  <2>13. AccountLive'
    BY <1>1, <1>3, <2>2, <2>10 DEF IndInv, AccountLive, At
  <2>14. MCPLive'
    BY <1>1, <1>3, <2>2 DEF IndInv, MCPLive
  <2> QED BY <1>2, <2>3, <2>4, <2>9, <2>11, <2>12, <2>13, <2>14 DEF IndInv
<1>7. CASE \E values :
              /\ files' = [files EXCEPT !["monitoring"] = Written(files["monitoring"], values)]
              /\ pc' = <<"monitoring", "up">>
              /\ rt' = [rt EXCEPT !.class = selected]
              /\ \A k \in StorageKeys \cap DOMAIN values : values[k] # Absent
              /\ Claimed("loki") => /\ "lokiStorageClass" \in DOMAIN values
                                    /\ values["lokiStorageClass"] = live.pvc["loki"]
              /\ Claimed("prometheus") =>
                   /\ "prometheusStorageClass" \in DOMAIN values
                   /\ values["prometheusStorageClass"] = live.pvc["prometheus"]
  BY <1>6, <1>7, Zenon
<1> QED BY <1>4, <1>5, <1>7, MonitoringConfigured, Zenon

\* The claims are created with a class that has a name, and one that is there
\* keeps its own.
LEMMA UpMonitoringInv ==
  ASSUME IndInv, UpMonitoring
  PROVE  IndInv'
<1> DEFINE created(claims) ==
             [c \in Claims |-> IF ~Claimed(c) /\ c \in claims /\ ClaimClass(c) # Blank
                               THEN ClaimClass(c) ELSE live.pvc[c]]
<1>1. PICK claims :
        /\ UNCHANGED <<site, files, gen, edits>> /\ pc = <<"monitoring", "up">>
        /\ live' = [live EXCEPT !.pvc = created(claims)]
        /\ StepFails("monitoring") \/ (pc' = Done /\ rt' = rt)
  BY DEF UpMonitoring, At
<1>2. /\ DOMAIN live' = DOMAIN live /\ live'.gateway = live.gateway
      /\ live'.shaide = live.shaide /\ live'.account = live.account /\ live'.mcp = live.mcp
      /\ live'.pvc = created(claims)
  BY <1>1 DEF IndInv, TypeOK
<1>3. DOMAIN live'.pvc = Claims
  BY <1>2
<1>4. \A c \in Claims : ClaimClass(c) \notin {Empty, Absent}
  <2>1. \A k \in StorageKeys :
          OrElse(Get(files["monitoring"], k), ClusterDefault) \notin {Empty, Absent}
    BY StacksAssumption DEF OrElse, IndInv, NoAbsentClass
  <2> QED BY <2>1, ClaimReads DEF Claims, StorageKeys
<1>5. ClaimsNamed'
  <2>1. ASSUME NEW c \in Claims
        PROVE  created(claims)[c] = None \/ created(claims)[c] \notin {Empty, Blank, Absent}
    <3>1. live.pvc[c] = None \/ live.pvc[c] \notin {Empty, Blank, Absent}
      BY DEF IndInv, ClaimsNamed
    <3>2. \/ created(claims)[c] = live.pvc[c]
          \/ created(claims)[c] = ClaimClass(c) /\ ClaimClass(c) # Blank
      OBVIOUS
    <3> HIDE DEF created
    <3> QED BY <1>4, <3>1, <3>2
  <2> QED BY <1>2, <2>1 DEF ClaimsNamed
<1> HIDE DEF created
<1>6. GatewayLive' /\ NoAbsentClass'
  BY <1>1, <1>2 DEF IndInv, GatewayLive, NoAbsentClass, gatewayClasses, platform
<1>7. pc \in AccountReady /\ pc \in ShaideDeployed /\ pc \in MCPDeployed
  BY <1>1, SMT DEF AccountReady, ShaideDeployed, MCPDeployed
<1>8. CASE StepFails("monitoring")
  <2>1. TypeOK'
    BY <1>1, <1>2, <1>3, <1>8, FailsTyped, StackNamed DEF IndInv, TypeOK
  <2> QED BY <1>2, <1>5, <1>6, <1>7, <1>8, <2>1, LateFails
<1>9. CASE pc' = Done /\ rt' = rt
  <2>1. TypeOK'
    BY <1>1, <1>2, <1>3, <1>9, StackNamed DEF IndInv, TypeOK
  <2>2. /\ pc' # <<"shaide", "up">> /\ pc' # <<"shaide", "account">> /\ pc' # <<"mcp", "up">>
        /\ pc' # <<"gateway", "up">> /\ pc' # <<"monitoring", "up">>
    BY <1>9, SMT DEF Done
  <2>3. ShaideFile' /\ MCPFile' /\ GatewayFile' /\ ClassKept'
    BY <2>2 DEF ShaideFile, MCPFile, GatewayFile, ClassKept, At
  <2>4. ShaideLive'
    BY <1>2, <1>7, <1>9 DEF IndInv, ShaideLive
  <2>5. AccountLive'
    BY <1>2, <1>7, <1>9, <2>2 DEF IndInv, AccountLive, At
  <2>6. MCPLive'
    BY <1>2, <1>7, <1>9 DEF IndInv, MCPLive
  <2> QED BY <1>5, <1>6, <2>1, <2>3, <2>4, <2>5, <2>6 DEF IndInv
<1> QED BY <1>1, <1>8, <1>9

\* The invariant holds before the first run.
LEMMA InitInv == Init => IndInv
<1> SUFFICES ASSUME Init PROVE IndInv
  OBVIOUS
<1>1. TypeOK
  <2>1. DOMAIN files["shaide"] = {}
    BY StackNamed DEF Init
  <2>2. /\ DOMAIN live = {"harbor", "gateway", "shaide", "mcp", "account", "pvc"}
        /\ DOMAIN live.pvc = Claims
    BY DEF Init
  <2>3. gen \in 0 .. Len(Generated) /\ edits \in 0 .. MaxEdits
    BY StacksAssumption DEF Init
  <2> QED BY <2>1, <2>2, <2>3, FreshTyped, StackNamed DEF Init, TypeOK
<1>2. GatewayLive /\ ClaimsNamed
  BY DEF Init, GatewayLive, ClaimsNamed
<1>3. NoAbsentClass
  <2>1. files["monitoring"] = <<>>
    BY StackNamed DEF Init
  <2>2. Empty # Absent
    BY SMT DEF Empty, Absent
  <2> QED BY <2>1, <2>2 DEF NoAbsentClass, Get
<1>4. /\ pc # <<"shaide", "up">> /\ pc # <<"shaide", "account">> /\ pc # <<"mcp", "up">>
      /\ pc # <<"gateway", "up">> /\ pc # <<"monitoring", "up">>
      /\ pc \notin ShaideDeployed
  BY SMT DEF Init, Idle, Done, ShaideDeployed
<1>5. AccountReady \subseteq ShaideDeployed /\ MCPDeployed \subseteq ShaideDeployed
  BY DEF AccountReady, MCPDeployed, ShaideDeployed
<1>6. ShaideFile /\ ShaideLive /\ AccountLive /\ MCPFile /\ MCPLive /\ GatewayFile /\ ClassKept
  BY <1>4, <1>5
     DEF ShaideFile, ShaideLive, AccountLive, MCPFile, MCPLive, GatewayFile, ClassKept, At
<1> QED BY <1>1, <1>2, <1>3, <1>6 DEF IndInv

\* Every step of a run, a hand edit and a crash preserve the invariant.
LEMMA StepInv == IndInv /\ [Next]_vars => IndInv'
<1> SUFFICES ASSUME IndInv, [Next]_vars PROVE IndInv'
  OBVIOUS
<1>1. CASE \E answer \in site.select : Start(answer[1], answer[2])
  BY <1>1, StartInv
<1>2. CASE Crash
  BY <1>2, CrashInv
<1>3. CASE \E edit \in site.edits : HandEdit(edit[1], edit[2], edit[3])
  BY <1>3, HandEditInv
<1>4. CASE \/ \E password, node \in {Empty, "answer"} : ConfigureHarbor(password, node)
           \/ UpHarbor
  BY <1>4, HarborInv
<1>5. CASE \E choice \in gatewayOptions(site.choose), hostname \in site.hostnames :
             ConfigureGateway(choice, hostname)
  BY <1>5, ConfigureGatewayInv
<1>6. CASE UpGateway
  BY <1>6, UpGatewayInv
<1>7. CASE \E secret \in {Empty, "answer"} : ConfigureShaide(secret)
  BY <1>7, ConfigureShaideInv
<1>8. CASE UpShaide
  BY <1>8, UpShaideInv
<1>9. CASE ensureAccount
  BY <1>9, AccountInv
<1>10. CASE ConfigureMCP
  BY <1>10, ConfigureMCPInv
<1>11. CASE UpMCP \/ removeAppMCP
  BY <1>11, MCPInv
<1>12. CASE \E selected \in promptStorageClass : ConfigureMonitoring(selected)
  BY <1>12, ConfigureMonitoringInv
<1>13. CASE UpMonitoring
  BY <1>13, UpMonitoringInv
<1>14. CASE UNCHANGED vars
  <2>1. TypeOK' /\ GatewayLive' /\ GatewayFile' /\ NoAbsentClass' /\ ClaimsNamed'
    BY <1>14 DEF vars, IndInv, TypeOK, GatewayLive, GatewayFile, NoAbsentClass, ClaimsNamed,
                 gatewayClasses, platform, At
  <2>2. ShaideFile' /\ ShaideLive' /\ AccountLive' /\ MCPFile' /\ MCPLive'
    BY <1>14 DEF vars, IndInv, ShaideFile, ShaideLive, AccountLive, MCPFile, MCPLive, At
  <2>3. ClassKept'
    BY <1>14 DEF vars, IndInv, ClassKept, ClaimClass
  <2> QED BY <2>1, <2>2, <2>3 DEF IndInv
<1> QED BY <1>1, <1>2, <1>3, <1>4, <1>5, <1>6, <1>7, <1>8, <1>9, <1>10, <1>11, <1>12,
           <1>13, <1>14 DEF Next

\* The inductive invariant holds in every reachable state.
THEOREM Invariance == Spec => []IndInv
  BY InitInv, StepInv, PTL DEF Spec

-----------------------------------------------------------------------------
(* What the invariant says of the system                                   *)

\* The files, what runs, the answers of this run and its step keep their types.
THEOREM TypeCorrect == Spec => []TypeOK
  BY Invariance, PTL DEF IndInv

\* A completed run with the Knowledge Center leaves one set of credentials in
\* shaide-server, KC-MCP and the embedding account.
THEOREM OneSetOfCredentials == Spec => []CredentialsAgree
<1>1. IndInv => CredentialsAgree
  <2> SUFFICES ASSUME IndInv, pc = Done, rt.kc
               PROVE  /\ live.shaide.kc # <<>>
                      /\ live.mcp # None
                      /\ \A k \in MCPKeys : live.mcp[k] = live.shaide.kc[k]
                      /\ live.account = live.shaide.kc["kcEmbeddingPassword"]
                      /\ live.shaide.kc["kcContextSigningKey"] = live.mcp["kcContextPublicKey"]
    BY DEF CredentialsAgree
  <2>1. pc \in ShaideDeployed /\ pc \in AccountReady /\ pc \in MCPDeployed
    BY SMT DEF ShaideDeployed, AccountReady, MCPDeployed, Done
  <2>2. /\ rt.credentials \in Credentials /\ live.shaide.kc = rt.credentials
        /\ live.account = rt.credentials["kcEmbeddingPassword"]
        /\ live.mcp = [k \in MCPKeys |-> rt.credentials[k]]
    BY <2>1 DEF IndInv, ShaideLive, AccountLive, MCPLive
  <2>3. MCPKeys \subseteq KCKeys /\ "kcContextPublicKey" \in MCPKeys
        /\ "kcEmbeddingPassword" \in KCKeys
    BY DEF MCPKeys, KCKeys, KCTokens, KCKeyPair
  <2>4. /\ DOMAIN rt.credentials = KCKeys /\ \A k \in KCKeys : rt.credentials[k] \in STRING
        /\ rt.credentials["kcContextSigningKey"] = rt.credentials["kcContextPublicKey"]
    BY <2>2 DEF Credentials
  <2>5. live.shaide.kc # <<>>
    <3>1. DOMAIN <<>> = {}
      OBVIOUS
    <3> QED BY <2>2, <2>3, <2>4, <3>1
  <2>6. live.mcp # None
    <3>1. [k \in MCPKeys |-> rt.credentials[k]] \in [MCPKeys -> STRING]
      BY <2>3, <2>4
    <3> QED BY <2>2, <3>1, StacksAssumption
  <2> QED BY <2>2, <2>3, <2>4, <2>5, <2>6
<1> QED BY <1>1, Invariance, PTL

\* A completed run that declined the Knowledge Center leaves no KC-MCP behind.
THEOREM DeclinedIsRemoved == Spec => []NoStrayKCMCP
<1>1. IndInv => NoStrayKCMCP
  <2> SUFFICES ASSUME IndInv, pc = Done, ~rt.kc
               PROVE  live.mcp = None /\ live.shaide.kc = <<>>
    BY DEF NoStrayKCMCP
  <2>1. pc \in ShaideDeployed /\ pc \in MCPDeployed
    BY DEF ShaideDeployed, MCPDeployed
  <2> QED BY <2>1 DEF IndInv, ShaideLive, MCPLive
<1> QED BY <1>1, Invariance, PTL

\* The Gateway has an association exactly when its class needs one.
THEOREM AssociationStays == Spec => []AssociationKept
<1>1. IndInv => AssociationKept
  BY DEF IndInv, GatewayLive, AssociationKept
<1> QED BY <1>1, Invariance, PTL

\* No update asks a claim for another StorageClass than its own.
THEOREM ClaimsKeepTheirClass == Spec => []ClassKept
  BY Invariance, PTL DEF IndInv

\* Writing the file of another stack leaves app-shaide's alone.
LEMMA OtherFile ==
  ASSUME NEW stack, stack # "shaide", NEW resolved, NEW runtime, TypeOK,
         Write(stack, resolved, runtime)
  PROVE  files'["shaide"] = files["shaide"]
  BY StackNamed DEF Write, TypeOK

\* The steps that do not configure app-shaide, and no operator's edit, leave
\* its file alone.
LEMMA ShaideFileOwned ==
  ASSUME TypeOK, [Next]_vars, edits' = edits
  PROVE  \/ files'["shaide"] = files["shaide"]
         \/ \E secret : ConfigureShaide(secret)
<1>1. /\ "harbor" # "shaide" /\ "gateway" # "shaide" /\ "mcp" # "shaide"
      /\ "monitoring" # "shaide"
  BY SMT
<1>2. ASSUME NEW password, NEW node, ConfigureHarbor(password, node)
      PROVE  files'["shaide"] = files["shaide"]
  BY <1>1, <1>2, OtherFile DEF ConfigureHarbor
<1>3. ASSUME NEW choice, NEW hostname, ConfigureGateway(choice, hostname)
      PROVE  files'["shaide"] = files["shaide"]
  BY <1>1, <1>3, OtherFile DEF ConfigureGateway
<1>4. ASSUME ConfigureMCP PROVE files'["shaide"] = files["shaide"]
  BY <1>1, <1>4, OtherFile DEF ConfigureMCP
<1>5. ASSUME NEW selected, ConfigureMonitoring(selected)
      PROVE  files'["shaide"] = files["shaide"]
  BY <1>1, <1>5, OtherFile DEF ConfigureMonitoring
<1>6. ASSUME NEW stack, NEW key, NEW value, HandEdit(stack, key, value)
      PROVE  FALSE
  BY <1>6 DEF HandEdit, TypeOK
<1>7. ASSUME NEW webapp, NEW kc, Start(webapp, kc) PROVE files' = files
  BY <1>7 DEF Start
<1>8. ASSUME Crash \/ UpHarbor \/ UpGateway \/ UpShaide \/ ensureAccount \/ UpMCP
               \/ removeAppMCP \/ UpMonitoring
      PROVE  files' = files
  BY <1>8 DEF Crash, UpHarbor, UpGateway, UpShaide, ensureAccount, UpMCP, removeAppMCP,
              UpMonitoring
<1>9. CASE UNCHANGED vars
  BY <1>9 DEF vars
<1>10. CASE Next
  BY <1>2, <1>3, <1>4, <1>5, <1>6, <1>7, <1>8, <1>10 DEF Next
<1> QED BY <1>9, <1>10

\* No step but an operator's edit replaces a token that is stored.
THEOREM TokensAreKept == Spec => CredentialsKept
<1> DEFINE Kept == edits' = edits =>
             \A k \in KCTokens : Get(files["shaide"], k) # Empty =>
               Get(files'["shaide"], k) = Get(files["shaide"], k)
<1>1. ASSUME IndInv, [Next]_vars PROVE Kept
  <2> SUFFICES ASSUME edits' = edits, NEW k \in KCTokens, Get(files["shaide"], k) # Empty
               PROVE  Get(files'["shaide"], k) = Get(files["shaide"], k)
    OBVIOUS
  <2>1. TypeOK /\ rt.kc \in BOOLEAN
    BY <1>1 DEF IndInv, TypeOK
  <2>2. ASSUME NEW secret, ConfigureShaide(secret)
        PROVE  Get(files'["shaide"], k) = Get(files["shaide"], k)
    <3>1. CASE files' = files
      BY <3>1
    <3>2. CASE ShaideFileWritten
      <4>1. PICK values, creds :
              /\ files' = [files EXCEPT !["shaide"] = Written(files["shaide"], values)]
              /\ retained[k] # Empty => creds[k] = retained[k]
              /\ rt.kc => \A l \in KCKeys : l \in DOMAIN values /\ values[l] = creds[l]
              /\ ~rt.kc => \A l \in KCKeys : l \notin DOMAIN values
        BY <3>2 DEF ShaideFileWritten
      <4>2. k \in KCKeys
        BY DEF KCKeys
      <4>3. files'["shaide"] = Written(files["shaide"], values)
        BY <2>1, <4>1, StackNamed DEF TypeOK
      <4>4. retained[k] = Get(files["shaide"], k)
        BY <4>2 DEF retained
      <4> QED BY <2>1, <4>1, <4>2, <4>3, <4>4, WrittenGet
    <3> QED BY <2>1, <2>2, <3>1, <3>2, ShaideConfigured, Zenon
  <2> QED BY <1>1, <2>1, <2>2, ShaideFileOwned, Zenon
<1>2. IndInv /\ [Next]_vars => [Kept]_vars
  BY <1>1
<1> QED BY <1>2, Invariance, PTL DEF Spec, CredentialsKept

\* Only the program of the Gateway stack leads from it to app-shaide.
LEMMA GatewayLeaves ==
  ASSUME [Next]_vars, pc = <<"gateway", "up">>, pc' = <<"shaide", "configure">>
  PROVE  UpGateway
<1>1. /\ pc \notin {Idle, Done, <<"harbor", "configure">>, <<"harbor", "up">>,
                    <<"gateway", "configure">>, <<"shaide", "configure">>, <<"shaide", "up">>,
                    <<"shaide", "account">>, <<"mcp", "configure">>, <<"mcp", "up">>,
                    <<"monitoring", "configure">>, <<"monitoring", "up">>}
      /\ pc' # Idle /\ pc' # pc
  BY SMT DEF Idle, Done
<1>2. ~UNCHANGED vars
  BY <1>1 DEF vars
<1>3. \A webapp, kc : ~Start(webapp, kc)
  BY <1>1 DEF Start
<1>4. ~Crash /\ \A stack, key, value : ~HandEdit(stack, key, value)
  BY <1>1 DEF Crash, HandEdit
<1>5. (\A password, node : ~ConfigureHarbor(password, node)) /\ ~UpHarbor
  BY <1>1 DEF ConfigureHarbor, UpHarbor, At
<1>6. \A choice, hostname : ~ConfigureGateway(choice, hostname)
  BY <1>1 DEF ConfigureGateway, At
<1>7. (\A secret : ~ConfigureShaide(secret)) /\ ~UpShaide /\ ~ensureAccount
  BY <1>1 DEF ConfigureShaide, UpShaide, ensureAccount, At
<1>8. ~ConfigureMCP /\ ~UpMCP /\ ~removeAppMCP
  BY <1>1 DEF ConfigureMCP, UpMCP, removeAppMCP, At
<1>9. (\A selected : ~ConfigureMonitoring(selected)) /\ ~UpMonitoring
  BY <1>1 DEF ConfigureMonitoring, UpMonitoring, At
<1> QED BY <1>2, <1>3, <1>4, <1>5, <1>6, <1>7, <1>8, <1>9 DEF Next

\* An update whose operator accepted what was pre-selected keeps the class, the
\* issuer and the association of a Gateway whose class and issuer were on offer
\* (gatewayClassChoice, issuerChoice, discoverALB), whatever each look-up found.
THEOREM AcceptedGatewayKept == Spec => AcceptingOfferedKeeps
<1> DEFINE Kept == Updates /\ rt.accepted = "offered" => GatewayKept
<1>1. ASSUME IndInv, [Next]_vars PROVE Kept
  <2> SUFFICES ASSUME pc = <<"gateway", "up">>, pc' = <<"shaide", "configure">>, rt.accepted = "offered",
                      live.gateway # None, live'.gateway # None
               PROVE  /\ live'.gateway.class = live.gateway.class
                      /\ live'.gateway.issuer = live.gateway.issuer
                      /\ live'.gateway.subnet = live.gateway.subnet
    BY DEF Updates, GatewayKept, At, Goto
  <2> DEFINE gateway == DeployedGateway(loadGateway(files["gateway"]))
             file == files["gateway"]
  <2>1. UpGateway
    BY <1>1, GatewayLeaves
  <2>2. live' = [live EXCEPT !.gateway = gateway]
    <3>1. ~StepFails("gateway")
      <4>1. pc' # Idle /\ pc' # <<"gateway", "configure">>
        BY SMT DEF Idle
      <4> QED BY <4>1 DEF StepFails, Goto
    <3> QED BY <2>1, <3>1 DEF UpGateway
  <2>3. live'.gateway = gateway
    BY <1>1, <2>2 DEF IndInv, TypeOK
  <2> HIDE DEF gateway
  <2>4. TypeOK /\ GatewayFile /\ GatewayLive /\ At("gateway", "up")
    BY <1>1 DEF IndInv, At
  <2>5. /\ gateway.class = Get(file, "gatewayClassName")
        /\ gateway.issuer = Get(file, "certManagerIssuer")
        /\ gateway.class = AGC => gateway.subnet = Get(file, "albSubnetId")
        /\ gateway.class # AGC => gateway.subnet = Empty
    BY <2>3, <2>4, GatewayDeployed DEF gateway
  <2>6. /\ Get(file, "gatewayClassName") = live.gateway.class
        /\ Get(file, "certManagerIssuer") = live.gateway.issuer
        /\ live.gateway.class = AGC => Get(file, "albSubnetId") = live.gateway.subnet
    BY <2>4 DEF GatewayFile
  <2>7. live.gateway.class # AGC => live.gateway.subnet = Empty
    BY <2>4 DEF GatewayLive
  <2> QED BY <2>3, <2>5, <2>6, <2>7
<1>2. IndInv /\ [Next]_vars => [Kept]_vars
  BY <1>1
<1> QED BY <1>2, Invariance, PTL DEF Spec, AcceptingOfferedKeeps
=============================================================================
