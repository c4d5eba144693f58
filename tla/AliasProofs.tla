----------------------------- MODULE AliasProofs -----------------------------
(***************************************************************************)
(* Lemmas about the alias algebra: what in_subtree and rewrite_alias do to *)
(* paths of any length, and induction along a path.                        *)
(***************************************************************************)
EXTENDS Aliases, SequenceTheorems, WellFoundedInduction, TLAPS

-----------------------------------------------------------------------------
(* Induction over the naturals, by a least counterexample *)

NatOrder == {ss \in Nat \X Nat : ss[1] < ss[2]}

\* A non-empty set of naturals has a least element.
LEMMA LeastNumber ==
    ASSUME NEW T \in SUBSET Nat, T # {}
    PROVE  \E x \in T : \A y \in T : x <= y
<1>1. IsWellFoundedOn(NatOrder, Nat)
  BY NatLessThanWellFounded DEF OpToRel, NatOrder
<1>2. \E x \in T : \A y \in T : <<y, x>> \notin NatOrder
  BY <1>1, WFMin, Zenon
<1>3. \A x, y \in Nat : <<y, x>> \notin NatOrder => x <= y
  BY DEF NatOrder
<1> QED
  BY <1>2, <1>3

\* A set of naturals with n that has k when it has k + 1, down to m, has all
\* of m..n.
LEMMA DownwardInduction ==
    ASSUME NEW m \in Nat, NEW n \in Nat, NEW S,
           n \in S, \A k \in m..n : k + 1 \in S => k \in S
    PROVE  \A k \in m..n : k \in S
<1> SUFFICES ASSUME NEW j \in m..n, j \notin S PROVE FALSE
  OBVIOUS
<1> DEFINE T == {d \in 0..(n - m) : n - d \notin S}
<1>1. T \in SUBSET Nat /\ n - j \in T
  OBVIOUS
<1>2. PICK d \in T : \A e \in T : d <= e
  BY <1>1, LeastNumber
<1>3. d # 0
  BY <1>2
<1>4. d - 1 \notin T /\ d - 1 \in 0..(n - m)
  BY <1>2, <1>3
<1>5. n - (d - 1) \in S /\ n - d \in m..n /\ n - (d - 1) = (n - d) + 1
  BY <1>4
<1> QED
  BY <1>2, <1>5

-----------------------------------------------------------------------------
(* in_subtree *)

\* A path is in a subtree when it agrees with the root's path word by word.
LEMMA SubtreeByWords ==
    ASSUME NEW alias \in Alias, NEW prefix \in Alias
    PROVE  in_subtree(alias, prefix) <=>
                /\ Len(prefix) <= Len(alias)
                /\ \A i \in 1..Len(prefix) : alias[i] = prefix[i]
<1> SUFFICES ASSUME Len(prefix) <= Len(alias)
             PROVE  SubSeq(alias, 1, Len(prefix)) = prefix <=>
                        \A i \in 1..Len(prefix) : alias[i] = prefix[i]
  BY DEF in_subtree
<1> DEFINE s == SubSeq(alias, 1, Len(prefix))
<1>1. Len(prefix) \in Nat /\ Len(alias) \in Nat /\ \A i \in 1..Len(prefix) : alias[i] \in Word
  BY DEF Alias
<1>2. /\ s \in Seq(Word) /\ Len(s) = Len(prefix)
      /\ \A i \in 1..Len(prefix) : s[i] = alias[i]
  BY <1>1 DEF Alias
<1> HIDE DEF s
<1>3. s = prefix <=> \A i \in 1..Len(prefix) : s[i] = prefix[i]
  BY <1>2, SeqEqual DEF Alias
<1> QED
  BY <1>2, <1>3 DEF s

\* Subtrees nest: the subtree of a path in a subtree is part of it.
LEMMA SubtreeTransitive ==
    ASSUME NEW a \in Alias, NEW b \in Alias, NEW c \in Alias,
           in_subtree(a, b), in_subtree(b, c)
    PROVE  in_subtree(a, c)
<1>1. Len(a) \in Nat /\ Len(b) \in Nat /\ Len(c) \in Nat
  BY DEF Alias
<1> QED
  BY <1>1, SubtreeByWords

\* Two subtrees overlap only when one root is in the other's subtree.
LEMMA SubtreesNest ==
    ASSUME NEW a \in Alias, NEW b \in Alias, NEW c \in Alias,
           in_subtree(a, b), in_subtree(a, c)
    PROVE  in_subtree(b, c) \/ in_subtree(c, b)
<1>1. Len(a) \in Nat /\ Len(b) \in Nat /\ Len(c) \in Nat
  BY DEF Alias
<1> QED
  BY <1>1, SubtreeByWords

\* A path is in its own subtree, and no longer path has it in its own.
LEMMA SubtreeOwn ==
    ASSUME NEW a \in Alias
    PROVE  /\ in_subtree(a, a)
           /\ \A b \in Alias : in_subtree(a, b) /\ in_subtree(b, a) => a = b
<1>1. in_subtree(a, a)
  BY SubtreeByWords DEF Alias
<1>2. ASSUME NEW b \in Alias, in_subtree(a, b), in_subtree(b, a) PROVE a = b
  <2>1. Len(a) \in Nat /\ Len(b) \in Nat /\ Len(a) = Len(b)
    <3>1. Len(a) \in Nat /\ Len(b) \in Nat
      BY DEF Alias
    <3>2. Len(a) <= Len(b) /\ Len(b) <= Len(a)
      BY <1>2 DEF in_subtree
    <3> QED
      BY <3>1, <3>2
  <2>2. \A i \in 1..Len(a) : a[i] = b[i]
    BY <1>2, <2>1, SubtreeByWords
  <2> QED
    BY <2>1, <2>2, SeqEqual DEF Alias
<1> QED
  BY <1>1, <1>2

\* The prefix of k words: a path, with the path in its subtree; the prefix of
\* k words is the parent of the prefix of k + 1.
LEMMA PrefixFacts ==
    ASSUME NEW alias \in Alias, NEW k \in 1..Len(alias)
    PROVE  /\ SubSeq(alias, 1, k) \in Alias /\ Len(SubSeq(alias, 1, k)) = k
           /\ in_subtree(alias, SubSeq(alias, 1, k))
           /\ k = Len(alias) => SubSeq(alias, 1, k) = alias
           /\ k < Len(alias) => parent_alias(SubSeq(alias, 1, k + 1)) = SubSeq(alias, 1, k)
<1>1. Len(alias) \in Nat /\ \A i \in 1..Len(alias) : alias[i] \in Word
  BY DEF Alias
<1>2. ASSUME NEW j \in 1..Len(alias)
      PROVE  /\ SubSeq(alias, 1, j) \in Seq(Word) /\ Len(SubSeq(alias, 1, j)) = j
             /\ \A i \in 1..j : SubSeq(alias, 1, j)[i] = alias[i]
  BY <1>1 DEF Alias
<1>3. SubSeq(alias, 1, k) \in Alias /\ Len(SubSeq(alias, 1, k)) = k
  BY <1>2 DEF Alias
<1>4. in_subtree(alias, SubSeq(alias, 1, k))
  BY <1>1, <1>3 DEF in_subtree
<1>5. k = Len(alias) => SubSeq(alias, 1, k) = alias
  BY SubSeqFull DEF Alias
<1>6. CASE k < Len(alias)
  <2> DEFINE s == SubSeq(alias, 1, k + 1)
  <2>1. k + 1 \in 1..Len(alias)
    BY <1>1, <1>6
  <2>2. s \in Seq(Word) /\ Len(s) = k + 1
    BY <1>2, <2>1
  <2>3. parent_alias(s) = SubSeq(s, 1, k)
    BY <2>2 DEF parent_alias
  <2>4. SubSeq(s, 1, k) = SubSeq(alias, 1, k)
    BY <1>1, <2>1, <2>2, SubSeqOfSubSeq DEF Alias
  <2> QED
    BY <1>3, <1>4, <1>5, <1>6, <2>3, <2>4
<1> QED
  BY <1>1, <1>3, <1>4, <1>5, <1>6

\* What parent_alias gives for a path below a forest root.
LEMMA ParentFacts ==
    ASSUME NEW alias \in Alias, Len(alias) >= 2
    PROVE  /\ parent_alias(alias) \in Alias /\ Len(parent_alias(alias)) = Len(alias) - 1
           /\ in_subtree(alias, parent_alias(alias))
           /\ \A i \in 1..Len(alias) - 1 : parent_alias(alias)[i] = alias[i]
<1>1. Len(alias) \in Nat /\ Len(alias) - 1 \in 1..Len(alias)
  BY DEF Alias
<1>2. /\ parent_alias(alias) \in Alias /\ Len(parent_alias(alias)) = Len(alias) - 1
      /\ in_subtree(alias, parent_alias(alias))
  BY <1>1, PrefixFacts DEF parent_alias
<1> QED
  BY <1>2, SubtreeByWords

\* The path one up from a path strictly below a root is below that root still.
LEMMA ParentInSubtree ==
    ASSUME NEW alias \in Alias, NEW prefix \in Alias, Len(prefix) >= 1,
           in_subtree(alias, prefix), alias # prefix
    PROVE  Len(alias) > Len(prefix) /\ in_subtree(parent_alias(alias), prefix)
<1>1. Len(alias) \in Nat /\ Len(prefix) \in Nat /\ Len(prefix) <= Len(alias)
  BY DEF in_subtree, Alias
<1>2. Len(alias) # Len(prefix)
  BY SubtreeOwn, <1>1, SubSeqFull DEF in_subtree, Alias
<1>3. /\ parent_alias(alias) \in Alias /\ Len(parent_alias(alias)) = Len(alias) - 1
      /\ \A i \in 1..Len(alias) - 1 : parent_alias(alias)[i] = alias[i]
  BY <1>1, <1>2, ParentFacts
<1>4. \A i \in 1..Len(prefix) : alias[i] = prefix[i]
  BY SubtreeByWords
<1> QED
  BY <1>1, <1>2, <1>3, <1>4, SubtreeByWords

-----------------------------------------------------------------------------
(* rewrite_alias *)

\* r has the words of the new prefix, then those that alias has after the old.
Swapped(r, alias, old, new) ==
    /\ r \in Alias
    /\ Len(r) = Len(new) + (Len(alias) - Len(old))
    /\ \A i \in 1..Len(new) : r[i] = new[i]
    /\ \A i \in Len(old) + 1..Len(alias) : r[Len(new) + (i - Len(old))] = alias[i]

\* rewrite_alias, word by word.
LEMMA RewriteByWords ==
    ASSUME NEW alias \in Alias, NEW old \in Alias, NEW new \in Alias, in_subtree(alias, old)
    PROVE  Swapped(rewrite_alias(alias, old, new), alias, old, new)
<1> DEFINE s == SubSeq(alias, Len(old) + 1, Len(alias))
<1>1. /\ Len(alias) \in Nat /\ Len(old) \in Nat /\ Len(new) \in Nat
      /\ \A i \in 1..Len(alias) : alias[i] \in Word
  BY DEF Alias
<1>2. Len(old) <= Len(alias)
  BY DEF in_subtree
<1>3. /\ s \in Seq(Word) /\ Len(s) = Len(alias) - Len(old)
      /\ \A i \in 1..Len(alias) - Len(old) : s[i] = alias[Len(old) + i]
  BY <1>1, <1>2, SubSeqProperties
<1> HIDE DEF s
<1>4. /\ new \o s \in Seq(Word) /\ Len(new \o s) = Len(new) + Len(s)
      /\ \A i \in 1..Len(new) + Len(s) : (new \o s)[i] = IF i <= Len(new) THEN new[i] ELSE s[i - Len(new)]
  BY <1>3, ConcatProperties DEF Alias
<1>5. \A i \in 1..Len(new) : (new \o s)[i] = new[i]
  BY <1>1, <1>2, <1>3, <1>4
<1>6. ASSUME NEW i \in Len(old) + 1..Len(alias)
      PROVE  (new \o s)[Len(new) + (i - Len(old))] = alias[i]
  <2>1. /\ Len(new) + (i - Len(old)) \in 1..Len(new) + Len(s)
        /\ ~(Len(new) + (i - Len(old)) <= Len(new))
        /\ Len(new) + (i - Len(old)) - Len(new) = i - Len(old)
        /\ i - Len(old) \in 1..Len(alias) - Len(old) /\ Len(old) + (i - Len(old)) = i
    BY <1>1, <1>2, <1>3
  <2> QED
    BY <1>3, <1>4, <2>1
<1> QED
  BY <1>3, <1>4, <1>5, <1>6 DEF rewrite_alias, Alias, s, Swapped

\* What a rewrite keeps: the place below the root, the last word of a path
\* below it, and the distance of any two paths (different paths stay so).
LEMMA RewriteFacts ==
    ASSUME NEW alias \in Alias, NEW old \in Alias, NEW new \in Alias, in_subtree(alias, old)
    PROVE  LET r == rewrite_alias(alias, old, new)
           IN  /\ in_subtree(r, new)
               /\ alias = old => r = new
               /\ Len(alias) > Len(old) => LastWord(r) = LastWord(alias)
               /\ \A b \in Alias : in_subtree(b, old) /\ rewrite_alias(b, old, new) = r => b = alias
<1> DEFINE r == rewrite_alias(alias, old, new)
<1>1. Len(alias) \in Nat /\ Len(old) \in Nat /\ Len(new) \in Nat /\ Len(old) <= Len(alias)
  BY DEF Alias, in_subtree
<1>2. Swapped(r, alias, old, new)
  BY RewriteByWords
<1> HIDE DEF r
<1>3. in_subtree(r, new)
  BY <1>1, <1>2, SubtreeByWords DEF Swapped
<1>4. alias = old => r = new
  BY <1>1, <1>2, SeqEqual DEF Alias, Swapped
<1>5. Len(alias) > Len(old) => LastWord(r) = LastWord(alias)
  BY <1>1, <1>2 DEF LastWord, Swapped
<1>6. ASSUME NEW b \in Alias, in_subtree(b, old), rewrite_alias(b, old, new) = r PROVE b = alias
  <2>1. Len(b) \in Nat /\ Len(old) <= Len(b)
    BY <1>6 DEF Alias, in_subtree
  <2>2. Swapped(r, b, old, new)
    BY <1>6, RewriteByWords
  <2>3. Len(b) = Len(alias)
    BY <1>1, <1>2, <2>1, <2>2 DEF Swapped
  <2>4. \A i \in 1..Len(old) : b[i] = old[i] /\ alias[i] = old[i]
    BY <1>6, SubtreeByWords
  <2>5. \A i \in 1..Len(b) : b[i] = alias[i]
    BY <1>1, <1>2, <2>1, <2>2, <2>3, <2>4 DEF Swapped
  <2> QED
    BY <2>3, <2>5, SeqEqual DEF Alias
<1> QED
  BY <1>3, <1>4, <1>5, <1>6 DEF r, Swapped

\* The parent of a rewritten path is the rewritten parent.
LEMMA RewriteParent ==
    ASSUME NEW alias \in Alias, NEW old \in Alias, NEW new \in Alias,
           in_subtree(alias, old), alias # old, Len(old) >= 1, Len(new) >= 1
    PROVE  parent_alias(rewrite_alias(alias, old, new)) = rewrite_alias(parent_alias(alias), old, new)
<1> DEFINE r == rewrite_alias(alias, old, new)
           p == parent_alias(alias)
           q == rewrite_alias(p, old, new)
<1>1. Len(alias) \in Nat /\ Len(old) \in Nat /\ Len(new) \in Nat
  BY DEF Alias
<1>2. Len(alias) > Len(old) /\ in_subtree(p, old)
  BY ParentInSubtree
<1>3. p \in Alias /\ Len(p) = Len(alias) - 1 /\ \A i \in 1..Len(alias) - 1 : p[i] = alias[i]
  BY <1>1, <1>2, ParentFacts
<1>4. Swapped(r, alias, old, new)
  BY RewriteByWords
<1>5. Swapped(q, p, old, new)
  BY <1>2, <1>3, RewriteByWords
<1> HIDE DEF r, p, q
<1>6. Len(r) >= 2 /\ Len(q) = Len(r) - 1
  BY <1>1, <1>2, <1>3, <1>4, <1>5 DEF Swapped
<1>7. /\ parent_alias(r) \in Alias /\ Len(parent_alias(r)) = Len(r) - 1
      /\ \A i \in 1..Len(r) - 1 : parent_alias(r)[i] = r[i]
  <2>1. r \in Alias
    BY <1>4 DEF Swapped
  <2> QED
    BY <1>6, <2>1, ParentFacts
<1>8. ASSUME NEW i \in 1..Len(q) PROVE q[i] = r[i]
  <2>1. CASE i <= Len(new)
    BY <1>1, <1>4, <1>5, <2>1 DEF Swapped
  <2>2. CASE i > Len(new)
    <3> DEFINE j == Len(old) + (i - Len(new))
    <3>1. /\ j \in Len(old) + 1..Len(p) /\ j \in Len(old) + 1..Len(alias) /\ j \in 1..Len(alias) - 1
          /\ Len(new) + (j - Len(old)) = i
      BY <1>1, <1>2, <1>3, <1>4, <1>5, <1>6, <2>2 DEF Swapped
    <3> HIDE DEF j
    <3> QED
      BY <1>3, <1>4, <1>5, <3>1 DEF Swapped
  <2> QED
    BY <1>1, <1>5, <2>1, <2>2 DEF Swapped
<1>9. parent_alias(r) = q
  BY <1>5, <1>6, <1>7, <1>8, SeqEqual DEF Alias, Swapped
<1> QED
  BY <1>9 DEF r, p, q

\* A rewrite of a whole subtree keeps the paths below each of its members:
\* rewriting d's path directly is moving it along with c's.
LEMMA RewriteAlong ==
    ASSUME NEW d \in Alias, NEW c \in Alias, NEW old \in Alias, NEW new \in Alias,
           in_subtree(d, c), in_subtree(c, old)
    PROVE  /\ rewrite_alias(d, old, new) = rewrite_alias(d, c, rewrite_alias(c, old, new))
           /\ rewrite_alias(d, c, c) = d
<1> DEFINE m == rewrite_alias(c, old, new)
           r == rewrite_alias(d, old, new)
           t == rewrite_alias(d, c, m)
<1>1. Len(d) \in Nat /\ Len(c) \in Nat /\ Len(old) \in Nat /\ Len(new) \in Nat
      /\ Len(old) <= Len(c) /\ Len(c) <= Len(d) /\ in_subtree(d, old)
  BY SubtreeTransitive DEF Alias, in_subtree
<1>2. \A i \in 1..Len(c) : d[i] = c[i]
  BY SubtreeByWords
<1>3. Swapped(m, c, old, new)
  BY RewriteByWords
<1>4. Swapped(r, d, old, new)
  BY <1>1, RewriteByWords
<1> HIDE DEF m, r
<1>5. Swapped(t, d, c, m)
  <2>1. m \in Alias
    BY <1>3 DEF Swapped
  <2> QED
    BY <2>1, RewriteByWords
<1> HIDE DEF t
<1>6. Len(t) = Len(r)
  BY <1>1, <1>3, <1>4, <1>5 DEF Swapped
<1>7. ASSUME NEW i \in 1..Len(r) PROVE r[i] = t[i]
  <2>1. CASE i <= Len(new)
    <3>1. i \in 1..Len(new) /\ i \in 1..Len(m)
      BY <1>1, <1>3, <2>1 DEF Swapped
    <3> QED
      BY <1>3, <1>4, <1>5, <3>1 DEF Swapped
  <2>2. CASE i > Len(new)
    <3> DEFINE j == Len(old) + (i - Len(new))
    <3>1. /\ j \in Len(old) + 1..Len(d) /\ i = Len(new) + (j - Len(old))
          /\ j > Len(c) => j \in Len(c) + 1..Len(d) /\ i = Len(m) + (j - Len(c))
          /\ j <= Len(c) => j \in Len(old) + 1..Len(c) /\ j \in 1..Len(c) /\ i \in 1..Len(m)
          /\ j <= Len(c) \/ j > Len(c)
      BY <1>1, <1>3, <1>4, <2>2 DEF Swapped
    <3> HIDE DEF j
    <3>2. r[i] = d[j]
      BY <1>4, <3>1 DEF Swapped
    <3>3. CASE j > Len(c)
      BY <1>5, <3>1, <3>2, <3>3 DEF Swapped
    <3>4. CASE j <= Len(c)
      BY <1>2, <1>3, <1>5, <3>1, <3>2, <3>4 DEF Swapped
    <3> QED
      BY <3>1, <3>3, <3>4
  <2> QED
    BY <1>1, <1>4, <2>1, <2>2 DEF Swapped
<1>8. r = t
  BY <1>4, <1>5, <1>6, <1>7, SeqEqual DEF Alias, Swapped
<1>9. rewrite_alias(d, c, c) = d
  <2> DEFINE u == rewrite_alias(d, c, c)
  <2>1. Swapped(u, d, c, c)
    BY RewriteByWords
  <2> HIDE DEF u
  <2>2. Len(u) = Len(d) /\ \A i \in 1..Len(d) : u[i] = d[i]
    BY <1>1, <1>2, <2>1 DEF Swapped
  <2>3. u = d
    BY <2>1, <2>2, SeqEqual DEF Alias, Swapped
  <2> QED
    BY <2>3 DEF u
<1> QED
  BY <1>8, <1>9 DEF m, r, t

\* Moving a path along twice is moving it along once.
LEMMA RewriteTwice ==
    ASSUME NEW d \in Alias, NEW c \in Alias, NEW a \in Alias, NEW b \in Alias, in_subtree(d, c)
    PROVE  rewrite_alias(rewrite_alias(d, c, a), a, b) = rewrite_alias(d, c, b)
<1> DEFINE e == rewrite_alias(d, c, a)
           f == rewrite_alias(e, a, b)
           g == rewrite_alias(d, c, b)
<1>1. /\ Len(d) \in Nat /\ Len(c) \in Nat /\ Len(a) \in Nat /\ Len(b) \in Nat
      /\ Len(c) <= Len(d)
  BY DEF Alias, in_subtree
<1>2. Swapped(e, d, c, a) /\ Swapped(g, d, c, b)
  BY RewriteByWords
<1>3. in_subtree(e, a)
  BY RewriteFacts
<1> HIDE DEF e, g
<1>4. Swapped(f, e, a, b)
  <2>1. e \in Alias
    BY <1>2 DEF Swapped
  <2> QED
    BY <1>3, <2>1, RewriteByWords
<1> HIDE DEF f
<1>5. Len(f) = Len(g)
  BY <1>1, <1>2, <1>4 DEF Swapped
<1>6. ASSUME NEW i \in 1..Len(g) PROVE f[i] = g[i]
  <2>1. CASE i <= Len(b)
    <3>1. i \in 1..Len(b)
      BY <1>1, <1>2, <2>1 DEF Swapped
    <3> QED
      BY <1>2, <1>4, <3>1 DEF Swapped
  <2>2. CASE i > Len(b)
    <3> DEFINE j == Len(c) + (i - Len(b))
               k == Len(a) + (j - Len(c))
    <3>1. /\ j \in Len(c) + 1..Len(d) /\ i = Len(b) + (j - Len(c))
          /\ k \in Len(a) + 1..Len(e) /\ i = Len(b) + (k - Len(a))
      BY <1>1, <1>2, <2>2 DEF Swapped
    <3> HIDE DEF j
    <3>2. g[i] = d[j] /\ e[k] = d[j]
      BY <1>2, <3>1 DEF Swapped
    <3> HIDE DEF k
    <3>3. f[i] = e[k]
      BY <1>4, <3>1 DEF Swapped
    <3> QED
      BY <3>2, <3>3
  <2> QED
    BY <1>1, <1>2, <2>1, <2>2 DEF Swapped
<1>7. f = g
  BY <1>2, <1>4, <1>5, <1>6, SeqEqual DEF Alias, Swapped
<1> QED
  BY <1>7 DEF e, f, g

\* A moved child lands one word below the new node and keeps its last word.
LEMMA LandingFacts ==
    ASSUME NEW n \in Alias, NEW child \in Alias, Len(child) >= 1
    PROVE  LET p == moved_child_new_prefix(n, child)
           IN  /\ p \in Alias /\ Len(p) = Len(n) + 1
               /\ parent_alias(p) = n /\ in_subtree(p, n)
               /\ LastWord(p) = LastWord(child)
<1> DEFINE p == moved_child_new_prefix(n, child)
<1>1. Len(n) \in Nat /\ LastWord(child) \in Word
  BY DEF Alias, LastWord
<1>2. /\ p \in Seq(Word) /\ Len(p) = Len(n) + 1
      /\ \A i \in 1..Len(n) : p[i] = n[i]
      /\ p[Len(n) + 1] = LastWord(child)
  BY <1>1, AppendProperties DEF moved_child_new_prefix, Alias
<1> HIDE DEF p
<1>3. in_subtree(p, n)
  BY <1>1, <1>2, SubtreeByWords DEF Alias
<1>4. parent_alias(p) = n
  BY <1>1, <1>2, <1>3 DEF parent_alias, in_subtree
<1> QED
  BY <1>2, <1>3, <1>4 DEF p, Alias, LastWord
=============================================================================
