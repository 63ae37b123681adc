---------------------------- MODULE DataLemmas -----------------------------
(* Facts about data that several components need: the minimum of a set of  *)
(* natural numbers, which its finiteness is not needed for, and sequences  *)
(* that are flattened.                                                     *)
EXTENDS Naturals, SequencesExt, SequenceTheorems, WellFoundedInduction, TLAPS

(* Every nonempty set of naturals has a least member, and Min picks it. *)
LEMMA MinNat ==
  ASSUME NEW S \in SUBSET Nat, S # {}
  PROVE  Min(S) \in S /\ \A y \in S : Min(S) <= y
<1> DEFINE R == {ss \in Nat \X Nat : ss[1] < ss[2]}
<1>1. IsWellFoundedOn(R, Nat)
  BY NatLessThanWellFounded, Zenon DEF OpToRel
<1>2. \A x, y \in Nat : <<y, x>> \notin R => x <= y
  <2> SUFFICES ASSUME NEW x \in Nat, NEW y \in Nat, y < x
               PROVE  <<y, x>> \in R
    OBVIOUS
  <2> <<y, x>> \in Nat \X Nat /\ <<y, x>>[1] < <<y, x>>[2]
    OBVIOUS
  <2> QED OBVIOUS
<1> HIDE DEF R
<1>3. \E x \in S : \A y \in S : ~(<<y, x>> \in R)
  BY <1>1, WFMin, Zenon
<1>4. \E x \in S : \A y \in S : x <= y
  BY <1>2, <1>3
<1> QED BY <1>4 DEF Min

(* Induction, of a set.  *)
LEMMA NatSteps ==
  ASSUME NEW S, 0 \in S, \A n \in Nat : n \in S => n + 1 \in S
  PROVE  \A n \in Nat : n \in S
<1> DEFINE Bad == {n \in Nat : n \notin S}
<1> SUFFICES ASSUME Bad # {} PROVE FALSE
  OBVIOUS
<1>1. PICK m \in Bad : \A k \in Bad : m <= k
  <2>1. Bad \in SUBSET Nat
    OBVIOUS
  <2> HIDE DEF Bad
  <2> QED BY <2>1, MinNat
<1>2. m # 0 /\ m \in Nat
  OBVIOUS
<1>3. m - 1 \in Nat /\ m - 1 \notin Bad /\ (m - 1) + 1 = m
  BY <1>1, <1>2
<1> QED BY <1>3
----------------------------------------------------------------------------
(* The community modules define FlattenSeq through a recursive function:   *)
(* Flattens is what that function is, up to n.                             *)
Flattens(f, seqs, n) ==
    f = [i \in 1 .. n |-> IF i = 1 THEN seqs[i] ELSE f[i - 1] \o seqs[i]]

LEMMA FlattenChosen ==
  ASSUME NEW seqs, Len(seqs) # 0, \E f : Flattens(f, seqs, Len(seqs))
  PROVE  \E f : Flattens(f, seqs, Len(seqs)) /\ FlattenSeq(seqs) = f[Len(seqs)]
<1> DEFINE g == CHOOSE f : f = [i \in 1 .. Len(seqs) |-> IF i = 1 THEN seqs[i] ELSE f[i - 1] \o seqs[i]]
<1>1. Flattens(g, seqs, Len(seqs))
  BY DEF Flattens
<1>2. FlattenSeq(seqs) = g[Len(seqs)]
  BY DEF FlattenSeq
<1> QED BY <1>1, <1>2

LEMMA FlattenExists ==
  ASSUME NEW seqs, NEW n \in Nat \ {0}
  PROVE  \E f : Flattens(f, seqs, n)
<1> DEFINE Bad == {k \in Nat \ {0} : ~ \E f : Flattens(f, seqs, k)}
<1> SUFFICES ASSUME Bad # {} PROVE FALSE
  OBVIOUS
<1>1. PICK m \in Bad : \A k \in Bad : m <= k
  <2>1. Bad \in SUBSET Nat
    OBVIOUS
  <2> HIDE DEF Bad
  <2> QED BY <2>1, MinNat
<1>2. m \in Nat \ {0} /\ ~ \E f : Flattens(f, seqs, m)
  OBVIOUS
<1>3. CASE m = 1
  <2> DEFINE g == [i \in 1 .. 1 |-> seqs[i]]
  <2>1. Flattens(g, seqs, 1)
    BY DEF Flattens
  <2> QED BY <1>2, <1>3, <2>1
<1>4. CASE m # 1
  <2>1. m - 1 \in Nat \ {0} /\ m - 1 \notin Bad
    BY <1>1, <1>2, <1>4
  <2>2. PICK f : Flattens(f, seqs, m - 1)
    BY <2>1
  <2> HIDE DEF Bad
  <2> DEFINE g == [i \in 1 .. m |-> IF i = m THEN f[m - 1] \o seqs[m] ELSE f[i]]
  <2>3. \A i \in 1 .. m - 1 : f[i] = IF i = 1 THEN seqs[i] ELSE f[i - 1] \o seqs[i]
    BY <2>2 DEF Flattens
  <2>4. \A i \in 1 .. m : g[i] = IF i = 1 THEN seqs[i] ELSE g[i - 1] \o seqs[i]
    <3> SUFFICES ASSUME NEW i \in 1 .. m PROVE g[i] = IF i = 1 THEN seqs[i] ELSE g[i - 1] \o seqs[i]
      OBVIOUS
    <3>1. CASE i = m
      <4>1. m - 1 \in 1 .. m /\ m - 1 # m
        BY <1>2, <1>4
      <4>2. m \in 1 .. m
        BY <1>2
      <4>3. g[m] = f[m - 1] \o seqs[m]
        BY <4>2
      <4>4. g[m - 1] = f[m - 1]
        BY <4>1
      <4> HIDE DEF g
      <4> QED BY <1>4, <3>1, <4>3, <4>4
    <3>2. CASE i # m
      BY <1>2, <2>3, <3>2
    <3> QED BY <3>1, <3>2
  <2>5. Flattens(g, seqs, m)
    <3>1. g = [i \in 1 .. m |-> g[i]]
      OBVIOUS
    <3> HIDE DEF g
    <3>2. [i \in 1 .. m |-> g[i]] = [i \in 1 .. m |-> IF i = 1 THEN seqs[i] ELSE g[i - 1] \o seqs[i]]
      BY <2>4
    <3> QED BY <3>1, <3>2 DEF Flattens
  <2> QED BY <1>2, <2>5
<1> QED BY <1>3, <1>4

(* Q is a set of sequences that is closed under concatenation. *)
LEMMA FlattenStays ==
  ASSUME NEW Q, \A s, t \in Q : s \o t \in Q,
         NEW seqs, Len(seqs) \in Nat \ {0}, \A i \in 1 .. Len(seqs) : seqs[i] \in Q
  PROVE  FlattenSeq(seqs) \in Q
<1>1. PICK f : Flattens(f, seqs, Len(seqs)) /\ FlattenSeq(seqs) = f[Len(seqs)]
  BY FlattenChosen, FlattenExists
<1>2. \A i \in 1 .. Len(seqs) : f[i] = IF i = 1 THEN seqs[i] ELSE f[i - 1] \o seqs[i]
  BY <1>1 DEF Flattens
<1> DEFINE Bad == {k \in 1 .. Len(seqs) : f[k] \notin Q}
<1>3. Bad = {}
  <2> SUFFICES ASSUME Bad # {} PROVE FALSE
    OBVIOUS
  <2>1. PICK m \in Bad : \A k \in Bad : m <= k
    <3>1. Bad \in SUBSET Nat
      OBVIOUS
    <3> HIDE DEF Bad
    <3> QED BY <3>1, MinNat
  <2>2. m # 1
    BY <1>2, <2>1
  <2>3. m - 1 \in 1 .. Len(seqs) /\ m - 1 \notin Bad
    BY <2>1, <2>2
  <2>4. f[m - 1] \in Q /\ f[m] = f[m - 1] \o seqs[m] /\ seqs[m] \in Q
    BY <1>2, <2>1, <2>2, <2>3
  <2>5. f[m] \in Q
    BY <2>4
  <2> QED BY <2>5
<1> QED BY <1>1, <1>3

(* What flattening gives, one sequence at a time. *)
Flat(f, seqs, S) ==
    /\ FlattenSeq(seqs) = f[Len(seqs)]
    /\ \A i \in 1 .. Len(seqs) :
         f[i] \in Seq(S) /\ f[i] = IF i = 1 THEN seqs[i] ELSE f[i - 1] \o seqs[i]

LEMMA FlattenEquations ==
  ASSUME NEW S, NEW seqs \in Seq(Seq(S)), seqs # <<>>
  PROVE  \E f : Flat(f, seqs, S)
<1>1. Len(seqs) \in Nat \ {0}
  BY EmptySeq
<1>2. PICK f : Flattens(f, seqs, Len(seqs)) /\ FlattenSeq(seqs) = f[Len(seqs)]
  BY <1>1, FlattenChosen, FlattenExists
<1>3. \A i \in 1 .. Len(seqs) : f[i] = IF i = 1 THEN seqs[i] ELSE f[i - 1] \o seqs[i]
  BY <1>2 DEF Flattens
<1> DEFINE T == {i \in Nat : i + 1 <= Len(seqs) => f[i + 1] \in Seq(S)}
<1>4. 0 \in T
  <2>1. f[1] = seqs[1] /\ seqs[1] \in Seq(S)
    BY <1>1, <1>3
  <2> QED BY <2>1
<1>5. ASSUME NEW i \in Nat, i \in T PROVE i + 1 \in T
  <2> SUFFICES ASSUME (i + 1) + 1 <= Len(seqs) PROVE f[(i + 1) + 1] \in Seq(S)
    BY <1>5
  <2>1. f[i + 1] \in Seq(S) /\ (i + 1) + 1 \in 1 .. Len(seqs) /\ (i + 1) + 1 # 1
    BY <1>1, <1>5
  <2>2. ((i + 1) + 1) - 1 = i + 1
    OBVIOUS
  <2>3. f[(i + 1) + 1] = f[i + 1] \o seqs[(i + 1) + 1]
    BY <1>3, <2>1, <2>2
  <2>4. seqs[(i + 1) + 1] \in Seq(S)
    BY <2>1, ElementOfSeq
  <2> QED BY <2>1, <2>3, <2>4, ConcatProperties
<1> HIDE DEF T
<1>6. \A i \in Nat : i \in T
  BY <1>4, <1>5, NatSteps
<1>7. ASSUME NEW i \in 1 .. Len(seqs) PROVE f[i] \in Seq(S)
  <2>1. i - 1 \in Nat /\ (i - 1) + 1 = i /\ i <= Len(seqs)
    BY <1>1
  <2>2. i - 1 \in T
    BY <1>6, <2>1
  <2> QED BY <2>1, <2>2 DEF T
<1> QED BY <1>2, <1>3, <1>7 DEF Flat

LEMMA FlattenType ==
  ASSUME NEW S, NEW seqs \in Seq(Seq(S))
  PROVE  FlattenSeq(seqs) \in Seq(S)
<1>1. CASE seqs = <<>>
  <2>1. FlattenSeq(seqs) = <<>>
    BY <1>1 DEF FlattenSeq
  <2> QED BY <2>1
<1>2. CASE seqs # <<>>
  <2>1. Len(seqs) \in 1 .. Len(seqs)
    BY <1>2, EmptySeq
  <2> QED BY <1>2, <2>1, FlattenEquations DEF Flat
<1> QED BY <1>1, <1>2

LEMMA Concat3 ==
  ASSUME NEW S, NEW s \in Seq(S), NEW t \in Seq(S), NEW u \in Seq(S)
  PROVE  (s \o t) \o u = s \o (t \o u)
BY ConcatAssociative

LEMMA ConcatRight ==
  ASSUME NEW S, NEW s \in Seq(S), NEW t \in Seq(S), NEW u \in Seq(S),
         NEW st, st = s \o t, NEW tu, tu = t \o u
  PROVE  st \o u = s \o tu
BY Concat3

(* The first sequence comes first. *)
LEMMA FlattenFirst ==
  ASSUME NEW S, NEW x \in Seq(S), NEW seqs \in Seq(Seq(S))
  PROVE  FlattenSeq(<<x>> \o seqs) = x \o FlattenSeq(seqs)
<1> DEFINE all == <<x>> \o seqs
           n == Len(seqs)
<1>1. /\ all \in Seq(Seq(S)) /\ Len(all) = n + 1 /\ n \in Nat /\ all[1] = x
      /\ \A i \in 1 .. n : all[i + 1] = seqs[i]
  <2>1. <<x>> \in Seq(Seq(S)) /\ Len(<<x>>) = 1 /\ <<x>>[1] = x
    OBVIOUS
  <2> QED BY <2>1, ConcatProperties
<1> SUFFICES FlattenSeq(all) = x \o FlattenSeq(seqs)
  OBVIOUS
<1> HIDE DEF all
<1>2. all # <<>>
  BY <1>1
<1>a. PICK f : Flat(f, all, S)
  BY <1>1, <1>2, FlattenEquations
<1>3. /\ FlattenSeq(all) = f[n + 1]
      /\ \A i \in 1 .. n + 1 : f[i] = IF i = 1 THEN all[i] ELSE f[i - 1] \o all[i]
  BY <1>1, <1>a DEF Flat
<1>4. CASE seqs = <<>>
  <2>1. n = 0 /\ FlattenSeq(seqs) = <<>>
    BY <1>4 DEF FlattenSeq
  <2>2. f[1] = x
    BY <1>1, <1>3
  <2> QED BY <1>3, <2>1, <2>2, ConcatEmptySeq
<1>5. CASE seqs # <<>>
  <2>a. PICK g : Flat(g, seqs, S)
    BY <1>5, FlattenEquations
  <2>1. /\ FlattenSeq(seqs) = g[n]
        /\ \A i \in 1 .. n :
             g[i] \in Seq(S) /\ g[i] = IF i = 1 THEN seqs[i] ELSE g[i - 1] \o seqs[i]
    BY <2>a DEF Flat
  <2>2. n >= 1
    BY <1>5, EmptySeq
  <2> DEFINE T == {i \in Nat : i + 1 <= n => f[(i + 1) + 1] = x \o g[i + 1]}
  <2>3. 0 \in T
    <3>1. f[2] = f[1] \o all[2] /\ f[1] = x /\ all[2] = seqs[1] /\ g[1] = seqs[1]
      <4>1. 1 \in 1 .. n /\ 1 \in 1 .. n + 1 /\ 2 \in 1 .. n + 1 /\ 2 - 1 = 1 /\ 1 + 1 = 2
        BY <1>1, <2>2
      <4>2. f[2] = f[1] \o all[2]
        <5>1. f[2] = IF 2 = 1 THEN all[2] ELSE f[2 - 1] \o all[2]
          BY <1>3, <4>1
        <5> QED BY <4>1, <5>1
      <4>3. f[1] = all[1] /\ g[1] = seqs[1] /\ all[2] = seqs[1]
        BY <1>1, <1>3, <2>1, <4>1
      <4> QED BY <1>1, <4>2, <4>3
    <3>2. f[2] = x \o g[1] /\ (0 + 1) + 1 = 2 /\ 0 + 1 = 1
      BY <3>1
    <3> QED BY <3>2
  <2>4. ASSUME NEW i \in Nat, i \in T PROVE i + 1 \in T
    <3> SUFFICES ASSUME (i + 1) + 1 <= n PROVE f[((i + 1) + 1) + 1] = x \o g[(i + 1) + 1]
      BY <2>4
    <3> DEFINE k == i + 1
    <3>a. i + 1 <= n
      BY <1>1
    <3>1. f[k + 1] = x \o g[k]
      BY <2>4, <3>a
    <3>2. k \in 1 .. n /\ k + 1 \in 1 .. n /\ (k + 1) + 1 \in 1 .. n + 1 /\ k + 1 # 1 /\ (k + 1) + 1 # 1
      BY <1>1
    <3>3. (k + 1) - 1 = k /\ ((k + 1) + 1) - 1 = k + 1
      OBVIOUS
    <3> HIDE DEF k
    <3>4. g[k + 1] = g[k] \o seqs[k + 1] /\ g[k] \in Seq(S) /\ seqs[k + 1] \in Seq(S)
      BY <2>1, <3>2, <3>3, ElementOfSeq
    <3>5. f[(k + 1) + 1] = f[k + 1] \o all[(k + 1) + 1] /\ all[(k + 1) + 1] = seqs[k + 1]
      BY <1>1, <1>3, <3>2, <3>3
    <3>6. (x \o g[k]) \o seqs[k + 1] = x \o (g[k] \o seqs[k + 1])
      <4>1. PICK u \in Seq(S), v \in Seq(S) : u = g[k] /\ v = seqs[k + 1]
        BY <3>4
      <4>2. (x \o u) \o v = x \o (u \o v)
        BY ONLY Concat3, x \in Seq(S), u \in Seq(S), v \in Seq(S)
      <4> QED BY <4>1, <4>2
    <3> QED BY <3>1, <3>4, <3>5, <3>6 DEF k
  <2> HIDE DEF T
  <2>5. \A i \in Nat : i \in T
    BY <2>3, <2>4, NatSteps
  <2>6. n - 1 \in T /\ (n - 1) + 1 = n
    BY <1>1, <2>2, <2>5
  <2>7. f[n + 1] = x \o g[n]
    BY <1>1, <2>6 DEF T
  <2> QED BY <1>3, <2>1, <2>7
<1> QED BY <1>4, <1>5
=============================================================================
