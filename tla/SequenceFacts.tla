---------------------------- MODULE SequenceFacts ----------------------------
(***************************************************************************)
(* What the proofs of several components need to know about numbers and    *)
(* sequences: induction over the natural numbers, what FlattenSeq makes of *)
(* a sequence of sequences, and which elements a sequence has after it was *)
(* changed.                                                                *)
(***************************************************************************)
EXTENDS Naturals, Sequences, SequencesExt, SequenceTheorems, FiniteSetTheorems,
        WellFoundedInduction, TLAPS

\* Induction over a set of numbers: the least number outside it would be
\* the successor of one inside.
LEMMA NatSet == ASSUME NEW S, 0 \in S, \A n \in Nat : n \in S => n+1 \in S PROVE Nat \subseteq S
<1> DEFINE R == OpToRel(<,Nat)
           T == Nat \ S
<1> SUFFICES ASSUME T # {} PROVE FALSE
  OBVIOUS
<1>1. IsWellFoundedOn(R, Nat)
  BY NatLessThanWellFounded
<1>2. T \subseteq Nat
  OBVIOUS
<1>3. PICK x \in T : \A y \in T : <<y, x>> \notin R
  <2> HIDE DEF R, T
  <2> QED BY <1>1, <1>2, WFMin
<1>4. x \in Nat \ {0}
  OBVIOUS
<1>5. x - 1 \in Nat /\ x - 1 < x /\ (x - 1) + 1 = x
  BY <1>4
<1>6. x - 1 \in T
  BY <1>5
<1>7. <<x - 1, x>> \in R
  BY <1>4, <1>5 DEF OpToRel
<1> QED BY <1>3, <1>6, <1>7

Flattens(g, seqs, n) == g = [i \in 1..n |-> IF i = 1 THEN seqs[i] ELSE g[i-1] \o seqs[i]]

\* FlattenSeq is the last value of the only function that flattens.
LEMMA FlattenIs == ASSUME NEW seqs, Len(seqs) \in Nat \ {0} 
  PROVE FlattenSeq(seqs) = (CHOOSE g : Flattens(g, seqs, Len(seqs)))[Len(seqs)]
BY DEF FlattenSeq, Flattens

LEMMA FlattenExists == ASSUME NEW seqs PROVE \A n \in Nat : \E g : Flattens(g, seqs, n)
<1> DEFINE T == {n \in Nat : \E g : Flattens(g, seqs, n)}
<1>1. 0 \in T
  <2>1. Flattens([i \in 1..0 |-> 0], seqs, 0)
    BY DEF Flattens
  <2> QED BY <2>1
<1>2. ASSUME NEW n \in Nat, n \in T PROVE n+1 \in T
  <2>1. PICK g : Flattens(g, seqs, n)
    BY <1>2
  <2> DEFINE h == [i \in 1..n+1 |-> IF i = n+1 THEN (IF n = 0 THEN seqs[1] ELSE g[n] \o seqs[n+1]) ELSE g[i]]
  <2>3. \A i \in 1..n : h[i] = g[i] /\ h[i] = IF i = 1 THEN seqs[i] ELSE h[i-1] \o seqs[i]
    <3>1. TAKE i \in 1..n
    <3>2. g[i] = IF i = 1 THEN seqs[i] ELSE g[i-1] \o seqs[i]
      BY <2>1 DEF Flattens
    <3>3. h[i] = g[i] /\ (i # 1 => h[i-1] = g[i-1])
      OBVIOUS
    <3> QED BY <3>2, <3>3
  <2>4. h[n+1] = IF n+1 = 1 THEN seqs[n+1] ELSE h[(n+1)-1] \o seqs[n+1]
    <3>1. CASE n = 0
      <4>1. n+1 = 1 /\ n+1 \in 1..n+1
        BY <3>1
      <4>2. h[n+1] = seqs[1]
        BY <3>1, <4>1
      <4> QED BY <4>1, <4>2
    <3>2. CASE n # 0
      <4>1. (n+1)-1 = n /\ n+1 # 1 /\ n \in 1..n+1 /\ n # n+1
        BY <3>2
      <4>2. h[n+1] = g[n] \o seqs[n+1]
        <5>1. n+1 \in 1..n+1
          OBVIOUS
        <5>2. PICK v : v = g[n] \o seqs[n+1]
          OBVIOUS
        <5>3. h[n+1] = v
          BY <3>2, <5>1, <5>2
        <5> QED BY <5>2, <5>3
      <4>3. h[n] = g[n]
        BY <4>1
      <4> HIDE DEF h
      <4> QED BY <4>1, <4>2, <4>3
    <3> QED BY <3>1, <3>2
  <2>2. Flattens(h, seqs, n+1)
    <3>1. \A i \in 1..n+1 : h[i] = IF i = 1 THEN seqs[i] ELSE h[i-1] \o seqs[i]
      <4>1. \A i \in 1..n+1 : i \in 1..n \/ i = n+1
        OBVIOUS
      <4> HIDE DEF h
      <4> QED BY <2>3, <2>4, <4>1
    <3>2. h = [i \in 1..n+1 |-> h[i]]
      OBVIOUS
    <3> HIDE DEF h
    <3>3. h = [i \in 1..n+1 |-> IF i = 1 THEN seqs[i] ELSE h[i-1] \o seqs[i]]
      BY <3>1, <3>2
    <3> QED BY <3>3 DEF Flattens
  <2> QED BY <2>2
<1>3. Nat \subseteq T
  <2> HIDE DEF T
  <2> QED BY <1>1, <1>2, NatSet
<1> QED BY <1>3

Agree(f, g, n) == \A i \in 1 .. n : g[i] = f[i]

LEMMA FlattensUnique ==
  ASSUME NEW s, NEW t, NEW m \in Nat, NEW n \in Nat, m <= n, NEW g, NEW h,
         Flattens(g, s, m), Flattens(h, t, n), Agree(s, t, m)
  PROVE \A i \in 1..m : g[i] = h[i]
<1> DEFINE T == {k \in Nat : \A i \in 1..m : i <= k => g[i] = h[i]}
<1>1. 0 \in T
  OBVIOUS
<1>2. ASSUME NEW k \in Nat, k \in T PROVE k+1 \in T
  <2>1. SUFFICES ASSUME k+1 \in 1..m PROVE g[k+1] = h[k+1]
    <3>1. \A i \in 1..m : i <= k+1 => i <= k \/ i = k+1
      OBVIOUS
    <3> QED BY <1>2, <3>1
  <2>2. g[k+1] = IF k+1 = 1 THEN s[k+1] ELSE g[(k+1)-1] \o s[k+1]
    BY <2>1 DEF Flattens
  <2>0. k+1 \in 1..n
    BY <2>1
  <2>3. h[k+1] = IF k+1 = 1 THEN t[k+1] ELSE h[(k+1)-1] \o t[k+1]
    BY <2>0 DEF Flattens
  <2>4. (k+1)-1 = k /\ (k+1 # 1 => k \in 1..m)
    BY <2>1
  <2>5. k+1 # 1 => g[k] = h[k]
    BY <1>2, <2>4
  <2>6. s[k+1] = t[k+1]
    BY <2>1 DEF Agree
  <2> QED BY <2>2, <2>3, <2>4, <2>5, <2>6
<1>3. Nat \subseteq T
  <2> HIDE DEF T
  <2> QED BY <1>1, <1>2, NatSet
<1> QED BY <1>3

\* What FlattenSeq makes of one sequence, and of one more.
LEMMA FlattenOne == ASSUME NEW x PROVE FlattenSeq(<<x>>) = x
<1>1. \E g : Flattens(g, <<x>>, 1)
  BY FlattenExists
<1>2. Flattens(CHOOSE g : Flattens(g, <<x>>, 1), <<x>>, 1)
  BY <1>1
<1>3. PICK f : f = (CHOOSE g : Flattens(g, <<x>>, 1)) /\ Flattens(f, <<x>>, 1)
  BY <1>2
<1>4. f[1] = x
  BY <1>3 DEF Flattens
<1>5. Len(<<x>>) = 1
  OBVIOUS
<1>6. FlattenSeq(<<x>>) = (CHOOSE g : Flattens(g, <<x>>, Len(<<x>>)))[Len(<<x>>)]
  <2>1. Len(<<x>>) \in Nat \ {0}
    BY <1>5
  <2> QED BY <2>1, FlattenIs
<1>7. FlattenSeq(<<x>>) = f[1]
  BY <1>3, <1>5, <1>6
<1> QED BY <1>4, <1>7

LongerByOne(s, t, n) == n = Len(s) /\ n # 0 /\ Len(t) = n + 1 /\ Agree(s, t, n)

LEMMA FlattenLonger ==
  ASSUME NEW n \in Nat, NEW s, NEW t, LongerByOne(s, t, n)
  PROVE FlattenSeq(t) = FlattenSeq(s) \o t[n+1]
<1>0. n = Len(s) /\ n # 0 /\ Len(t) = n + 1 /\ \A i \in 1..n : t[i] = s[i]
  BY DEF LongerByOne, Agree
<1>1. PICK g : g = (CHOOSE f : Flattens(f, s, n)) /\ Flattens(g, s, n)
  BY FlattenExists
<1>2. n+1 \in Nat
  OBVIOUS
<1>3. PICK h : h = (CHOOSE f : Flattens(f, t, n+1)) /\ Flattens(h, t, n+1)
  BY <1>2, FlattenExists
<1>4. FlattenSeq(s) = g[n] /\ FlattenSeq(t) = h[n+1]
  BY <1>0, <1>1, <1>3, FlattenIs
<1>5. \A i \in 1..n : g[i] = h[i]
  <2>1. Agree(s, t, n) /\ n <= n + 1
    BY DEF LongerByOne
  <2> QED BY <1>1, <1>2, <1>3, <2>1, FlattensUnique
<1>6. h[n+1] = h[n] \o t[n+1]
  <2>1. n+1 \in 1..n+1 /\ n+1 # 1 /\ (n+1)-1 = n
    BY <1>0
  <2>2. \A i \in 1..n+1 : h[i] = IF i = 1 THEN t[i] ELSE h[i-1] \o t[i]
    <3>1. h = [i \in 1..n+1 |-> IF i = 1 THEN t[i] ELSE h[i-1] \o t[i]]
      BY <1>3 DEF Flattens
    <3> QED BY <3>1
  <2> QED BY <2>1, <2>2
<1>7. n \in 1..n
  BY <1>0
<1> QED BY <1>4, <1>5, <1>6, <1>7

LEMMA FlattenNothing == FlattenSeq(<<>>) = <<>>
<1>1. Len(<<>>) = 0
  OBVIOUS
<1> QED BY <1>1 DEF FlattenSeq

LEMMA NoneIsSeq == ASSUME NEW S PROVE <<>> \in Seq(S)
OBVIOUS

LEMMA EmptyIfNone == ASSUME NEW S, NEW s \in Seq(S), Len(s) = 0 PROVE s = <<>>
OBVIOUS

LEMMA AppendFirst == ASSUME NEW x PROVE Append(<<>>, x) = <<x>>
OBVIOUS

\* One more sequence comes behind the others.
LEMMA FlattenAppend ==
    ASSUME NEW S, NEW s \in Seq(Seq(S)), NEW x \in Seq(S)
    PROVE  FlattenSeq(Append(s, x)) = FlattenSeq(s) \o x
<1>1. PICK t : t = Append(s, x)
  OBVIOUS
<1>2. PICK n \in Nat : n = Len(s)
  OBVIOUS
<1>3. Len(t) = n + 1 /\ t[n + 1] = x /\ \A i \in 1 .. n : t[i] = s[i]
  BY <1>1, <1>2, AppendProperties
<1>4. CASE n = 0
  <2>1. s = <<>> /\ t = <<x>>
    <3>1. s = <<>>
      BY <1>2, <1>4, EmptyIfNone
    <3> QED BY <1>1, <3>1, AppendFirst
  <2>2. <<>> \o x = x
    BY ConcatEmptySeq
  <2> QED BY <1>1, <2>1, <2>2, FlattenNothing, FlattenOne
<1>5. CASE n # 0
  <2>1. LongerByOne(s, t, n)
    BY <1>2, <1>3, <1>5 DEF LongerByOne, Agree
  <2> QED BY <1>1, <1>3, <2>1, FlattenLonger
<1> QED BY <1>4, <1>5

\* Induction over sequences, from the front.
LEMMA SeqSet ==
    ASSUME NEW S, NEW G, <<>> \in G, \A s \in Seq(S) : \A x \in S : s \in G => Append(s, x) \in G
    PROVE  Seq(S) \subseteq G
<1> DEFINE T == {n \in Nat : \A s \in Seq(S) : Len(s) = n => s \in G}
<1>1. 0 \in T
  <2>1. \A s \in Seq(S) : Len(s) = 0 => s = <<>>
    OBVIOUS
  <2> QED BY <2>1
<1>2. ASSUME NEW n \in Nat, n \in T PROVE n + 1 \in T
  <2>1. SUFFICES ASSUME NEW s \in Seq(S), Len(s) = n + 1 PROVE s \in G
    OBVIOUS
  <2>2. s # <<>>
    BY <2>1
  <2>3. PICK t \in Seq(S), x \in S : s = Append(t, x)
    BY <2>2, SequenceEmptyOrAppend
  <2>4. Len(t) = n
    BY <2>1, <2>3, AppendProperties
  <2> QED BY <1>2, <2>3, <2>4
<1>3. Nat \subseteq T
  <2> HIDE DEF T
  <2> QED BY <1>1, <1>2, NatSet
<1>4. \A s \in Seq(S) : Len(s) \in Nat
  OBVIOUS
<1> QED BY <1>3, <1>4

LEMMA FlattenType == ASSUME NEW S PROVE \A s \in Seq(Seq(S)) : FlattenSeq(s) \in Seq(S)
<1> DEFINE G == {s \in Seq(Seq(S)) : FlattenSeq(s) \in Seq(S)}
<1>1. <<>> \in G
  <2>1. <<>> \in Seq(Seq(S)) /\ <<>> \in Seq(S)
    BY NoneIsSeq
  <2> QED BY <2>1, FlattenNothing
<1>2. ASSUME NEW s \in Seq(Seq(S)), NEW x \in Seq(S), s \in G PROVE Append(s, x) \in G
  <2>1. FlattenSeq(s) \in Seq(S)
    BY <1>2
  <2>2. FlattenSeq(s) \o x \in Seq(S)
    BY <2>1, ConcatProperties
  <2>3. Append(s, x) \in Seq(Seq(S))
    BY AppendProperties
  <2> QED BY <2>2, <2>3, FlattenAppend
<1>3. Seq(Seq(S)) \subseteq G
  <2> HIDE DEF G
  <2> QED BY <1>1, <1>2, SeqSet
<1> QED BY <1>3

LEMMA ElementsOfConcat ==
    ASSUME NEW S, NEW s \in Seq(S), NEW t \in Seq(S), NEW x
    PROVE  x \in ToSet(s \o t) <=> x \in ToSet(s) \/ x \in ToSet(t)
<1>1. s \o t \in Seq(S) /\ Len(s \o t) = Len(s) + Len(t)
  BY ConcatProperties
<1>2. \A i \in 1 .. Len(s) : (s \o t)[i] = s[i]
  OBVIOUS
<1>3. \A i \in 1 .. Len(t) : (s \o t)[Len(s) + i] = t[i] /\ Len(s) + i \in 1 .. Len(s \o t)
  BY <1>1
<1>4. \A i \in 1 .. Len(s \o t) : i \in 1 .. Len(s) \/ \E k \in 1 .. Len(t) : i = Len(s) + k
  <2> TAKE i \in 1 .. Len(s \o t)
  <2>1. CASE i <= Len(s)
    BY <2>1
  <2>2. CASE i > Len(s)
    <3>1. i - Len(s) \in 1 .. Len(t) /\ i = Len(s) + (i - Len(s))
      BY <1>1, <2>2
    <3> QED BY <3>1
  <2> QED BY <2>1, <2>2
<1>5. DOMAIN (s \o t) = 1 .. Len(s \o t) /\ DOMAIN s = 1 .. Len(s) /\ DOMAIN t = 1 .. Len(t)
  BY <1>1
<1>6. ASSUME x \in ToSet(s \o t) PROVE x \in ToSet(s) \/ x \in ToSet(t)
  <2>1. PICK i \in 1 .. Len(s \o t) : x = (s \o t)[i]
    BY <1>5, <1>6 DEF ToSet
  <2>2. CASE i \in 1 .. Len(s)
    BY <1>2, <1>5, <2>1, <2>2 DEF ToSet
  <2>3. CASE \E k \in 1 .. Len(t) : i = Len(s) + k
    BY <1>3, <1>5, <2>1, <2>3 DEF ToSet
  <2> QED BY <1>4, <2>2, <2>3
<1>7. ASSUME x \in ToSet(s) PROVE x \in ToSet(s \o t)
  <2>1. PICK i \in 1 .. Len(s) : x = s[i]
    BY <1>5, <1>7 DEF ToSet
  <2>2. i \in 1 .. Len(s \o t)
    BY <1>1
  <2> QED BY <1>2, <1>5, <2>1, <2>2 DEF ToSet
<1>8. ASSUME x \in ToSet(t) PROVE x \in ToSet(s \o t)
  <2>1. PICK i \in 1 .. Len(t) : x = t[i]
    BY <1>5, <1>8 DEF ToSet
  <2> QED BY <1>3, <1>5, <2>1 DEF ToSet
<1> QED BY <1>6, <1>7, <1>8

LEMMA MadeSeq ==
    ASSUME NEW U, NEW n \in Nat, NEW u, u = [i \in 1 .. n |-> u[i]], \A i \in 1 .. n : u[i] \in U
    PROVE  u \in Seq(U) /\ Len(u) = n
OBVIOUS

LEMMA AroundSeq ==
    ASSUME NEW S, NEW a \in S, NEW b \in S, NEW s \in Seq(S), NEW n, n = Len(s)
    PROVE  /\ <<a>> \o s \o <<b>> \in Seq(S) /\ Len(<<a>> \o s \o <<b>>) = n + 2
           /\ (<<a>> \o s \o <<b>>)[1] = a /\ (<<a>> \o s \o <<b>>)[n + 2] = b
           /\ \A i \in 1 .. n : (<<a>> \o s \o <<b>>)[i + 1] = s[i]
<1>1. PICK p \in Seq(S) : p = <<a>>
  <2>1. <<a>> \in Seq(S)
    OBVIOUS
  <2> QED BY <2>1
<1>2. PICK q \in Seq(S) : q = <<b>>
  <2>1. <<b>> \in Seq(S)
    OBVIOUS
  <2> QED BY <2>1
<1>3. Len(p) = 1 /\ p[1] = a /\ Len(q) = 1 /\ q[1] = b /\ n \in Nat
  BY <1>1, <1>2
<1>4. PICK r \in Seq(S) : r = p \o s
  BY ConcatProperties
<1>5. Len(r) = n + 1 /\ r[1] = a /\ \A i \in 1 .. n : r[i + 1] = s[i]
  <2>1. Len(r) = n + 1 /\ \A i \in 1 .. n + 1 : r[i] = IF i <= 1 THEN p[i] ELSE s[i - 1]
    <3>1. Len(r) = n + 1
      <4>1. Len(r) = Len(p) + Len(s)
        BY <1>4, ConcatProperties
      <4> QED BY <1>3, <4>1
    <3>2. \A i \in 1 .. Len(p) + Len(s) : r[i] = IF i <= Len(p) THEN p[i] ELSE s[i - Len(p)]
      BY <1>4, ConcatProperties, SMTT(20)
    <3>3. Len(p) + Len(s) = n + 1
      BY <1>3, <1>4, <3>1, ConcatProperties
    <3> QED BY <1>3, <3>1, <3>2, <3>3
  <2>2. \A i \in 1 .. n : i + 1 \in 1 .. n + 1 /\ ~(i + 1 <= 1) /\ (i + 1) - 1 = i
    BY <1>3
  <2> QED BY <1>3, <2>1, <2>2
<1>6. PICK z \in Seq(S) : z = r \o q
  BY ConcatProperties
<1>7. Len(z) = n + 2 /\ z[n + 2] = b /\ \A i \in 1 .. n + 1 : z[i] = r[i]
  <2>1. Len(z) = n + 2 /\ \A i \in 1 .. n + 2 : z[i] = IF i <= n + 1 THEN r[i] ELSE q[i - (n + 1)]
    <3>0. Len(z) = Len(r) + Len(q)
      BY <1>6, ConcatProperties
    <3>1. Len(z) = n + 2
      BY <1>3, <1>5, <3>0
    <3> QED BY <1>3, <1>5, <1>6, <3>1
  <2>2. n + 2 \in 1 .. n + 2 /\ ~(n + 2 <= n + 1) /\ (n + 2) - (n + 1) = 1
    BY <1>3
  <2> QED BY <1>3, <2>1, <2>2
<1>8. \A i \in 1 .. n : i + 1 \in 1 .. n + 1
  BY <1>3
<1>9. 1 \in 1 .. n + 1
  BY <1>3
<1>10. z = <<a>> \o s \o <<b>>
  BY <1>1, <1>2, <1>4, <1>6
<1> QED BY <1>5, <1>7, <1>8, <1>9, <1>10

\* What a function makes of the elements of a sequence, put together.
Gathered(f, s) == FlattenSeq([i \in DOMAIN s |-> f[s[i]]])

Gatherer(f, T, S) == f \in [T -> Seq(S)]

LEMMA GatheredNothing == ASSUME NEW f PROVE Gathered(f, <<>>) = <<>>
<1>1. [i \in DOMAIN <<>> |-> f[<<>>[i]]] = <<>>
  OBVIOUS
<1> QED BY <1>1, FlattenNothing DEF Gathered

LEMMA GatheredMore ==
    ASSUME NEW S, NEW T, NEW f, Gatherer(f, T, S), NEW s \in Seq(T), NEW e \in T
    PROVE  /\ Gathered(f, s) \in Seq(S)
           /\ Gathered(f, Append(s, e)) = Gathered(f, s) \o f[e]
<1>0. \A x \in T : f[x] \in Seq(S)
  BY DEF Gatherer
<1>1. PICK n \in Nat : n = Len(s)
  OBVIOUS
<1>2. PICK t : t = Append(s, e)
  OBVIOUS
<1>3. t \in Seq(T) /\ Len(t) = n + 1 /\ t[n + 1] = e /\ \A i \in 1 .. n : t[i] = s[i]
  BY <1>1, <1>2, AppendProperties
<1>4. DOMAIN s = 1 .. n /\ DOMAIN t = 1 .. n + 1
  BY <1>1, <1>3
<1>5. PICK u : u = [i \in 1 .. n |-> f[s[i]]]
  OBVIOUS
<1>6. u \in Seq(Seq(S)) /\ Len(u) = n
  <2>1. \A i \in 1 .. n : f[s[i]] \in Seq(S)
    <3>1. \A i \in 1 .. n : s[i] \in T
      BY <1>1
    <3> QED BY <1>0, <3>1
  <2>2. PICK U : U = Seq(S)
    OBVIOUS
  <2>3. u = [i \in 1 .. n |-> u[i]] /\ \A i \in 1 .. n : u[i] \in U
    BY <1>5, <2>1, <2>2
  <2>4. u \in Seq(U) /\ Len(u) = n
    BY <2>3, MadeSeq
  <2> QED BY <2>2, <2>4
<1>7. [i \in 1 .. n + 1 |-> f[t[i]]] = Append(u, f[e])
  <2>1. PICK U : U = Seq(S)
    OBVIOUS
  <2>2. f[e] \in U /\ u \in Seq(U)
    BY <1>0, <1>6, <2>1
  <2>3. PICK v \in Seq(U) : v = Append(u, f[e])
    BY <2>2, AppendProperties
  <2>4. Len(v) = n + 1 /\ v[n + 1] = f[e] /\ \A i \in 1 .. n : v[i] = u[i]
    BY <1>6, <2>2, <2>3, AppendProperties
  <2>5. v = [i \in 1 .. n + 1 |-> v[i]]
    BY <2>4
  <2>6. \A i \in 1 .. n + 1 : i \in 1 .. n \/ i = n + 1
    OBVIOUS
  <2>7. \A i \in 1 .. n + 1 : v[i] = f[t[i]]
    BY <1>3, <1>5, <2>4, <2>6
  <2> QED BY <2>3, <2>5, <2>7
<1>8. Gathered(f, s) = FlattenSeq(u) /\ Gathered(f, t) = FlattenSeq(Append(u, f[e]))
  BY <1>4, <1>5, <1>7 DEF Gathered
<1>9. f[e] \in Seq(S)
  BY <1>0
<1> QED BY <1>2, <1>6, <1>8, <1>9, FlattenAppend, FlattenType

-----------------------------------------------------------------------------
(* Sequences without repetitions. *)

LEMMA RangeOfAppend ==
    ASSUME NEW U, NEW s \in Seq(U), NEW x \in U
    PROVE  /\ Append(s, x) \in Seq(U) /\ Range(Append(s, x)) = Range(s) \cup {x}
           /\ IsInjective(Append(s, x)) <=> IsInjective(s) /\ x \notin Range(s)
<1>1. PICK t \in Seq(U) : t = Append(s, x)
  BY AppendProperties
<1>2. PICK n \in Nat : n = Len(s)
  OBVIOUS
<1>3. Len(t) = n + 1 /\ t[n + 1] = x /\ \A i \in 1 .. n : t[i] = s[i]
  BY <1>1, <1>2, AppendProperties
<1>4. DOMAIN s = 1 .. n /\ DOMAIN t = 1 .. n + 1
  BY <1>2, <1>3
<1>5. \A i \in 1 .. n + 1 : i \in 1 .. n \/ i = n + 1
  OBVIOUS
<1>6. \A i \in 1 .. n : i \in 1 .. n + 1 /\ i # n + 1
  OBVIOUS
<1>7. n + 1 \in 1 .. n + 1
  OBVIOUS
<1>8. Range(t) = Range(s) \cup {x}
  <2>1. ASSUME NEW e \in Range(t) PROVE e \in Range(s) \cup {x}
    <3>1. PICK i \in 1 .. n + 1 : e = t[i]
      BY <1>4 DEF Range
    <3> QED BY <1>3, <1>4, <1>5, <3>1 DEF Range
  <2>2. ASSUME NEW e \in Range(s) PROVE e \in Range(t)
    <3>1. PICK i \in 1 .. n : e = s[i]
      BY <1>4 DEF Range
    <3> QED BY <1>3, <1>4, <1>6, <3>1 DEF Range
  <2>3. x \in Range(t)
    BY <1>3, <1>4, <1>7 DEF Range
  <2> QED BY <2>1, <2>2, <2>3
<1>9. ASSUME IsInjective(t) PROVE IsInjective(s) /\ x \notin Range(s)
  <2>1. IsInjective(s)
    BY <1>3, <1>4, <1>6, <1>9 DEF IsInjective
  <2>2. ASSUME x \in Range(s) PROVE FALSE
    <3>1. PICK i \in 1 .. n : x = s[i]
      BY <1>4, <2>2 DEF Range
    <3> QED BY <1>3, <1>4, <1>6, <1>7, <1>9, <3>1 DEF IsInjective
  <2> QED BY <2>1, <2>2
<1>10. ASSUME IsInjective(s), x \notin Range(s) PROVE IsInjective(t)
  <2>1. \A i \in 1 .. n : s[i] # x
    BY <1>4, <1>10 DEF Range
  <2>2. ASSUME NEW i \in 1 .. n + 1, NEW j \in 1 .. n + 1, t[i] = t[j] PROVE i = j
    <3>1. CASE i \in 1 .. n /\ j \in 1 .. n
      BY <1>3, <1>4, <1>10, <2>2, <3>1 DEF IsInjective
    <3>2. CASE i = n + 1 \/ j = n + 1
      BY <1>3, <1>5, <2>1, <2>2, <3>2
    <3> QED BY <1>5, <3>1, <3>2
  <2> QED BY <1>4, <2>2 DEF IsInjective
<1> QED BY <1>1, <1>8, <1>9, <1>10

LEMMA NothingTwice == IsInjective(<<>>) /\ Range(<<>>) = {}
<1>1. DOMAIN <<>> = {}
  OBVIOUS
<1> QED BY <1>1 DEF IsInjective, Range

LEMMA RangeIn == ASSUME NEW U, NEW s \in Seq(U) PROVE Range(s) \subseteq U
BY DEF Range

LEMMA FiniteRange == ASSUME NEW U PROVE \A s \in Seq(U) : IsFiniteSet(Range(s))
<1> DEFINE G == {s \in Seq(U) : IsFiniteSet(Range(s))}
<1>1. <<>> \in G
  <2>1. <<>> \in Seq(U)
    BY NoneIsSeq
  <2> QED BY <2>1, NothingTwice, FS_EmptySet
<1>2. ASSUME NEW s \in Seq(U), NEW x \in U, s \in G PROVE Append(s, x) \in G
  <2>1. IsFiniteSet(Range(s) \cup {x})
    BY <1>2, FS_AddElement
  <2>2. Append(s, x) \in Seq(U) /\ Range(Append(s, x)) = Range(s) \cup {x}
    BY RangeOfAppend
  <2>3. IsFiniteSet(Range(Append(s, x)))
    BY <2>1, <2>2
  <2> QED BY <2>2, <2>3
<1>3. Seq(U) \subseteq G
  <2> HIDE DEF G
  <2> QED BY <1>1, <1>2, SeqSet
<1> QED BY <1>3

\* One after the other they repeat nothing if they have nothing in common.
LEMMA RangeOfConcat ==
    ASSUME NEW U, NEW s \in Seq(U), NEW t \in Seq(U)
    PROVE  /\ s \o t \in Seq(U) /\ Range(s \o t) = Range(s) \cup Range(t)
           /\ IsInjective(s) /\ IsInjective(t) /\ Range(s) \cap Range(t) = {}
                => IsInjective(s \o t)
<1> DEFINE G == {q \in Seq(U) :
                   /\ s \o q \in Seq(U) /\ Range(s \o q) = Range(s) \cup Range(q)
                   /\ IsInjective(s) /\ IsInjective(q) /\ Range(s) \cap Range(q) = {}
                         => IsInjective(s \o q)}
<1>1. <<>> \in G
  <2>1. <<>> \in Seq(U) /\ s \o <<>> = s
    BY NoneIsSeq, ConcatEmptySeq
  <2> QED BY <2>1, NothingTwice
<1>2. ASSUME NEW q \in Seq(U), NEW x \in U, q \in G PROVE Append(q, x) \in G
  <2>1. s \o Append(q, x) = Append(s \o q, x)
    OBVIOUS
  <2>2. s \o q \in Seq(U) /\ Range(s \o q) = Range(s) \cup Range(q)
    BY <1>2
  <2>3. /\ Append(q, x) \in Seq(U) /\ Range(Append(q, x)) = Range(q) \cup {x}
        /\ IsInjective(Append(q, x)) <=> IsInjective(q) /\ x \notin Range(q)
    BY RangeOfAppend
  <2>4. PICK r \in Seq(U) : r = s \o q
    BY <2>2
  <2>5. /\ Append(r, x) \in Seq(U) /\ Range(Append(r, x)) = Range(r) \cup {x}
        /\ IsInjective(Append(r, x)) <=> IsInjective(r) /\ x \notin Range(r)
    BY RangeOfAppend
  <2>6. IsInjective(s) /\ IsInjective(q) /\ Range(s) \cap Range(q) = {} => IsInjective(r)
    BY <1>2, <2>4
  <2>7. IsInjective(s) /\ IsInjective(Append(q, x)) /\ Range(s) \cap Range(Append(q, x)) = {}
            => IsInjective(Append(r, x))
    BY <2>2, <2>3, <2>4, <2>5, <2>6
  <2>8. Range(s \o Append(q, x)) = Range(s) \cup Range(Append(q, x))
    BY <2>1, <2>2, <2>3, <2>4, <2>5
  <2>9. s \o Append(q, x) \in Seq(U)
    BY <2>1, <2>4, <2>5
  <2>10. IsInjective(s) /\ IsInjective(Append(q, x)) /\ Range(s) \cap Range(Append(q, x)) = {}
            => IsInjective(s \o Append(q, x))
    BY <2>1, <2>4, <2>7
  <2>11. PICK v \in Seq(U) : v = Append(q, x)
    BY <2>3
  <2>12. v \in G
    BY <2>8, <2>9, <2>10, <2>11
  <2> QED BY <2>11, <2>12
<1>3. Seq(U) \subseteq G
  <2> HIDE DEF G
  <2> QED BY <1>1, <1>2, SeqSet
<1> QED BY <1>3

Unknown(rows, known) ==
    FlattenSeq([i \in DOMAIN rows |-> IF rows[i] \in known THEN <<>> ELSE <<rows[i]>>])

\* What is left of a page without the known ones.
LEMMA UnknownOnce ==
    ASSUME NEW U, NEW known, NEW rows \in Seq(U)
    PROVE  /\ Unknown(rows, known) \in Seq(U) /\ Range(Unknown(rows, known)) = Range(rows) \ known
           /\ IsInjective(rows) => IsInjective(Unknown(rows, known))
<1>1. PICK f : f = [u \in U |-> IF u \in known THEN <<>> ELSE <<u>>]
  OBVIOUS
<1>2. /\ \A u \in U : u \in known => f[u] = <<>>
      /\ \A u \in U : u \notin known => f[u] = <<u>>
  BY <1>1
<1>3. Gatherer(f, U, U)
  <2>1. \A u \in U : f[u] \in Seq(U)
    <3>1. <<>> \in Seq(U) /\ \A u \in U : <<u>> \in Seq(U)
      BY NoneIsSeq
    <3> QED BY <1>2, <3>1
  <2>2. f = [u \in U |-> f[u]]
    BY <1>1
  <2> QED BY <2>1, <2>2 DEF Gatherer
<1>4. \A s \in Seq(U) : Unknown(s, known) = Gathered(f, s)
  <2> TAKE s \in Seq(U)
  <2>1. \A i \in DOMAIN s : s[i] \in U
    OBVIOUS
  <2>2. [i \in DOMAIN s |-> f[s[i]]]
            = [i \in DOMAIN s |-> IF s[i] \in known THEN <<>> ELSE <<s[i]>>]
    BY <1>2, <2>1
  <2> QED BY <2>2 DEF Unknown, Gathered
<1> DEFINE G == {s \in Seq(U) : /\ Gathered(f, s) \in Seq(U) /\ Range(Gathered(f, s)) = Range(s) \ known
                                /\ IsInjective(s) => IsInjective(Gathered(f, s))}
<1>5. <<>> \in G
  <2>1. <<>> \in Seq(U)
    BY NoneIsSeq
  <2> QED BY <2>1, GatheredNothing, NothingTwice
<1>6. ASSUME NEW s \in Seq(U), NEW x \in U, s \in G PROVE Append(s, x) \in G
  <2>0. Gathered(f, s) \in Seq(U) /\ Gathered(f, Append(s, x)) = Gathered(f, s) \o f[x]
    <3> HIDE DEF G
    <3> QED BY <1>3, GatheredMore
  <2>1. PICK r \in Seq(U) : r = Gathered(f, s)
    BY <2>0
  <2>2. Gathered(f, Append(s, x)) = r \o f[x]
    BY <2>0, <2>1
  <2>3. Range(r) = Range(s) \ known /\ (IsInjective(s) => IsInjective(r))
    BY <1>6, <2>1
  <2>4. /\ Append(s, x) \in Seq(U) /\ Range(Append(s, x)) = Range(s) \cup {x}
        /\ IsInjective(Append(s, x)) <=> IsInjective(s) /\ x \notin Range(s)
    BY RangeOfAppend
  <2>5. CASE x \in known
    <3>1. r \o f[x] = r
      BY <1>2, <2>5, ConcatEmptySeq
    <3>2. Gathered(f, Append(s, x)) = r
      BY <2>2, <3>1
    <3>3. /\ Range(r) = Range(Append(s, x)) \ known
          /\ IsInjective(Append(s, x)) => IsInjective(r)
      BY <2>3, <2>4, <2>5
    <3> QED BY <2>4, <3>2, <3>3
  <2>6. CASE x \notin known
    <3>1. r \o f[x] = Append(r, x)
      <4>1. f[x] = <<x>>
        BY <1>2, <2>6
      <4>2. r \o <<x>> = Append(r, x)
        OBVIOUS
      <4> QED BY <4>1, <4>2
    <3>2. /\ Range(Append(r, x)) = Range(r) \cup {x}
          /\ IsInjective(Append(r, x)) <=> IsInjective(r) /\ x \notin Range(r)
      BY RangeOfAppend
    <3>3. Gathered(f, Append(s, x)) = Append(r, x) /\ Append(r, x) \in Seq(U)
      BY <2>2, <3>1, AppendProperties
    <3>4. /\ Range(Append(r, x)) = Range(Append(s, x)) \ known
          /\ IsInjective(Append(s, x)) => IsInjective(Append(r, x))
      BY <2>3, <2>4, <2>6, <3>2
    <3> QED BY <2>4, <3>3, <3>4
  <2> QED BY <2>5, <2>6
<1>7. Seq(U) \subseteq G
  <2> HIDE DEF G
  <2> QED BY <1>5, <1>6, SeqSet
<1> QED BY <1>4, <1>7

\* The elements of one sequence are elements of another, each of its own, but for the i-th.
Others(r, s, i) ==
    \E m : /\ \A j \in DOMAIN r : m[j] \in DOMAIN s /\ m[j] # i /\ r[j] = s[m[j]]
           /\ \A j, k \in DOMAIN r : m[j] = m[k] => j = k

LEMMA WithoutOne ==
    ASSUME NEW S, NEW s \in Seq(S), NEW i \in DOMAIN s
    PROVE  RemoveAt(s, i) \in Seq(S) /\ Others(RemoveAt(s, i), s, i)
<1>1. PICK n \in Nat : n = Len(s)
  OBVIOUS
<1>2. DOMAIN s = 1 .. n /\ i \in 1 .. n
  BY <1>1
<1>3. PICK a \in Seq(S) : a = SubSeq(s, 1, i - 1)
  <2>1. \A j \in 1 .. (i - 1) : s[j] \in S
    BY <1>1, <1>2
  <2>2. SubSeq(s, 1, i - 1) \in Seq(S)
    BY <1>2, <2>1, SubSeqProperties
  <2> QED BY <2>2
<1>4. PICK b \in Seq(S) : b = SubSeq(s, i + 1, n)
  <2>1. \A j \in (i + 1) .. n : s[j] \in S
    BY <1>1, <1>2
  <2>2. SubSeq(s, i + 1, n) \in Seq(S)
    BY <1>2, <2>1, SubSeqProperties
  <2> QED BY <2>2
<1>5. Len(a) = i - 1 /\ \A j \in 1 .. (i - 1) : a[j] = s[j]
  BY <1>1, <1>2, <1>3
<1>6. Len(b) = n - i /\ \A j \in 1 .. (n - i) : b[j] = s[i + j]
  <2>1. Len(b) = n - i
    BY <1>1, <1>2, <1>4
  <2>2. ASSUME NEW j \in 1 .. (n - i) PROVE b[j] = s[i + j]
    <3>1. b[j] = s[(i + 1) + j - 1]
      BY <1>1, <1>2, <1>4, <2>1, SMTT(20)
    <3>2. (i + 1) + j - 1 = i + j
      BY <1>2
    <3> QED BY <3>1, <3>2
  <2> QED BY <2>1, <2>2
<1>7. PICK r \in Seq(S) : r = a \o b
  BY ConcatProperties
<1>8. RemoveAt(s, i) = r
  BY <1>1, <1>3, <1>4, <1>7 DEF RemoveAt
<1>9. Len(r) = n - 1
  <2>1. Len(r) = Len(a) + Len(b)
    BY <1>7, ConcatProperties
  <2> QED BY <1>2, <1>5, <1>6, <2>1
<1>10. /\ \A j \in 1 .. (i - 1) : r[j] = s[j]
       /\ \A j \in i .. (n - 1) : r[j] = s[j + 1]
  <2>1. ASSUME NEW j \in 1 .. (i - 1) PROVE r[j] = s[j]
    BY <1>5, <1>7, <2>1
  <2>2. ASSUME NEW j \in i .. (n - 1) PROVE r[j] = s[j + 1]
    <3>1. j - (i - 1) \in 1 .. (n - i) /\ i + (j - (i - 1)) = j + 1
      BY <1>2
    <3>2. r[j] = b[j - (i - 1)]
      <4>1. j \in 1 .. (Len(a) + Len(b)) /\ ~(j <= Len(a)) /\ j - Len(a) = j - (i - 1)
        BY <1>2, <1>5, <1>6
      <4> QED BY <1>7, <4>1
    <3> QED BY <1>6, <3>1, <3>2
  <2> QED BY <2>1, <2>2
<1>11. PICK m : m = [j \in 1 .. (n - 1) |-> IF j < i THEN j ELSE j + 1]
  OBVIOUS
<1>12. ASSUME NEW j \in 1 .. (n - 1) PROVE m[j] \in 1 .. n /\ m[j] # i /\ r[j] = s[m[j]]
  <2>1. CASE j < i
    BY <1>2, <1>10, <1>11, <2>1
  <2>2. CASE ~(j < i)
    <3>1. j \in i .. (n - 1) /\ m[j] = j + 1
      BY <1>2, <1>11, <2>2
    <3> QED BY <1>2, <1>10, <3>1
  <2> QED BY <2>1, <2>2
<1>13. \A j, k \in 1 .. (n - 1) : m[j] = m[k] => j = k
  <2> TAKE j, k \in 1 .. (n - 1)
  <2>1. m[j] = IF j < i THEN j ELSE j + 1
    BY <1>11
  <2>2. m[k] = IF k < i THEN k ELSE k + 1
    BY <1>11
  <2> QED BY <1>2, <2>1, <2>2
<1>14. DOMAIN r = 1 .. (n - 1)
  BY <1>9
<1>15. /\ \A j \in DOMAIN r : m[j] \in DOMAIN s /\ m[j] # i /\ r[j] = s[m[j]]
       /\ \A j, k \in DOMAIN r : m[j] = m[k] => j = k
  BY <1>2, <1>12, <1>13, <1>14
<1> QED BY <1>8, <1>15 DEF Others

LEMMA InPlace ==
    ASSUME NEW S, NEW s \in Seq(S), NEW i \in DOMAIN s, NEW x \in S, NEW t, t = [s EXCEPT ![i] = x]
    PROVE  /\ t \in Seq(S) /\ DOMAIN t = DOMAIN s /\ t[i] = x
           /\ \A j \in DOMAIN s : j # i => t[j] = s[j]
OBVIOUS

LEMMA MinOfTwo ==
    ASSUME NEW a \in Nat, NEW b \in Nat
    PROVE  Min({a, b}) \in Nat /\ Min({a, b}) <= b
<1>1. \E x \in {a, b} : \A y \in {a, b} : x <= y
  <2>1. CASE a <= b
    BY <2>1
  <2>2. CASE b <= a
    BY <2>2
  <2> QED BY <2>1, <2>2
<1>2. Min({a, b}) \in {a, b} /\ \A y \in {a, b} : Min({a, b}) <= y
  BY <1>1 DEF Min
<1> QED BY <1>2

\* The buffer of recent events: what it has is what it had, and the new one.
LEMMA LastOf ==
    ASSUME NEW S, NEW r \in Seq(S), NEW m \in Nat, m <= Len(r),
           NEW start, start = Len(r) - m + 1, NEW t, t = SubSeq(r, start, Len(r))
    PROVE  t \in Seq(S) /\ \A i \in DOMAIN t : \E j \in DOMAIN r : t[i] = r[j]
<1>1. PICK n \in Nat : n = Len(r)
  OBVIOUS
<1>2. PICK k \in Nat : k = n - m + 1 /\ k >= 1
  BY <1>1
<1>3. t \in Seq(S) /\ Len(t) = n - k + 1 /\ \A i \in 1 .. (n - k + 1) : t[i] = r[k + i - 1]
  <2>1. \A i \in k .. n : r[i] \in S
    BY <1>1, <1>2
  <2>2. t = SubSeq(r, k, n)
    <3>1. k = start
      BY <1>1, <1>2
    <3> QED BY <1>1, <3>1
  <2>3. /\ SubSeq(r, k, n) \in Seq(S)
        /\ Len(SubSeq(r, k, n)) = IF k <= n THEN n - k + 1 ELSE 0
        /\ \A i \in 1 .. n - k + 1 : SubSeq(r, k, n)[i] = r[k + i - 1]
    BY <2>1, SubSeqProperties, SMTT(20)
  <2>4. (IF k <= n THEN n - k + 1 ELSE 0) = n - k + 1
    BY <1>1, <1>2
  <2> QED BY <2>2, <2>3, <2>4
<1>4. \A i \in 1 .. (n - k + 1) : k + i - 1 \in 1 .. n
  BY <1>1, <1>2
<1>5. DOMAIN t = 1 .. (n - k + 1) /\ DOMAIN r = 1 .. n
  BY <1>1, <1>3
<1> QED BY <1>3, <1>4, <1>5

\* An element of a sequence is its first or is in what follows it.
LEMMA HeadAndTail ==
    ASSUME NEW S, NEW s \in Seq(S), s # <<>>
    PROVE  /\ Head(s) \in S /\ Tail(s) \in Seq(S)
           /\ \E i \in DOMAIN s : Head(s) = s[i]
           /\ \A i \in DOMAIN Tail(s) : \E j \in DOMAIN s : Tail(s)[i] = s[j]
           /\ Range(s) \subseteq Range(Tail(s)) \cup {Head(s)}
<1>1. PICK n \in Nat : n = Len(s) /\ n >= 1
  <2>1. Len(s) # 0
    BY EmptyIfNone
  <2> QED BY <2>1
<1>2. PICK t \in Seq(S) : t = Tail(s)
  BY HeadTailProperties
<1>3. Len(t) = n - 1 /\ \A i \in 1 .. (n - 1) : t[i] = s[i + 1]
  BY <1>1, <1>2, HeadTailProperties
<1>4. Head(s) = s[1] /\ Head(s) \in S
  BY HeadTailProperties
<1>5. DOMAIN s = 1 .. n /\ DOMAIN t = 1 .. (n - 1) /\ 1 \in 1 .. n
  BY <1>1, <1>3
<1>6. \A i \in 1 .. (n - 1) : i + 1 \in 1 .. n
  BY <1>1
<1>7. \A i \in 1 .. n : i = 1 \/ (i - 1 \in 1 .. (n - 1) /\ (i - 1) + 1 = i)
  BY <1>1
<1>8. Range(s) \subseteq Range(t) \cup {s[1]}
  <2>1. ASSUME NEW i \in 1 .. n PROVE s[i] \in Range(t) \cup {s[1]}
    <3>1. CASE i = 1
      BY <3>1
    <3>2. CASE i # 1
      <4>1. i - 1 \in 1 .. (n - 1) /\ t[i - 1] = s[i]
        BY <1>3, <1>7, <3>2
      <4> QED BY <1>5, <4>1 DEF Range
    <3> QED BY <3>1, <3>2
  <2> QED BY <1>5, <2>1 DEF Range
<1> QED BY <1>2, <1>3, <1>4, <1>5, <1>6, <1>8

-----------------------------------------------------------------------------
\* q lists the set A of numbers in increasing order.
Increasing(q, A) ==
    /\ q \in [1 .. Cardinality(A) -> A]
    /\ \A i, j \in DOMAIN q : i < j => q[i] < q[j]

LEMMA IncreasingIsAll ==
    ASSUME NEW A \in SUBSET Nat, IsFiniteSet(A), NEW q, Increasing(q, A)
    PROVE  /\ q \in Seq(A) /\ Len(q) = Cardinality(A) /\ Cardinality(A) \in Nat
           /\ DOMAIN q = 1 .. Cardinality(A) /\ Range(q) = A /\ IsInjective(q)
<1>1. PICK n \in Nat : n = Cardinality(A)
  BY FS_CardinalityType
<1>2. q \in [1 .. n -> A] /\ DOMAIN q = 1 .. n
  BY <1>1 DEF Increasing
<1>3. q \in Seq(A) /\ Len(q) = n
  BY <1>2, MadeSeq
<1>4. IsInjective(q)
  <2>1. ASSUME NEW i \in 1 .. n, NEW j \in 1 .. n, q[i] = q[j] PROVE i = j
    <3>1. q[i] \in Nat /\ q[j] \in Nat
      BY <1>2
    <3>2. ~(q[i] < q[j]) /\ ~(q[j] < q[i])
      BY <2>1, <3>1
    <3>3. ~(i < j) /\ ~(j < i)
      BY <1>2, <3>2 DEF Increasing
    <3> QED BY <3>3
  <2> QED BY <1>2, <2>1 DEF IsInjective
<1>5. q \in Injection(1 .. n, A)
  BY <1>2, <1>4 DEF Injection, IsInjective
<1>6. Cardinality(1 .. n) = n
  <2>1. n \in Int /\ 1 \in Int
    OBVIOUS
  <2>2. Cardinality(1 .. n) = IF 1 > n THEN 0 ELSE n - 1 + 1
    BY <2>1, FS_Interval
  <2> QED BY <2>2
<1>7. q \in Surjection(1 .. n, A)
  <2>1. Cardinality(1 .. n) = Cardinality(A)
    BY <1>1, <1>6
  <2> QED BY <1>5, <2>1, FS_Injection
<1>8. Range(q) = A
  <2>1. \A x \in A : \E i \in 1 .. n : q[i] = x
    BY <1>7 DEF Surjection
  <2> QED BY <1>2, <2>1 DEF Range
<1> QED BY <1>1, <1>2, <1>3, <1>4, <1>8

\* A set of numbers has one listing in order.
LEMMA IncreasingIsOne ==
    ASSUME NEW A \in SUBSET Nat, IsFiniteSet(A),
           NEW p, Increasing(p, A), NEW q, Increasing(q, A)
    PROVE  p = q
<1>1. PICK n \in Nat : n = Cardinality(A)
  BY FS_CardinalityType
<1>2. /\ p \in [1 .. n -> A] /\ q \in [1 .. n -> A]
      /\ \A i, j \in 1 .. n : i < j => p[i] < p[j] /\ q[i] < q[j]
  BY <1>1 DEF Increasing
<1>3. \A x \in A : (\E i \in 1 .. n : p[i] = x) /\ (\E i \in 1 .. n : q[i] = x)
  <2>1. Range(p) = A /\ Range(q) = A
    BY IncreasingIsAll
  <2>2. Range(p) = {p[i] : i \in 1 .. n} /\ Range(q) = {q[i] : i \in 1 .. n}
    BY <1>2 DEF Range
  <2> QED BY <2>1, <2>2
<1> DEFINE S == {k \in Nat : \A i \in 1 .. n : i <= k => p[i] = q[i]}
<1>4. 0 \in S
  OBVIOUS
<1>5. ASSUME NEW k \in Nat, k \in S PROVE k + 1 \in S
  <2>1. \A i \in 1 .. n : i <= k => p[i] = q[i]
    BY <1>5
  <2>2. ASSUME k + 1 \in 1 .. n PROVE p[k + 1] = q[k + 1]
    <3>1. \A i \in 1 .. n : p[i] \in Nat /\ q[i] \in Nat
      BY <1>2
    <3>2. ASSUME p[k + 1] < q[k + 1] PROVE FALSE
      <4>1. p[k + 1] \in A
        BY <1>2, <2>2
      <4>2. PICK m \in 1 .. n : q[m] = p[k + 1]
        BY <1>3, <4>1
      <4>3. CASE m <= k
        BY <1>2, <2>1, <2>2, <3>1, <4>2, <4>3
      <4>4. CASE m = k + 1
        BY <3>1, <2>2, <3>2, <4>2, <4>4
      <4>5. CASE m > k + 1
        BY <1>2, <2>2, <3>1, <3>2, <4>2, <4>5
      <4> QED BY <4>3, <4>4, <4>5
    <3>3. ASSUME q[k + 1] < p[k + 1] PROVE FALSE
      <4>1. q[k + 1] \in A
        BY <1>2, <2>2
      <4>2. PICK m \in 1 .. n : p[m] = q[k + 1]
        BY <1>3, <4>1
      <4>3. CASE m <= k
        BY <1>2, <2>1, <2>2, <3>1, <4>2, <4>3
      <4>4. CASE m = k + 1
        BY <3>1, <2>2, <3>3, <4>2, <4>4
      <4>5. CASE m > k + 1
        BY <1>2, <2>2, <3>1, <3>3, <4>2, <4>5
      <4> QED BY <4>3, <4>4, <4>5
    <3> QED BY <2>2, <3>1, <3>2, <3>3
  <2>3. ASSUME NEW i \in 1 .. n, i <= k + 1 PROVE p[i] = q[i]
    <3>1. i <= k \/ i = k + 1
      BY <2>3
    <3> QED BY <2>1, <2>2, <3>1
  <2> QED BY <2>3
<1>6. n \in S
  <2> HIDE DEF S
  <2>1. Nat \subseteq S
    BY <1>4, <1>5, NatSet
  <2> QED BY <2>1
<1>7. \A i \in 1 .. n : p[i] = q[i]
  BY <1>6
<1> QED BY <1>2, <1>7

\* Every finite set of numbers has one.
LEMMA IncreasingExists ==
    ASSUME NEW m \in Nat
    PROVE  \A A \in SUBSET (0 .. m - 1) : IsFiniteSet(A) /\ \E q : Increasing(q, A)
<1> DEFINE S == {k \in Nat : \A A \in SUBSET (0 .. k - 1) : IsFiniteSet(A) /\ \E q : Increasing(q, A)}
<1>1. 0 \in S
  <2>1. Increasing(<<>>, {})
    <3>1. Cardinality({}) = 0
      BY FS_EmptySet
    <3>2. <<>> \in [1 .. 0 -> {}] /\ DOMAIN <<>> = {}
      OBVIOUS
    <3> QED BY <3>1, <3>2 DEF Increasing
  <2>2. \A A \in SUBSET (0 .. 0 - 1) : A = {}
    OBVIOUS
  <2>3. \A A \in SUBSET (0 .. 0 - 1) : IsFiniteSet(A) /\ \E q : Increasing(q, A)
    <3>1. IsFiniteSet({}) /\ \E q : Increasing(q, {})
      BY <2>1, FS_EmptySet
    <3> QED BY <2>2, <3>1
  <2> QED BY <2>3
<1>2. ASSUME NEW k \in Nat, k \in S PROVE k + 1 \in S
  <2>1. ASSUME NEW A \in SUBSET (0 .. (k + 1) - 1) PROVE IsFiniteSet(A) /\ \E q : Increasing(q, A)
    <3>1. PICK B \in SUBSET (0 .. k - 1) : B = A \ {k}
      <4>1. \A x \in A : x # k => x \in 0 .. k - 1
        OBVIOUS
      <4> QED BY <4>1
    <3>2. IsFiniteSet(B) /\ \E q : Increasing(q, B)
      BY <1>2
    <3>3. CASE k \notin A
      <4>1. A = B
        BY <3>1, <3>3
      <4> QED BY <3>2, <4>1
    <3>4. CASE k \in A
      <4>1. A = B \cup {k} /\ k \notin B
        BY <3>1, <3>4
      <4>2. PICK n \in Nat : n = Cardinality(B)
        BY <3>2, FS_CardinalityType
      <4>3. IsFiniteSet(A) /\ Cardinality(A) = n + 1
        BY <3>2, <4>1, <4>2, FS_AddElement
      <4>4. PICK q : Increasing(q, B)
        BY <3>2
      <4>5. q \in [1 .. n -> B] /\ \A i, j \in 1 .. n : i < j => q[i] < q[j]
        BY <4>2, <4>4 DEF Increasing
      <4> DEFINE p == [i \in 1 .. n + 1 |-> IF i = n + 1 THEN k ELSE q[i]]
      <4>6. p \in [1 .. n + 1 -> A]
        <5>1. \A i \in 1 .. n + 1 : i = n + 1 \/ i \in 1 .. n
          OBVIOUS
        <5> QED BY <4>1, <4>5, <5>1
      <4>7. ASSUME NEW i \in 1 .. n + 1, NEW j \in 1 .. n + 1, i < j PROVE p[i] < p[j]
        <5>1. i \in 1 .. n /\ p[i] = q[i] /\ q[i] \in B
          BY <4>5, <4>7
        <5>2. CASE j = n + 1
          <6>1. p[j] = k
            BY <5>2
          <6>2. q[i] \in 0 .. k - 1
            BY <5>1
          <6> HIDE DEF p
          <6> QED BY <5>1, <6>1, <6>2
        <5>3. CASE j # n + 1
          <6>1. j \in 1 .. n /\ p[j] = q[j]
            BY <5>3
          <6> QED BY <4>5, <4>7, <5>1, <6>1
        <5> QED BY <5>2, <5>3
      <4>8. Increasing(p, A)
        <5>1. DOMAIN p = 1 .. n + 1
          OBVIOUS
        <5> HIDE DEF p
        <5> QED BY <4>3, <4>6, <4>7, <5>1 DEF Increasing
      <4> QED BY <4>3, <4>8
    <3> QED BY <3>3, <3>4
  <2> QED BY <2>1
<1>3. m \in S
  <2> HIDE DEF S
  <2>1. Nat \subseteq S
    BY <1>1, <1>2, NatSet
  <2> QED BY <2>1
<1> QED BY <1>3

\* A set of numbers has a least one.
LEMMA LeastOf ==
    ASSUME NEW A, A \subseteq Nat, A # {}
    PROVE  Min(A) \in A /\ \E x \in A : \A y \in A : x <= y
<1> DEFINE R == OpToRel(<, Nat)
<1>1. IsWellFoundedOn(R, Nat)
  BY NatLessThanWellFounded
<1>2. PICK y \in A : \A z \in A : <<z, y>> \notin R
  <2> HIDE DEF R
  <2> QED BY <1>1, WFMin
<1>3. \A z \in A : y <= z
  <2>1. ASSUME NEW z \in A PROVE ~(z < y)
    <3>1. z \in Nat /\ y \in Nat
      OBVIOUS
    <3>2. z < y => <<z, y>> \in R
      BY <3>1 DEF OpToRel
    <3> QED BY <1>2, <3>2
  <2>2. ASSUME NEW z \in A PROVE y <= z
    <3>1. z \in Nat /\ y \in Nat /\ ~(z < y)
      BY <2>1
    <3> QED BY <3>1
  <2> QED BY <2>2
<1> QED BY <1>3 DEF Min

\* A sequence cut in two: the first n, and what is behind them.
Splits(s, n, a, b) == a = SubSeq(s, 1, n) /\ b = SubSeq(s, Len(a) + 1, Len(s))

LEMMA SplitAt ==
    ASSUME NEW S, NEW s \in Seq(S), NEW n \in 0 .. Len(s), IsInjective(s),
           NEW a, NEW b, Splits(s, n, a, b)
    PROVE  /\ b \in Seq(S) /\ IsInjective(b)
           /\ Range(b) \subseteq Range(s) /\ Range(a) \cap Range(b) = {}
<1>1. PICK l \in Nat : l = Len(s)
  OBVIOUS
<1>s. a = SubSeq(s, 1, n) /\ b = SubSeq(s, Len(a) + 1, Len(s))
  BY DEF Splits
<1>2. DOMAIN s = 1 .. l /\ \A i \in 1 .. l : s[i] \in S
  BY <1>1
<1>3. /\ DOMAIN a = 1 .. n /\ Len(a) = n
      /\ \A i \in 1 .. n : i \in 1 .. l /\ a[i] = s[i]
  BY <1>1, <1>2, <1>s, SubSeqProperties
<1>4. b = SubSeq(s, n + 1, l)
  BY <1>1, <1>3, <1>s
<1>5. b \in Seq(S) /\ Len(b) = l - n
  <2>1. \A i \in n + 1 .. l : s[i] \in S
    BY <1>1, <1>2
  <2> QED BY <1>1, <1>4, <2>1, SubSeqProperties
<1>6. PICK at : at = [i \in 1 .. l - n |-> n + i]
  OBVIOUS
<1>7. /\ DOMAIN b = 1 .. l - n
      /\ \A i \in 1 .. l - n : at[i] \in n + 1 .. l /\ at[i] \in 1 .. l /\ b[i] = s[at[i]]
      /\ \A i, j \in 1 .. l - n : at[i] = at[j] => i = j
  <2>1. \A i \in 1 .. l - n : at[i] = n + i
    BY <1>6
  <2>2. ASSUME NEW i \in 1 .. l - n PROVE b[i] = s[at[i]]
    <3>1. b[i] = s[n + 1 + i - 1]
      BY <1>1, <1>4, <1>5, SubSeqProperties
    <3>2. n + 1 + i - 1 = at[i]
      BY <2>1
    <3> QED BY <3>1, <3>2
  <2>3. ASSUME NEW i \in 1 .. l - n PROVE at[i] \in n + 1 .. l /\ at[i] \in 1 .. l
    BY <1>1, <2>1
  <2>4. ASSUME NEW i \in 1 .. l - n, NEW j \in 1 .. l - n, at[i] = at[j] PROVE i = j
    BY <2>1, <2>4
  <2>5. DOMAIN b = 1 .. l - n
    BY <1>5
  <2> QED BY <2>2, <2>3, <2>4, <2>5
<1>8. IsInjective(b)
  <2>1. ASSUME NEW i \in 1 .. l - n, NEW j \in 1 .. l - n, b[i] = b[j] PROVE i = j
    <3>1. at[i] = at[j]
      BY <1>2, <1>7, <2>1 DEF IsInjective
    <3> QED BY <1>7, <3>1
  <2> QED BY <1>7, <2>1 DEF IsInjective
<1>9. Range(b) \subseteq Range(s)
  BY <1>2, <1>7 DEF Range
<1>10. Range(a) \cap Range(b) = {}
  <2>1. ASSUME NEW i \in 1 .. n, NEW j \in 1 .. l - n, a[i] = b[j] PROVE FALSE
    <3>1. s[i] = s[at[j]] /\ i \in 1 .. l /\ at[j] \in 1 .. l
      BY <1>3, <1>7, <2>1
    <3>2. i = at[j]
      BY <1>2, <3>1 DEF IsInjective
    <3>3. at[j] \in n + 1 .. l
      BY <1>7
    <3> QED BY <3>2, <3>3
  <2>2. ASSUME NEW x \in Range(a), x \in Range(b) PROVE FALSE
    <3>1. PICK i \in 1 .. n : a[i] = x
      BY <1>3 DEF Range
    <3>2. PICK j \in 1 .. l - n : b[j] = x
      BY <1>7, <2>2 DEF Range
    <3> QED BY <2>1, <3>1, <3>2
  <2> QED BY <2>2
<1> QED BY <1>5, <1>8, <1>9, <1>10
=============================================================================
