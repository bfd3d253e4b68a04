---------------------------- MODULE SequenceLemmas ----------------------------
(***************************************************************************)
(* What the proofs need of naturals, sequences and the operators on        *)
(* sequences that the modules take from SequencesExt.                      *)
(***************************************************************************)
EXTENDS Integers, Sequences, SequencesExt, SequenceTheorems, WellFoundedInduction, TLAPS

(* Every set of naturals that is not empty has a least element: what is to  *)
(* be shown of all n by induction is shown by looking at the least n for    *)
(* which it fails.                                                          *)
LEMMA LeastNat ==
    ASSUME NEW T \in SUBSET Nat, T # {}
    PROVE  \E m \in T : \A k \in T : m <= k
<1> DEFINE R == {ss \in Nat \X Nat : ss[1] < ss[2]}
<1>1. R = OpToRel(<, Nat)
  BY DEF OpToRel
<1>2. IsWellFoundedOn(R, Nat)
  BY <1>1, NatLessThanWellFounded
<1>3. PICK x \in T : \A y \in T : ~(<<y, x>> \in R)
  BY <1>2, WFMin
<1>4. ASSUME NEW m \in Nat, NEW k \in Nat, k < m  PROVE <<k, m>> \in R
  <2>1. <<k, m>> \in Nat \X Nat /\ <<k, m>>[1] = k /\ <<k, m>>[2] = m
    OBVIOUS
  <2> QED  BY <1>4, <2>1
<1> HIDE DEF R
<1>5. ASSUME NEW y \in T  PROVE x <= y
  <2>1. x \in Nat /\ y \in Nat /\ ~(y < x)
    BY <1>3, <1>4
  <2> QED  BY <2>1
<1> QED  BY <1>5

-----------------------------------------------------------------------------
(* f[k] is the concatenation of the first k sequences of ss: the function   *)
(* FlattenSeq defines by recursion, here for the first n of them.           *)
Flattens(f, ss, n) ==
    f = [i \in 1..n |-> IF i = 1 THEN ss[i] ELSE f[i - 1] \o ss[i]]

(* The partial concatenations, one by one.                                  *)
LEMMA FlattensValues ==
    ASSUME NEW ss, NEW n \in Nat, NEW f, Flattens(f, ss, n)
    PROVE  /\ n > 0 => f[1] = ss[1]
           /\ \A k \in 2..n : f[k] = f[k - 1] \o ss[k]
<1>1. ASSUME NEW i \in 1..n  PROVE f[i] = IF i = 1 THEN ss[i] ELSE f[i - 1] \o ss[i]
  BY Zenon DEF Flattens
<1>2. ASSUME n > 0  PROVE f[1] = ss[1]
  <2>1. 1 \in 1..n
    BY <1>2
  <2> QED  BY <1>1, <2>1, Zenon
<1>3. ASSUME NEW k \in 2..n  PROVE f[k] = f[k - 1] \o ss[k]
  <2>1. k \in 1..n /\ k # 1
    OBVIOUS
  <2> QED  BY <1>1, <2>1, Zenon
<1> QED  BY <1>2, <1>3

(* There are partial concatenations of every length: by induction on the    *)
(* length.                                                                  *)
LEMMA FlattensExists ==
    ASSUME NEW ss, NEW len \in Nat
    PROVE  \E f : Flattens(f, ss, len)
<1> DEFINE T == {n \in Nat : ~\E f : Flattens(f, ss, n)}
<1>1. \E f : Flattens(f, ss, 0)
  <2>1. Flattens([i \in 1..0 |-> <<>>], ss, 0)
    BY DEF Flattens
  <2> QED  BY <2>1
<1>2. ASSUME NEW n \in Nat, NEW f, Flattens(f, ss, n)  PROVE \E g : Flattens(g, ss, n + 1)
  <2> DEFINE g == [i \in 1..(n + 1) |-> IF i = 1 THEN ss[i] ELSE f[i - 1] \o ss[i]]
  <2>1. ASSUME NEW i \in 1..n  PROVE f[i] = g[i]
    <3>1. f[i] = IF i = 1 THEN ss[i] ELSE f[i - 1] \o ss[i]
      BY <1>2, Zenon DEF Flattens
    <3>2. i \in 1..(n + 1)
      OBVIOUS
    <3> QED  BY <3>1, <3>2
  <2>2. ASSUME NEW i \in 1..(n + 1), i # 1  PROVE f[i - 1] = g[i - 1]
    <3>1. i - 1 \in 1..n
      BY <2>2
    <3> QED  BY <2>1, <3>1
  <2>3. g = [i \in 1..(n + 1) |-> IF i = 1 THEN ss[i] ELSE g[i - 1] \o ss[i]]
    BY <2>2
  <2> QED  BY <2>3 DEF Flattens
<1>3. T = {}
  <2> SUFFICES ASSUME T # {}  PROVE FALSE
    OBVIOUS
  <2>1. PICK n \in T : \A j \in T : n <= j
    BY LeastNat
  <2>2. n \in Nat /\ (~\E f : Flattens(f, ss, n)) /\ n # 0
    BY <1>1
  <2>3. n - 1 \in Nat /\ n - 1 \notin T /\ (n - 1) + 1 = n
    BY <2>1, <2>2
  <2>4. PICK f : Flattens(f, ss, n - 1)
    BY <2>3
  <2>5. \E g : Flattens(g, ss, n)
    BY <1>2, <2>3, <2>4
  <2> QED  BY <2>2, <2>5
<1> QED  BY <1>3

(* Each of them is a sequence over the same set: by induction on the        *)
(* position.                                                                *)
LEMMA FlattensType ==
    ASSUME NEW S, NEW ss \in Seq(Seq(S)), NEW f, Flattens(f, ss, Len(ss))
    PROVE  \A k \in 1..Len(ss) : f[k] \in Seq(S)
<1> DEFINE T == {k \in 1..Len(ss) : f[k] \notin Seq(S)}
<1>0. Len(ss) \in Nat /\ T \in SUBSET Nat /\ \A k \in 1..Len(ss) : ss[k] \in Seq(S)
  OBVIOUS
<1> SUFFICES ASSUME T # {}  PROVE FALSE
  OBVIOUS
<1>1. PICK k \in T : \A j \in T : k <= j
  BY <1>0, LeastNat
<1>v. /\ Len(ss) > 0 => f[1] = ss[1]
      /\ \A i \in 2..Len(ss) : f[i] = f[i - 1] \o ss[i]
  BY <1>0, FlattensValues, ZenonT(60)
<1>2. k \in 1..Len(ss) /\ f[k] \notin Seq(S)
  OBVIOUS
<1>3. k # 1
  BY <1>0, <1>2, <1>v
<1>4. k \in 2..Len(ss) /\ k - 1 \in 1..Len(ss) /\ k - 1 \notin T
  BY <1>0, <1>1, <1>2, <1>3
<1>5. f[k - 1] \in Seq(S) /\ ss[k] \in Seq(S) /\ f[k] = f[k - 1] \o ss[k]
  BY <1>0, <1>2, <1>4, <1>v
<1> QED  BY <1>2, <1>5

(* FlattenSeq gives the last value of that function.                        *)
LEMMA FlattenSeqIs ==
    ASSUME NEW ss, Len(ss) \in Nat \ {0}
    PROVE  \E f : Flattens(f, ss, Len(ss)) /\ FlattenSeq(ss) = f[Len(ss)]
<1>1. FlattenSeq(ss) = (CHOOSE f : Flattens(f, ss, Len(ss)))[Len(ss)]
  BY DEF FlattenSeq, Flattens
<1>2. \E f : Flattens(f, ss, Len(ss))
  BY FlattensExists
<1> QED  BY <1>1, <1>2

(* FlattenSeq of sequences over S is a sequence over S.                     *)
LEMMA FlattenSeqType ==
    ASSUME NEW S, NEW ss \in Seq(Seq(S))
    PROVE  FlattenSeq(ss) \in Seq(S)
<1>1. CASE Len(ss) = 0
  BY <1>1 DEF FlattenSeq
<1>2. CASE Len(ss) # 0
  <2>1. Len(ss) \in Nat \ {0} /\ Len(ss) \in 1..Len(ss)
    BY <1>2
  <2>2. PICK f : Flattens(f, ss, Len(ss)) /\ FlattenSeq(ss) = f[Len(ss)]
    BY <2>1, FlattenSeqIs
  <2> QED  BY <2>1, <2>2, FlattensType
<1> QED  BY <1>1, <1>2

(* FlattenSeq of one sequence is that sequence.                             *)
LEMMA FlattenSeqSingle ==
    ASSUME NEW ss, Len(ss) = 1
    PROVE  FlattenSeq(ss) = ss[1]
<1>2. Len(ss) \in Nat /\ Len(ss) > 0 /\ Len(ss) \in Nat \ {0}
  OBVIOUS
<1>1. PICK f : Flattens(f, ss, Len(ss)) /\ FlattenSeq(ss) = f[Len(ss)]
  BY <1>2, FlattenSeqIs, Zenon
<1>3. f[1] = ss[1]
  BY <1>1, <1>2, FlattensValues, Zenon
<1> QED  BY <1>1, <1>3

(* FlattenSeq of nothing is empty.                                          *)
LEMMA FlattenSeqEmpty == FlattenSeq(<<>>) = <<>>
BY DEF FlattenSeq

(* A sequence appended to the sequences is appended to the result.          *)
LEMMA FlattenSeqAppend ==
    ASSUME NEW S, NEW ss \in Seq(Seq(S)), NEW x \in Seq(S)
    PROVE  FlattenSeq(Append(ss, x)) = FlattenSeq(ss) \o x
<1> DEFINE tt == Append(ss, x)
<1>0. /\ tt \in Seq(Seq(S)) /\ Len(ss) \in Nat /\ Len(tt) = Len(ss) + 1
      /\ tt[Len(ss) + 1] = x /\ \A i \in 1..Len(ss) : tt[i] = ss[i]
  OBVIOUS
<1> HIDE DEF tt
<1>1. CASE Len(ss) = 0
  <2>1. ss = <<>> /\ FlattenSeq(ss) = <<>>
    BY <1>1, FlattenSeqEmpty
  <2>2. FlattenSeq(tt) = x
    BY <1>0, <1>1, FlattenSeqSingle
  <2> QED  BY <2>1, <2>2 DEF tt
<1>2. CASE Len(ss) # 0
  <2>0. Len(ss) \in Nat \ {0} /\ Len(tt) \in Nat \ {0} /\ Len(tt) \in 2..Len(tt) /\ Len(tt) - 1 = Len(ss)
    BY <1>0, <1>2
  <2>1. PICK f : Flattens(f, ss, Len(ss)) /\ FlattenSeq(ss) = f[Len(ss)]
    BY <2>0, FlattenSeqIs
  <2>2. PICK g : Flattens(g, tt, Len(tt)) /\ FlattenSeq(tt) = g[Len(tt)]
    BY <2>0, FlattenSeqIs
  <2>v. /\ Len(ss) > 0 => f[1] = ss[1]
        /\ \A k \in 2..Len(ss) : f[k] = f[k - 1] \o ss[k]
    BY <1>0, <2>1, FlattensValues, Zenon
  <2>w. /\ Len(tt) > 0 => g[1] = tt[1]
        /\ \A k \in 2..Len(tt) : g[k] = g[k - 1] \o tt[k]
    BY <2>0, <2>2, FlattensValues, Zenon
  <2> DEFINE T == {k \in 1..Len(ss) : f[k] # g[k]}
  <2>3. T = {}
    <3> SUFFICES ASSUME T # {}  PROVE FALSE
      OBVIOUS
    <3>1. PICK k \in T : \A j \in T : k <= j
      <4>1. T \in SUBSET Nat
        BY <1>0
      <4> QED  BY <4>1, LeastNat
    <3>2. k \in 1..Len(ss) /\ f[k] # g[k]
      OBVIOUS
    <3>3. k # 1
      <4>1. f[1] = ss[1] /\ g[1] = tt[1] /\ 1 \in 1..Len(ss)
        BY <1>0, <2>0, <2>v, <2>w
      <4> QED  BY <1>0, <3>2, <4>1
    <3>4. k \in 2..Len(ss) /\ k \in 2..Len(tt) /\ k - 1 \in 1..Len(ss) /\ k - 1 \notin T
      BY <1>0, <3>1, <3>2, <3>3
    <3>5. f[k] = f[k - 1] \o ss[k] /\ g[k] = g[k - 1] \o tt[k]
      BY <3>4, <2>v, <2>w
    <3> QED  BY <1>0, <3>2, <3>4, <3>5
  <2>4. f[Len(ss)] = g[Len(ss)]
    <3>1. Len(ss) \in 1..Len(ss)
      BY <2>0
    <3> QED  BY <2>3, <3>1
  <2>5. g[Len(tt)] = g[Len(tt) - 1] \o tt[Len(tt)]
    BY <2>0, <2>w
  <2> QED  BY <1>0, <2>0, <2>1, <2>2, <2>4, <2>5 DEF tt
<1> QED  BY <1>1, <1>2

(* The first of the sequences comes first in the result: by induction on    *)
(* the number of sequences.                                                 *)
LEMMA FlattenSeqHeadTail ==
    ASSUME NEW S, NEW ss \in Seq(Seq(S)), ss # <<>>
    PROVE  FlattenSeq(ss) = Head(ss) \o FlattenSeq(Tail(ss))
<1> DEFINE tt == Tail(ss)
<1>0. /\ tt \in Seq(Seq(S)) /\ Len(ss) \in Nat \ {0} /\ Len(tt) = Len(ss) - 1 /\ Len(tt) \in Nat
      /\ Head(ss) = ss[1] /\ ss[1] \in Seq(S)
      /\ \A i \in 1..Len(tt) : tt[i] = ss[i + 1] /\ tt[i] \in Seq(S)
  OBVIOUS
<1> HIDE DEF tt
<1>1. CASE Len(tt) = 0
  <2>1. tt = <<>> /\ FlattenSeq(tt) = <<>>
    BY <1>0, <1>1, FlattenSeqEmpty
  <2>2. FlattenSeq(ss) = ss[1]
    BY <1>0, <1>1, FlattenSeqSingle
  <2> QED  BY <1>0, <2>1, <2>2 DEF tt
<1>2. CASE Len(tt) # 0
  <2>0. Len(tt) \in Nat \ {0} /\ 1 \in 1..Len(tt) /\ 2 \in 2..Len(ss) /\ Len(tt) + 1 = Len(ss)
    BY <1>0, <1>2
  <2>1. PICK f : Flattens(f, ss, Len(ss)) /\ FlattenSeq(ss) = f[Len(ss)]
    BY <1>0, FlattenSeqIs
  <2>2. PICK g : Flattens(g, tt, Len(tt)) /\ FlattenSeq(tt) = g[Len(tt)]
    BY <2>0, FlattenSeqIs
  <2>v. /\ Len(ss) > 0 => f[1] = ss[1]
        /\ \A k \in 2..Len(ss) : f[k] = f[k - 1] \o ss[k]
    BY <1>0, <2>1, FlattensValues, Zenon
  <2>w. /\ Len(tt) > 0 => g[1] = tt[1]
        /\ \A k \in 2..Len(tt) : g[k] = g[k - 1] \o tt[k]
    <3>1. Len(tt) \in Nat
      BY <1>0
    <3> QED  BY <2>2, <3>1, FlattensValues, Zenon
  <2>g. \A k \in 1..Len(tt) : g[k] \in Seq(S)
    BY <1>0, <2>2, FlattensType
  <2> DEFINE T == {k \in 1..Len(tt) : f[k + 1] # ss[1] \o g[k]}
  <2>3. T = {}
    <3> SUFFICES ASSUME T # {}  PROVE FALSE
      OBVIOUS
    <3>1. PICK k \in T : \A j \in T : k <= j
      <4>1. T \subseteq 1..Len(tt)
        BY Zenon
      <4>2. 1..Len(tt) \subseteq Nat
        BY <1>0
      <4>3. T \in SUBSET Nat
        BY <4>1, <4>2, Zenon
      <4> QED  BY <4>3, LeastNat, Zenon
    <3>2. k \in 1..Len(tt) /\ f[k + 1] # ss[1] \o g[k]
      OBVIOUS
    <3>3. k # 1
      <4>1. f[1] = ss[1] /\ g[1] = tt[1]
        BY <1>0, <2>0, <2>v, <2>w
      <4>2. f[2] = f[2 - 1] \o ss[2]
        BY <2>0, <2>v
      <4>3. f[1 + 1] = ss[1] \o g[1]
        <5>1. tt[1] = ss[1 + 1] /\ 1 + 1 = 2 /\ 2 - 1 = 1
          BY <1>0, <2>0
        <5> QED  BY <4>1, <4>2, <5>1
      <4> QED  BY <3>2, <4>3
    <3> HIDE DEF T
    <3>4. /\ k \in 2..Len(tt) /\ k + 1 \in 2..Len(ss) /\ k - 1 \in 1..Len(tt) /\ k - 1 \notin T
          /\ (k - 1) + 1 = k /\ (k + 1) - 1 = k
      BY <1>0, <3>1, <3>2, <3>3
    <3>5. g[k] = g[k - 1] \o tt[k]
      BY <3>4, <2>w
    <3>6. f[k + 1] = f[(k + 1) - 1] \o ss[k + 1]
      BY <3>4, <2>v
    <3>7. f[k + 1] = f[k] \o tt[k]
      BY <1>0, <3>2, <3>4, <3>6
    <3>8. f[k] = ss[1] \o g[k - 1]
      BY <3>4 DEF T
    <3>9. ss[1] \in Seq(S) /\ g[k - 1] \in Seq(S) /\ tt[k] \in Seq(S)
      BY <1>0, <2>g, <3>2, <3>4
    <3>10. (ss[1] \o g[k - 1]) \o tt[k] = ss[1] \o (g[k - 1] \o tt[k])
      <4>1. PICK a \in Seq(S), b \in Seq(S), c \in Seq(S) : a = ss[1] /\ b = g[k - 1] /\ c = tt[k]
        BY <3>9, Zenon
      <4>2. (a \o b) \o c = a \o (b \o c)
        BY ConcatAssociative, SMTT(60)
      <4> QED  BY <4>1, <4>2, Zenon
    <3> QED  BY <3>2, <3>5, <3>7, <3>8, <3>10
  <2>4. f[Len(tt) + 1] = ss[1] \o g[Len(tt)]
    <3>1. Len(tt) \in 1..Len(tt)
      BY <2>0
    <3> QED  BY <2>3, <3>1
  <2> QED  BY <1>0, <2>0, <2>1, <2>2, <2>4 DEF tt
<1> QED  BY <1>1, <1>2

(* A sequence that begins with a given element.                             *)
LEMMA FirstThenRest ==
    ASSUME NEW S, NEW x \in S, NEW t \in Seq(S)
    PROVE  <<x>> \o t # <<>> /\ Head(<<x>> \o t) = x /\ Tail(<<x>> \o t) = t
OBVIOUS

-----------------------------------------------------------------------------
(* The least element, as FiniteSetsExt defines it.                          *)
LEMMA MinIsLeast ==
    ASSUME NEW T \in SUBSET Nat, T # {}
    PROVE  Min(T) \in T /\ \A k \in T : Min(T) <= k
<1>1. \E m \in T : \A k \in T : m <= k
  BY LeastNat
<1> QED  BY <1>1 DEF Min

(* The first k elements of a sequence.                                      *)
LEMMA FrontFacts ==
    ASSUME NEW S, NEW s \in Seq(S), NEW k \in 0..Len(s)
    PROVE  /\ SubSeq(s, 1, k) \in Seq(S) /\ Len(SubSeq(s, 1, k)) = k
           /\ \A i \in 1..k : SubSeq(s, 1, k)[i] = s[i]
OBVIOUS

(* A sequence without one of its elements.                                  *)
LEMMA RemoveAtFacts ==
    ASSUME NEW S, NEW s \in Seq(S), NEW k \in 1..Len(s)
    PROVE  /\ RemoveAt(s, k) \in Seq(S)
           /\ Len(RemoveAt(s, k)) = Len(s) - 1
           /\ \A i \in 1..(Len(s) - 1) : RemoveAt(s, k)[i] = IF i < k THEN s[i] ELSE s[i + 1]
<1> DEFINE a == SubSeq(s, 1, k - 1)
           b == SubSeq(s, k + 1, Len(s))
<1>1. a \in Seq(S) /\ Len(a) = k - 1 /\ \A i \in 1..(k - 1) : a[i] = s[i]
  OBVIOUS
<1>2. b \in Seq(S) /\ Len(b) = Len(s) - k /\ \A i \in 1..(Len(s) - k) : b[i] = s[k + i]
  OBVIOUS
<1> HIDE DEF a, b
<1>3. a \o b \in Seq(S) /\ Len(a \o b) = Len(s) - 1
  <2>1. a \o b \in Seq(S) /\ Len(a \o b) = Len(a) + Len(b)
    BY <1>1, <1>2, ConcatProperties
  <2>2. Len(s) \in Nat /\ (k - 1) + (Len(s) - k) = Len(s) - 1
    OBVIOUS
  <2> QED  BY <1>1, <1>2, <2>1, <2>2
<1>4. ASSUME NEW i \in 1..(Len(s) - 1)  PROVE (a \o b)[i] = IF i < k THEN s[i] ELSE s[i + 1]
  <2>1. CASE i < k
    BY <1>1, <1>2, <2>1
  <2>2. CASE ~(i < k)
    <3>1. (a \o b)[i] = b[i - (k - 1)] /\ i - (k - 1) \in 1..(Len(s) - k)
      BY <1>1, <1>2, <2>2
    <3>2. k + (i - (k - 1)) = i + 1
      OBVIOUS
    <3> QED  BY <1>2, <2>2, <3>1, <3>2
  <2> QED  BY <2>1, <2>2
<1>5. RemoveAt(s, k) = a \o b
  BY DEF RemoveAt, a, b
<1> QED  BY <1>3, <1>4, <1>5

(* RemoveFirst removes the element at its first place.                      *)
LEMMA RemoveFirstIs ==
    ASSUME NEW S, NEW s \in Seq(S), NEW e, \E i \in 1..Len(s) : s[i] = e
    PROVE  \E k \in 1..Len(s) : /\ s[k] = e /\ RemoveFirst(s, e) = RemoveAt(s, k)
                                /\ \A i \in 1..Len(s) : s[i] = e => k <= i
<1> DEFINE T == {i \in 1..Len(s) : s[i] = e}
<1>1. T \in SUBSET Nat /\ T # {}
  OBVIOUS
<1>2. Min(T) \in T /\ \A k \in T : Min(T) <= k
  BY <1>1, MinIsLeast
<1>3. RemoveFirst(s, e) = RemoveAt(s, Min(T))
  BY <1>1 DEF RemoveFirst, SelectInSeq
<1> QED  BY <1>2, <1>3

-----------------------------------------------------------------------------
(* The sequence has the element at most once.                               *)
Once(s, e) == \A i, j \in DOMAIN s : s[i] = e /\ s[j] = e => i = j

(* An element appended: what the sequence holds, and holds once.            *)
LEMMA AppendElements ==
    ASSUME NEW S, NEW s \in Seq(S), NEW e \in S
    PROVE  /\ Append(s, e) \in Seq(S)
           /\ Range(Append(s, e)) = Range(s) \cup {e}
           /\ \A n : Once(s, n) /\ (n = e => n \notin Range(s)) => Once(Append(s, e), n)
<1> DEFINE t == Append(s, e)
<1>1. /\ t \in Seq(S) /\ DOMAIN t = 1..(Len(s) + 1) /\ DOMAIN s = 1..Len(s) /\ Len(s) \in Nat
      /\ \A i \in 1..Len(s) : t[i] = s[i]
      /\ t[Len(s) + 1] = e
  OBVIOUS
<1> HIDE DEF t
<1>2. \A i \in 1..(Len(s) + 1) : i \in 1..Len(s) \/ i = Len(s) + 1
  BY <1>1
<1>3. \A i \in 1..Len(s) : i \in 1..(Len(s) + 1)
  BY <1>1
<1>4. Len(s) + 1 \in 1..(Len(s) + 1)
  BY <1>1
<1>5. Range(t) = Range(s) \cup {e}
  BY <1>1, <1>2, <1>3, <1>4 DEF Range
<1>6. ASSUME NEW n, Once(s, n), n = e => n \notin Range(s), NEW i \in DOMAIN t, NEW j \in DOMAIN t,
             t[i] = n, t[j] = n
      PROVE  i = j
  <2>1. CASE i \in 1..Len(s) /\ j \in 1..Len(s)
    BY <1>1, <1>6, <2>1 DEF Once
  <2>2. CASE n = e
    <3>1. \A k \in 1..Len(s) : t[k] # n
      BY <1>1, <1>6, <2>2 DEF Range
    <3> QED  BY <1>1, <1>2, <1>6, <3>1
  <2>3. CASE n # e
    BY <1>1, <1>2, <1>6, <2>1, <2>3
  <2> QED  BY <2>2, <2>3
<1> QED  BY <1>1, <1>5, <1>6 DEF Once, t

(* An element removed: what the sequence still holds, and still holds once. *)
LEMMA RemoveFirstElements ==
    ASSUME NEW S, NEW s \in Seq(S), NEW e
    PROVE  /\ RemoveFirst(s, e) \in Seq(S)
           /\ Range(RemoveFirst(s, e)) \subseteq Range(s)
           /\ Range(s) \ {e} \subseteq Range(RemoveFirst(s, e))
           /\ Once(s, e) => e \notin Range(RemoveFirst(s, e))
           /\ \A n : Once(s, n) => Once(RemoveFirst(s, e), n)
<1>0. DOMAIN s = 1..Len(s) /\ Len(s) \in Nat
  OBVIOUS
<1>1. CASE ~\E i \in 1..Len(s) : s[i] = e
  <2>1. RemoveFirst(s, e) = s
    BY <1>1 DEF RemoveFirst
  <2>2. e \notin Range(s)
    BY <1>0, <1>1 DEF Range
  <2> QED  BY <2>1, <2>2
<1>2. CASE \E i \in 1..Len(s) : s[i] = e
  <2>1. PICK k \in 1..Len(s) : s[k] = e /\ RemoveFirst(s, e) = RemoveAt(s, k)
    BY <1>2, RemoveFirstIs
  <2> DEFINE t == RemoveAt(s, k)
             m(i) == IF i < k THEN i ELSE i + 1
  <2>2. /\ t \in Seq(S) /\ Len(t) = Len(s) - 1
        /\ \A i \in 1..(Len(s) - 1) : t[i] = IF i < k THEN s[i] ELSE s[i + 1]
    BY RemoveAtFacts
  <2> HIDE DEF t
  <2>3. DOMAIN t = 1..(Len(s) - 1)
    BY <2>2
  <2>4. \A i \in DOMAIN t : t[i] = s[m(i)] /\ m(i) \in DOMAIN s /\ m(i) # k
    BY <1>0, <2>2, <2>3
  <2>5. \A i, j \in DOMAIN t : m(i) = m(j) => i = j
    BY <1>0, <2>3
  <2>6. \A a \in DOMAIN s : a # k => \E i \in DOMAIN t : m(i) = a
    <3>1. ASSUME NEW a \in DOMAIN s, a < k  PROVE a \in DOMAIN t /\ m(a) = a
      BY <1>0, <2>3, <3>1
    <3>2. ASSUME NEW a \in DOMAIN s, a > k  PROVE a - 1 \in DOMAIN t /\ m(a - 1) = a
      BY <1>0, <2>3, <3>2
    <3>3. \A a \in DOMAIN s : a # k => a < k \/ a > k
      BY <1>0
    <3> HIDE DEF m
    <3> QED  BY <3>1, <3>2, <3>3
  <2> HIDE DEF m
  <2>7. Range(t) \subseteq Range(s)
    BY <2>4 DEF Range
  <2>8. Range(s) \ {e} \subseteq Range(t)
    <3>1. ASSUME NEW a \in DOMAIN s, s[a] # e  PROVE s[a] \in Range(t)
      <4>1. PICK i \in DOMAIN t : m(i) = a
        BY <2>1, <2>6, <3>1
      <4> QED  BY <2>4, <4>1 DEF Range
    <3> QED  BY <3>1 DEF Range
  <2>9. Once(s, e) => e \notin Range(t)
    BY <1>0, <2>1, <2>4 DEF Range, Once
  <2>10. \A n : Once(s, n) => Once(t, n)
    BY <2>4, <2>5 DEF Once
  <2> QED  BY <2>1, <2>2, <2>7, <2>8, <2>9, <2>10 DEF t
<1> QED  BY <1>1, <1>2

(* A sequence without repetition holds everything at most once.             *)
LEMMA InjectiveOnce == ASSUME NEW s  PROVE IsInjective(s) <=> \A e : Once(s, e)
BY DEF IsInjective, Once
=============================================================================
