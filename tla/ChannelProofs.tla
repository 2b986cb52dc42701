--------------------------- MODULE ChannelProofs ---------------------------
(***************************************************************************)
(* The channel implements the mailbox, for any number of services and any  *)
(* set of messages: every step of Channel is a step of Mailbox under the   *)
(* refinement mapping, or leaves the mailbox alone. The first part shows   *)
(* what LREM, the recursive function Without, does to a list. Induction    *)
(* over its length is done with the set of lengths for which the claim     *)
(* holds, which has a least missing element if it is not all of them.      *)
(***************************************************************************)
EXTENDS Channel, TLAPS, WellFoundedInduction, SequenceTheorems

(* The order of the natural numbers as a relation.                         *)
Less == {p \in Nat \X Nat : p[1] < p[2]}

(* A set of natural numbers that is not empty has a least element.         *)
LEMMA LeastNumber ==
    ASSUME NEW T, T \subseteq Nat, T # {}
    PROVE  \E n \in T : \A k \in T : n <= k
<1>1. IsWellFoundedOn(Less, Nat)
  BY NatLessThanWellFounded DEF OpToRel, Less
<1>2. PICK n \in T : \A k \in T : <<k, n>> \notin Less
  BY <1>1, WFMin, Zenon
<1>3. \A k \in T : n <= k
  <2> TAKE k \in T
  <2>1. <<k, n>> \notin Less
    BY <1>2
  <2> QED
    BY <2>1 DEF Less
<1> QED
  BY <1>3

(* Induction over the natural numbers, for a set instead of a predicate.   *)
LEMMA NatSetInduction ==
    ASSUME NEW S, 0 \in S, \A n \in Nat : n \in S => n + 1 \in S
    PROVE  Nat \subseteq S
<1> SUFFICES ASSUME ~(Nat \subseteq S) PROVE FALSE
  OBVIOUS
<1> DEFINE T == Nat \ S
<1>1. PICK n \in T : \A k \in T : n <= k
  BY LeastNumber, Zenon
<1>2. n # 0 /\ n - 1 \in Nat /\ n - 1 \notin T
  BY <1>1
<1> QED
  BY <1>2

(* One unfolding of the recursive function Kept.                           *)
Unfold(list, e, n, g) ==
    [i \in 0 .. n |->
        IF i = 0 THEN <<>>
        ELSE IF list[i] = e THEN g[i - 1]
        ELSE Append(g[i - 1], list[i])]

(* Its values.                                                             *)
LEMMA UnfoldAt ==
    ASSUME NEW list, NEW e, NEW n \in Nat, NEW g
    PROVE  /\ Unfold(list, e, n, g)[0] = <<>>
           /\ \A i \in 1 .. n : Unfold(list, e, n, g)[i] =
                IF list[i] = e THEN g[i - 1] ELSE Append(g[i - 1], list[i])
BY DEF Unfold

(* Kept satisfies its recursive definition: there is a function that does, *)
(* found by induction on the length of the list.                           *)
LEMMA KeptDef ==
    ASSUME NEW list, Len(list) \in Nat, NEW e
    PROVE  Kept(list, e) = Unfold(list, e, Len(list), Kept(list, e))
<1> DEFINE Defined == {n \in Nat : \E g : g = Unfold(list, e, n, g)}
<1>1. 0 \in Defined
  <2>1. [i \in {0} |-> <<>>] = Unfold(list, e, 0, [i \in {0} |-> <<>>])
    BY DEF Unfold
  <2> QED
    BY <2>1
<1>2. ASSUME NEW n \in Nat, n \in Defined
      PROVE  n + 1 \in Defined
  <2>1. PICK g : g = Unfold(list, e, n, g)
    BY <1>2
  <2> DEFINE h == [i \in 0 .. n + 1 |->
                     IF i <= n THEN g[i]
                     ELSE IF list[i] = e THEN g[n]
                     ELSE Append(g[n], list[i])]
             k == Unfold(list, e, n + 1, h)
  <2>2. \A i \in 0 .. n : h[i] = g[i]
    OBVIOUS
  <2>3. ASSUME NEW i \in 0 .. n + 1 PROVE h[i] = k[i]
    <3>1. CASE i = 0
      <4>1. g[0] = <<>> /\ k[0] = <<>>
        BY <2>1, UnfoldAt
      <4> QED
        BY <3>1, <2>2, <4>1
    <3>2. CASE i \in 1 .. n
      <4>1. h[i] = g[i] /\ h[i - 1] = g[i - 1]
        BY <3>2, <2>2
      <4>2. g[i] = IF list[i] = e THEN g[i - 1] ELSE Append(g[i - 1], list[i])
        BY <3>2, <2>1, UnfoldAt
      <4>3. k[i] = IF list[i] = e THEN h[i - 1] ELSE Append(h[i - 1], list[i])
        BY <3>2, UnfoldAt
      <4> HIDE DEF h, k
      <4> QED
        BY <4>1, <4>2, <4>3
    <3>3. CASE i = n + 1
      <4>1. k[i] = IF list[i] = e THEN h[i - 1] ELSE Append(h[i - 1], list[i])
        BY <3>3, UnfoldAt
      <4>2. h[i - 1] = g[n]
        BY <3>3, <2>2
      <4>3. h[i] = IF list[i] = e THEN g[n] ELSE Append(g[n], list[i])
        BY <3>3
      <4> HIDE DEF h, k
      <4> QED
        BY <4>1, <4>2, <4>3
    <3> QED
      BY <3>1, <3>2, <3>3
  <2>4. /\ h = [i \in 0 .. n + 1 |-> h[i]]
        /\ k = [i \in 0 .. n + 1 |-> k[i]]
    BY DEF Unfold
  <2>5. h = k
    <3> HIDE DEF h, k
    <3> QED
      BY <2>3, <2>4
  <2> HIDE DEF h
  <2> QED
    BY <2>5
<1>3. Nat \subseteq Defined
  <2> HIDE DEF Defined
  <2> QED
    BY <1>1, <1>2, NatSetInduction
<1>4. \E g : g = Unfold(list, e, Len(list), g)
  BY <1>3
<1>5. Kept(list, e) = CHOOSE g : g = Unfold(list, e, Len(list), g)
  BY DEF Kept, Unfold
<1> QED
  BY <1>4, <1>5

(* What is kept of one element more.                                       *)
LEMMA KeptAt ==
    ASSUME NEW S, NEW list \in Seq(S), NEW e
    PROVE  /\ Kept(list, e)[0] = <<>>
           /\ \A i \in 1 .. Len(list) : Kept(list, e)[i] =
                 IF list[i] = e THEN Kept(list, e)[i - 1]
                                ELSE Append(Kept(list, e)[i - 1], list[i])
BY KeptDef, UnfoldAt

(* What is left of a list is a list of the same elements.                  *)
LEMMA WithoutSeq ==
    ASSUME NEW S, NEW list \in Seq(S), NEW e
    PROVE  /\ \A i \in 0 .. Len(list) : Kept(list, e)[i] \in Seq(S)
           /\ Without(list, e) \in Seq(S)
<1> DEFINE kept == Kept(list, e)
           Typed == {i \in Nat : i <= Len(list) => kept[i] \in Seq(S)}
<1>1. /\ kept[0] = <<>>
      /\ \A i \in 1 .. Len(list) : kept[i] =
            IF list[i] = e THEN kept[i - 1] ELSE Append(kept[i - 1], list[i])
  BY KeptAt
<1> HIDE DEF kept
<1>2. 0 \in Typed
  BY <1>1, EmptySeq, Zenon
<1>3. ASSUME NEW i \in Nat, i \in Typed
      PROVE  i + 1 \in Typed
  <2> SUFFICES ASSUME i + 1 <= Len(list) PROVE kept[i + 1] \in Seq(S)
    OBVIOUS
  <2>1. kept[i + 1] = IF list[i + 1] = e THEN kept[i] ELSE Append(kept[i], list[i + 1])
    BY <1>1
  <2>2. kept[i] \in Seq(S) /\ list[i + 1] \in S
    BY <1>3
  <2> QED
    BY <2>1, <2>2
<1>4. Nat \subseteq Typed
  <2> HIDE DEF Typed
  <2> QED
    BY <1>2, <1>3, NatSetInduction
<1>5. \A i \in 0 .. Len(list) : kept[i] \in Seq(S)
  BY <1>4
<1> QED
  BY <1>5 DEF kept, Without

(* Two functions on an interval that agree at its start, and agree at a    *)
(* place when they agree at the one before, are equal.                     *)
LEMMA EqualStepByStep ==
    ASSUME NEW n \in Nat, NEW f, NEW g, f[0] = g[0],
           \A i \in 0 .. n - 1 : f[i] = g[i] => f[i + 1] = g[i + 1]
    PROVE  \A i \in 0 .. n : f[i] = g[i]
<1> DEFINE Equal == {i \in Nat : i <= n => f[i] = g[i]}
<1>1. 0 \in Equal
  OBVIOUS
<1>2. \A i \in Nat : i \in Equal => i + 1 \in Equal
  OBVIOUS
<1>3. Nat \subseteq Equal
  <2> HIDE DEF Equal
  <2> QED
    BY <1>1, <1>2, NatSetInduction
<1> QED
  BY <1>3

(* LREM of what is not in the list changes nothing.                        *)
LEMMA WithoutAbsent ==
    ASSUME NEW S, NEW list \in Seq(S), NEW e, \A i \in 1 .. Len(list) : list[i] # e
    PROVE  Without(list, e) = list
<1> DEFINE kept == Kept(list, e)
           prefix == [i \in 0 .. Len(list) |-> SubSeq(list, 1, i)]
<1>1. Len(list) \in Nat
  OBVIOUS
<1>2. kept[0] = prefix[0]
  <2>1. SubSeq(list, 1, 0) = <<>>
    BY SubSeqEmpty
  <2>2. prefix[0] = <<>>
    BY <1>1, <2>1
  <2> QED
    BY <2>2, KeptAt, Zenon
<1>3. ASSUME NEW i \in 0 .. Len(list) - 1, kept[i] = prefix[i]
      PROVE  kept[i + 1] = prefix[i + 1]
  <2>1. kept[i + 1] = IF list[i + 1] = e THEN kept[i] ELSE Append(kept[i], list[i + 1])
    BY KeptAt
  <2>2. list[i + 1] # e /\ list[i + 1] \in S
    OBVIOUS
  <2>3. SubSeq(list, 1, i + 1) = SubSeq(list, 1, i) \o <<list[i + 1]>>
    BY SubSeqRecursiveSecond
  <2>4. SubSeq(list, 1, i) \in Seq(S)
    BY SubSeqProperties
  <2>5. SubSeq(list, 1, i + 1) = Append(SubSeq(list, 1, i), list[i + 1])
    BY <2>2, <2>3, <2>4, AppendIsConcat
  <2>6. prefix[i] = SubSeq(list, 1, i) /\ prefix[i + 1] = SubSeq(list, 1, i + 1)
    OBVIOUS
  <2> HIDE DEF kept, prefix
  <2> QED
    BY <1>3, <2>1, <2>2, <2>5, <2>6
<1>4. kept[Len(list)] = prefix[Len(list)]
  <2> DEFINE n == Len(list)
  <2>1. \A i \in 0 .. n - 1 : kept[i] = prefix[i] => kept[i + 1] = prefix[i + 1]
    BY <1>3, Zenon
  <2>2. n \in Nat /\ kept[0] = prefix[0]
    BY <1>2
  <2> HIDE DEF kept, prefix, n
  <2>3. \A i \in 0 .. n : kept[i] = prefix[i]
    BY ONLY <2>1, <2>2, EqualStepByStep, Zenon
  <2> QED
    BY <2>2, <2>3 DEF n
<1> QED
  BY <1>4, SubSeqFull DEF Without

(* Concatenation, as an operator that is only expanded where it is needed. *)
Cat(s, t) == s \o t

(* Appending to a concatenation appends to its second part.                *)
LEMMA AppendConcat ==
    ASSUME NEW S, NEW s \in Seq(S), NEW t \in Seq(S), NEW x \in S
    PROVE  Append(Cat(s, t), x) = Cat(s, Append(t, x))
<1>1. s \o t \in Seq(S) /\ Append(t, x) \in Seq(S)
  OBVIOUS
<1>2. Append(s \o t, x) \in Seq(S) /\ s \o Append(t, x) \in Seq(S)
  BY <1>1
<1>3. Len(Append(s \o t, x)) = Len(s \o Append(t, x))
  BY <1>1
<1>4. \A i \in 1 .. Len(Append(s \o t, x)) : Append(s \o t, x)[i] = (s \o Append(t, x))[i]
  BY <1>1
<1> QED
  BY <1>2, <1>3, <1>4, SeqEqual, Zenon DEF Cat

(* LREM of a concatenation treats its parts separately.                    *)
LEMMA WithoutConcat ==
    ASSUME NEW S, NEW s \in Seq(S), NEW t \in Seq(S), NEW e
    PROVE  Without(s \o t, e) = Without(s, e) \o Without(t, e)
<1> DEFINE list == s \o t
           kept == Kept(list, e)
           ks == Kept(s, e)
           kt == Kept(t, e)
           tail == [i \in 0 .. Len(t) |-> kept[Len(s) + i]]
           join == [i \in 0 .. Len(t) |-> Cat(ks[Len(s)], kt[i])]
<1>1. /\ list \in Seq(S)
      /\ Len(list) = Len(s) + Len(t)
      /\ Len(s) \in Nat /\ Len(t) \in Nat
      /\ \A i \in 1 .. Len(s) : list[i] = s[i]
      /\ \A i \in 1 .. Len(t) : list[Len(s) + i] = t[i] /\ t[i] \in S
  BY ConcatProperties, LenProperties
<1> HIDE DEF list
<1>2. /\ kept[0] = <<>>
      /\ \A i \in 1 .. Len(list) : kept[i] =
            IF list[i] = e THEN kept[i - 1] ELSE Append(kept[i - 1], list[i])
  <2>1. list \in Seq(S)
    BY <1>1
  <2> QED
    BY ONLY <2>1, KeptAt
<1>3. /\ ks[0] = <<>>
      /\ \A i \in 1 .. Len(s) : ks[i] =
            IF s[i] = e THEN ks[i - 1] ELSE Append(ks[i - 1], s[i])
  BY KeptAt
<1>4. /\ kt[0] = <<>>
      /\ \A i \in 1 .. Len(t) : kt[i] =
            IF t[i] = e THEN kt[i - 1] ELSE Append(kt[i - 1], t[i])
  BY KeptAt
<1>5. ks[Len(s)] \in Seq(S) /\ \A i \in 0 .. Len(t) : kt[i] \in Seq(S)
  BY <1>1, WithoutSeq
<1> HIDE DEF kept, ks, kt
<1>6. kept[Len(s)] = ks[Len(s)]
  <2> DEFINE n == Len(s)
  <2>1. ASSUME NEW i \in 0 .. n - 1, kept[i] = ks[i]
        PROVE  kept[i + 1] = ks[i + 1]
    <3>1. i + 1 \in 1 .. Len(s) /\ i + 1 \in 1 .. Len(list) /\ i + 1 - 1 = i
      BY <1>1
    <3>2. list[i + 1] = s[i + 1]
      BY <1>1, <3>1
    <3>3. kept[i + 1] = IF list[i + 1] = e THEN kept[i] ELSE Append(kept[i], list[i + 1])
      BY ONLY <1>2, <3>1
    <3>4. ks[i + 1] = IF s[i + 1] = e THEN ks[i] ELSE Append(ks[i], s[i + 1])
      BY ONLY <1>3, <3>1
    <3> QED
      BY <2>1, <3>2, <3>3, <3>4, Zenon
  <2>2. n \in Nat /\ kept[0] = ks[0]
    BY <1>1, <1>2, <1>3
  <2> HIDE DEF n
  <2>3. \A i \in 0 .. n : kept[i] = ks[i]
    BY ONLY <2>1, <2>2, EqualStepByStep, Zenon
  <2> QED
    BY <2>2, <2>3 DEF n
<1>7. tail[0] = join[0]
  <2>1. ks[Len(s)] \o <<>> = ks[Len(s)]
    BY <1>5, ConcatEmptySeq
  <2>2. join[0] = Cat(ks[Len(s)], kt[0])
    BY <1>1
  <2>3. tail[0] = kept[Len(s)]
    BY <1>1
  <2> HIDE DEF join, tail
  <2> QED
    BY <1>4, <1>6, <2>1, <2>2, <2>3 DEF Cat
<1>8. ASSUME NEW i \in 0 .. Len(t) - 1, tail[i] = join[i]
      PROVE  tail[i + 1] = join[i + 1]
  <2> DEFINE k == ks[Len(s)]
             j == Len(s) + i
             x == t[i + 1]
  <2>1. kept[j + 1] = IF x = e THEN kept[j] ELSE Append(kept[j], x)
    <3>1. j + 1 \in 1 .. Len(list) /\ j + 1 - 1 = j
      BY <1>1
    <3>2. list[j + 1] = x
      <4>1. i + 1 \in 1 .. Len(t) /\ Len(s) + (i + 1) = j + 1
        BY <1>1
      <4> QED
        BY <1>1, <4>1
    <3>3. kept[j + 1] = IF list[j + 1] = e THEN kept[j + 1 - 1] ELSE Append(kept[j + 1 - 1], list[j + 1])
      BY <1>2, <3>1
    <3> QED
      BY <3>1, <3>2, <3>3
  <2>2. kt[i + 1] = IF x = e THEN kt[i] ELSE Append(kt[i], x)
    BY <1>1, <1>4
  <2>3. Append(Cat(k, kt[i]), x) = Cat(k, Append(kt[i], x))
    <3>1. k \in Seq(S) /\ kt[i] \in Seq(S) /\ x \in S
      BY <1>1, <1>5
    <3>2. ASSUME NEW a \in Seq(S), NEW b \in Seq(S), NEW c \in S
          PROVE  Append(Cat(a, b), c) = Cat(a, Append(b, c))
      BY AppendConcat
    <3> HIDE DEF k, x
    <3> QED
      BY <3>1, <3>2, Zenon
  <2>4. tail[i] = kept[j] /\ tail[i + 1] = kept[j + 1]
    BY <1>1
  <2>5. join[i] = Cat(k, kt[i]) /\ join[i + 1] = Cat(k, kt[i + 1])
    BY <1>1
  <2> HIDE DEF tail, join, k, x, j
  <2> QED
    BY <1>8, <2>1, <2>2, <2>3, <2>4, <2>5, Zenon
<1>9. tail[Len(t)] = join[Len(t)]
  <2> DEFINE n == Len(t)
  <2>1. \A i \in 0 .. n - 1 : tail[i] = join[i] => tail[i + 1] = join[i + 1]
    BY <1>8, Zenon
  <2>2. n \in Nat
    BY <1>1
  <2> HIDE DEF tail, join, n
  <2>3. \A i \in 0 .. n : tail[i] = join[i]
    BY ONLY <1>7, <2>1, <2>2, EqualStepByStep, Zenon
  <2> QED
    BY <2>2, <2>3 DEF n
<1>10. kept[Len(list)] = Cat(ks[Len(s)], kt[Len(t)])
  BY <1>1, <1>9
<1> QED
  BY <1>10 DEF Without, kept, ks, kt, list, Cat

(* LREM leaves other elements, each of them as often as before.            *)
LEMMA WithoutKeeps ==
    ASSUME NEW S, NEW list \in Seq(S), NEW e,
           \A i, j \in 1 .. Len(list) : list[i] = list[j] => i = j
    PROVE  LET w == Without(list, e) IN
           /\ \A k \in 1 .. Len(w) : w[k] # e /\ \E i \in 1 .. Len(list) : w[k] = list[i]
           /\ \A k, l \in 1 .. Len(w) : w[k] = w[l] => k = l
<1> DEFINE kept == Kept(list, e)
           Sound(i) ==
             /\ \A k \in 1 .. Len(kept[i]) : kept[i][k] # e /\ \E j \in 1 .. i : kept[i][k] = list[j]
             /\ \A k, l \in 1 .. Len(kept[i]) : kept[i][k] = kept[i][l] => k = l
           Fine == {i \in Nat : i <= Len(list) => Sound(i)}
<1>1. /\ kept[0] = <<>>
      /\ \A i \in 1 .. Len(list) : kept[i] =
            IF list[i] = e THEN kept[i - 1] ELSE Append(kept[i - 1], list[i])
      /\ \A i \in 0 .. Len(list) : kept[i] \in Seq(S)
  BY KeptAt, WithoutSeq
<1> HIDE DEF kept
<1>2. 0 \in Fine
  BY <1>1
<1>3. ASSUME NEW i \in Nat, i \in Fine
      PROVE  i + 1 \in Fine
  <2> SUFFICES ASSUME i + 1 <= Len(list) PROVE Sound(i + 1)
    OBVIOUS
  <2>1. Sound(i) /\ kept[i] \in Seq(S) /\ i + 1 \in 1 .. Len(list) /\ list[i + 1] \in S
    BY <1>1, <1>3
  <2>2. CASE list[i + 1] = e
    <3>1. kept[i + 1] = kept[i]
      BY <1>1, <2>1, <2>2
    <3> QED
      BY <2>1, <3>1
  <2>3. CASE list[i + 1] # e
    <3>0. kept[i + 1] = Append(kept[i], list[i + 1])
      <4>1. i + 1 \in 1 .. Len(list) /\ i + 1 - 1 = i
        BY <2>1
      <4>2. kept[i + 1] = IF list[i + 1] = e THEN kept[i + 1 - 1]
                                             ELSE Append(kept[i + 1 - 1], list[i + 1])
        BY <1>1, <4>1
      <4> QED
        BY <2>3, <4>1, <4>2
    <3> DEFINE w == kept[i]
               x == kept[i + 1]
    <3>1. x = Append(w, list[i + 1])
      BY <3>0
    <3>2. /\ Len(x) = Len(w) + 1
          /\ Len(w) \in Nat
          /\ x[Len(w) + 1] = list[i + 1]
          /\ \A k \in 1 .. Len(w) : x[k] = w[k]
      BY <2>1, <3>1
    <3>3. \A k \in 1 .. Len(w) : w[k] # e /\ \E j \in 1 .. i : w[k] = list[j]
      BY <2>1
    <3>4. \A k, l \in 1 .. Len(w) : w[k] = w[l] => k = l
      BY <2>1
    <3> HIDE DEF w, x
    <3>5. \A k \in 1 .. Len(w) : w[k] # list[i + 1]
      <4> TAKE k \in 1 .. Len(w)
      <4>1. PICK j \in 1 .. i : w[k] = list[j]
        BY <3>3
      <4>2. j \in 1 .. Len(list) /\ j # i + 1
        BY <2>1
      <4> QED
        BY <4>1, <4>2, <2>1
    <3>6. \A k \in 1 .. Len(x) : x[k] # e /\ \E j \in 1 .. i + 1 : x[k] = list[j]
      <4> TAKE k \in 1 .. Len(x)
      <4>1. CASE k \in 1 .. Len(w)
        BY <4>1, <3>2, <3>3
      <4>2. CASE k = Len(w) + 1
        BY <4>2, <3>2, <2>3
      <4> QED
        BY <4>1, <4>2, <3>2
    <3>7. \A k, l \in 1 .. Len(x) : x[k] = x[l] => k = l
      BY <3>2, <3>4, <3>5
    <3> QED
      BY <3>6, <3>7 DEF x
  <2> QED
    BY <2>2, <2>3
<1>4. Nat \subseteq Fine
  <2> HIDE DEF Fine
  <2> QED
    BY <1>2, <1>3, NatSetInduction
<1>5. Sound(Len(list))
  BY <1>4
<1> QED
  BY <1>5 DEF kept, Without

----------------------------------------------------------------------------
(* The two lists taken together *)

(* No element occurs twice.                                                *)
Distinct(s) == \A i, j \in 1 .. Len(s) : s[i] = s[j] => i = j

(* All elements are in the set.                                            *)
Within(s, A) == \A i \in 1 .. Len(s) : s[i] \in A

(* Concatenation is associative.                                           *)
LEMMA Associative ==
    ASSUME NEW S, NEW a \in Seq(S), NEW b \in Seq(S), NEW c \in Seq(S)
    PROVE  Cat(Cat(a, b), c) = Cat(a, Cat(b, c))
BY ConcatAssociative DEF Cat

(* LPUSH of a new message keeps the two lists without duplicates.          *)
LEMMA PushFacts ==
    ASSUME NEW S, NEW q \in Seq(S), NEW p \in Seq(S), NEW m \in S, NEW A,
           Distinct(q \o p), Within(q \o p, A), m \notin A
    PROVE  /\ <<m>> \o q \in Seq(S)
           /\ (<<m>> \o q) \o p = <<m>> \o (q \o p)
           /\ Distinct((<<m>> \o q) \o p)
           /\ Within((<<m>> \o q) \o p, A \cup {m})
<1> DEFINE old == q \o p
           new == <<m>> \o old
<1>1. <<m>> \in Seq(S) /\ <<m>> \o q \in Seq(S)
  OBVIOUS
<1>2. (<<m>> \o q) \o p = new
  BY <1>1, Associative DEF Cat
<1>3. /\ old \in Seq(S)
      /\ Len(old) \in Nat
      /\ Len(new) = Len(old) + 1
      /\ new[1] = m
      /\ \A i \in 2 .. Len(old) + 1 : new[i] = old[i - 1]
  OBVIOUS
<1>4. /\ \A i, j \in 1 .. Len(old) : old[i] = old[j] => i = j
      /\ \A i \in 1 .. Len(old) : old[i] \in A
  BY DEF Distinct, Within
<1> HIDE DEF old, new
<1>5. Within(new, A \cup {m})
  <2> SUFFICES ASSUME NEW i \in 1 .. Len(new) PROVE new[i] \in A \cup {m}
    BY DEF Within
  <2>1. CASE i = 1
    BY <1>3, <2>1
  <2>2. CASE i # 1
    <3>1. i - 1 \in 1 .. Len(old) /\ new[i] = old[i - 1]
      BY <1>3, <2>2
    <3> QED
      BY <1>4, <3>1
  <2> QED
    BY <2>1, <2>2
<1>6. Distinct(new)
  <2> SUFFICES ASSUME NEW i \in 1 .. Len(new), NEW j \in 1 .. Len(new), new[i] = new[j]
               PROVE  i = j
    BY DEF Distinct
  <2>1. CASE i = 1 \/ j = 1
    BY <1>3, <1>4, <2>1
  <2>2. CASE i # 1 /\ j # 1
    <3>1. i - 1 \in 1 .. Len(old) /\ j - 1 \in 1 .. Len(old)
      BY <1>3, <2>2
    <3>2. new[i] = old[i - 1] /\ new[j] = old[j - 1]
      BY <1>3, <2>2
    <3>3. i - 1 = j - 1
      BY <1>4, <3>1, <3>2, Zenon
    <3> QED
      BY <1>3, <3>3
  <2> QED
    BY <2>1, <2>2
<1> QED
  BY <1>1, <1>2, <1>5, <1>6, Zenon DEF new, old

(* BRPOPLPUSH leaves the two lists, taken together, as they are.           *)
LEMMA PopFacts ==
    ASSUME NEW S, NEW q \in Seq(S), NEW p \in Seq(S), NEW A,
           q # <<>>, Within(Cat(q, p), A)
    PROVE  /\ Front(q) \in Seq(S) /\ Cat(<<Last(q)>>, p) \in Seq(S)
           /\ Cat(Front(q), Cat(<<Last(q)>>, p)) = Cat(q, p)
           /\ Last(q) \in S \cap A
<1> DEFINE n == Len(q)
<1>1. n \in Nat \ {0} /\ q[n] \in S
  BY EmptySeq
<1>2. Front(q) = SubSeq(q, 1, n - 1) /\ Last(q) = q[n]
  <2>1. Front(q) = [i \in 1 .. (n - 1) |-> q[i]] /\ Last(q) = q[n]
    BY Zenon DEF Front, Last
  <2>2. SubSeq(q, 1, n - 1) = [i \in 1 .. (n - 1) |-> q[i]]
    BY <1>1
  <2> QED
    BY <2>1, <2>2, Zenon
<1>3. /\ SubSeq(q, 1, n - 1) \in Seq(S) /\ <<q[n]>> \in Seq(S)
      /\ <<q[n]>> \o p \in Seq(S)
  BY <1>1, SubSeqProperties
<1>4. SubSeq(q, 1, n - 1) \o <<q[n]>> = q
  BY <1>1, SubSeqRecursiveSecond, SubSeqFull
<1>5. (SubSeq(q, 1, n - 1) \o <<q[n]>>) \o p = SubSeq(q, 1, n - 1) \o (<<q[n]>> \o p)
  <2> DEFINE front == SubSeq(q, 1, n - 1)
             last == <<q[n]>>
  <2>1. front \in Seq(S) /\ last \in Seq(S)
    BY <1>3
  <2> HIDE DEF front, last
  <2>2. Cat(Cat(front, last), p) = Cat(front, Cat(last, p))
    BY <2>1, Associative
  <2> QED
    BY <2>2, Zenon DEF front, last, Cat
<1>6. (q \o p)[n] = q[n] /\ n \in 1 .. Len(q \o p)
  BY <1>1, ConcatProperties
<1> QED
  BY <1>1, <1>2, <1>3, <1>4, <1>5, <1>6, Zenon DEF Within, Cat

(* LREM from the processing list removes the message from the two lists    *)
(* taken together, or changes nothing.                                     *)
LEMMA RemoveFacts ==
    ASSUME NEW S, NEW q \in Seq(S), NEW p \in Seq(S), NEW m, NEW A,
           Distinct(Cat(q, p)), Within(Cat(q, p), A)
    PROVE  /\ Without(p, m) \in Seq(S)
           /\ Distinct(Cat(q, Without(p, m)))
           /\ Within(Cat(q, Without(p, m)), A)
           /\ \/ Cat(q, Without(p, m)) = Cat(q, p)
              \/ Cat(q, Without(p, m)) = Without(Cat(q, p), m)
<1> DEFINE w == Without(p, m)
           old == q \o p
           new == q \o w
           n == Len(q)
<1>0. Distinct(old) /\ Within(old, A)
  BY DEF Cat
<1>1. w \in Seq(S)
  BY WithoutSeq
<1>2. /\ n \in Nat /\ Len(p) \in Nat
      /\ Len(old) = n + Len(p)
      /\ \A i \in 1 .. n : old[i] = q[i]
      /\ \A i \in 1 .. Len(p) : old[n + i] = p[i]
  OBVIOUS
<1>3. /\ Len(w) \in Nat
      /\ Len(new) = n + Len(w)
      /\ \A i \in 1 .. n : new[i] = q[i]
      /\ \A i \in n + 1 .. n + Len(w) : new[i] = w[i - n]
  <2> HIDE DEF w
  <2> QED
    BY <1>1
<1>4. /\ \A i, j \in 1 .. Len(old) : old[i] = old[j] => i = j
      /\ \A i \in 1 .. Len(old) : old[i] \in A
  BY <1>0 DEF Distinct, Within
<1>5. \A i, j \in 1 .. Len(p) : p[i] = p[j] => i = j
  <2> TAKE i, j \in 1 .. Len(p)
  <2>1. n + i \in 1 .. Len(old) /\ n + j \in 1 .. Len(old)
    BY <1>2
  <2> HIDE DEF n, old
  <2> QED
    BY <1>2, <1>4, <2>1
<1>6. /\ \A k \in 1 .. Len(w) : \E i \in 1 .. Len(p) : w[k] = p[i]
      /\ \A k, l \in 1 .. Len(w) : w[k] = w[l] => k = l
  BY <1>5, WithoutKeeps
<1>7. ASSUME NEW k \in 1 .. Len(w)
      PROVE  \E i \in n + 1 .. Len(old) : w[k] = old[i]
  <2>1. PICK i \in 1 .. Len(p) : w[k] = p[i]
    BY <1>6
  <2>2. n + i \in n + 1 .. Len(old) /\ old[n + i] = p[i]
    BY <1>2
  <2> HIDE DEF w, old, n
  <2> QED
    BY <2>1, <2>2
<1> HIDE DEF w, old, new, n
<1>8. Within(new, A)
  <2> SUFFICES ASSUME NEW k \in 1 .. Len(new) PROVE new[k] \in A
    BY DEF Within
  <2>1. CASE k \in 1 .. n
    BY <1>2, <1>3, <1>4, <2>1
  <2>2. CASE k \in n + 1 .. n + Len(w)
    <3>1. k - n \in 1 .. Len(w)
      BY <1>2, <1>3, <2>2
    <3>2. PICK i \in n + 1 .. Len(old) : w[k - n] = old[i]
      BY <1>7, <3>1
    <3> QED
      BY <1>2, <1>3, <1>4, <2>2, <3>2
  <2> QED
    BY <1>2, <1>3, <2>1, <2>2
<1>9. Distinct(new)
  <2>1. \A k \in 1 .. n, l \in 1 .. Len(w) : q[k] # w[l]
    <3> TAKE k \in 1 .. n, l \in 1 .. Len(w)
    <3>1. PICK i \in n + 1 .. Len(old) : w[l] = old[i]
      BY <1>7
    <3> QED
      BY <1>2, <1>4, <3>1
  <2>2. \A k, l \in 1 .. n : q[k] = q[l] => k = l
    BY <1>2, <1>4
  <2> SUFFICES ASSUME NEW k \in 1 .. Len(new), NEW l \in 1 .. Len(new), new[k] = new[l]
               PROVE  k = l
    BY DEF Distinct
  <2>3. CASE k \in 1 .. n /\ l \in 1 .. n
    BY <1>3, <2>2, <2>3
  <2>4. CASE k \in n + 1 .. n + Len(w) /\ l \in n + 1 .. n + Len(w)
    <3>1. /\ k - n \in 1 .. Len(w) /\ l - n \in 1 .. Len(w)
          /\ w[k - n] = w[l - n]
      <4>1. k - n \in 1 .. Len(w) /\ l - n \in 1 .. Len(w)
        BY <1>2, <1>3, <2>4
      <4>2. new[k] = w[k - n] /\ new[l] = w[l - n]
        BY <1>3, <2>4
      <4> QED
        BY <4>1, <4>2, Zenon
    <3>2. k - n = l - n
      BY <1>6, <3>1
    <3> QED
      BY <1>2, <3>2
  <2>5. CASE k \in 1 .. n /\ l \in n + 1 .. n + Len(w)
    <3>1. l - n \in 1 .. Len(w) /\ q[k] = w[l - n]
      BY <1>2, <1>3, <2>5
    <3> QED
      BY <2>1, <2>5, <3>1
  <2>6. CASE k \in n + 1 .. n + Len(w) /\ l \in 1 .. n
    <3>1. k - n \in 1 .. Len(w) /\ q[l] = w[k - n]
      BY <1>2, <1>3, <2>6
    <3> QED
      BY <2>1, <2>6, <3>1
  <2> QED
    BY <1>2, <1>3, <2>3, <2>4, <2>5, <2>6
<1>10. new = old \/ new = Without(old, m)
  <2>1. CASE \E i \in 1 .. n : q[i] = m
    <3>1. \A i \in 1 .. Len(p) : p[i] # m
      <4> TAKE i \in 1 .. Len(p)
      <4>1. n + i \in 1 .. Len(old) /\ \A j \in 1 .. n : j \in 1 .. Len(old) /\ j # n + i
        BY <1>2
      <4> QED
        BY <1>2, <1>4, <2>1, <4>1
    <3>2. w = p
      BY <3>1, WithoutAbsent DEF w
    <3> QED
      BY <3>2 DEF new, old
  <2>2. CASE \A i \in 1 .. n : q[i] # m
    <3>1. Without(q, m) = q
      BY <2>2, WithoutAbsent DEF n
    <3>2. Without(old, m) = Without(q, m) \o w
      BY WithoutConcat DEF old, w
    <3> QED
      BY <3>1, <3>2 DEF new
  <2> QED
    BY <2>1, <2>2
<1> QED
  BY <1>1, <1>8, <1>9, <1>10 DEF w, old, new, Cat

----------------------------------------------------------------------------
(* The refinement *)

(* The types of what the refinement depends on.                            *)
ChannelType ==
    /\ queue \in Seq(Messages) /\ processing \in Seq(Messages)
    /\ written \in [Messages -> Nat] /\ completed \in [Messages -> Nat]
    /\ handling \in [Services -> [Messages -> Nat]]
    /\ acking \in [Services -> [Messages -> Nat]]

(* The messages that were written.                                         *)
Arrived == {m \in Messages : written[m] > 0}

(* The messages whose callback returned.                                   *)
Handled == {m \in Messages : completed[m] > 0}

(* The inductive invariant of the refinement: the two lists taken together *)
(* hold no message twice and only ones that were written, callbacks run    *)
(* only for messages that were written, and only those whose callback      *)
(* returned are acknowledged.                                              *)
MailboxInv ==
    /\ ChannelType
    /\ Distinct(Stored)
    /\ Within(Stored, Arrived)
    /\ \A s \in Services, m \in Messages :
        /\ handling[s][m] > 0 => m \in Arrived
        /\ acking[s][m] > 0 => m \in Handled

(* It holds initially.                                                     *)
LEMMA MailboxInit == Init => MailboxInv
<1> SUFFICES ASSUME Init PROVE MailboxInv
  OBVIOUS
<1>1. Stored = <<>> /\ Distinct(<<>>) /\ Within(<<>>, Arrived)
  BY DEF Init, Stored, Distinct, Within
<1> QED
  BY <1>1 DEF Init, MailboxInv, ChannelType, NoHandlers

(* Writing a message puts it into the mailbox.                             *)
LEMMA WriteStep ==
    ASSUME MailboxInv, Copies = 1, NEW m \in Messages, Write(m)
    PROVE  MailboxInv' /\ mailbox!Put(m)
<1>1. m \notin Arrived
  BY DEF Write, Arrived, MailboxInv, ChannelType
<1>2. Arrived' = Arrived \cup {m} /\ Handled' = Handled /\ written' \in [Messages -> Nat]
  BY DEF Write, Arrived, Handled, Plus, MailboxInv, ChannelType
<1>3. queue' = <<m>> \o queue /\ processing' = processing
  BY DEF Write
<1>4. /\ queue' \in Seq(Messages)
      /\ Stored' = <<m>> \o Stored
      /\ Distinct(Stored') /\ Within(Stored', Arrived')
  <2>1. /\ queue \in Seq(Messages) /\ processing \in Seq(Messages)
        /\ Distinct(queue \o processing) /\ Within(queue \o processing, Arrived)
    BY DEF MailboxInv, ChannelType, Stored
  <2>2. /\ <<m>> \o queue \in Seq(Messages)
        /\ (<<m>> \o queue) \o processing = <<m>> \o (queue \o processing)
        /\ Distinct((<<m>> \o queue) \o processing)
        /\ Within((<<m>> \o queue) \o processing, Arrived \cup {m})
    BY <1>1, <2>1, PushFacts, Zenon
  <2> QED
    BY <1>2, <1>3, <2>2 DEF Stored
<1>5. MailboxInv'
  BY <1>2, <1>3, <1>4 DEF MailboxInv, ChannelType, Write, handlerVars
<1>6. mailbox!Put(m)
  BY <1>1, <1>2, <1>4 DEF mailbox!Put, Arrived, Handled
<1> QED
  BY <1>5, <1>6

(* The return of a callback handles its message.                           *)
LEMMA CallbackStep ==
    ASSUME MailboxInv, NEW s \in Services, NEW m \in Messages, Callback(s, m)
    PROVE  MailboxInv' /\ mailbox!Handle(m)
<1>1. m \in Arrived
  BY DEF Callback, MailboxInv
<1>2. /\ queue' = queue /\ processing' = processing /\ Stored' = Stored
      /\ written' = written /\ Arrived' = Arrived
  BY DEF Callback, redisVars, Stored, Arrived
<1>3. completed' \in [Messages -> Nat] /\ Handled' = Handled \cup {m}
  BY BoundsAssumption DEF Callback, Handled, MailboxInv, ChannelType
<1>4. /\ handling' = [handling EXCEPT ![s] = [handling[s] EXCEPT ![m] = handling[s][m] - 1]]
      /\ acking' = [acking EXCEPT ![s] = [acking[s] EXCEPT ![m] = acking[s][m] + 1]]
      /\ handling[s][m] > 0
  BY DEF Callback, Plus, Minus
<1>5. /\ handling' \in [Services -> [Messages -> Nat]]
      /\ acking' \in [Services -> [Messages -> Nat]]
  BY <1>4 DEF MailboxInv, ChannelType
<1>6. ASSUME NEW t \in Services, NEW k \in Messages
      PROVE  /\ handling'[t][k] > 0 => handling[t][k] > 0
             /\ acking'[t][k] > 0 => acking[t][k] > 0 \/ k = m
  BY <1>4 DEF MailboxInv, ChannelType
<1>7. MailboxInv'
  BY <1>2, <1>3, <1>5, <1>6, Zenon DEF MailboxInv, ChannelType
<1>8. mailbox!Handle(m)
  BY <1>1, <1>2, <1>3 DEF mailbox!Handle, Arrived, Handled
<1> QED
  BY <1>7, <1>8

(* Acknowledging a message removes it from the mailbox, or changes nothing *)
(* if it is not in the processing list.                                    *)
LEMMA ProcessedStep ==
    ASSUME MailboxInv, NEW s \in Services, NEW m \in Messages, MessageProcessed(s, m)
    PROVE  /\ MailboxInv'
           /\ mailbox!Remove(m) \/ UNCHANGED <<Stored, Arrived, Handled>>
<1>1. m \in Handled
  BY DEF MessageProcessed, MailboxInv
<1>2. /\ Arrived' = Arrived /\ Handled' = Handled
      /\ written' = written /\ completed' = completed /\ handling' = handling
  BY DEF MessageProcessed, historyVars, Arrived, Handled
<1>3. queue' = queue /\ processing' = Without(processing, m)
  BY DEF MessageProcessed
<1>4. /\ processing' \in Seq(Messages)
      /\ Distinct(Stored') /\ Within(Stored', Arrived)
      /\ Stored' = Stored \/ Stored' = Without(Stored, m)
  <2>1. /\ queue \in Seq(Messages) /\ processing \in Seq(Messages)
        /\ Distinct(Cat(queue, processing)) /\ Within(Cat(queue, processing), Arrived)
    BY DEF MailboxInv, ChannelType, Stored, Cat
  <2>2. /\ Without(processing, m) \in Seq(Messages)
        /\ Distinct(Cat(queue, Without(processing, m)))
        /\ Within(Cat(queue, Without(processing, m)), Arrived)
        /\ \/ Cat(queue, Without(processing, m)) = Cat(queue, processing)
           \/ Cat(queue, Without(processing, m)) = Without(Cat(queue, processing), m)
    BY ONLY <2>1, RemoveFacts
  <2> QED
    BY <1>3, <2>2 DEF Stored, Cat
<1>5. acking' = [acking EXCEPT ![s] = [acking[s] EXCEPT ![m] = acking[s][m] - 1]] /\ acking[s][m] > 0
  BY DEF MessageProcessed, Minus
<1>6. acking' \in [Services -> [Messages -> Nat]]
  BY <1>5 DEF MailboxInv, ChannelType
<1>7. ASSUME NEW t \in Services, NEW k \in Messages
      PROVE  acking'[t][k] > 0 => acking[t][k] > 0
  BY <1>5 DEF MailboxInv, ChannelType
<1>8. MailboxInv'
  BY <1>2, <1>3, <1>4, <1>6, <1>7 DEF MailboxInv, ChannelType
<1>9. ASSUME Stored' = Without(Stored, m)
      PROVE  mailbox!Remove(m)
  <2>1. mailbox!Without(Stored, m) = Without(Stored, m)
    BY DEF mailbox!Without, mailbox!Kept, Without, Kept
  <2> QED
    BY <1>1, <1>2, <1>9, <2>1 DEF mailbox!Remove, Arrived, Handled
<1> QED
  BY <1>2, <1>4, <1>8, <1>9

(* The mailbox is left alone.                                              *)
Quiet == UNCHANGED <<Stored, Arrived, Handled>>

(* Starting and stopping a listener, and reads that fail or get nothing,   *)
(* leave it alone.                                                         *)
LEMMA ListenerStep ==
    ASSUME MailboxInv, NEW s \in Services,
           \/ StartListener(s) \/ StopListener(s) \/ ExitLoop(s)
           \/ RestoreFails(s) \/ ReadBlocking(s) \/ PopTimeout(s)
    PROVE  MailboxInv' /\ Quiet
<1>1. UNCHANGED <<queue, processing, handling, acking, written, completed>>
  BY DEF StartListener, StopListener, ExitLoop, RestoreFails, ReadBlocking, PopTimeout,
         redisVars, handlerVars, historyVars
<1> QED
  BY <1>1 DEF MailboxInv, ChannelType, Stored, Arrived, Handled, Quiet

(* restore_lost_messages, which moves what a former service did not        *)
(* acknowledge back to the queue, leaves the mailbox and its order alone.  *)
LEMMA RestoreStep ==
    ASSUME MailboxInv, NEW s \in Services, RestoreLostMessages(s)
    PROVE  MailboxInv' /\ Quiet
<1>1. /\ queue' = queue \o processing /\ processing' = <<>>
      /\ UNCHANGED <<handling, acking, written, completed>>
  BY DEF RestoreLostMessages, handlerVars, historyVars
<1>2. /\ queue \in Seq(Messages) /\ processing \in Seq(Messages)
      /\ queue' \in Seq(Messages) /\ processing' \in Seq(Messages)
  BY <1>1 DEF MailboxInv, ChannelType
<1>3. Stored' = Stored
  BY <1>1, <1>2, ConcatEmptySeq DEF Stored
<1> QED
  BY <1>1, <1>2, <1>3 DEF MailboxInv, ChannelType, Arrived, Handled, Quiet

(* So does reading a message, also when the answer is lost.                *)
LEMMA PopStep ==
    ASSUME MailboxInv, NEW s \in Services, PopBlocking(s) \/ PopAnswerLost(s)
    PROVE  MailboxInv' /\ Quiet
<1> DEFINE m == Last(queue)
<1>1. /\ queue # <<>>
      /\ queue' = Front(queue) /\ processing' = <<m>> \o processing
      /\ UNCHANGED <<acking, written, completed>>
  BY DEF PopBlocking, PopAnswerLost, handlerVars, historyVars
<1>2. handling' = handling \/ handling' = [handling EXCEPT ![s] = Plus(handling[s], m)]
  BY DEF PopBlocking, PopAnswerLost, handlerVars
<1>3. /\ queue' \in Seq(Messages) /\ processing' \in Seq(Messages)
      /\ Stored' = Stored /\ m \in Messages /\ m \in Arrived
  <2>1. /\ queue \in Seq(Messages) /\ processing \in Seq(Messages)
        /\ Within(Cat(queue, processing), Arrived)
    BY DEF MailboxInv, ChannelType, Stored, Cat
  <2>2. queue # <<>>
    BY <1>1
  <2>3. /\ Front(queue) \in Seq(Messages) /\ Cat(<<m>>, processing) \in Seq(Messages)
        /\ Cat(Front(queue), Cat(<<m>>, processing)) = Cat(queue, processing)
        /\ m \in Messages \cap Arrived
    BY ONLY <2>1, <2>2, PopFacts, Zenon
  <2> HIDE DEF m
  <2> QED
    BY ONLY <1>1, <2>3, Zenon DEF Stored, Cat
<1> HIDE DEF m
<1>4. handling \in [Services -> [Messages -> Nat]]
  BY DEF MailboxInv, ChannelType
<1>5. /\ handling' \in [Services -> [Messages -> Nat]]
      /\ \A t \in Services, k \in Messages :
            handling'[t][k] > 0 => handling[t][k] > 0 \/ k = m
  <2>1. CASE handling' = handling
    BY ONLY <1>4, <2>1
  <2>2. CASE handling' = [handling EXCEPT ![s] = Plus(handling[s], m)]
    <3>1. /\ s \in Services /\ m \in Messages
          /\ handling' = [handling EXCEPT ![s] = [handling[s] EXCEPT ![m] = handling[s][m] + 1]]
      BY <1>3, <2>2 DEF Plus
    <3> QED
      BY ONLY <1>4, <3>1
  <2> QED
    BY <1>2, <2>1, <2>2
<1>6. Arrived' = Arrived /\ Handled' = Handled
  BY <1>1 DEF Arrived, Handled
<1> QED
  BY <1>1, <1>3, <1>5, <1>6, Zenon DEF MailboxInv, ChannelType, Quiet

(* So does an acknowledgement that fails.                                  *)
LEMMA AckFailsStep ==
    ASSUME MailboxInv, NEW s \in Services, NEW m \in Messages, MessageProcessedFails(s, m)
    PROVE  MailboxInv' /\ Quiet
<1>1. /\ UNCHANGED <<queue, processing, handling, written, completed>>
      /\ acking[s][m] > 0
      /\ acking' = [acking EXCEPT ![s] = Minus(acking[s], m)]
  BY DEF MessageProcessedFails, redisVars, historyVars
<1>2. acking' \in [Services -> [Messages -> Nat]]
  BY <1>1 DEF MailboxInv, ChannelType, Minus
<1>3. ASSUME NEW t \in Services, NEW k \in Messages
      PROVE  acking'[t][k] > 0 => acking[t][k] > 0
  BY <1>1 DEF MailboxInv, ChannelType, Minus
<1>4. Arrived' = Arrived /\ Handled' = Handled /\ Stored' = Stored
  BY <1>1 DEF Arrived, Handled, Stored
<1> QED
  BY <1>1, <1>2, <1>3, <1>4 DEF MailboxInv, ChannelType, Quiet

(* So does a crash of the service.                                         *)
LEMMA CrashStep ==
    ASSUME MailboxInv, NEW s \in Services, Crash(s)
    PROVE  MailboxInv' /\ Quiet
<1>1. /\ UNCHANGED <<queue, processing, written, completed>>
      /\ handling' = [handling EXCEPT ![s] = NoHandlers]
      /\ acking' = [acking EXCEPT ![s] = NoHandlers]
  BY DEF Crash, redisVars, historyVars
<1>2. /\ handling' \in [Services -> [Messages -> Nat]]
      /\ acking' \in [Services -> [Messages -> Nat]]
  BY <1>1 DEF MailboxInv, ChannelType, NoHandlers
<1>3. ASSUME NEW t \in Services, NEW k \in Messages
      PROVE  /\ handling'[t][k] > 0 => handling[t][k] > 0
             /\ acking'[t][k] > 0 => acking[t][k] > 0
  BY <1>1 DEF MailboxInv, ChannelType, NoHandlers
<1>4. Arrived' = Arrived /\ Handled' = Handled /\ Stored' = Stored
  BY <1>1 DEF Arrived, Handled, Stored
<1> QED
  BY <1>1, <1>2, <1>3, <1>4 DEF MailboxInv, ChannelType, Quiet

(* One step of the channel is a step of the mailbox or leaves it alone.    *)
LEMMA MailboxStep ==
    ASSUME Copies = 1, MailboxInv, [Next]_vars
    PROVE  /\ MailboxInv'
           /\ mailbox!Next \/ Quiet
<1>1. CASE UNCHANGED vars
  BY <1>1 DEF vars, redisVars, handlerVars, historyVars, MailboxInv, ChannelType,
              Stored, Arrived, Handled, Quiet
<1>2. ASSUME NEW m \in Messages, Write(m)
      PROVE  MailboxInv' /\ mailbox!Next
  BY <1>2, WriteStep DEF mailbox!Next
<1>3. ASSUME NEW s \in Services,
             StartListener(s) \/ StopListener(s) \/ Crash(s) \/ Listener(s)
      PROVE  MailboxInv' /\ Quiet
  BY <1>3, ListenerStep, RestoreStep, PopStep, CrashStep DEF Listener
<1>4. ASSUME NEW s \in Services, NEW m \in Messages, Callback(s, m)
      PROVE  MailboxInv' /\ mailbox!Next
  BY <1>4, CallbackStep DEF mailbox!Next
<1>5. ASSUME NEW s \in Services, NEW m \in Messages, MessageProcessed(s, m)
      PROVE  MailboxInv' /\ (mailbox!Next \/ Quiet)
  BY <1>5, ProcessedStep DEF mailbox!Next, Quiet
<1>6. ASSUME NEW s \in Services, NEW m \in Messages, MessageProcessedFails(s, m)
      PROVE  MailboxInv' /\ Quiet
  BY <1>6, AckFailsStep
<1> QED
  BY <1>1, <1>2, <1>3, <1>4, <1>5, <1>6 DEF Next

(* A channel is an ordered at-least-once mailbox for any number of         *)
(* services and messages, as long as no two messages are equal: no crash,  *)
(* failover, lost answer or failed acknowledgement loses, repeats or       *)
(* reorders what is stored (redis_channel.py; LREM with count 0 removes    *)
(* every copy of a message that was written twice, so that the assumption  *)
(* is needed).                                                             *)
THEOREM ChannelIsMailbox ==
    ASSUME Copies = 1
    PROVE  Spec => AtLeastOnceMailbox
<1>1. Init => mailbox!Init
  BY DEF Init, mailbox!Init, Stored, NoHandlers
<1>2. MailboxInv /\ [Next]_vars => MailboxInv'
  BY MailboxStep
<1>3. MailboxInv /\ [Next]_vars => [mailbox!Next]_<<Stored, Arrived, Handled>>
  BY MailboxStep DEF Quiet
<1>4. mailbox!Spec <=> mailbox!Init /\ [][mailbox!Next]_<<Stored, Arrived, Handled>>
  BY DEF mailbox!Spec, Arrived, Handled
<1> QED
  BY <1>1, <1>2, <1>3, <1>4, MailboxInit, PTL DEF Spec, AtLeastOnceMailbox
=============================================================================
