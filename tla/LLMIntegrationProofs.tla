------------------------- MODULE LLMIntegrationProofs -------------------------
(***************************************************************************)
(* Proofs about LLMIntegration, for any calls, arguments, attachments and  *)
(* budgets.                                                                *)
(*                                                                         *)
(* What FlattenSeq returns is proved by induction over sets of numbers,    *)
(* from the existence of a least element; Filter and Lasting, which are    *)
(* made of it, follow.  Responses: Assembled says that a block holds the   *)
(* parts sent so far of the call at its index.  Requests: Recorded says    *)
(* that a call in the history has its result or is waited for.             *)
(* Attachments: MediaKept says that they keep their place and are marked   *)
(* as seen when they have been shown.  The conversation: Covered says that *)
(* the last request is a beginning of the history.                         *)
(***************************************************************************)
EXTENDS LLMIntegration, SequenceTheorems, WellFoundedInduction, TLAPS

-----------------------------------------------------------------------------
(* Sequences of sequences *)

\* A set of naturals that has elements has a least one.
LEMMA Least ==
  ASSUME NEW S \in SUBSET Nat, S # {} PROVE \E n \in S : \A m \in S : n <= m
<1>1. \E n \in S : \A m \in S : ~(<<m, n>> \in OpToRel(<, Nat))
  BY NatLessThanWellFounded, WFMin
<1>2. \A n, m \in S : ~(<<m, n>> \in OpToRel(<, Nat)) => n <= m
  BY DEF OpToRel
<1> QED
  BY <1>1, <1>2

\* Induction, with a set in the place of a predicate.
LEMMA SetInduction ==
  ASSUME NEW S, 0 \in S, \A n \in Nat : n \in S => n + 1 \in S PROVE Nat \subseteq S
<1> SUFFICES ASSUME Nat \ S # {} PROVE FALSE
  OBVIOUS
<1>1. PICK n \in Nat \ S : \A m \in Nat \ S : n <= m
  BY Least
<1>2. n - 1 \in Nat /\ (n - 1) + 1 = n /\ ~(n <= n - 1)
  OBVIOUS
<1> QED
  BY <1>1, <1>2

\* f[i] joins the first i elements of ss.
Joins(f, ss, A) ==
  /\ f \in [0 .. Len(ss) -> Seq(A)]
  /\ f[0] = <<>>
  /\ \A i \in 1 .. Len(ss) : f[i] = f[i - 1] \o ss[i]

LEMMA JoinsExists ==
  ASSUME NEW A, NEW ss \in Seq(Seq(A)) PROVE \E f : Joins(f, ss, A)
<1> DEFINE UpTo(n) == {f \in [0 .. n -> Seq(A)] :
                         f[0] = <<>> /\ \A i \in 1 .. n : f[i] = f[i - 1] \o ss[i]}
           Done == {n \in Nat : n <= Len(ss) => UpTo(n) # {}}
<1>1. 0 \in Done
  <2>1. [i \in 0 .. 0 |-> <<>>] \in UpTo(0)
    OBVIOUS
  <2> QED
    BY <2>1
<1>2. ASSUME NEW n \in Nat, n \in Done, n + 1 <= Len(ss) PROVE UpTo(n + 1) # {}
  <2>1. PICK f \in UpTo(n) : TRUE
    <3> HIDE DEF UpTo
    <3>1. n <= Len(ss)
      BY <1>2
    <3> QED
      BY <1>2, <3>1
  <2> DEFINE g == [i \in 0 .. (n + 1) |-> IF i = n + 1 THEN f[n] \o ss[n + 1] ELSE f[i]]
  <2>2. f[n] \o ss[n + 1] \in Seq(A)
    <3>1. n + 1 \in DOMAIN ss /\ ss[n + 1] \in Seq(A)
      BY <1>2
    <3> QED
      BY <3>1
  <2>3. g \in [0 .. (n + 1) -> Seq(A)]
    BY <2>2
  <2>4. ASSUME NEW i \in 1 .. (n + 1) PROVE g[i] = g[i - 1] \o ss[i]
    <3>1. CASE i = n + 1
      <4>1. i - 1 = n /\ n \in 0 .. (n + 1) /\ n # n + 1
        BY <3>1
      <4>2. g[n + 1] = f[n] \o ss[n + 1]
        OBVIOUS
      <4>3. g[n] = f[n]
        BY <4>1
      <4> QED
        BY <3>1, <4>1, <4>2, <4>3
    <3>2. CASE i # n + 1
      <4>1. i \in 1 .. n /\ i - 1 \in 0 .. n /\ i - 1 # n + 1
        BY <3>2
      <4>2. g[i] = f[i] /\ g[i - 1] = f[i - 1]
        BY <3>2, <4>1
      <4>3. f[i] = f[i - 1] \o ss[i]
        BY <2>1, <4>1
      <4> QED
        BY <4>2, <4>3
    <3> QED
      BY <3>1, <3>2
  <2>5. g[0] = <<>>
    BY <2>1
  <2> HIDE DEF g
  <2> QED
    BY <2>3, <2>4, <2>5
<1>3. Nat \subseteq Done
  <2> HIDE DEF UpTo
  <2>1. \A n \in Nat : n \in Done => n + 1 \in Done
    BY <1>2
  <2> QED
    BY <1>1, <2>1, SetInduction
<1>4. PICK f \in UpTo(Len(ss)) : TRUE
  <2> HIDE DEF UpTo
  <2> QED
    BY <1>3
<1> QED
  BY <1>4 DEF Joins

\* What FlattenSeq returns.
LEMMA Flattens ==
  ASSUME NEW A, NEW ss \in Seq(Seq(A))
  PROVE  \E f : Joins(f, ss, A) /\ FlattenSeq(ss) = f[Len(ss)]
<1> DEFINE Fit(f) == f = [i \in 1 .. Len(ss) |-> IF i = 1 THEN ss[i] ELSE f[i - 1] \o ss[i]]
<1>1. PICK f : Joins(f, ss, A)
  BY JoinsExists
<1>2. CASE Len(ss) = 0
  <2>1. ss = <<>> /\ FlattenSeq(ss) = ss
    BY <1>2 DEF FlattenSeq
  <2> QED
    BY <1>1, <1>2, <2>1 DEF Joins
<1>3. CASE Len(ss) # 0
  <2> DEFINE g == [i \in 1 .. Len(ss) |-> f[i]]
             c == CHOOSE h : Fit(h)
  <2>1. Fit(g)
    <3>1. ASSUME NEW i \in 1 .. Len(ss)
          PROVE  g[i] = IF i = 1 THEN ss[i] ELSE g[i - 1] \o ss[i]
      <4>1. f[i] = f[i - 1] \o ss[i] /\ f[0] = <<>>
        BY <1>1 DEF Joins
      <4>4. ss[i] \in Seq(A)
        OBVIOUS
      <4>2. i # 1 => i - 1 \in 1 .. Len(ss)
        OBVIOUS
      <4>3. <<>> \o ss[i] = ss[i]
        BY <4>4
      <4>5. i = 1 => i - 1 = 0
        OBVIOUS
      <4> QED
        BY <4>1, <4>2, <4>3, <4>5
    <3> QED
      BY <3>1
  <2>2. Fit(c)
    BY <2>1
  <2>3. FlattenSeq(ss) = c[Len(ss)]
    BY <1>3 DEF FlattenSeq
  <2> DEFINE k == [i \in 0 .. Len(ss) |-> IF i = 0 THEN <<>> ELSE c[i]]
             Same == {n \in Nat : n <= Len(ss) => k[n] = f[n]}
  <2> HIDE DEF c
  <2>4. 0 \in Same
    BY <1>1 DEF Joins
  <2>5. ASSUME NEW n \in Nat, n \in Same, n + 1 <= Len(ss) PROVE k[n + 1] = f[n + 1]
    <3>1. n + 1 \in 1 .. Len(ss) /\ n \in 0 .. Len(ss) /\ (n + 1) - 1 = n
      BY <2>5
    <3>2. f[n + 1] = f[n] \o ss[n + 1] /\ f[0] = <<>>
      BY <1>1, <3>1 DEF Joins
    <3>6. ss[n + 1] \in Seq(A)
      BY <3>1
    <3>3. c[n + 1] = IF n + 1 = 1 THEN ss[n + 1] ELSE c[n] \o ss[n + 1]
      BY <2>2, <3>1
    <3>4. k[n + 1] = c[n + 1] /\ k[n] = f[n] /\ (n # 0 => k[n] = c[n])
      BY <2>5, <3>1
    <3>5. <<>> \o ss[n + 1] = ss[n + 1]
      BY <3>6
    <3>7. CASE n = 0
      <4>1. n + 1 = 1 /\ f[n] = <<>>
        BY <3>2, <3>7
      <4>2. f[n + 1] = ss[n + 1]
        BY <3>2, <3>5, <4>1
      <4>3. c[n + 1] = ss[n + 1]
        BY <3>3, <4>1
      <4> QED
        BY <3>4, <4>2, <4>3
    <3>8. CASE n # 0
      <4>1. n + 1 # 1
        BY <3>8
      <4> QED
        BY <3>2, <3>3, <3>4, <3>8, <4>1
    <3> QED
      BY <3>7, <3>8
  <2>6. Nat \subseteq Same
    <3> HIDE DEF k
    <3>1. \A n \in Nat : n \in Same => n + 1 \in Same
      BY <2>5
    <3> QED
      BY <2>4, <3>1, SetInduction
  <2>7. k[Len(ss)] = f[Len(ss)]
    <3> HIDE DEF k
    <3> QED
      BY <2>6
  <2> QED
    BY <1>1, <1>3, <2>3, <2>7
<1> QED
  BY <1>2, <1>3

\* Where the elements of the sequences are in what FlattenSeq makes of them.
Places(off, ss) ==
  /\ off \in [0 .. Len(ss) -> Nat]
  /\ Len(FlattenSeq(ss)) = off[Len(ss)]
  /\ \A i \in 1 .. Len(ss) : off[i] = off[i - 1] + Len(ss[i])
  /\ \A i \in 1 .. Len(ss) : \A j \in 1 .. Len(ss[i]) :
       /\ off[i - 1] + j \in 1 .. Len(FlattenSeq(ss))
       /\ FlattenSeq(ss)[off[i - 1] + j] = ss[i][j]
  /\ \A k \in 1 .. Len(FlattenSeq(ss)) :
       \E i \in 1 .. Len(ss) : \E j \in 1 .. Len(ss[i]) : k = off[i - 1] + j

LEMMA FlattenPlaces ==
  ASSUME NEW A, NEW ss \in Seq(Seq(A)) PROVE \E off : Places(off, ss)
<1>1. PICK f : Joins(f, ss, A) /\ FlattenSeq(ss) = f[Len(ss)]
  BY Flattens
<1>2. \A n \in 0 .. Len(ss) : f[n] \in Seq(A)
  BY <1>1 DEF Joins
<1> DEFINE Have(n) ==
             \A i \in 1 .. n : \A j \in 1 .. Len(ss[i]) :
               /\ Len(f[i - 1]) + j \in 1 .. Len(f[n])
               /\ f[n][Len(f[i - 1]) + j] = ss[i][j]
           Only(n) ==
             \A k \in 1 .. Len(f[n]) :
               \E i \in 1 .. n : \E j \in 1 .. Len(ss[i]) : k = Len(f[i - 1]) + j
           Good == {n \in Nat : n <= Len(ss) => Have(n) /\ Only(n)}
<1>3. 0 \in Good
  <2>1. Have(0)
    OBVIOUS
  <2>2. Len(f[0]) = 0
    BY <1>1 DEF Joins
  <2>3. Only(0)
    BY <2>2
  <2> QED
    BY <2>1, <2>3
<1>4. ASSUME NEW n \in Nat, n \in Good, n + 1 <= Len(ss)
      PROVE  Have(n + 1) /\ Only(n + 1)
  <2>1. n + 1 \in 1 .. Len(ss) /\ n \in 0 .. Len(ss) /\ (n + 1) - 1 = n
    BY <1>4
  <2>2. f[n] \in Seq(A) /\ ss[n + 1] \in Seq(A)
    BY <1>2, <2>1
  <2>3. f[n + 1] = f[n] \o ss[n + 1]
    BY <1>1, <2>1 DEF Joins
  <2> DEFINE a == f[n]
             b == ss[n + 1]
  <2>4. /\ Len(a) \in Nat /\ Len(b) \in Nat
        /\ Len(f[n + 1]) = Len(a) + Len(b)
        /\ \A k \in 1 .. Len(a) : f[n + 1][k] = a[k]
        /\ \A k \in 1 .. Len(b) : f[n + 1][Len(a) + k] = b[k]
    <3> HIDE DEF a, b
    <3>1. a \in Seq(A) /\ b \in Seq(A) /\ f[n + 1] = a \o b
      BY <2>2, <2>3 DEF a, b
    <3>2. Len(a \o b) = Len(a) + Len(b)
      BY <3>1
    <3> QED
      BY <3>1, <3>2
  <2>5. Have(n) /\ Only(n)
    <3> HIDE DEF Have, Only
    <3>1. n <= Len(ss)
      BY <1>4
    <3> QED
      BY <1>4, <3>1
  <2>6. ASSUME NEW i \in 1 .. (n + 1), NEW j \in 1 .. Len(ss[i])
        PROVE  Len(f[i - 1]) + j \in 1 .. Len(f[n + 1]) /\ f[n + 1][Len(f[i - 1]) + j] = ss[i][j]
    <3>1. CASE i = n + 1
      <4>1. i - 1 = n
        BY <3>1
      <4>2. j \in 1 .. Len(b) /\ ss[i] = b
        BY <3>1
      <4>3. Len(a) + j \in 1 .. Len(f[n + 1])
        <5> HIDE DEF a, b
        <5> QED
          BY <2>4, <4>2
      <4> QED
        BY <2>4, <4>1, <4>2, <4>3
    <3>2. CASE i # n + 1
      <4>1. i \in 1 .. n
        BY <3>2
      <4>2. Len(f[i - 1]) + j \in 1 .. Len(a) /\ a[Len(f[i - 1]) + j] = ss[i][j]
        BY <2>5, <4>1
      <4>3. 1 .. Len(a) \subseteq 1 .. Len(f[n + 1])
        <5> HIDE DEF a, b
        <5> QED
          BY <2>4
      <4> HIDE DEF a
      <4> QED
        BY <2>4, <4>2, <4>3
    <3> QED
      BY <3>1, <3>2
  <2>7. ASSUME NEW k \in 1 .. Len(f[n + 1])
        PROVE  \E i \in 1 .. (n + 1) : \E j \in 1 .. Len(ss[i]) : k = Len(f[i - 1]) + j
    <3>1. CASE k <= Len(a)
      <4>1. k \in 1 .. Len(a)
        BY <2>4, <3>1
      <4>2. PICK i \in 1 .. n : \E j \in 1 .. Len(ss[i]) : k = Len(f[i - 1]) + j
        BY <2>5, <4>1
      <4> QED
        BY <4>2
    <3>2. CASE ~(k <= Len(a))
      <4>1. k - Len(a) \in 1 .. Len(b) /\ k = Len(a) + (k - Len(a))
        <5> HIDE DEF a, b
        <5> QED
          BY <2>4, <3>2
      <4>2. n + 1 \in 1 .. (n + 1)
        OBVIOUS
      <4>3. \E j \in 1 .. Len(ss[n + 1]) : k = Len(f[(n + 1) - 1]) + j
        BY <2>1, <4>1
      <4> QED
        BY <4>2, <4>3
    <3> QED
      BY <3>1, <3>2
  <2> QED
    BY <2>6, <2>7
<1>5. Have(Len(ss)) /\ Only(Len(ss))
  <2> HIDE DEF Have, Only
  <2>1. \A n \in Nat : n \in Good => n + 1 \in Good
    <3> SUFFICES ASSUME NEW n \in Nat, n \in Good, n + 1 <= Len(ss)
                 PROVE  Have(n + 1) /\ Only(n + 1)
      OBVIOUS
    <3> QED
      BY <1>4
  <2>2. Nat \subseteq Good
    <3> HIDE DEF Good
    <3> QED
      BY <1>3, <2>1, SetInduction
  <2> QED
    BY <2>2
<1> DEFINE off == [i \in 0 .. Len(ss) |-> Len(f[i])]
<1>6. off \in [0 .. Len(ss) -> Nat] /\ off[Len(ss)] = Len(FlattenSeq(ss))
  BY <1>1, <1>2
<1>7. ASSUME NEW i \in 1 .. Len(ss) PROVE off[i] = off[i - 1] + Len(ss[i])
  <2>1. i - 1 \in 0 .. Len(ss) /\ i \in 0 .. Len(ss)
    OBVIOUS
  <2>2. f[i] = f[i - 1] \o ss[i] /\ f[i - 1] \in Seq(A)
    BY <1>1, <1>2, <2>1 DEF Joins
  <2>3. ss[i] \in Seq(A)
    OBVIOUS
  <2> QED
    <3>1. Len(f[i - 1] \o ss[i]) = Len(f[i - 1]) + Len(ss[i])
      BY <2>2, <2>3
    <3> QED
      BY <2>1, <2>2, <3>1
<1>8. \A i \in 1 .. Len(ss) : off[i - 1] = Len(f[i - 1])
  OBVIOUS
<1> HIDE DEF off
<1>9. Places(off, ss)
  <2>1. Len(FlattenSeq(ss)) = Len(f[Len(ss)])
    BY <1>1
  <2>2. \A i \in 1 .. Len(ss) : \A j \in 1 .. Len(ss[i]) :
          /\ off[i - 1] + j \in 1 .. Len(FlattenSeq(ss))
          /\ FlattenSeq(ss)[off[i - 1] + j] = ss[i][j]
    BY <1>1, <1>5, <1>8
  <2>3. \A k \in 1 .. Len(FlattenSeq(ss)) :
          \E i \in 1 .. Len(ss) : \E j \in 1 .. Len(ss[i]) : k = off[i - 1] + j
    <3> SUFFICES ASSUME NEW k \in 1 .. Len(f[Len(ss)])
                 PROVE  \E i \in 1 .. Len(ss) : \E j \in 1 .. Len(ss[i]) : k = off[i - 1] + j
      BY <2>1
    <3>1. PICK i \in 1 .. Len(ss) : \E j \in 1 .. Len(ss[i]) : k = Len(f[i - 1]) + j
      BY <1>5
    <3> QED
      BY <1>8, <3>1
  <2> QED
    BY <1>6, <1>7, <2>2, <2>3 DEF Places
<1> QED
  BY <1>9

LEMMA FlattenEmpty == FlattenSeq(<<>>) = <<>>
  BY DEF FlattenSeq

LEMMA FlattenOne == ASSUME NEW A, NEW s \in Seq(A) PROVE FlattenSeq(<<s>>) = s
<1>1. <<s>> \in Seq(Seq(A)) /\ Len(<<s>>) = 1 /\ <<s>>[1] = s
  OBVIOUS
<1>2. PICK f : Joins(f, <<s>>, A) /\ FlattenSeq(<<s>>) = f[1]
  BY <1>1, Flattens
<1>3. f[0] = <<>> /\ f[1] = f[0] \o s
  <2>1. 1 \in 1 .. Len(<<s>>) /\ 1 - 1 = 0
    BY <1>1
  <2>2. f[0] = <<>> /\ f[1] = f[1 - 1] \o <<s>>[1]
    BY <1>2, <2>1 DEF Joins
  <2> QED
    BY <1>1, <2>1, <2>2
<1>4. <<>> \o s = s
  BY ConcatEmptySeq
<1> QED
  BY <1>2, <1>3, <1>4

\* FlattenSeq joins what it makes of the parts.
LEMMA FlattenConcat ==
  ASSUME NEW A, NEW ss \in Seq(Seq(A)), NEW tt \in Seq(Seq(A))
  PROVE  FlattenSeq(ss \o tt) = FlattenSeq(ss) \o FlattenSeq(tt)
<1> DEFINE m == Len(ss)
           l == Len(tt)
           all == ss \o tt
<1>1. /\ all \in Seq(Seq(A)) /\ Len(all) = m + l /\ m \in Nat /\ l \in Nat
      /\ \A i \in 1 .. m : all[i] = ss[i]
      /\ \A i \in 1 .. l : all[m + i] = tt[i]
  <2>1. \A i \in 1 .. (m + l) : all[i] = IF i <= m THEN ss[i] ELSE tt[i - m]
    BY ConcatProperties
  <2>2. \A i \in 1 .. m : i \in 1 .. (m + l) /\ i <= m
    OBVIOUS
  <2>3. \A i \in 1 .. l : m + i \in 1 .. (m + l) /\ ~(m + i <= m) /\ (m + i) - m = i
    OBVIOUS
  <2> HIDE DEF all, m, l
  <2>4. all \in Seq(Seq(A)) /\ Len(all) = m + l /\ m \in Nat /\ l \in Nat
    BY ConcatProperties DEF all, m, l
  <2> QED
    BY <2>1, <2>2, <2>3, <2>4
<1> HIDE DEF all
<1>2. PICK h : Joins(h, all, A) /\ FlattenSeq(all) = h[Len(all)]
  BY <1>1, Flattens
<1>3. PICK f : Joins(f, ss, A) /\ FlattenSeq(ss) = f[m]
  BY Flattens
<1>4. PICK g : Joins(g, tt, A) /\ FlattenSeq(tt) = g[l]
  BY Flattens
<1> HIDE DEF m, l
<1>5. /\ h[0] = <<>> /\ \A i \in 1 .. (m + l) : h[i] = h[i - 1] \o all[i]
      /\ f[0] = <<>> /\ f \in [0 .. m -> Seq(A)] /\ \A i \in 1 .. m : f[i] = f[i - 1] \o ss[i]
      /\ g[0] = <<>> /\ g \in [0 .. l -> Seq(A)] /\ \A i \in 1 .. l : g[i] = g[i - 1] \o tt[i]
  BY <1>1, <1>2, <1>3, <1>4 DEF Joins, m, l
<1> DEFINE First == {n \in Nat : n <= m => h[n] = f[n]}
           Second == {n \in Nat : n <= l => h[m + n] = f[m] \o g[n]}
<1>6. Nat \subseteq First
  <2>1. 0 \in First
    BY <1>5
  <2>2. ASSUME NEW n \in Nat, n \in First, n + 1 <= m PROVE h[n + 1] = f[n + 1]
    <3>1. n + 1 \in 1 .. m /\ n + 1 \in 1 .. (m + l) /\ (n + 1) - 1 = n /\ n <= m
      <4>1. m \in Nat /\ l \in Nat
        BY <1>1
      <4> QED
        BY <2>2, <4>1
    <3>2. h[n + 1] = h[n] \o all[n + 1] /\ f[n + 1] = f[n] \o ss[n + 1]
      BY <1>5, <3>1
    <3> QED
      BY <1>1, <2>2, <3>1, <3>2
  <2>3. ASSUME NEW n \in Nat, n \in First PROVE n + 1 \in First
    <3>1. n + 1 \in Nat
      OBVIOUS
    <3> QED
      BY <2>2, <2>3, <3>1
  <2> HIDE DEF First
  <2> QED
    BY <2>1, <2>3, SetInduction
<1>7. h[m] = f[m] /\ f[m] \in Seq(A)
  BY <1>1, <1>5, <1>6
<1>8. Nat \subseteq Second
  <2>1. 0 \in Second
    <3>1. h[m + 0] = h[m] /\ f[m] \o <<>> = f[m]
      BY <1>1, <1>7, ConcatEmptySeq
    <3> QED
      BY <1>5, <1>7, <3>1
  <2>2. ASSUME NEW n \in Nat, n \in Second, n + 1 <= l
        PROVE  h[m + (n + 1)] = f[m] \o g[n + 1]
    <3>1. /\ n + 1 \in 1 .. l /\ m + (n + 1) \in 1 .. (m + l) /\ (n + 1) - 1 = n
          /\ (m + (n + 1)) - 1 = m + n /\ n <= l /\ n \in 0 .. l
      BY <1>1, <2>2
    <3>2. h[m + (n + 1)] = h[m + n] \o all[m + (n + 1)] /\ g[n + 1] = g[n] \o tt[n + 1]
      BY <1>5, <3>1
    <3>3. all[m + (n + 1)] = tt[n + 1] /\ h[m + n] = f[m] \o g[n]
      BY <1>1, <2>2, <3>1
    <3>4. g[n] \in Seq(A) /\ tt[n + 1] \in Seq(A)
      <4>1. g[n] \in Seq(A)
        BY <1>5, <3>1
      <4>2. n + 1 \in DOMAIN tt
        BY <3>1 DEF l
      <4> QED
        BY <4>1, <4>2
    <3>5. (f[m] \o g[n]) \o tt[n + 1] = f[m] \o (g[n] \o tt[n + 1])
      <4>1. \A a, b, c \in Seq(A) : (a \o b) \o c = a \o (b \o c)
        BY ConcatAssociative
      <4> QED
        BY <1>7, <3>4, <4>1
    <3> QED
      BY <3>2, <3>3, <3>5
  <2>3. ASSUME NEW n \in Nat, n \in Second PROVE n + 1 \in Second
    <3>1. n + 1 \in Nat
      OBVIOUS
    <3> QED
      BY <2>2, <2>3, <3>1
  <2> HIDE DEF Second
  <2> QED
    BY <2>1, <2>3, SetInduction
<1>9. h[m + l] = f[m] \o g[l]
  <2>1. l \in Nat /\ l <= l
    BY <1>1
  <2> QED
    BY <1>8, <2>1
<1> QED
  BY <1>1, <1>2, <1>3, <1>4, <1>9 DEF all

LEMMA FlattenAppend ==
  ASSUME NEW A, NEW ss \in Seq(Seq(A)), NEW s \in Seq(A)
  PROVE  FlattenSeq(Append(ss, s)) = FlattenSeq(ss) \o s
<1>1. <<s>> \in Seq(Seq(A)) /\ Append(ss, s) = ss \o <<s>>
  OBVIOUS
<1>2. FlattenSeq(ss \o <<s>>) = FlattenSeq(ss) \o FlattenSeq(<<s>>)
  BY <1>1, FlattenConcat
<1> QED
  BY <1>1, <1>2, FlattenOne

LEMMA FlattenType == ASSUME NEW A, NEW ss \in Seq(Seq(A)) PROVE FlattenSeq(ss) \in Seq(A)
<1>1. PICK f : Joins(f, ss, A) /\ FlattenSeq(ss) = f[Len(ss)]
  BY Flattens
<1> QED
  BY <1>1 DEF Joins

\* The elements are those of the sequences.
LEMMA FlattenRange ==
  ASSUME NEW A, NEW ss \in Seq(Seq(A)), NEW x
  PROVE  x \in Range(FlattenSeq(ss)) <=> \E i \in DOMAIN ss : x \in Range(ss[i])
<1>1. PICK off : Places(off, ss)
  BY FlattenPlaces
<1>2. FlattenSeq(ss) \in Seq(A)
  BY FlattenType
<1>3. ASSUME x \in Range(FlattenSeq(ss)) PROVE \E i \in DOMAIN ss : x \in Range(ss[i])
  <2>1. PICK k \in 1 .. Len(FlattenSeq(ss)) : x = FlattenSeq(ss)[k]
    BY <1>2, <1>3 DEF Range
  <2>2. PICK i \in 1 .. Len(ss) : \E j \in 1 .. Len(ss[i]) : k = off[i - 1] + j
    BY <1>1 DEF Places
  <2>3. PICK j \in 1 .. Len(ss[i]) : k = off[i - 1] + j
    BY <2>2
  <2>4. x = ss[i][j]
    BY <1>1, <2>1, <2>3 DEF Places
  <2> QED
    BY <2>4 DEF Range
<1>4. ASSUME NEW i \in DOMAIN ss, x \in Range(ss[i]) PROVE x \in Range(FlattenSeq(ss))
  <2>1. i \in 1 .. Len(ss) /\ ss[i] \in Seq(A)
    OBVIOUS
  <2>2. PICK j \in 1 .. Len(ss[i]) : x = ss[i][j]
    BY <1>4, <2>1 DEF Range
  <2>3. off[i - 1] + j \in 1 .. Len(FlattenSeq(ss)) /\ FlattenSeq(ss)[off[i - 1] + j] = x
    BY <1>1, <2>1, <2>2 DEF Places
  <2> QED
    BY <1>2, <2>3 DEF Range
<1> QED
  BY <1>3, <1>4

LEMMA FlattenAppendEmpty ==
  ASSUME NEW A, NEW ss \in Seq(Seq(A)) PROVE FlattenSeq(Append(ss, <<>>)) = FlattenSeq(ss)
<1>1. <<>> \in Seq(A) /\ FlattenSeq(ss) \in Seq(A)
  BY FlattenType
<1>2. FlattenSeq(ss) \o <<>> = FlattenSeq(ss)
  BY <1>1, ConcatEmptySeq
<1> QED
  BY <1>1, <1>2, FlattenAppend

-----------------------------------------------------------------------------
(* Filter *)

Distinct(s) == \A i, j \in DOMAIN s : s[i] = s[j] => i = j

Singles(s, S) == [i \in DOMAIN s |-> IF s[i] \in S THEN <<s[i]>> ELSE <<>>]

LEMMA SinglesType ==
  ASSUME NEW A, NEW s \in Seq(A), NEW S
  PROVE  /\ Singles(s, S) \in Seq(Seq(A))
         /\ Len(Singles(s, S)) = Len(s) /\ DOMAIN Singles(s, S) = DOMAIN s
         /\ Filter(s, S) = FlattenSeq(Singles(s, S))
<1>1. DOMAIN s = 1 .. Len(s) /\ Len(s) \in Nat
  OBVIOUS
<1>2. ASSUME NEW i \in 1 .. Len(s)
      PROVE  (IF s[i] \in S THEN <<s[i]>> ELSE <<>>) \in Seq(A)
  <2>1. s[i] \in A
    OBVIOUS
  <2> QED
    BY <2>1
<1>3. Singles(s, S) \in [1 .. Len(s) -> Seq(A)]
  BY <1>1, <1>2 DEF Singles
<1>4. Filter(s, S) = FlattenSeq(Singles(s, S))
  BY DEF Filter, Singles
<1> QED
  BY <1>1, <1>3, <1>4

LEMMA FilterType ==
  ASSUME NEW A, NEW s \in Seq(A), NEW S PROVE Filter(s, S) \in Seq(A)
BY SinglesType, FlattenType

LEMMA FilterRange ==
  ASSUME NEW A, NEW s \in Seq(A), NEW S PROVE Range(Filter(s, S)) = Range(s) \cap S
<1>1. \A x : x \in Range(Filter(s, S)) <=>
        \E i \in DOMAIN s : x \in Range(Singles(s, S)[i])
  BY SinglesType, FlattenRange
<1>2. \A x : \A i \in DOMAIN s : x \in Range(Singles(s, S)[i]) <=> s[i] \in S /\ x = s[i]
  <2> SUFFICES ASSUME NEW x, NEW i \in DOMAIN s
               PROVE  x \in Range(Singles(s, S)[i]) <=> s[i] \in S /\ x = s[i]
    OBVIOUS
  <2>1. Singles(s, S)[i] = IF s[i] \in S THEN <<s[i]>> ELSE <<>>
    BY DEF Singles
  <2>2. Range(<<s[i]>>) = {s[i]} /\ Range(<<>>) = {}
    BY DEF Range
  <2> QED
    BY <2>1, <2>2
<1>3. \A x : x \in Range(s) <=> \E i \in DOMAIN s : x = s[i]
  BY DEF Range
<1>4. ASSUME NEW x PROVE x \in Range(Filter(s, S)) <=> x \in Range(s) /\ x \in S
  <2>1. x \in Range(Filter(s, S)) <=> \E i \in DOMAIN s : s[i] \in S /\ x = s[i]
    BY <1>1, <1>2
  <2>2. (\E i \in DOMAIN s : s[i] \in S /\ x = s[i]) <=> x \in Range(s) /\ x \in S
    BY <1>3
  <2> QED
    BY <2>1, <2>2
<1> QED
  BY <1>4

\* Two sets filter alike if they have the same elements of the sequence.
LEMMA FilterSame ==
  ASSUME NEW s, NEW S, NEW T, \A i \in DOMAIN s : s[i] \in S <=> s[i] \in T
  PROVE  Filter(s, S) = Filter(s, T)
<1>1. [i \in DOMAIN s |-> IF s[i] \in S THEN <<s[i]>> ELSE <<>>]
        = [i \in DOMAIN s |-> IF s[i] \in T THEN <<s[i]>> ELSE <<>>]
  OBVIOUS
<1> QED
  BY <1>1 DEF Filter

LEMMA FilterDistinct ==
  ASSUME NEW A, NEW s \in Seq(A), NEW S, Distinct(s) PROVE Distinct(Filter(s, S))
<1> DEFINE ss == Singles(s, S)
           w == Filter(s, S)
<1>1. ss \in Seq(Seq(A)) /\ Len(ss) = Len(s) /\ w = FlattenSeq(ss) /\ w \in Seq(A)
  BY SinglesType, FilterType
<1>2. PICK off : Places(off, ss)
  BY <1>1, FlattenPlaces
<1>3. \A i \in 1 .. Len(s) : \A j \in 1 .. Len(ss[i]) : j = 1 /\ ss[i][j] = s[i]
  <2> SUFFICES ASSUME NEW i \in 1 .. Len(s), NEW j \in 1 .. Len(ss[i])
               PROVE  j = 1 /\ ss[i][j] = s[i]
    OBVIOUS
  <2>1. ss[i] = IF s[i] \in S THEN <<s[i]>> ELSE <<>>
    BY DEF Singles
  <2> QED
    BY <2>1
<1> HIDE DEF ss, w
<1>4. \A k \in 1 .. Len(w) : \E i \in 1 .. Len(s) : k = off[i - 1] + 1 /\ w[k] = s[i]
  <2> SUFFICES ASSUME NEW k \in 1 .. Len(w)
               PROVE  \E i \in 1 .. Len(s) : k = off[i - 1] + 1 /\ w[k] = s[i]
    OBVIOUS
  <2>1. PICK i \in 1 .. Len(s) : \E j \in 1 .. Len(ss[i]) : k = off[i - 1] + j
    <3>1. k \in 1 .. Len(FlattenSeq(ss))
      BY <1>1
    <3> QED
      BY <1>1, <1>2, <3>1 DEF Places
  <2>2. PICK j \in 1 .. Len(ss[i]) : k = off[i - 1] + j
    BY <2>1
  <2>3. j = 1 /\ w[k] = s[i]
    BY <1>1, <1>2, <1>3, <2>2 DEF Places
  <2> QED
    BY <2>2, <2>3
<1>5. \A i, j \in 1 .. Len(s) : s[i] = s[j] => i = j
  BY DEF Distinct
<1>6. ASSUME NEW k \in 1 .. Len(w), NEW l \in 1 .. Len(w), w[k] = w[l] PROVE k = l
  <2>1. PICK i \in 1 .. Len(s) : k = off[i - 1] + 1 /\ w[k] = s[i]
    BY <1>4
  <2>2. PICK j \in 1 .. Len(s) : l = off[j - 1] + 1 /\ w[l] = s[j]
    BY <1>4
  <2> QED
    BY <1>5, <1>6, <2>1, <2>2
<1>7. DOMAIN w = 1 .. Len(w)
  BY <1>1
<1> QED
  BY <1>6, <1>7 DEF Distinct, w
-----------------------------------------------------------------------------
(* Types *)

\* The budget is tested before the model is asked.
InBudget == phase = "waiting" => current <= MaxInteractions

\* A stream of OpenAI keeps every call it has begun.
Gathers == vendor = "openai" /\ streaming => DOMAIN blocks = DOMAIN opened

TypeInv == TypeOK /\ InBudget /\ Gathers

Formatted(ms) ==
  IF vendor = "openai" THEN formatMessagesForOpenAI(Transformed(ms))
  ELSE formatMessagesForAnthropic(Transformed(ms))

LEMMA TransformedMessages ==
  ASSUME NEW ms \in Seq(Messages)
  PROVE  /\ DOMAIN Transformed(ms) = DOMAIN ms
         /\ \A i \in DOMAIN ms :
              /\ Transformed(ms)[i].ref = ms[i].ref /\ ms[i].ref \in Refs
              /\ Transformed(ms)[i].type = IF IsSeenMedia(ms[i]) THEN "masked" ELSE ms[i].type
              /\ Entry(Transformed(ms)[i].type, Transformed(ms)[i].ref) \in Entries
<1>1. DOMAIN Transformed(ms) = DOMAIN ms
  BY DEF Transformed
<1>2. ASSUME NEW i \in DOMAIN ms
      PROVE  /\ Transformed(ms)[i].ref = ms[i].ref /\ ms[i].ref \in Refs
             /\ Transformed(ms)[i].type = IF IsSeenMedia(ms[i]) THEN "masked" ELSE ms[i].type
             /\ Entry(Transformed(ms)[i].type, Transformed(ms)[i].ref) \in Entries
  <2>1. ms[i] \in Messages
    OBVIOUS
  <2>2. Transformed(ms)[i]
          = IF IsSeenMedia(ms[i]) THEN [ms[i] EXCEPT !.type = "masked"] ELSE ms[i]
    BY DEF Transformed
  <2>3. /\ Transformed(ms)[i].ref = ms[i].ref /\ ms[i].ref \in Refs
        /\ Transformed(ms)[i].type = IF IsSeenMedia(ms[i]) THEN "masked" ELSE ms[i].type
    BY <2>1, <2>2 DEF Messages
  <2>4. ms[i].type \in {"text", "answer", "tool_use", "tool_result"} \cup MediaTypes
    BY <2>1 DEF Messages
  <2> QED
    BY <2>3, <2>4 DEF Entry, Entries
<1> QED
  BY <1>1, <1>2

LEMMA EntriesTypes ==
  ASSUME NEW ms, NEW m, m.ref \in Refs, Entry(m.type, m.ref) \in Entries
  PROVE  OpenAIEntries(ms, m) \in Seq(Entries) /\ AnthropicEntries(ms, m) \in Seq(Entries)
<1>1. CallEntries(ms, m.ref) \in Seq(Entries)
  <2>1. Entry("tool_use", m.ref) \in Entries /\ Entry(ResultType(ms, m.ref), m.ref) \in Entries
    BY DEF Entry, Entries, ResultType
  <2> QED
    BY <2>1 DEF CallEntries
<1>2. <<>> \in Seq(Entries) /\ <<Entry(m.type, m.ref)>> \in Seq(Entries)
  OBVIOUS
<1> QED
  BY <1>1, <1>2 DEF OpenAIEntries, AnthropicEntries

\* The entries of each message of the history in a request.
EntriesOf(ms) ==
  [i \in DOMAIN ms |-> IF vendor = "openai" THEN OpenAIEntries(ms, ms[i])
                       ELSE AnthropicEntries(ms, ms[i])]

LEMMA FormattedTypes ==
  ASSUME NEW ms \in Seq(Messages)
  PROVE  LET ts == Transformed(ms) IN
         /\ EntriesOf(ts) \in Seq(Seq(Entries))
         /\ Len(EntriesOf(ts)) = Len(ms)
         /\ Formatted(ms) = FlattenSeq(EntriesOf(ts))
         /\ Formatted(ms) \in Seq(Entries)
<1> DEFINE ts == Transformed(ms)
<1>1. DOMAIN ts = 1 .. Len(ms) /\ Len(ms) \in Nat
  BY TransformedMessages
<1>2. \A i \in 1 .. Len(ms) : ts[i].ref \in Refs /\ Entry(ts[i].type, ts[i].ref) \in Entries
  BY TransformedMessages
<1>3. Formatted(ms) = FlattenSeq(EntriesOf(ts))
  BY DEF Formatted, EntriesOf, formatMessagesForOpenAI, formatMessagesForAnthropic
<1> HIDE DEF ts
<1>4. \A i \in 1 .. Len(ms) :
        OpenAIEntries(ts, ts[i]) \in Seq(Entries) /\ AnthropicEntries(ts, ts[i]) \in Seq(Entries)
  BY <1>2, EntriesTypes
<1>5. EntriesOf(ts) \in [1 .. Len(ms) -> Seq(Entries)]
  BY <1>1, <1>4 DEF EntriesOf
<1>6. EntriesOf(ts) \in Seq(Seq(Entries)) /\ Len(EntriesOf(ts)) = Len(ms)
  BY <1>1, <1>5
<1>7. FlattenSeq(EntriesOf(ts)) \in Seq(Entries)
  BY <1>6, FlattenType
<1> QED
  BY <1>3, <1>6, <1>7 DEF ts

LEMMA LimitType == Limit \in Seq(Entries)
<1>1. Entry("limit", None) \in Entries
  BY DEF Entry, Entries, Refs
<1> QED
  BY <1>1 DEF Limit

\* What the loop adds to the history.
UsesOf(calls) == FlattenSeq([i \in DOMAIN calls |-> UseMessages(calls[i])])

LEMMA ResultsType ==
  ASSUME NEW calls \in Seq(Calls)
  PROVE  Results(calls) \in Seq(Messages) /\ Len(Results(calls)) = Len(calls)
<1>1. \A i \in 1 .. Len(calls) : Message("tool_result", calls[i], FALSE) \in Messages
  BY DEF Message, Messages, Refs
<1>2. DOMAIN calls = 1 .. Len(calls) /\ Len(calls) \in Nat
  OBVIOUS
<1>3. Results(calls) \in [1 .. Len(calls) -> Messages]
  BY <1>1, <1>2 DEF Results
<1> QED
  BY <1>2, <1>3

LEMMA UseMessagesType ==
  ASSUME NEW c \in Calls PROVE UseMessages(c) \in Seq(Messages)
<1>1. Message("tool_use", c, TRUE) \in Messages
  BY DEF Message, Messages, Refs
<1>2. Results(<<c>>) \in Seq(Messages)
  <2>1. <<c>> \in Seq(Calls)
    OBVIOUS
  <2> QED
    BY <2>1, ResultsType
<1>3. <<Message("tool_use", c, TRUE)>> \in Seq(Messages) /\ <<>> \in Seq(Messages)
  <2> DEFINE use == Message("tool_use", c, TRUE)
  <2>1. use \in Messages
    BY <1>1
  <2> HIDE DEF use
  <2>2. <<use>> \in Seq(Messages)
    BY <2>1
  <2>3. <<>> \in Seq(Messages)
    OBVIOUS
  <2>4. <<Message("tool_use", c, TRUE)>> \in Seq(Messages)
    BY <2>2, Zenon DEF use
  <2> QED
    BY <2>3, <2>4
<1>4. CASE AnsweredAtOnce(c)
  <2>1. UseMessages(c) = <<Message("tool_use", c, TRUE)>> \o Results(<<c>>)
    BY <1>4 DEF UseMessages
  <2> QED
    BY <1>2, <1>3, <2>1, ConcatProperties
<1>5. CASE ~AnsweredAtOnce(c)
  <2>1. UseMessages(c) = <<Message("tool_use", c, TRUE)>> \o <<>>
    BY <1>5 DEF UseMessages
  <2> QED
    BY <1>3, <2>1, ConcatProperties
<1> QED
  BY <1>4, <1>5

LEMMA UsesType ==
  ASSUME NEW calls \in Seq(Calls)
  PROVE  /\ [i \in DOMAIN calls |-> UseMessages(calls[i])] \in Seq(Seq(Messages))
         /\ Len([i \in DOMAIN calls |-> UseMessages(calls[i])]) = Len(calls)
         /\ UsesOf(calls) \in Seq(Messages)
<1> DEFINE us == [i \in DOMAIN calls |-> UseMessages(calls[i])]
<1>1. \A i \in 1 .. Len(calls) : UseMessages(calls[i]) \in Seq(Messages)
  BY UseMessagesType
<1>2. us \in [1 .. Len(calls) -> Seq(Messages)]
  BY <1>1
<1>3. us \in Seq(Seq(Messages)) /\ Len(us) = Len(calls)
  BY <1>2
<1>4. FlattenSeq(us) \in Seq(Messages)
  <2> HIDE DEF us
  <2> QED
    BY <1>3, FlattenType
<1> QED
  BY <1>3, <1>4 DEF UsesOf

LEMMA OfKindType ==
  ASSUME NEW calls \in Seq(Calls), NEW K PROVE OfKind(calls, K) \in Seq(Calls)
BY FilterType DEF OfKind

LEMMA SeenType ==
  ASSUME NEW ms \in Seq(Messages) PROVE Seen(ms) \in Seq(Messages) /\ Len(Seen(ms)) = Len(ms)
<1>1. ASSUME NEW i \in 1 .. Len(ms) PROVE [ms[i] EXCEPT !.seen = TRUE] \in Messages
  <2>1. ms[i] \in Messages
    OBVIOUS
  <2> QED
    BY <2>1 DEF Messages
<1>2. Seen(ms) \in [1 .. Len(ms) -> Messages]
  BY <1>1 DEF Seen
<1> QED
  BY <1>2

LEMMA ConversationType ==
  /\ Conversation \in Seq(Messages)
  /\ Len(Conversation) = Len(Attachments) + 1
  /\ Conversation[1] = Message("text", None, FALSE)
  /\ \A i \in Media : i + 1 \in DOMAIN Conversation
                      /\ Conversation[i + 1] = Message(Attachments[i], i, FALSE)
<1> DEFINE media == [i \in Media |-> Message(Attachments[i], i, FALSE)]
<1>1. Media = 1 .. Len(Attachments) /\ Len(Attachments) \in Nat
  BY LLMAssumption DEF Media
<1>2. \A i \in Media : Message(Attachments[i], i, FALSE) \in Messages
  BY LLMAssumption DEF Message, Messages, Refs, Media
<1>3. media \in Seq(Messages) /\ Len(media) = Len(Attachments)
  <2>1. media \in [1 .. Len(Attachments) -> Messages]
    BY <1>1, <1>2
  <2> HIDE DEF media
  <2> QED
    BY <1>1, <2>1
<1>4. /\ <<Message("text", None, FALSE)>> \in Seq(Messages)
      /\ Len(<<Message("text", None, FALSE)>>) = 1
      /\ <<Message("text", None, FALSE)>>[1] = Message("text", None, FALSE)
  BY DEF Message, Messages, Refs
<1>5. \A i \in Media : media[i] = Message(Attachments[i], i, FALSE)
  OBVIOUS
<1> HIDE DEF media
<1>6. Conversation = <<Message("text", None, FALSE)>> \o media
  BY DEF Conversation, media
<1> DEFINE first == <<Message("text", None, FALSE)>>
<1> HIDE DEF first
<1>7. /\ first \in Seq(Messages) /\ Len(first) = 1 /\ first[1] = Message("text", None, FALSE)
      /\ Conversation = first \o media
  BY <1>4, <1>6 DEF first
<1>8. /\ Conversation \in Seq(Messages) /\ Len(Conversation) = 1 + Len(Attachments)
      /\ \A k \in 1 .. (1 + Len(Attachments)) :
           Conversation[k] = IF k <= 1 THEN first[k] ELSE media[k - 1]
  <2>1. /\ first \o media \in Seq(Messages)
        /\ Len(first \o media) = Len(first) + Len(media)
        /\ \A k \in 1 .. (Len(first) + Len(media)) :
             (first \o media)[k] = IF k <= Len(first) THEN first[k] ELSE media[k - Len(first)]
    BY <1>3, <1>7, ConcatProperties
  <2> QED
    BY <1>3, <1>7, <2>1
<1>9. DOMAIN Conversation = 1 .. (1 + Len(Attachments))
  BY <1>8
<1>10. ASSUME NEW i \in Media
       PROVE  i + 1 \in DOMAIN Conversation /\ Conversation[i + 1] = Message(Attachments[i], i, FALSE)
  <2>1. i + 1 \in 1 .. (1 + Len(Attachments)) /\ ~(i + 1 <= 1) /\ (i + 1) - 1 = i
    BY <1>1
  <2> QED
    BY <1>5, <1>8, <1>9, <2>1
<1>11. Conversation[1] = Message("text", None, FALSE)
  <2>1. 1 \in 1 .. (1 + Len(Attachments)) /\ 1 <= 1
    BY <1>1
  <2> QED
    BY <1>7, <1>8, <2>1
<1>12. Len(Conversation) = Len(Attachments) + 1
  BY <1>1, <1>8
<1> QED
  BY <1>8, <1>10, <1>11, <1>12

LEMMA TypeInit == Init => TypeInv
<1> SUFFICES ASSUME Init PROVE TypeInv
  OBVIOUS
<1>1. messages \in Seq(Messages)
  BY ConversationType DEF Init
<1>2. current \in 0 .. (MaxInteractions + 1)
  BY LLMAssumption DEF Init
<1>3. result \in [calls : Seq(Calls), text : Texts, stop : Reasons \cup {"none"}]
  BY DEF Init, NoResult, Texts, Reasons
<1>4. /\ wire \in Seq(Entries) /\ opened \in Seq(Calls) /\ requests \in Seq(Calls)
      /\ awaiting \in Seq(Calls \cup {Permission}) /\ DOMAIN blocks = {}
  BY DEF Init
<1>5. parts \in [Calls -> Nat] /\ shown \in [Media -> Nat]
  BY DEF Init
<1>6. TypeOK
  BY <1>1, <1>2, <1>3, <1>4, <1>5 DEF Init, TypeOK
<1> QED
  BY <1>6 DEF Init, TypeInv, InBudget, Gathers

\* Steps that leave the response alone.
LEMMA TypeCalm ==
  ASSUME TypeInv,
         UNCHANGED <<vendor, streaming, issued, opened, parts, said, blocks, requests, shown>>,
         messages' \in Seq(Messages),
         current' = current,
         phase' \in {"ready", "waiting", "answered", "suspended", "done", "failed"},
         phase' = "waiting" => current <= MaxInteractions,
         wire' \in Seq(Entries),
         result' = result,
         awaiting' \in Seq(Calls \cup {Permission})
  PROVE  TypeInv'
BY DEF TypeInv, TypeOK, InBudget, Gathers, Blocks, Media

\* Steps after which there is no response.
LEMMA TypeForget ==
  ASSUME TypeInv, Forget,
         UNCHANGED <<vendor, streaming, issued, shown, current, wire>>,
         messages' \in Seq(Messages),
         phase' \in {"ready", "suspended", "done", "failed"},
         awaiting' \in Seq(Calls \cup {Permission})
  PROVE  TypeInv'
<1>1. result' \in [calls : Seq(Calls), text : Texts, stop : Reasons \cup {"none"}]
  BY DEF Forget, NoResult, Texts, Reasons
<1>2. parts' \in [Calls -> Nat] /\ said' \in BOOLEAN
  BY DEF Forget
<1>3. /\ requests' \in Seq(Calls) /\ opened' \in Seq(Calls)
      /\ DOMAIN blocks' = {} /\ DOMAIN opened' = {}
  BY DEF Forget
<1> QED
  BY <1>1, <1>2, <1>3 DEF TypeInv, TypeOK, InBudget, Gathers, Media

\* Steps of the response.
LEMMA TypeReceives ==
  ASSUME TypeInv, phase = "waiting",
         UNCHANGED <<vendor, streaming, messages, current, phase, wire, result, awaiting, shown>>,
         issued' \in SUBSET Calls,
         opened' \in Seq(Calls),
         parts' \in [Calls -> Nat],
         said' \in BOOLEAN,
         DOMAIN blocks' \subseteq 1 .. Len(opened'),
         \A i \in DOMAIN blocks' : blocks'[i] \in Blocks,
         vendor = "openai" /\ streaming => DOMAIN blocks' = DOMAIN opened',
         requests' \in Seq(Calls)
  PROVE  TypeInv'
BY DEF TypeInv, TypeOK, InBudget, Gathers, Media, Blocks

LEMMA TypeInvoke ==
  ASSUME TypeInv, InvokeOpenAI \/ InvokeAnthropic PROVE TypeInv'
<1>1. messages \in Seq(Messages)
  BY DEF TypeInv, TypeOK
<1>2. wire' = Formatted(messages) \o Limit
  BY DEF InvokeOpenAI, InvokeAnthropic, Formatted
<1>3. wire' \in Seq(Entries)
  BY <1>1, <1>2, FormattedTypes, LimitType, ConcatProperties
<1> QED
  BY <1>1, <1>3, TypeCalm
     DEF InvokeOpenAI, InvokeAnthropic, Invoke, InLoop, config, response, TypeInv, TypeOK

LEMMA TypeOpens ==
  ASSUME TypeInv, NEW c \in Calls, OpenAIOpens(c) \/ AnthropicOpens(c) PROVE TypeInv'
<1>1. Opens(c) /\ blocks' = IF streaming THEN NewBlock(c) ELSE blocks
  BY DEF OpenAIOpens, AnthropicOpens
<1>2. opened \in Seq(Calls) /\ opened' = Append(opened, c)
  BY <1>1 DEF Opens, TypeInv, TypeOK
<1>3. opened' \in Seq(Calls) /\ Len(opened') = Len(opened) + 1
  BY <1>2
<1>4. DOMAIN blocks' \subseteq DOMAIN blocks \cup {Len(opened) + 1}
  BY <1>1 DEF NewBlock
<1>5. \A i \in DOMAIN blocks' : blocks'[i] \in Blocks
  <2>1. \A i \in DOMAIN NewBlock(c) : NewBlock(c)[i] \in Blocks
    BY DEF NewBlock, Blocks, TypeInv, TypeOK
  <2> QED
    BY <1>1, <2>1 DEF TypeInv, TypeOK
<1>6. DOMAIN blocks' \subseteq 1 .. Len(opened')
  BY <1>2, <1>3, <1>4 DEF TypeInv, TypeOK
<1>7. vendor = "openai" /\ streaming => DOMAIN blocks' = DOMAIN opened'
  <2>1. DOMAIN opened' = DOMAIN opened \cup {Len(opened) + 1}
    BY <1>2 DEF TypeInv, TypeOK
  <2> QED
    BY <1>1, <2>1 DEF NewBlock, TypeInv, Gathers
<1> QED
  BY <1>1, <1>3, <1>5, <1>6, <1>7, TypeReceives DEF Opens, config, TypeInv, TypeOK

LEMMA TypeContinues ==
  ASSUME TypeInv, NEW i, OpenAIContinues(i) \/ AnthropicContinues(i) PROVE TypeInv'
<1>1. Continues(i) /\ blocks' = IF streaming THEN WithDelta(i) ELSE blocks
  BY DEF OpenAIContinues, AnthropicContinues
<1>2. i \in DOMAIN opened /\ opened[i] \in Calls
  BY <1>1 DEF Continues, TypeInv, TypeOK
<1>3. parts' \in [Calls -> Nat]
  BY <1>1, <1>2 DEF Continues, TypeInv, TypeOK
<1>4. DOMAIN blocks' = DOMAIN blocks
  BY <1>1 DEF WithDelta
<1>5. \A k \in DOMAIN blocks' : blocks'[k] \in Blocks
  <2>1. ASSUME NEW k \in DOMAIN blocks PROVE WithDelta(i)[k] \in Blocks
    <3>1. blocks[k] \in Blocks
      BY DEF TypeInv, TypeOK
    <3>2. CASE k = i
      <4> DEFINE part == <<opened[i], parts[opened[i]] + 1>>
      <4>1. part \in Calls \X Nat
        BY <1>2 DEF TypeInv, TypeOK
      <4> HIDE DEF part
      <4>2. WithDelta(i)[k] = [blocks[k] EXCEPT !.input = Append(@, part)]
        BY <3>2 DEF WithDelta, BlockOf, part
      <4>3. Append(blocks[k].input, part) \in Seq(Calls \X Nat)
        BY <3>1, <4>1 DEF Blocks
      <4> QED
        BY <3>1, <4>2, <4>3 DEF Blocks
    <3>3. CASE k # i
      <4>1. WithDelta(i)[k] = blocks[k]
        BY <3>3 DEF WithDelta, BlockOf
      <4> QED
        BY <3>1, <4>1
    <3> QED
      BY <3>2, <3>3
  <2> QED
    BY <1>1, <1>4, <2>1 DEF TypeInv, TypeOK
<1> QED
  BY <1>1, <1>3, <1>4, <1>5, TypeReceives DEF Continues, config, TypeInv, TypeOK, Gathers

LEMMA TypeStops ==
  ASSUME TypeInv, NEW i, AnthropicStops(i) PROVE TypeInv'
<1>1. blocks[i] \in Blocks /\ i \in DOMAIN blocks
  BY DEF AnthropicStops, TypeInv, TypeOK
<1>2. requests' \in Seq(Calls)
  <2>1. requests \in Seq(Calls) /\ blocks[i].call \in Calls
    BY <1>1 DEF TypeInv, TypeOK, Blocks
  <2>2. Append(requests, blocks[i].call) \in Seq(Calls)
    BY <2>1
  <2> QED
    BY <2>1, <2>2 DEF AnthropicStops
<1>3. DOMAIN blocks' \subseteq DOMAIN blocks /\ \A k \in DOMAIN blocks' : blocks'[k] = blocks[k]
  BY DEF AnthropicStops, Restrict
<1> QED
  BY <1>2, <1>3, TypeReceives DEF AnthropicStops, config, TypeInv, TypeOK

LEMMA TypeSays == ASSUME TypeInv, Says PROVE TypeInv'
BY TypeReceives DEF Says, config, TypeInv, TypeOK, Gathers

LEMMA TypeReturns ==
  ASSUME TypeInv, phase = "waiting", NEW calls \in Seq(Calls),
         NEW reason \in Reasons, Returns(calls, reason)
  PROVE  TypeInv'
<1>1. messages' \in Seq(Messages)
  BY SeenType DEF Returns, TypeInv, TypeOK
<1>2. result' \in [calls : Seq(Calls), text : Texts, stop : Reasons \cup {"none"}]
  BY DEF Returns, Content, Texts, Reasons
<1>3. current' \in 0 .. (MaxInteractions + 1)
  BY LLMAssumption DEF Returns, TypeInv, TypeOK, InBudget
<1>4. shown' \in [Media -> Nat]
  BY DEF Returns, TypeInv, TypeOK
<1> QED
  BY <1>1, <1>2, <1>3, <1>4 DEF Returns, config, response, TypeInv, TypeOK, InBudget, Gathers, Blocks, Media

\* What the adapters return.
StreamedCalls == [i \in DOMAIN opened |-> blocks[i].call]
ParsedBlocks == {i \in DOMAIN opened : Parses(blocks[i].call, blocks[i].input)}
Answer ==
  CASE vendor = "openai" /\ ~streaming -> Filter(opened, {c \in Calls : Parses(c, Sent(c))})
    [] vendor = "openai" /\ streaming  ->
         Filter(StreamedCalls, {blocks[i].call : i \in ParsedBlocks})
    [] vendor = "anthropic" /\ ~streaming -> opened
    [] vendor = "anthropic" /\ streaming  -> requests

Answers(reason) ==
  \/ OpenAIAnswers(reason) \/ OpenAIStreamEnds(reason)
  \/ AnthropicAnswers(reason) \/ AnthropicStreamEnds(reason)

LEMMA AnswersReturn ==
  ASSUME TypeOK, NEW reason, Answers(reason)
  PROVE  phase = "waiting" /\ StopsFor(reason) /\ Returns(Answer, reason)
<1>1. CASE OpenAIAnswers(reason)
  BY <1>1 DEF OpenAIAnswers, StopsFor, Answer
<1>2. CASE OpenAIStreamEnds(reason)
  BY <1>2 DEF OpenAIStreamEnds, StopsFor, Answer, StreamedCalls, ParsedBlocks
<1>3. CASE AnthropicAnswers(reason)
  BY <1>3 DEF AnthropicAnswers, StopsFor, Answer
<1>4. CASE AnthropicStreamEnds(reason)
  BY <1>4 DEF AnthropicStreamEnds, StopsFor, Answer
<1> QED
  BY <1>1, <1>2, <1>3, <1>4 DEF Answers

LEMMA AnswerType == ASSUME TypeInv PROVE Answer \in Seq(Calls)
<1>1. opened \in Seq(Calls) /\ requests \in Seq(Calls)
  BY DEF TypeInv, TypeOK
<1>2. CASE vendor = "openai" /\ streaming
  <2>1. StreamedCalls \in [1 .. Len(opened) -> Calls]
    BY <1>1, <1>2 DEF StreamedCalls, TypeInv, TypeOK, Gathers, Blocks
  <2>2. StreamedCalls \in Seq(Calls)
    BY <1>1, <2>1
  <2> QED
    BY <1>2, <2>2, FilterType DEF Answer
<1>3. CASE vendor = "openai" /\ ~streaming
  BY <1>1, <1>3, FilterType DEF Answer
<1>4. CASE vendor = "anthropic"
  BY <1>1, <1>4 DEF Answer, TypeInv, TypeOK
<1> QED
  BY <1>2, <1>3, <1>4 DEF TypeInv, TypeOK

LEMMA TypeAnswers ==
  ASSUME TypeInv, NEW reason \in Reasons, Answers(reason)
  PROVE  TypeInv'
<1>1. phase = "waiting" /\ Returns(Answer, reason)
  BY AnswersReturn DEF TypeInv
<1> QED
  BY <1>1, AnswerType, TypeReturns

LEMMA TypeFails == ASSUME TypeInv, Fails \/ Exhausted PROVE TypeInv'
BY TypeCalm DEF Fails, Exhausted, config, response, TypeInv, TypeOK

\* What Act does, in terms of the calls it deals with.
ActOn(calls) ==
  LET blocked == OfKind(calls, {"blocked"}) IN
  /\ calls \in Seq(Calls) /\ calls # <<>>
  /\ messages' = messages \o UsesOf(calls)
                   \o Results(OfKind(calls, {"mcp"})) \o Results(OfKind(calls, {"internal"}))
  /\ awaiting' = OfKind(calls, {"service"}) \o
                   IF blocked = <<>> THEN <<>> ELSE <<Permission>>

LEMMA ActIsOn ==
  ASSUME TypeOK, NEW batch, Act(batch) PROVE ActOn(Filter(result.calls, batch))
<1>1. result.calls \in Seq(Calls)
  BY DEF TypeOK
<1>2. Filter(result.calls, batch) \in Seq(Calls)
  BY <1>1, FilterType
<1> QED
  BY <1>2 DEF Act, ActOn, UsesOf

LEMMA TypeAct == ASSUME TypeInv, NEW batch, Act(batch) PROVE TypeInv'
<1>1. PICK calls \in Seq(Calls) : ActOn(calls)
  <2>1. ActOn(Filter(result.calls, batch))
    BY ActIsOn DEF TypeInv
  <2> QED
    BY <2>1 DEF ActOn
<1>2. messages' \in Seq(Messages)
  <2>1. UsesOf(calls) \in Seq(Messages) /\ messages \in Seq(Messages)
    BY UsesType DEF TypeInv, TypeOK
  <2>2. \A K : Results(OfKind(calls, K)) \in Seq(Messages)
    BY OfKindType, ResultsType
  <2>3. messages' = messages \o UsesOf(calls)
                   \o Results(OfKind(calls, {"mcp"})) \o Results(OfKind(calls, {"internal"}))
    BY <1>1 DEF ActOn
  <2>4. \A s, t \in Seq(Messages) : s \o t \in Seq(Messages)
    OBVIOUS
  <2> QED
    BY <2>1, <2>2, <2>3, <2>4
<1>3. awaiting' \in Seq(Calls \cup {Permission})
  <2>1. OfKind(calls, {"service"}) \in Seq(Calls \cup {Permission})
    BY OfKindType, SeqMonotonic
  <2>2. <<>> \in Seq(Calls \cup {Permission}) /\ <<Permission>> \in Seq(Calls \cup {Permission})
    OBVIOUS
  <2>3. \A s, t \in Seq(Calls \cup {Permission}) : s \o t \in Seq(Calls \cup {Permission})
    OBVIOUS
  <2> QED
    BY <1>1, <2>1, <2>2, <2>3 DEF ActOn
<1>4. phase' \in {"ready", "suspended"}
  BY DEF Act
<1> QED
  BY <1>2, <1>3, <1>4, TypeForget DEF Act, config

\* What a reply adds to the history.
Reply(id) ==
  IF id = Permission THEN Message("text", None, FALSE) ELSE Message("tool_result", id, FALSE)
Replies == [i \in DOMAIN awaiting |-> Reply(awaiting[i])]

LEMMA RepliesType ==
  ASSUME TypeOK PROVE Replies \in Seq(Messages) /\ Len(Replies) = Len(awaiting)
<1>1. awaiting \in Seq(Calls \cup {Permission})
  BY DEF TypeOK
<1>2. \A i \in 1 .. Len(awaiting) : Reply(awaiting[i]) \in Messages
  BY <1>1 DEF Reply, Message, Messages, Refs
<1>3. Replies \in [1 .. Len(awaiting) -> Messages]
  BY <1>1, <1>2 DEF Replies
<1> QED
  BY <1>1, <1>3

LEMMA ResumeReplies == ASSUME Resume PROVE messages' = messages \o Replies
BY DEF Resume, Replies, Reply

LEMMA TypeResume == ASSUME TypeInv, Resume PROVE TypeInv'
<1>1. messages' \in Seq(Messages)
  <2>1. messages \in Seq(Messages) /\ Replies \in Seq(Messages)
    BY RepliesType DEF TypeInv, TypeOK
  <2>2. messages' = messages \o Replies
    BY ResumeReplies
  <2> QED
    BY <2>1, <2>2, ConcatProperties
<1> QED
  BY <1>1, TypeCalm DEF Resume, config, response, TypeInv, TypeOK

\* What the output builder answers is no call.
LEMMA OutputAdds ==
  ASSUME Accepts \/ Rejects \/ AnswersNothing
  PROVE  \E s \in Seq(Messages), next \in {"ready", "done"} :
           Output(s, next) /\ \A k \in DOMAIN s : s[k].type \in {"text", "answer"}
<1> DEFINE answer == Message("answer", None, TRUE)
           text == Message("text", None, FALSE)
<1>1. answer \in Messages /\ text \in Messages /\ answer.type = "answer" /\ text.type = "text"
  BY DEF Message, Messages, Refs
<1>2. \/ Output(<<answer>>, "done") \/ Output(<<answer, text>>, "ready")
      \/ Output(<<>>, "ready")
  BY Zenon DEF Accepts, Rejects, AnswersNothing
<1> HIDE DEF answer, text
<1>3. /\ <<answer>> \in Seq(Messages) /\ <<answer, text>> \in Seq(Messages)
      /\ DOMAIN <<answer>> = {1} /\ DOMAIN <<answer, text>> = {1, 2}
  BY <1>1
<1>4. <<>> \in Seq(Messages) /\ DOMAIN <<>> = {}
  OBVIOUS
<1>5. CASE Output(<<answer>>, "done")
  <2>1. \A k \in DOMAIN <<answer>> : <<answer>>[k].type \in {"text", "answer"}
    BY <1>1, <1>3
  <2> QED
    BY <1>3, <1>5, <2>1
<1>6. CASE Output(<<answer, text>>, "ready")
  <2>1. \A k \in DOMAIN <<answer, text>> : <<answer, text>>[k].type \in {"text", "answer"}
    BY <1>1, <1>3
  <2> QED
    BY <1>3, <1>6, <2>1
<1>7. CASE Output(<<>>, "ready")
  <2>1. \A k \in DOMAIN <<>> : <<>>[k].type \in {"text", "answer"}
    BY <1>4
  <2> QED
    BY <1>4, <1>7, <2>1
<1> QED
  BY <1>2, <1>5, <1>6, <1>7

LEMMA TypeOutput == ASSUME TypeInv, Accepts \/ Rejects \/ AnswersNothing PROVE TypeInv'
<1>1. PICK s \in Seq(Messages), next \in {"ready", "done"} : Output(s, next)
  BY OutputAdds
<1>2. messages' \in Seq(Messages)
  BY <1>1, ConcatProperties DEF Output, TypeInv, TypeOK
<1> QED
  BY <1>1, <1>2, TypeForget DEF Output, config, TypeInv, TypeOK

LEMMA TypeStep == ASSUME TypeInv, [Next]_vars PROVE TypeInv'
<1>1. CASE InvokeOpenAI \/ InvokeAnthropic
  BY <1>1, TypeInvoke
<1>2. ASSUME NEW c \in Calls, OpenAIOpens(c) \/ AnthropicOpens(c) PROVE TypeInv'
  BY <1>2, TypeOpens
<1>3. ASSUME NEW i \in 1 .. MaxBatch, OpenAIContinues(i) \/ AnthropicContinues(i) PROVE TypeInv'
  BY <1>3, TypeContinues
<1>4. ASSUME NEW i \in 1 .. MaxBatch, AnthropicStops(i) PROVE TypeInv'
  BY <1>4, TypeStops
<1>5. CASE Says
  BY <1>5, TypeSays
<1>6. ASSUME NEW reason \in Reasons, Answers(reason) PROVE TypeInv'
  BY <1>6, TypeAnswers
<1>7. CASE Fails \/ Exhausted
  BY <1>7, TypeFails
<1>8. ASSUME NEW batch, Act(batch) PROVE TypeInv'
  BY <1>8, TypeAct
<1>9. CASE Resume
  BY <1>9, TypeResume
<1>10. CASE Accepts \/ Rejects \/ AnswersNothing
  BY <1>10, TypeOutput
<1>11. CASE UNCHANGED vars
  BY <1>11 DEF vars, config, response, TypeInv, TypeOK, InBudget, Gathers
<1> QED
  BY <1>1, <1>2, <1>3, <1>4, <1>5, <1>6, <1>7, <1>8, <1>9, <1>10, <1>11
     DEF Next, Adapter, Loop, Answers

\* The variables keep their types; the model is asked within the budget
\* (agentLoop.ts:107), and what is read of a response is of calls it has opened.
THEOREM TypeCorrect == Spec => []TypeOK
<1>1. TypeInv /\ [Next]_vars => TypeInv'
  BY TypeStep
<1>2. TypeInv => TypeOK
  BY DEF TypeInv
<1> QED
  BY TypeInit, <1>1, <1>2, PTL DEF Spec

-----------------------------------------------------------------------------
(* Responses *)

\* The calls whose arguments came whole and can be parsed.
Kept == {c \in Calls : IsWhole(c) /\ Parts[c] > 0}

\* The calls of blocks that have stopped and could be parsed.
Stopped ==
  [i \in DOMAIN opened |->
     IF i \notin DOMAIN blocks /\ opened[i] \in Kept THEN <<opened[i]>> ELSE <<>>]

\* A block has the parts of its call that were sent so far; Anthropic's requests
\* are those of the blocks that have stopped.
Assembled ==
  /\ Distinct(opened)
  /\ Range(opened) \subseteq issued
  /\ \A c \in Calls \ Range(opened) : parts[c] = 0
  /\ streaming => \A i \in DOMAIN blocks :
       blocks[i].call = opened[i] /\ blocks[i].input = Sent(opened[i])
  /\ vendor = "anthropic" /\ streaming =>
       DOMAIN blocks \subseteq {Len(opened)} /\ requests = FlattenSeq(Stopped)

\* The calls in the history: they are not in the response any more, have their
\* results unless the agent waits for these, and differ.
IsUse(m) == m.type = "tool_use"
Answered == {messages[i].ref : i \in {j \in DOMAIN messages : messages[j].type = "tool_result"}}

CallsKnown ==
  \A i \in DOMAIN messages : IsUse(messages[i]) => messages[i].ref \in issued \ Range(opened)
CallsAnswered ==
  \A i \in DOMAIN messages : IsUse(messages[i]) =>
    messages[i].ref \in Answered \/ messages[i].ref \in Range(awaiting)
CallsOnce ==
  \A i, j \in DOMAIN messages :
    IsUse(messages[i]) /\ IsUse(messages[j]) /\ messages[i].ref = messages[j].ref => i = j

\* Nothing is awaited unless the agent is suspended, and the calls it is about
\* to act on are of the response and differ.
NothingAwaited == phase \in {"ready", "waiting", "answered"} => awaiting = <<>>
CallsChosen ==
  phase = "answered" => Distinct(result.calls) /\ Range(result.calls) \subseteq Range(opened)

Recorded == CallsKnown /\ CallsAnswered /\ CallsOnce /\ NothingAwaited /\ CallsChosen

\* The attachments keep their place in the history, and count as seen when
\* they have been shown.
MediaKept ==
  /\ Len(messages) > Len(Attachments)
  /\ \A i \in Media : messages[i + 1].type = Attachments[i] /\ messages[i + 1].ref = i
  /\ \A k \in DOMAIN messages : messages[k].type \in MediaTypes => k - 1 \in Media
  /\ \A i \in Media \ Omitted :
       shown[i] \in {0, 1} /\ (messages[i + 1].seen <=> shown[i] = 1)

LEMMA SentFacts ==
  ASSUME TypeOK, NEW c \in Calls
  PROVE  Sent(c) \in Seq(Calls \X Nat) /\ Len(Sent(c)) = parts[c]
<1>1. parts[c] \in Nat
  BY DEF TypeOK
<1>2. \A k \in 1 .. parts[c] : <<c, k>> \in Calls \X Nat
  OBVIOUS
<1>3. Sent(c) \in [1 .. parts[c] -> Calls \X Nat]
  BY <1>2 DEF Sent
<1> QED
  BY <1>1, <1>3

LEMMA ParsesKept ==
  ASSUME TypeOK, NEW c \in Calls PROVE Parses(c, Sent(c)) <=> c \in Kept
<1>1. parts[c] \in Nat /\ Parts[c] \in Nat
  BY LLMAssumption DEF TypeOK
<1>2. Len(Sent(c)) = parts[c] /\ Sent(c) \in Seq(Calls \X Nat)
  BY SentFacts
<1>3. Whole(c) \in [1 .. Parts[c] -> Calls \X Nat]
  <2>1. \A k \in 1 .. Parts[c] : <<c, k>> \in Calls \X Nat
    OBVIOUS
  <2> QED
    BY <2>1 DEF Whole
<1>4. Len(Whole(c)) = Parts[c]
  BY <1>1, <1>3
<1>5. Sent(c) # <<>> <=> parts[c] > 0
  BY <1>1, <1>2
<1>6. Sent(c) = Whole(c) <=> parts[c] = Parts[c]
  <2>1. Sent(c) = Whole(c) => parts[c] = Parts[c]
    BY <1>2, <1>4
  <2>2. parts[c] = Parts[c] => Sent(c) = Whole(c)
    BY DEF Sent, Whole
  <2> QED
    BY <2>1, <2>2
<1> QED
  BY <1>1, <1>5, <1>6 DEF Parses, Kept, IsWhole

LEMMA StoppedType ==
  ASSUME TypeOK
  PROVE  Stopped \in Seq(Seq(Calls)) /\ Len(Stopped) = Len(opened)
<1>1. opened \in Seq(Calls)
  BY DEF TypeOK
<1>2. ASSUME NEW i \in 1 .. Len(opened)
      PROVE  (IF i \notin DOMAIN blocks /\ opened[i] \in Kept THEN <<opened[i]>> ELSE <<>>)
               \in Seq(Calls)
  <2>1. opened[i] \in Calls
    BY <1>1
  <2> QED
    BY <2>1
<1>3. Stopped \in [1 .. Len(opened) -> Seq(Calls)]
  BY <1>1, <1>2 DEF Stopped
<1> QED
  BY <1>1, <1>3

\* Steps that leave the response alone.
LEMMA AssembledCalm ==
  ASSUME Assembled, UNCHANGED <<vendor, streaming, opened, parts, blocks, requests>>,
         issued \subseteq issued'
  PROVE  Assembled'
BY DEF Assembled, Distinct, Stopped, Kept, IsWhole, Sent

LEMMA AssembledForget == ASSUME Forget PROVE Assembled'
<1>1. /\ opened' = <<>> /\ DOMAIN opened' = {} /\ DOMAIN blocks' = {} /\ requests' = <<>>
      /\ Range(opened') = {} /\ \A c \in Calls : parts'[c] = 0
  BY DEF Forget, Range
<1>2. Stopped' = <<>>
  BY <1>1 DEF Stopped
<1>3. FlattenSeq(Stopped)' = <<>>
  BY <1>2, FlattenEmpty
<1> QED
  BY <1>1, <1>3 DEF Assembled, Distinct

LEMMA AssembledOpens ==
  ASSUME TypeInv, TypeInv', Assembled, NEW c \in Calls, OpenAIOpens(c) \/ AnthropicOpens(c)
  PROVE  Assembled'
<1>1. Opens(c) /\ blocks' = IF streaming THEN NewBlock(c) ELSE blocks
  BY DEF OpenAIOpens, AnthropicOpens
<1>2. /\ opened \in Seq(Calls) /\ opened' = Append(opened, c) /\ c \notin issued
      /\ issued' = issued \cup {c} /\ UNCHANGED <<vendor, streaming, parts, requests>>
  BY <1>1 DEF Opens, TypeInv, TypeOK, config
<1>3. /\ DOMAIN opened = 1 .. Len(opened) /\ Len(opened) \in Nat
      /\ DOMAIN opened' = 1 .. (Len(opened) + 1)
      /\ \A i \in 1 .. Len(opened) : opened'[i] = opened[i]
      /\ opened'[Len(opened) + 1] = c
  BY <1>2
<1>4. c \notin Range(opened)
  BY <1>2 DEF Assembled
<1>5. Distinct(opened')
  <2>1. \A i \in 1 .. Len(opened) : opened[i] # c
    BY <1>3, <1>4 DEF Range
  <2>2. \A i \in 1 .. (Len(opened) + 1) : i = Len(opened) + 1 \/ i \in 1 .. Len(opened)
    BY <1>3
  <2>3. \A i, j \in 1 .. Len(opened) : opened[i] = opened[j] => i = j
    BY <1>3 DEF Assembled, Distinct
  <2> QED
    BY <1>3, <2>1, <2>2, <2>3 DEF Distinct
<1>6. Range(opened') = Range(opened) \cup {c}
  <2>1. 1 .. (Len(opened) + 1) = 1 .. Len(opened) \cup {Len(opened) + 1}
    BY <1>3
  <2> QED
    BY <1>3, <2>1 DEF Range
<1>7. parts[c] = 0
  BY <1>4 DEF Assembled
<1>8. Sent(c)' = <<>>
  BY <1>2, <1>7 DEF Sent
<1>9. ASSUME streaming, NEW i \in DOMAIN blocks'
      PROVE  blocks'[i].call = opened'[i] /\ blocks'[i].input = Sent(opened[i])'
  <2>1. blocks' = NewBlock(c)
    BY <1>1, <1>9
  <2>2. CASE i \in DOMAIN blocks
    <3>1. blocks'[i] = blocks[i] /\ i \in 1 .. Len(opened)
      BY <1>2, <2>1, <2>2 DEF NewBlock, TypeInv, TypeOK
    <3>2. blocks[i].call = opened[i] /\ blocks[i].input = Sent(opened[i])
      BY <1>9, <2>2 DEF Assembled
    <3> QED
      BY <1>2, <1>3, <3>1, <3>2 DEF Sent
  <2>3. CASE i \notin DOMAIN blocks
    <3>1. i = Len(opened) + 1 /\ blocks'[i].call = c /\ blocks'[i].input = <<>>
      BY <1>9, <2>1, <2>3 DEF NewBlock
    <3>2. opened'[i] = c
      BY <1>3, <3>1
    <3> QED
      BY <1>8, <3>1, <3>2
  <2> QED
    BY <2>2, <2>3
<1>10. ASSUME vendor = "anthropic", streaming
       PROVE  DOMAIN blocks' = {Len(opened')} /\ requests' = FlattenSeq(Stopped)'
  <2>1. DOMAIN blocks = {}
    BY <1>10 DEF OpenAIOpens, AnthropicOpens
  <2>2. Len(opened') = Len(opened) + 1
    BY <1>2
  <2>3. DOMAIN blocks' = {Len(opened')}
    BY <1>1, <1>10, <2>1, <2>2 DEF NewBlock
  <2>4. Stopped' = Append(Stopped, <<>>)
    <3>1. Stopped \in Seq(Seq(Calls)) /\ Len(Stopped) = Len(opened)
      BY StoppedType DEF TypeInv
    <3>2. Stopped' \in Seq(Seq(Calls)) /\ Len(Stopped') = Len(opened) + 1
      <4>1. opened' \in Seq(Calls)
        BY DEF TypeInv, TypeOK
      <4>2. ASSUME NEW i \in 1 .. Len(opened')
            PROVE  (IF i \notin DOMAIN blocks' /\ opened'[i] \in Kept' THEN <<opened'[i]>> ELSE <<>>)
                     \in Seq(Calls)
        <5>1. opened'[i] \in Calls
          BY <4>1
        <5> QED
          BY <5>1
      <4>3. Stopped' \in [1 .. Len(opened') -> Seq(Calls)]
        BY <4>1, <4>2 DEF Stopped
      <4> QED
        BY <2>2, <4>1, <4>3
    <3>3. Kept' = Kept
      BY <1>2 DEF Kept, IsWhole
    <3>4. ASSUME NEW i \in 1 .. Len(opened) PROVE Stopped'[i] = Stopped[i]
      <4>1. i \notin DOMAIN blocks /\ i \notin DOMAIN blocks'
        BY <1>3, <2>1, <2>2, <2>3
      <4>2. i \in DOMAIN opened /\ i \in DOMAIN opened' /\ opened'[i] = opened[i]
        BY <1>3
      <4> QED
        BY <3>3, <4>1, <4>2 DEF Stopped
    <3>5. Stopped'[Len(opened) + 1] = <<>>
      BY <1>3, <2>2, <2>3 DEF Stopped
    <3> DEFINE s == Stopped
               t == Stopped'
    <3>6. Append(s, <<>>) \in Seq(Seq(Calls)) /\ Len(Append(s, <<>>)) = Len(opened) + 1
          /\ (\A i \in 1 .. Len(opened) : Append(s, <<>>)[i] = s[i])
          /\ Append(s, <<>>)[Len(opened) + 1] = <<>>
      <4> HIDE DEF s
      <4>1. s \in Seq(Seq(Calls)) /\ Len(s) = Len(opened) /\ <<>> \in Seq(Calls)
        BY <3>1 DEF s
      <4> QED
        BY <4>1
    <3>7. \A i \in 1 .. (Len(opened) + 1) : t[i] = Append(s, <<>>)[i]
      <4>1. \A i \in 1 .. (Len(opened) + 1) : i = Len(opened) + 1 \/ i \in 1 .. Len(opened)
        BY <1>3
      <4> QED
        BY <3>4, <3>5, <3>6, <4>1
    <3> HIDE DEF s, t
    <3>8. t \in Seq(Seq(Calls)) /\ Len(t) = Len(opened) + 1
      BY <3>2 DEF t
    <3>9. t = Append(s, <<>>)
      BY <3>6, <3>7, <3>8, SeqEqual
    <3> QED
      BY <3>9 DEF s, t
  <2>5. FlattenSeq(Append(Stopped, <<>>)) = FlattenSeq(Stopped)
    BY StoppedType, FlattenAppendEmpty DEF TypeInv
  <2> QED
    BY <1>2, <1>10, <2>3, <2>4, <2>5 DEF Assembled
<1> QED
  BY <1>2, <1>5, <1>6, <1>9, <1>10 DEF Assembled

LEMMA AssembledContinues ==
  ASSUME TypeInv, Assembled, NEW i, OpenAIContinues(i) \/ AnthropicContinues(i)
  PROVE  Assembled'
<1>1. Continues(i) /\ blocks' = IF streaming THEN WithDelta(i) ELSE blocks
  BY DEF OpenAIContinues, AnthropicContinues
<1>2. /\ i \in DOMAIN opened /\ opened[i] \in Calls /\ parts[opened[i]] \in Nat
      /\ UNCHANGED <<vendor, streaming, opened, issued, requests>>
      /\ parts' = [parts EXCEPT ![opened[i]] = @ + 1]
      /\ parts \in [Calls -> Nat]
  BY <1>1 DEF Continues, TypeInv, TypeOK, config
<1>3. \A c \in Calls : c # opened[i] => parts'[c] = parts[c]
  BY <1>2
<1>4. DOMAIN blocks' = DOMAIN blocks
  BY <1>1 DEF WithDelta
<1>5. \A c \in Calls \ Range(opened') : parts'[c] = 0
  <2>1. opened[i] \in Range(opened)
    BY <1>2 DEF Range
  <2> QED
    BY <1>2, <1>3, <2>1 DEF Assembled
<1>6. ASSUME streaming, NEW k \in DOMAIN blocks'
      PROVE  blocks'[k].call = opened'[k] /\ blocks'[k].input = Sent(opened[k])'
  <2>1. k \in DOMAIN blocks /\ k \in DOMAIN opened /\ opened[k] \in Calls /\ blocks[k] \in Blocks
    BY <1>4 DEF TypeInv, TypeOK
  <2>2. blocks[k].call = opened[k] /\ blocks[k].input = Sent(opened[k])
    BY <1>6, <2>1 DEF Assembled
  <2>3. blocks' = WithDelta(i)
    BY <1>1, <1>6
  <2>4. CASE k = i
    <3> DEFINE part == <<opened[i], parts[opened[i]] + 1>>
               n == parts[opened[i]]
    <3>1. blocks'[k] = [blocks[k] EXCEPT !.input = Append(@, part)]
      BY <2>1, <2>3, <2>4 DEF WithDelta, BlockOf
    <3>2. blocks'[k].call = opened[k] /\ blocks'[k].input = Append(Sent(opened[i]), part)
      BY <2>1, <2>2, <2>4, <3>1 DEF Blocks
    <3>3. parts'[opened[i]] = n + 1 /\ n \in Nat
      BY <1>2
    <3>4. Sent(opened[i])' = [j \in 1 .. (n + 1) |-> <<opened[i], j>>]
      BY <1>2, <3>3 DEF Sent
    <3>5. Sent(opened[i]) = [j \in 1 .. n |-> <<opened[i], j>>]
      BY DEF Sent
    <3> DEFINE call == opened[i]
               longer == [j \in 1 .. (n + 1) |-> <<call, j>>]
               shorter == [j \in 1 .. n |-> <<call, j>>]
    <3>6. Append(shorter, <<call, n + 1>>) = longer
      <4>1. n \in Nat /\ call \in Calls
        BY <1>2
      <4> HIDE DEF n, call
      <4>2. \A j \in 1 .. (n + 1) : <<call, j>> \in Calls \X Nat
        BY <4>1
      <4>3. longer \in [1 .. (n + 1) -> Calls \X Nat] /\ shorter \in [1 .. n -> Calls \X Nat]
        BY <4>1, <4>2
      <4>4. /\ longer \in Seq(Calls \X Nat) /\ shorter \in Seq(Calls \X Nat)
            /\ Len(longer) = n + 1 /\ Len(shorter) = n
        BY <4>1, <4>3
      <4>5. \A j \in 1 .. n : shorter[j] = <<call, j>> /\ longer[j] = <<call, j>>
        BY <4>1
      <4>6. longer[n + 1] = <<call, n + 1>>
        BY <4>1
      <4> HIDE DEF longer, shorter
      <4> DEFINE end == <<call, n + 1>>
      <4>7. end \in Calls \X Nat
        BY <4>1
      <4> HIDE DEF end
      <4>8. /\ Append(shorter, end) \in Seq(Calls \X Nat) /\ Len(Append(shorter, end)) = n + 1
            /\ (\A j \in 1 .. n : Append(shorter, end)[j] = shorter[j])
            /\ Append(shorter, end)[n + 1] = end
        BY <4>1, <4>4, <4>7
      <4>9. \A j \in 1 .. (n + 1) : Append(shorter, end)[j] = longer[j]
        <5>1. \A j \in 1 .. (n + 1) : j = n + 1 \/ j \in 1 .. n
          BY <4>1
        <5> QED
          BY <4>5, <4>6, <4>8, <5>1 DEF end
      <4>10. Append(shorter, end) = longer
        BY <4>4, <4>8, <4>9, SeqEqual
      <4> QED
        BY <4>10 DEF end
    <3>7. blocks'[k].input = Sent(opened[i])'
      BY <3>2, <3>4, <3>5, <3>6
    <3> QED
      BY <1>2, <2>4, <3>2, <3>7
  <2>5. CASE k # i
    <3>1. blocks'[k] = blocks[k]
      BY <2>1, <2>3, <2>5 DEF WithDelta, BlockOf
    <3>2. opened[k] # opened[i]
      BY <1>2, <2>1, <2>5 DEF Assembled, Distinct
    <3>3. Sent(opened[k])' = Sent(opened[k])
      BY <1>2, <1>3, <2>1, <3>2 DEF Sent
    <3> QED
      BY <1>2, <2>2, <3>1, <3>3
  <2> QED
    BY <2>4, <2>5
<1>7. ASSUME vendor = "anthropic", streaming PROVE Stopped' = Stopped
  <2>1. i \in DOMAIN blocks
    BY <1>7 DEF OpenAIContinues, AnthropicContinues
  <2>2. ASSUME NEW k \in DOMAIN opened, k \notin DOMAIN blocks
        PROVE  opened[k] \in Kept' <=> opened[k] \in Kept
    <3>1. opened[k] # opened[i]
      BY <1>2, <2>1, <2>2 DEF Assembled, Distinct
    <3>2. opened[k] \in Calls
      BY DEF TypeInv, TypeOK
    <3> QED
      BY <1>3, <3>1, <3>2 DEF Kept, IsWhole
  <2> QED
    BY <1>2, <1>4, <2>2 DEF Stopped
<1> QED
  BY <1>2, <1>4, <1>5, <1>6, <1>7 DEF Assembled, Distinct

LEMMA FrontLast ==
  ASSUME NEW A, NEW s \in Seq(A), NEW n \in Nat, Len(s) = n + 1
  PROVE  [k \in 1 .. n |-> s[k]] \in Seq(A) /\ s = Append([k \in 1 .. n |-> s[k]], s[n + 1])
<1> DEFINE front == [k \in 1 .. n |-> s[k]]
<1>1. \A k \in 1 .. (n + 1) : s[k] \in A
  OBVIOUS
<1>2. front \in [1 .. n -> A]
  BY <1>1
<1>3. front \in Seq(A) /\ Len(front) = n
  BY <1>2
<1>4. \A k \in 1 .. n : front[k] = s[k]
  OBVIOUS
<1> HIDE DEF front
<1>5. \A k \in 1 .. (n + 1) : k = n + 1 \/ k \in 1 .. n
  OBVIOUS
<1>6. n + 1 \in 1 .. (n + 1) /\ s[n + 1] \in A
  BY <1>1
<1>7. /\ Append(front, s[n + 1]) \in Seq(A) /\ Len(Append(front, s[n + 1])) = n + 1
      /\ \A k \in 1 .. n : Append(front, s[n + 1])[k] = front[k]
      /\ Append(front, s[n + 1])[n + 1] = s[n + 1]
  BY <1>3, <1>6
<1>8. \A k \in 1 .. (n + 1) : s[k] = Append(front, s[n + 1])[k]
  BY <1>4, <1>5, <1>7
<1>9. s = Append(front, s[n + 1])
  BY <1>7, <1>8, SeqEqual
<1> QED
  BY <1>3, <1>9 DEF front

LEMMA AssembledStops ==
  ASSUME TypeInv, Assembled, NEW i, AnthropicStops(i) PROVE Assembled'
<1>1. /\ vendor = "anthropic" /\ streaming /\ i \in DOMAIN blocks
      /\ UNCHANGED <<vendor, streaming, opened, issued, parts>>
  BY DEF AnthropicStops, config
<1>2. /\ i = Len(opened) /\ DOMAIN blocks = {i} /\ requests = FlattenSeq(Stopped)
      /\ blocks[i].call = opened[i] /\ blocks[i].input = Sent(opened[i])
  BY <1>1 DEF Assembled
<1>3. DOMAIN blocks' = {}
  BY <1>2 DEF AnthropicStops, Restrict
<1> DEFINE n == i - 1
           c == opened[i]
           x == IF c \in Kept THEN <<c>> ELSE <<>>
           front == [k \in 1 .. n |-> Stopped[k]]
<1>4. opened \in Seq(Calls) /\ Len(opened) = n + 1 /\ n \in Nat /\ c \in Calls
      /\ DOMAIN opened = 1 .. (n + 1)
  BY <1>1, <1>2 DEF TypeInv, TypeOK
<1>5. Stopped \in Seq(Seq(Calls)) /\ Len(Stopped) = n + 1
  BY <1>4, StoppedType DEF TypeInv
<1>6. front \in Seq(Seq(Calls)) /\ Stopped = Append(front, Stopped[n + 1])
  BY <1>4, <1>5, FrontLast
<1>7. n + 1 = i /\ i \in 1 .. (n + 1) /\ Stopped[n + 1] = <<>>
  <2>1. n + 1 = i /\ i \in 1 .. (n + 1)
    BY <1>2, <1>4
  <2>2. Stopped[i] = <<>>
    BY <1>1, <1>4, <2>1 DEF Stopped
  <2> QED
    BY <2>1, <2>2
<1>8. Kept' = Kept
  BY <1>1 DEF Kept, IsWhole
<1>9. Stopped' = [k \in 1 .. (n + 1) |-> IF opened[k] \in Kept THEN <<opened[k]>> ELSE <<>>]
  BY <1>1, <1>3, <1>4, <1>8 DEF Stopped
<1>10. Stopped' \in Seq(Seq(Calls)) /\ Len(Stopped') = n + 1
  <2>1. ASSUME NEW k \in 1 .. (n + 1)
        PROVE  (IF opened[k] \in Kept THEN <<opened[k]>> ELSE <<>>) \in Seq(Calls)
    <3>1. opened[k] \in Calls
      BY <1>4
    <3> QED
      BY <3>1
  <2>2. Stopped' \in [1 .. (n + 1) -> Seq(Calls)]
    BY <1>9, <2>1
  <2> QED
    BY <1>4, <2>2
<1> DEFINE front2 == [k \in 1 .. n |-> Stopped'[k]]
<1>11. Stopped' = Append(front2, Stopped'[n + 1])
  BY <1>4, <1>10, FrontLast
<1>12. Stopped'[n + 1] = x
  <2>1. Stopped'[i] = x
    BY <1>7, <1>9
  <2> QED
    BY <1>7, <2>1
<1>13. front2 = front
  <2>1. \A k \in 1 .. n : k \in DOMAIN opened /\ k \notin DOMAIN blocks
    BY <1>2, <1>4
  <2>2. ASSUME NEW k \in 1 .. n PROVE Stopped'[k] = Stopped[k]
    <3> DEFINE y == IF opened[k] \in Kept THEN <<opened[k]>> ELSE <<>>
    <3>1. k \in 1 .. (n + 1)
      BY <1>4
    <3>2. Stopped'[k] = y
      BY <1>9, <3>1
    <3>3. Stopped[k] = y
      BY <2>1 DEF Stopped
    <3> QED
      BY <3>2, <3>3
  <2> QED
    BY <2>2
<1>14. x \in Seq(Calls)
  BY <1>4
<1>15. requests = FlattenSeq(front)
  BY <1>2, <1>6, <1>7, FlattenAppendEmpty
<1>16. FlattenSeq(Stopped)' = FlattenSeq(front) \o x
  <2>1. FlattenSeq(Append(front, x)) = FlattenSeq(front) \o x
    BY <1>6, <1>14, FlattenAppend
  <2> QED
    BY <1>11, <1>12, <1>13, <2>1
<1>17. requests' = requests \o x
  <2>1. Parses(blocks[i].call, blocks[i].input) <=> c \in Kept
    BY <1>2, <1>4, ParsesKept DEF TypeInv
  <2>2. requests' = IF c \in Kept THEN Append(requests, c) ELSE requests
    BY <1>2, <2>1 DEF AnthropicStops
  <2>3. requests \in Seq(Calls)
    BY DEF TypeInv, TypeOK
  <2>4. Append(requests, c) = requests \o <<c>> /\ requests \o <<>> = requests
    BY <1>4, <2>3
  <2> QED
    BY <2>2, <2>4
<1> QED
  BY <1>1, <1>3, <1>15, <1>16, <1>17 DEF Assembled, Distinct

LEMMA AssembledStep == ASSUME TypeInv, TypeInv', Assembled, [Next]_vars PROVE Assembled'
<1>1. CASE \E c \in Calls : OpenAIOpens(c) \/ AnthropicOpens(c)
  BY <1>1, AssembledOpens
<1>2. CASE \E i \in 1 .. MaxBatch : OpenAIContinues(i) \/ AnthropicContinues(i)
  BY <1>2, AssembledContinues
<1>3. CASE \E i \in 1 .. MaxBatch : AnthropicStops(i)
  BY <1>3, AssembledStops
<1>4. CASE InvokeOpenAI \/ InvokeAnthropic \/ Says
  BY <1>4, AssembledCalm DEF InvokeOpenAI, InvokeAnthropic, Invoke, Says, config, response
<1>5. CASE \E reason : Answers(reason)
  BY <1>5, AnswersReturn, AssembledCalm DEF Returns, config, response, TypeInv
<1>6. CASE Fails \/ Exhausted \/ Resume \/ UNCHANGED vars
  BY <1>6, AssembledCalm DEF Fails, Exhausted, Resume, vars, config, response
<1>7. CASE \E batch : Act(batch)
  BY <1>7, AssembledForget DEF Act
<1>8. CASE Accepts \/ Rejects \/ AnswersNothing
  BY <1>8, AssembledForget DEF Accepts, Rejects, AnswersNothing, Output
<1> QED
  BY <1>1, <1>2, <1>3, <1>4, <1>5, <1>6, <1>7, <1>8 DEF Next, Adapter, Loop, Answers

\* What the adapter returns, as StreamedAsSent has it.
LEMMA AnswerAsSent ==
  ASSUME TypeInv, Assembled, NEW reason, StopsFor(reason)
  PROVE  Answer = IF vendor = "anthropic" /\ ~streaming THEN opened
                  ELSE Filter(opened, Kept \ Unfinished)
<1>1. opened \in Seq(Calls) /\ DOMAIN opened = 1 .. Len(opened)
  BY DEF TypeInv, TypeOK
<1>2. \A i \in DOMAIN opened : opened[i] \in Calls
  BY <1>1
<1>7. vendor = "openai" => Kept \ Unfinished = Kept
  BY DEF Unfinished
<1>3. CASE vendor = "openai" /\ ~streaming
  <2>1. \A i \in DOMAIN opened :
          opened[i] \in {c \in Calls : Parses(c, Sent(c))} <=> opened[i] \in Kept
    BY <1>2, ParsesKept DEF TypeInv
  <2>2. Filter(opened, {c \in Calls : Parses(c, Sent(c))}) = Filter(opened, Kept)
    BY <2>1, FilterSame
  <2> QED
    BY <1>3, <1>7, <2>2 DEF Answer
<1>4. CASE vendor = "openai" /\ streaming
  <2>1. \A i \in DOMAIN opened :
          blocks[i].call = opened[i] /\ blocks[i].input = Sent(opened[i])
    BY <1>4 DEF Assembled, TypeInv, Gathers
  <2>2. StreamedCalls = opened
    <3>1. StreamedCalls = [i \in DOMAIN opened |-> opened[i]]
      BY <2>1 DEF StreamedCalls
    <3> QED
      BY <1>1, <3>1
  <2>3. \A i \in DOMAIN opened : i \in ParsedBlocks <=> opened[i] \in Kept
    BY <1>2, <2>1, ParsesKept DEF ParsedBlocks, TypeInv
  <2>4. ASSUME NEW i \in DOMAIN opened
        PROVE  opened[i] \in {blocks[j].call : j \in ParsedBlocks} <=> opened[i] \in Kept
    <3>1. ASSUME NEW j \in ParsedBlocks, opened[i] = blocks[j].call PROVE opened[i] \in Kept
      BY <2>1, <2>3, <3>1 DEF ParsedBlocks
    <3>2. ASSUME opened[i] \in Kept PROVE \E j \in ParsedBlocks : opened[i] = blocks[j].call
      BY <2>1, <2>3, <3>2
    <3> QED
      BY <3>1, <3>2
  <2>5. Filter(opened, {blocks[j].call : j \in ParsedBlocks}) = Filter(opened, Kept)
    BY <2>4, FilterSame
  <2> QED
    BY <1>4, <1>7, <2>2, <2>5 DEF Answer
<1>5. CASE vendor = "anthropic" /\ ~streaming
  BY <1>5 DEF Answer
<1>6. CASE vendor = "anthropic" /\ streaming
  <2>1. requests = FlattenSeq(Stopped) /\ Distinct(opened) /\ DOMAIN blocks \subseteq DOMAIN opened
    BY <1>1, <1>6 DEF Assembled, TypeInv, TypeOK
  <2>4. ASSUME NEW i \in DOMAIN opened
        PROVE  (i \notin DOMAIN blocks /\ opened[i] \in Kept) <=> opened[i] \in Kept \ Unfinished
    BY <1>6, <2>1 DEF Unfinished, Distinct
  <2>2. Stopped = [i \in DOMAIN opened |->
                     IF opened[i] \in Kept \ Unfinished THEN <<opened[i]>> ELSE <<>>]
    BY <2>4 DEF Stopped
  <2>3. requests = Filter(opened, Kept \ Unfinished)
    BY <2>1, <2>2 DEF Filter
  <2> QED
    BY <1>6, <2>3 DEF Answer
<1> QED
  BY <1>3, <1>4, <1>5, <1>6 DEF TypeInv, TypeOK

LEMMA ResponseAnswers ==
  ASSUME TypeInv, Assembled, NEW reason \in Reasons, Answers(reason)
  PROVE  StreamedAsSent'
<1>1. StopsFor(reason) /\ Returns(Answer, reason)
  BY AnswersReturn DEF TypeInv
<1>2. UNCHANGED <<vendor, streaming, opened, parts, blocks>>
  BY <1>1 DEF Returns, config, response
<1>3. Kept' = Kept /\ Unfinished' = Unfinished
  BY <1>2 DEF Kept, Unfinished, IsWhole
<1>4. /\ result'.calls = Answer /\ result'.stop = reason
      /\ Answer = <<>> => result'.text = Content(reason)
  BY <1>1 DEF Returns
<1>5. result'.calls = IF vendor' = "anthropic" /\ ~streaming' THEN opened'
                      ELSE Filter(opened', Kept' \ Unfinished')
  BY <1>1, <1>2, <1>3, <1>4, AnswerAsSent
<1>6. ASSUME Answer = <<>>, result'.stop # "other", NEW c \in Range(opened), ~IsWhole(c)
      PROVE  result'.text \in {"truncated", "filtered"}
  <2>1. reason # "stop"
    BY <1>1, <1>6 DEF StopsFor
  <2> QED
    BY <1>4, <1>6, <2>1 DEF Content, Reasons
<1>7. \A c : IsWhole(c)' <=> IsWhole(c)
  BY <1>2 DEF IsWhole
<1>8. Range(opened') = Range(opened)
  BY <1>2
<1>9. Kept' \ Unfinished' = {c \in Calls \ Unfinished' : IsWhole(c)' /\ Parts[c] > 0}
  BY DEF Kept
<1> QED
  BY <1>4, <1>5, <1>6, <1>7, <1>8, <1>9 DEF StreamedAsSent

LEMMA ResponseStep ==
  ASSUME TypeInv, Assembled, StreamedAsSent, [Next]_vars PROVE StreamedAsSent'
<1>1. CASE \E reason \in Reasons : Answers(reason)
  BY <1>1, ResponseAnswers
<1>2. CASE UNCHANGED vars
  BY <1>2 DEF vars, config, response, StreamedAsSent, Unfinished, IsWhole
<1>3. CASE phase' # "answered"
  BY <1>3 DEF StreamedAsSent
<1>4. CASE InvokeOpenAI \/ InvokeAnthropic \/ Says \/ Fails \/ Exhausted \/ Resume
  BY <1>3, <1>4 DEF InvokeOpenAI, InvokeAnthropic, Invoke, Says, Fails, Exhausted, Resume
<1>5. CASE \E c \in Calls : OpenAIOpens(c) \/ AnthropicOpens(c)
  BY <1>3, <1>5 DEF OpenAIOpens, AnthropicOpens, Opens
<1>6. CASE \E i \in 1 .. MaxBatch :
             OpenAIContinues(i) \/ AnthropicContinues(i) \/ AnthropicStops(i)
  BY <1>3, <1>6 DEF OpenAIContinues, AnthropicContinues, Continues, AnthropicStops
<1>7. CASE (\E batch : Act(batch)) \/ Accepts \/ Rejects \/ AnswersNothing
  BY <1>3, <1>7 DEF Act, Accepts, Rejects, AnswersNothing, Output
<1> QED
  BY <1>1, <1>2, <1>4, <1>5, <1>6, <1>7 DEF Next, Adapter, Loop, Answers

LEMMA ResponseInit == Init => Assembled /\ StreamedAsSent
<1> SUFFICES ASSUME Init PROVE Assembled /\ StreamedAsSent
  OBVIOUS
<1>1. /\ opened = <<>> /\ DOMAIN opened = {} /\ Range(opened) = {} /\ DOMAIN blocks = {}
      /\ requests = <<>> /\ \A c \in Calls : parts[c] = 0
  BY DEF Init, Range
<1>2. Stopped = <<>>
  BY <1>1 DEF Stopped
<1> QED
  BY <1>1, <1>2, FlattenEmpty DEF Assembled, Distinct, Init, StreamedAsSent

\* A response assembled from a stream is the one the model sent
\* (openai/streamable.ts, anthropic/streamable.ts): with any calls, in any order
\* of their parts, and wherever it breaks off.
THEOREM ResponsesAsSent == Spec => []StreamedAsSent
<1> DEFINE Inv == TypeInv /\ Assembled /\ StreamedAsSent
<1>1. Init => Inv
  BY TypeInit, ResponseInit
<1>2. Inv /\ [Next]_vars => Inv'
  BY TypeStep, AssembledStep, ResponseStep
<1>3. Inv => StreamedAsSent
  OBVIOUS
<1> HIDE DEF Inv
<1> QED
  BY <1>1, <1>2, <1>3, PTL DEF Spec

-----------------------------------------------------------------------------
(* The history *)

\* Where the elements of two sequences are when they are joined.
LEMMA Appended ==
  ASSUME NEW A, NEW s \in Seq(A), NEW t \in Seq(A)
  PROVE  /\ s \o t \in Seq(A) /\ Len(s \o t) = Len(s) + Len(t)
         /\ \A k \in DOMAIN s : k \in DOMAIN (s \o t) /\ (s \o t)[k] = s[k]
         /\ \A k \in DOMAIN t : Len(s) + k \in DOMAIN (s \o t) /\ (s \o t)[Len(s) + k] = t[k]
         /\ \A k \in DOMAIN (s \o t) : k \in DOMAIN s \/ \E j \in DOMAIN t : k = Len(s) + j
<1>1. /\ s \o t \in Seq(A) /\ Len(s \o t) = Len(s) + Len(t)
      /\ \A k \in 1 .. (Len(s) + Len(t)) :
           (s \o t)[k] = IF k <= Len(s) THEN s[k] ELSE t[k - Len(s)]
  BY ConcatProperties
<1>2. /\ DOMAIN s = 1 .. Len(s) /\ DOMAIN t = 1 .. Len(t)
      /\ DOMAIN (s \o t) = 1 .. (Len(s) + Len(t)) /\ Len(s) \in Nat /\ Len(t) \in Nat
  BY <1>1
<1> DEFINE st == s \o t
<1> HIDE DEF st
<1>3. \A k \in DOMAIN s : k \in 1 .. (Len(s) + Len(t)) /\ k <= Len(s)
  BY <1>2
<1>4. \A k \in DOMAIN t : Len(s) + k \in 1 .. (Len(s) + Len(t)) /\ ~(Len(s) + k <= Len(s))
                          /\ (Len(s) + k) - Len(s) = k
  BY <1>2
<1>5. \A k \in 1 .. (Len(s) + Len(t)) : k \in 1 .. Len(s)
                          \/ (k - Len(s) \in 1 .. Len(t) /\ k = Len(s) + (k - Len(s)))
  BY <1>2
<1> QED
  BY <1>1, <1>2, <1>3, <1>4, <1>5 DEF st

LEMMA RangeOfConcat ==
  ASSUME NEW A, NEW s \in Seq(A), NEW t \in Seq(A)
  PROVE  Range(s \o t) = Range(s) \cup Range(t)
<1>1. ASSUME NEW x \in Range(s \o t) PROVE x \in Range(s) \cup Range(t)
  <2>1. PICK k \in DOMAIN (s \o t) : x = (s \o t)[k]
    BY DEF Range
  <2> QED
    BY <2>1, Appended DEF Range
<1>2. ASSUME NEW x \in Range(s) PROVE x \in Range(s \o t)
  <2>1. PICK k \in DOMAIN s : x = s[k]
    BY DEF Range
  <2>2. k \in DOMAIN (s \o t) /\ (s \o t)[k] = s[k]
    BY Appended
  <2> QED
    BY <2>1, <2>2 DEF Range
<1>3. ASSUME NEW x \in Range(t) PROVE x \in Range(s \o t)
  <2>1. PICK k \in DOMAIN t : x = t[k]
    BY DEF Range
  <2>2. Len(s) + k \in DOMAIN (s \o t) /\ (s \o t)[Len(s) + k] = t[k]
    BY Appended
  <2> QED
    BY <2>1, <2>2 DEF Range
<1> QED
  BY <1>1, <1>2, <1>3

UseOf(c) == Message("tool_use", c, TRUE)
ResultOf(c) == Message("tool_result", c, FALSE)

LEMMA JoinOfTwo == ASSUME NEW A, NEW u \in A, NEW r \in A PROVE <<u>> \o <<r>> = <<u, r>>
<1> DEFINE s == <<u>>
           t == <<r>>
           st == <<u, r>>
<1>1. s \in Seq(A) /\ Len(s) = 1 /\ s[1] = u /\ t \in Seq(A) /\ Len(t) = 1 /\ t[1] = r
  OBVIOUS
<1>2. st \in Seq(A) /\ Len(st) = 2 /\ st[1] = u /\ st[2] = r
  OBVIOUS
<1> HIDE DEF s, t, st
<1>3. s \o t \in Seq(A) /\ Len(s \o t) = 2 /\ (s \o t)[1] = u /\ (s \o t)[2] = r
  <2>1. 1 \in DOMAIN s /\ 1 \in DOMAIN t /\ Len(s) + 1 = 2 /\ Len(s) + Len(t) = 2
    BY <1>1
  <2>2. s \o t \in Seq(A) /\ Len(s \o t) = Len(s) + Len(t) /\ (s \o t)[1] = s[1]
        /\ (s \o t)[Len(s) + 1] = t[1]
    BY <1>1, <2>1, Appended
  <2> QED
    BY <1>1, <2>1, <2>2
<1>4. \A k \in 1 .. 2 : k = 1 \/ k = 2
  OBVIOUS
<1>5. \A k \in 1 .. 2 : (s \o t)[k] = st[k]
  BY <1>2, <1>3, <1>4
<1>6. s \o t = st
  BY <1>2, <1>3, <1>5, SeqEqual
<1> QED
  BY <1>6 DEF s, t, st

LEMMA UseMessagesAre ==
  ASSUME NEW c \in Calls
  PROVE  UseMessages(c) = IF AnsweredAtOnce(c) THEN <<UseOf(c), ResultOf(c)>> ELSE <<UseOf(c)>>
<1> DEFINE u == UseOf(c)
           r == ResultOf(c)
<1>0. u \in Messages /\ r \in Messages
  BY DEF UseOf, ResultOf, Message, Messages, Refs
<1>1. Results(<<c>>) = <<r>>
  <2>1. <<c>> \in Seq(Calls) /\ DOMAIN <<c>> = 1 .. 1 /\ Len(<<c>>) = 1 /\ <<c>>[1] = c
    OBVIOUS
  <2>2. Results(<<c>>) \in Seq(Messages) /\ Len(Results(<<c>>)) = 1
    BY <2>1, ResultsType
  <2>3. Results(<<c>>)[1] = r
    <3> DEFINE one == <<c>>
    <3>1. one[1] = c /\ 1 \in DOMAIN one
      BY <2>1
    <3> HIDE DEF one
    <3>2. Results(one)[1] = r
      BY <3>1 DEF Results, ResultOf
    <3> QED
      BY <3>2 DEF one
  <2> HIDE DEF r
  <2>4. <<r>> \in Seq(Messages) /\ Len(<<r>>) = 1 /\ <<r>>[1] = r
    BY <1>0
  <2>5. \A k \in 1 .. 1 : Results(<<c>>)[k] = <<r>>[k]
    BY <2>3, <2>4
  <2> QED
    BY <2>2, <2>4, <2>5, SeqEqual
<1>2. UseMessages(c) = <<u>> \o IF AnsweredAtOnce(c) THEN <<r>> ELSE <<>>
  BY <1>1 DEF UseMessages, UseOf
<1> HIDE DEF u, r
<1>3. <<u>> \o <<r>> = <<u, r>> /\ <<u>> \o <<>> = <<u>>
  <2>1. <<u>> \in Seq(Messages) /\ <<r>> \in Seq(Messages)
    BY <1>0
  <2>2. <<u>> \o <<r>> = <<u, r>>
    BY <1>0, JoinOfTwo
  <2> QED
    BY <2>1, <2>2, ConcatEmptySeq
<1> QED
  BY <1>2, <1>3 DEF u, r

LEMMA ResultsRange ==
  ASSUME NEW calls \in Seq(Calls) PROVE Range(Results(calls)) = {ResultOf(c) : c \in Range(calls)}
BY DEF Results, Range, ResultOf

\* What the loop adds to the history when it deals with calls.
AddedBy(calls) ==
  (UsesOf(calls) \o Results(OfKind(calls, {"mcp"}))) \o Results(OfKind(calls, {"internal"}))

LEMMA AddedRange ==
  ASSUME NEW calls \in Seq(Calls)
  PROVE  /\ AddedBy(calls) \in Seq(Messages)
         /\ \A m : m \in Range(AddedBy(calls)) <=>
              \E c \in Range(calls) :
                \/ m = UseOf(c)
                \/ m = ResultOf(c) /\ Kind[c] \in {"refused", "blocked", "mcp", "internal"}
<1> DEFINE us == [i \in DOMAIN calls |-> UseMessages(calls[i])]
           mcp == Results(OfKind(calls, {"mcp"}))
           internal == Results(OfKind(calls, {"internal"}))
<1>1. us \in Seq(Seq(Messages)) /\ Len(us) = Len(calls) /\ UsesOf(calls) \in Seq(Messages)
  BY UsesType
<1>2. mcp \in Seq(Messages) /\ internal \in Seq(Messages)
  BY OfKindType, ResultsType
<1>3. \A m : m \in Range(UsesOf(calls)) <=> \E i \in DOMAIN us : m \in Range(us[i])
  <2> HIDE DEF us
  <2>1. \A m : m \in Range(FlattenSeq(us)) <=> \E i \in DOMAIN us : m \in Range(us[i])
    BY <1>1, FlattenRange
  <2> QED
    BY <2>1 DEF UsesOf, us
<1>4. DOMAIN us = DOMAIN calls /\ \A i \in DOMAIN calls : us[i] = UseMessages(calls[i])
  OBVIOUS
<1> HIDE DEF us
<1>5. \A c \in Calls : \A m : m \in Range(UseMessages(c)) <=>
        m = UseOf(c) \/ (m = ResultOf(c) /\ AnsweredAtOnce(c))
  <2> SUFFICES ASSUME NEW c \in Calls, NEW m
               PROVE  m \in Range(UseMessages(c)) <=>
                        m = UseOf(c) \/ (m = ResultOf(c) /\ AnsweredAtOnce(c))
    OBVIOUS
  <2> DEFINE u == UseOf(c)
             r == ResultOf(c)
  <2>1. UseMessages(c) = IF AnsweredAtOnce(c) THEN <<u, r>> ELSE <<u>>
    BY UseMessagesAre
  <2> HIDE DEF u, r
  <2>2. Range(<<u, r>>) = {u, r} /\ Range(<<u>>) = {u}
    BY DEF Range
  <2> QED
    BY <2>1, <2>2 DEF u, r
<1>6. \A i \in DOMAIN calls : calls[i] \in Calls /\ calls[i] \in Range(calls)
  BY DEF Range
<1>7. \A c \in Range(calls) : \E i \in DOMAIN calls : calls[i] = c
  BY DEF Range
<1>8. Range(calls) \subseteq Calls
  BY <1>6, <1>7
<1>9. \A m : m \in Range(UsesOf(calls)) <=>
        \E c \in Range(calls) : m = UseOf(c) \/ (m = ResultOf(c) /\ AnsweredAtOnce(c))
  BY <1>3, <1>4, <1>5, <1>6, <1>7
<1>10. \A K : Range(OfKind(calls, K)) = {c \in Range(calls) : Kind[c] \in K}
  BY <1>8, FilterRange DEF OfKind
<1>11. \A K : Range(Results(OfKind(calls, K))) = {ResultOf(c) : c \in Range(OfKind(calls, K))}
  BY OfKindType, ResultsRange
<1>12. /\ AddedBy(calls) \in Seq(Messages)
       /\ Range(AddedBy(calls)) = (Range(UsesOf(calls)) \cup Range(mcp)) \cup Range(internal)
  <2> HIDE DEF mcp, internal
  <2> DEFINE first == UsesOf(calls) \o mcp
  <2>1. first \in Seq(Messages) /\ Range(first) = Range(UsesOf(calls)) \cup Range(mcp)
    BY <1>1, <1>2, Appended, RangeOfConcat
  <2>2. AddedBy(calls) = first \o internal
    BY DEF AddedBy, mcp, internal
  <2> HIDE DEF first
  <2>3. first \o internal \in Seq(Messages)
    BY <1>2, <2>1, Appended
  <2>4. Range(first \o internal) = Range(first) \cup Range(internal)
    BY <1>2, <2>1, RangeOfConcat
  <2> QED
    BY <2>1, <2>2, <2>3, <2>4
<1>13. \A m : m \in Range(mcp) <=> \E c \in Range(calls) : m = ResultOf(c) /\ Kind[c] = "mcp"
  BY <1>10, <1>11
<1>14. \A m : m \in Range(internal) <=>
                 \E c \in Range(calls) : m = ResultOf(c) /\ Kind[c] = "internal"
  BY <1>10, <1>11
<1> HIDE DEF mcp, internal
<1>15. \A c : AnsweredAtOnce(c) <=> Kind[c] = "refused" \/ Kind[c] = "blocked"
  BY DEF AnsweredAtOnce
<1> QED
  BY <1>9, <1>12, <1>13, <1>14, <1>15

\* Every message is of one kind and of one call.
LEMMA MessageFields ==
  /\ \A c : UseOf(c).type = "tool_use" /\ UseOf(c).ref = c
  /\ \A c : ResultOf(c).type = "tool_result" /\ ResultOf(c).ref = c
BY DEF UseOf, ResultOf, Message

\* A call enters the history once.
LEMMA AddedOnce ==
  ASSUME NEW calls \in Seq(Calls), Distinct(calls),
         NEW k \in DOMAIN AddedBy(calls), NEW l \in DOMAIN AddedBy(calls),
         AddedBy(calls)[k].type = "tool_use", AddedBy(calls)[l].type = "tool_use",
         AddedBy(calls)[k].ref = AddedBy(calls)[l].ref
  PROVE  k = l
<1> DEFINE us == [i \in DOMAIN calls |-> UseMessages(calls[i])]
           uses == UsesOf(calls)
           mcp == Results(OfKind(calls, {"mcp"}))
           internal == Results(OfKind(calls, {"internal"}))
           first == uses \o mcp
<1>1. us \in Seq(Seq(Messages)) /\ Len(us) = Len(calls) /\ uses \in Seq(Messages)
      /\ uses = FlattenSeq(us) /\ \A i \in DOMAIN calls : us[i] = UseMessages(calls[i])
  BY UsesType DEF UsesOf
<1>2. mcp \in Seq(Messages) /\ internal \in Seq(Messages)
  BY OfKindType, ResultsType
<1>3. /\ \A i \in DOMAIN mcp : mcp[i].type = "tool_result"
      /\ \A i \in DOMAIN internal : internal[i].type = "tool_result"
  BY DEF Results, Message
<1>4. AddedBy(calls) = first \o internal
  BY DEF AddedBy
<1> HIDE DEF us, uses, mcp, internal
<1>5. first \in Seq(Messages)
      /\ \A i \in DOMAIN first : first[i].type = "tool_use" =>
           i \in DOMAIN uses /\ first[i] = uses[i]
  <2>1. first \in Seq(Messages)
    BY <1>1, <1>2, Appended
  <2>2. ASSUME NEW i \in DOMAIN first, first[i].type = "tool_use"
        PROVE  i \in DOMAIN uses /\ first[i] = uses[i]
    <3>1. i \in DOMAIN uses \/ \E j \in DOMAIN mcp : i = Len(uses) + j
      BY <1>1, <1>2, <2>2, Appended
    <3>2. \A j \in DOMAIN mcp : first[Len(uses) + j] = mcp[j]
      BY <1>1, <1>2, Appended
    <3>3. i \in DOMAIN uses
      BY <1>3, <2>2, <3>1, <3>2
    <3> QED
      BY <1>1, <1>2, <3>3, Appended
  <2> QED
    BY <2>1, <2>2
<1> HIDE DEF first
<1>6. ASSUME NEW i \in DOMAIN AddedBy(calls), AddedBy(calls)[i].type = "tool_use"
      PROVE  i \in DOMAIN uses /\ AddedBy(calls)[i] = uses[i] /\ uses[i].type = "tool_use"
  <2>1. i \in DOMAIN first \/ \E j \in DOMAIN internal : i = Len(first) + j
    BY <1>2, <1>4, <1>5, <1>6, Appended
  <2>2. \A j \in DOMAIN internal : (first \o internal)[Len(first) + j] = internal[j]
    BY <1>2, <1>5, Appended
  <2>3. i \in DOMAIN first
    BY <1>3, <1>4, <1>6, <2>1, <2>2
  <2>4. AddedBy(calls)[i] = first[i]
    BY <1>2, <1>4, <1>5, <2>3, Appended
  <2> QED
    BY <1>5, <1>6, <2>3, <2>4
<1>7. PICK off : Places(off, us)
  BY <1>1, FlattenPlaces
<1>8. ASSUME NEW n \in DOMAIN uses, uses[n].type = "tool_use"
      PROVE  \E i \in DOMAIN calls : n = off[i - 1] + 1 /\ uses[n].ref = calls[i]
  <2>1. PICK i \in 1 .. Len(us) : \E j \in 1 .. Len(us[i]) : n = off[i - 1] + j
    <3>1. n \in 1 .. Len(FlattenSeq(us))
      BY <1>1
    <3> QED
      BY <1>7, <3>1 DEF Places
  <2>2. PICK j \in 1 .. Len(us[i]) : n = off[i - 1] + j
    BY <2>1
  <2>3. uses[n] = us[i][j]
    BY <1>1, <1>7, <2>2 DEF Places
  <2>4. i \in DOMAIN calls /\ calls[i] \in Calls /\ us[i] = UseMessages(calls[i])
    BY <1>1
  <2> DEFINE u == UseOf(calls[i])
             r == ResultOf(calls[i])
  <2>5. us[i] = <<u, r>> \/ us[i] = <<u>>
    BY <2>4, UseMessagesAre
  <2>6. u.type = "tool_use" /\ u.ref = calls[i] /\ r.type = "tool_result"
    BY MessageFields
  <2> HIDE DEF u, r
  <2>7. j = 1
    BY <1>8, <2>3, <2>5, <2>6
  <2>8. uses[n] = u
    BY <2>3, <2>5, <2>7
  <2> QED
    BY <2>2, <2>4, <2>6, <2>7, <2>8
<1>9. /\ k \in DOMAIN uses /\ uses[k].type = "tool_use"
      /\ l \in DOMAIN uses /\ uses[l].type = "tool_use" /\ uses[k].ref = uses[l].ref
  BY <1>6
<1>10. PICK i \in DOMAIN calls : k = off[i - 1] + 1 /\ uses[k].ref = calls[i]
  BY <1>8, <1>9
<1>11. PICK j \in DOMAIN calls : l = off[j - 1] + 1 /\ uses[l].ref = calls[j]
  BY <1>8, <1>9
<1>12. i = j
  BY <1>9, <1>10, <1>11 DEF Distinct
<1> QED
  BY <1>10, <1>11, <1>12

\* What a message becomes in a request.
LEMMA EntriesAre ==
  ASSUME NEW ms \in Seq(Messages), NEW i \in DOMAIN ms
  PROVE  LET ts == Transformed(ms)
             left == ms[i].type = "tool_result"
                     \/ (vendor # "openai" /\ ms[i].type = "file" /\ ~ms[i].seen)
         IN
         /\ IsUse(ms[i]) => EntriesOf(ts)[i] = CallEntries(ts, ms[i].ref)
         /\ left => EntriesOf(ts)[i] = <<>>
         /\ ~IsUse(ms[i]) /\ ~left => EntriesOf(ts)[i] = <<Entry(ts[i].type, ts[i].ref)>>
<1> DEFINE ts == Transformed(ms)
<1>1. /\ DOMAIN ts = DOMAIN ms /\ ts[i].ref = ms[i].ref
      /\ ts[i].type = IF IsSeenMedia(ms[i]) THEN "masked" ELSE ms[i].type
  BY TransformedMessages
<1>2. ts[i].type = "tool_use" <=> IsUse(ms[i])
  BY <1>1 DEF IsSeenMedia, MediaTypes, IsUse
<1>3. ts[i].type = "tool_result" <=> ms[i].type = "tool_result"
  BY <1>1 DEF IsSeenMedia, MediaTypes
<1>4. ms[i].seen \in BOOLEAN
  <2>1. ms[i] \in Messages
    OBVIOUS
  <2> QED
    BY <2>1 DEF Messages
<1>5. ts[i].type = "file" <=> ms[i].type = "file" /\ ~ms[i].seen
  BY <1>1, <1>4 DEF IsSeenMedia, MediaTypes
<1> HIDE DEF ts
<1>6. EntriesOf(ts)[i] = IF vendor = "openai" THEN OpenAIEntries(ts, ts[i])
                         ELSE AnthropicEntries(ts, ts[i])
  BY <1>1 DEF EntriesOf
<1>7. /\ IsUse(ms[i]) => EntriesOf(ts)[i] = CallEntries(ts, ms[i].ref)
      /\ ms[i].type = "tool_result" \/ (vendor # "openai" /\ ms[i].type = "file" /\ ~ms[i].seen)
           => EntriesOf(ts)[i] = <<>>
      /\ ~IsUse(ms[i]) /\ ~(ms[i].type = "tool_result"
                            \/ (vendor # "openai" /\ ms[i].type = "file" /\ ~ms[i].seen))
           => EntriesOf(ts)[i] = <<Entry(ts[i].type, ts[i].ref)>>
  BY <1>1, <1>2, <1>3, <1>5, <1>6 DEF OpenAIEntries, AnthropicEntries
<1> QED
  BY <1>7 DEF ts

\* The calls of the history are those of the request, each followed by the
\* result the history has or by the text that says there is none.
LEMMA CallsFormatted ==
  ASSUME NEW ms \in Seq(Messages)
  PROVE  \E off : \A k \in DOMAIN Formatted(ms) : IsUse(Formatted(ms)[k]) =>
           \E i \in DOMAIN ms :
             /\ k = off[i - 1] + 1
             /\ IsUse(ms[i])
             /\ Formatted(ms)[k].ref = ms[i].ref
             /\ k + 1 \in DOMAIN Formatted(ms)
             /\ Formatted(ms)[k + 1] = Entry(ResultType(ms, ms[i].ref), ms[i].ref)
<1> DEFINE ts == Transformed(ms)
           es == EntriesOf(ts)
           w == Formatted(ms)
<1>1. es \in Seq(Seq(Entries)) /\ Len(es) = Len(ms) /\ w = FlattenSeq(es) /\ w \in Seq(Entries)
  BY FormattedTypes
<1>2. PICK off : Places(off, es)
  BY <1>1, FlattenPlaces
<1>3. DOMAIN ms = 1 .. Len(ms) /\ DOMAIN w = 1 .. Len(w)
  BY <1>1
<1>4. \A i \in DOMAIN ms : ResultType(ts, ms[i].ref) = ResultType(ms, ms[i].ref)
  <2>1. DOMAIN ts = DOMAIN ms /\ \A j \in DOMAIN ms :
          ts[j].ref = ms[j].ref
          /\ (ts[j].type = "tool_result" <=> ms[j].type = "tool_result")
    BY TransformedMessages DEF IsSeenMedia, MediaTypes
  <2> HIDE DEF ts
  <2> QED
    BY <2>1 DEF ResultType
<1>5. ASSUME NEW i \in DOMAIN ms
      PROVE  /\ IsUse(ms[i]) =>
                  es[i] = <<Entry("tool_use", ms[i].ref), Entry(ResultType(ms, ms[i].ref), ms[i].ref)>>
             /\ ~IsUse(ms[i]) =>
                  \/ es[i] = <<>>
                  \/ es[i] = <<Entry(ts[i].type, ts[i].ref)>> /\ ts[i].type # "tool_use"
  <2>1. ts[i].type = "tool_use" => IsUse(ms[i])
    BY TransformedMessages DEF IsSeenMedia, IsUse
  <2>2. IsUse(ms[i]) => es[i] = CallEntries(ts, ms[i].ref)
    BY EntriesAre
  <2>3. ~IsUse(ms[i]) => es[i] = <<>> \/ es[i] = <<Entry(ts[i].type, ts[i].ref)>>
    BY EntriesAre
  <2> HIDE DEF ts, es
  <2> QED
    BY <1>4, <2>1, <2>2, <2>3 DEF CallEntries, ts
<1> HIDE DEF es, w, ts
<1>6. ASSUME NEW k \in DOMAIN w, IsUse(w[k])
      PROVE  \E i \in DOMAIN ms :
               /\ k = off[i - 1] + 1
               /\ IsUse(ms[i])
               /\ w[k].ref = ms[i].ref
               /\ k + 1 \in DOMAIN w
               /\ w[k + 1] = Entry(ResultType(ms, ms[i].ref), ms[i].ref)
  <2>1. PICK i \in 1 .. Len(es) : \E j \in 1 .. Len(es[i]) : k = off[i - 1] + j
    <3>1. k \in 1 .. Len(FlattenSeq(es))
      BY <1>1, <1>3
    <3> QED
      BY <1>2, <3>1 DEF Places
  <2>2. PICK j \in 1 .. Len(es[i]) : k = off[i - 1] + j
    BY <2>1
  <2>3. w[k] = es[i][j] /\ i \in DOMAIN ms
    BY <1>1, <1>2, <1>3, <2>2 DEF Places
  <2> DEFINE r == ms[i].ref
             use == Entry("tool_use", r)
             res == Entry(ResultType(ms, r), r)
             other == Entry(ts[i].type, ts[i].ref)
  <2>4. /\ use.type = "tool_use" /\ use.ref = r /\ res.type # "tool_use" /\ other.type = ts[i].type
    BY DEF Entry, ResultType
  <2>5. /\ IsUse(ms[i]) => es[i] = <<use, res>>
        /\ ~IsUse(ms[i]) => \/ es[i] = <<>>
                            \/ es[i] = <<other>> /\ ts[i].type # "tool_use"
    BY <1>5, <2>3
  <2> HIDE DEF use, res, other, r
  <2>6. IsUse(es[i][j])
    BY <1>6, <2>3
  <2>7. IsUse(ms[i])
    BY <2>4, <2>5, <2>6 DEF IsUse
  <2>8. es[i] = <<use, res>>
    BY <2>5, <2>7
  <2>9. j = 1
    BY <2>4, <2>6, <2>8 DEF IsUse
  <2>10. w[k] = use
    BY <2>3, <2>8, <2>9
  <2>11. 2 \in 1 .. Len(es[i]) /\ es[i][2] = res
    BY <2>8
  <2>12. off[i - 1] + 2 \in 1 .. Len(w) /\ w[off[i - 1] + 2] = res
    BY <1>1, <1>2, <2>11 DEF Places
  <2>13. k + 1 = off[i - 1] + 2
    <3>1. off \in [0 .. Len(es) -> Nat]
      BY <1>2 DEF Places
    <3>2. i - 1 \in 0 .. Len(es)
      BY <1>1
    <3>3. off[i - 1] \in Nat
      BY <3>1, <3>2
    <3> QED
      BY <2>2, <2>9, <3>3
  <2> QED
    BY <1>3, <2>2, <2>3, <2>4, <2>7, <2>9, <2>10, <2>12, <2>13 DEF r, res
<1> QED
  BY <1>6 DEF w

\* The request: every call in it has its result, whatever the history adds later.
LEMMA RequestComplete ==
  ASSUME TypeInv, Recorded, InvokeOpenAI \/ InvokeAnthropic PROVE EveryCallHasItsResult'
<1> DEFINE w == Formatted(messages)
           wl == w \o Limit
<1>1. messages \in Seq(Messages) /\ phase = "ready" /\ wire' = wl
  BY DEF InvokeOpenAI, InvokeAnthropic, Invoke, InLoop, Formatted, TypeInv, TypeOK
<1>2. w \in Seq(Entries) /\ Limit \in Seq(Entries)
  BY <1>1, FormattedTypes, LimitType
<1>3. \A i \in DOMAIN Limit : ~IsUse(Limit[i])
  BY DEF Limit, Entry, IsUse
<1>4. PICK off : \A k \in DOMAIN w : IsUse(w[k]) =>
        \E i \in DOMAIN messages :
             /\ k = off[i - 1] + 1
             /\ IsUse(messages[i])
             /\ w[k].ref = messages[i].ref
             /\ k + 1 \in DOMAIN w
             /\ w[k + 1] = Entry(ResultType(messages, messages[i].ref), messages[i].ref)
  BY <1>1, CallsFormatted
<1> HIDE DEF w
<1>5. \A i \in DOMAIN messages : IsUse(messages[i]) =>
        ResultType(messages, messages[i].ref) = "tool_result"
  <2>1. awaiting = <<>>
    BY <1>1 DEF Recorded, NothingAwaited
  <2>2. Range(awaiting) = {}
    BY <2>1 DEF Range
  <2> QED
    BY <2>2 DEF Recorded, CallsAnswered, Answered, ResultType
<1>6. /\ wl \in Seq(Entries) /\ Len(wl) = Len(w) + Len(Limit)
      /\ \A k \in DOMAIN w : k \in DOMAIN wl /\ wl[k] = w[k]
  BY <1>2, Appended
<1>7. ASSUME NEW k \in DOMAIN wl, IsUse(wl[k]) PROVE k \in DOMAIN w
  <2>1. k \in DOMAIN w \/ \E j \in DOMAIN Limit : k = Len(w) + j
    BY <1>2, <1>7, Appended
  <2>2. \A j \in DOMAIN Limit : wl[Len(w) + j] = Limit[j]
    BY <1>2, Appended
  <2> QED
    BY <1>3, <1>7, <2>1, <2>2
<1> HIDE DEF wl
<1>8. DOMAIN wl = 1 .. Len(wl) /\ Len(wl) \in Nat
  BY <1>6
<1>9. ASSUME NEW k \in DOMAIN wl, IsUse(wl[k])
      PROVE  k < Len(wl) /\ wl[k + 1] = Entry("tool_result", wl[k].ref)
  <2>1. k \in DOMAIN w /\ wl[k] = w[k]
    BY <1>6, <1>7, <1>9
  <2>2. PICK i \in DOMAIN messages :
             /\ IsUse(messages[i])
             /\ w[k].ref = messages[i].ref
             /\ k + 1 \in DOMAIN w
             /\ w[k + 1] = Entry(ResultType(messages, messages[i].ref), messages[i].ref)
    BY <1>4, <1>9, <2>1
  <2>3. wl[k + 1] = w[k + 1] /\ k + 1 \in DOMAIN wl
    BY <1>6, <2>2
  <2>4. k < Len(wl)
    BY <1>8, <2>3
  <2> QED
    BY <1>5, <2>1, <2>2, <2>3, <2>4
<1>10. ASSUME NEW k \in DOMAIN wl, NEW l \in DOMAIN wl, IsUse(wl[k]), wl[k] = wl[l]
       PROVE  k = l
  <2>1. k \in DOMAIN w /\ wl[k] = w[k] /\ l \in DOMAIN w /\ wl[l] = w[l]
    BY <1>6, <1>7, <1>10
  <2>2. PICK i \in DOMAIN messages :
          k = off[i - 1] + 1 /\ IsUse(messages[i]) /\ w[k].ref = messages[i].ref
    BY <1>4, <1>10, <2>1
  <2>3. PICK j \in DOMAIN messages :
          l = off[j - 1] + 1 /\ IsUse(messages[j]) /\ w[l].ref = messages[j].ref
    BY <1>4, <1>10, <2>1
  <2>4. i = j
    BY <1>10, <2>1, <2>2, <2>3 DEF Recorded, CallsOnce
  <2> QED
    BY <2>2, <2>3, <2>4
<1>11. \A m : IsUse(m) <=> m.type = "tool_use"
  BY DEF IsUse
<1> QED
  BY <1>1, <1>9, <1>10, <1>11 DEF EveryCallHasItsResult

\* The history grows at its end.
LEMMA ResultsGrow ==
  ASSUME TypeOK, NEW s \in Seq(Messages), messages' = messages \o s
  PROVE  /\ Answered \subseteq Answered'
         /\ \A c : ResultOf(c) \in Range(s) => c \in Answered'
<1>1. messages \in Seq(Messages)
  BY DEF TypeOK
<1>2. ASSUME NEW c \in Answered PROVE c \in Answered'
  <2>1. PICK i \in DOMAIN messages : messages[i].type = "tool_result" /\ messages[i].ref = c
    BY <1>2 DEF Answered
  <2>2. i \in DOMAIN messages' /\ messages'[i] = messages[i]
    BY <1>1, <2>1, Appended
  <2> QED
    BY <2>1, <2>2 DEF Answered
<1>3. ASSUME NEW c, ResultOf(c) \in Range(s) PROVE c \in Answered'
  <2>1. PICK j \in DOMAIN s : s[j] = ResultOf(c)
    BY <1>3 DEF Range
  <2>2. Len(messages) + j \in DOMAIN messages' /\ messages'[Len(messages) + j] = s[j]
    BY <1>1, <2>1, Appended
  <2> QED
    BY <2>1, <2>2, MessageFields DEF Answered
<1> QED
  BY <1>2, <1>3

\* Steps that leave the history and what is awaited alone.
LEMMA RecordedCalm ==
  ASSUME Recorded, UNCHANGED <<messages, awaiting>>,
         issued \subseteq issued', Range(opened') \cap issued \subseteq Range(opened),
         phase \in {"ready", "waiting", "answered"}
           \/ phase' \notin {"ready", "waiting", "answered"} \/ phase' = phase,
         CallsChosen'
  PROVE  Recorded'
<1>1. CallsKnown'
  BY DEF Recorded, CallsKnown
<1>2. CallsAnswered' /\ CallsOnce' /\ NothingAwaited'
  BY DEF Recorded, CallsAnswered, CallsOnce, NothingAwaited, Answered
<1> QED
  BY <1>1, <1>2 DEF Recorded

\* Steps that add no calls to the history.
LEMMA RecordedGrows ==
  ASSUME TypeOK, Recorded, NEW s \in Seq(Messages), messages' = messages \o s,
         \A k \in DOMAIN s : ~IsUse(s[k]),
         issued' = issued, Range(opened') \subseteq Range(opened),
         \A c \in Calls \cap Range(awaiting) : c \in Answered' \/ c \in Range(awaiting'),
         NothingAwaited', CallsChosen'
  PROVE  Recorded'
<1>1. messages \in Seq(Messages) /\ issued \subseteq Calls
  BY DEF TypeOK
<1>2. ASSUME NEW k \in DOMAIN messages', IsUse(messages'[k])
      PROVE  k \in DOMAIN messages /\ messages'[k] = messages[k]
  <2>1. k \in DOMAIN messages \/ \E j \in DOMAIN s : k = Len(messages) + j
    BY <1>1, <1>2, Appended
  <2>2. \A j \in DOMAIN s : messages'[Len(messages) + j] = s[j]
    BY <1>1, Appended
  <2>3. k \in DOMAIN messages
    BY <1>2, <2>1, <2>2
  <2> QED
    BY <1>1, <2>3, Appended
<1>3. CallsKnown'
  BY <1>2 DEF Recorded, CallsKnown
<1>4. CallsOnce'
  BY <1>2 DEF Recorded, CallsOnce
<1>5. CallsAnswered'
  <2> SUFFICES ASSUME NEW k \in DOMAIN messages', IsUse(messages'[k])
               PROVE  messages'[k].ref \in Answered' \/ messages'[k].ref \in Range(awaiting')
    BY DEF CallsAnswered
  <2>1. k \in DOMAIN messages /\ messages'[k] = messages[k]
    BY <1>2
  <2>2. messages[k].ref \in Calls
    BY <1>1, <2>1 DEF Recorded, CallsKnown
  <2>3. messages[k].ref \in Answered \/ messages[k].ref \in Range(awaiting)
    BY <2>1 DEF Recorded, CallsAnswered
  <2>4. Answered \subseteq Answered'
    BY ResultsGrow
  <2> QED
    BY <2>1, <2>2, <2>3, <2>4
<1> QED
  BY <1>3, <1>4, <1>5 DEF Recorded

LEMMA RecordedAnswers ==
  ASSUME TypeInv, Assembled, Recorded, StreamedAsSent', NEW reason, Answers(reason)
  PROVE  Recorded'
<1>1. phase = "waiting" /\ Returns(Answer, reason)
  BY AnswersReturn DEF TypeInv
<1>2. /\ messages' = Seen(messages) /\ phase' = "answered"
      /\ UNCHANGED <<vendor, streaming, issued, opened, awaiting>>
  BY <1>1 DEF Returns, config, response
<1>3. DOMAIN messages' = DOMAIN messages
  BY <1>2 DEF Seen
<1>4. \A i \in DOMAIN messages :
        messages'[i].type = messages[i].type /\ messages'[i].ref = messages[i].ref
  <2> SUFFICES ASSUME NEW i \in DOMAIN messages
               PROVE messages'[i].type = messages[i].type /\ messages'[i].ref = messages[i].ref
    OBVIOUS
  <2>1. messages'[i] = [messages[i] EXCEPT !.seen = TRUE] /\ messages[i] \in Messages
    BY <1>2 DEF Seen, TypeInv, TypeOK
  <2> QED
    BY <2>1 DEF Messages
<1>5. CallsKnown' /\ CallsAnswered' /\ CallsOnce' /\ NothingAwaited'
  BY <1>1, <1>2, <1>3, <1>4
     DEF Recorded, CallsKnown, CallsAnswered, CallsOnce, NothingAwaited, Answered, IsUse
<1>6. CallsChosen'
  <2>1. opened \in Seq(Calls) /\ Distinct(opened)
    BY DEF TypeInv, TypeOK, Assembled
  <2>2. \A S : Distinct(Filter(opened, S)) /\ Range(Filter(opened, S)) \subseteq Range(opened)
    BY <2>1, FilterDistinct, FilterRange
  <2>3. \E S : result'.calls = opened \/ result'.calls = Filter(opened, S)
    <3>1. PICK S : S = {c \in Calls \ Unfinished' : IsWhole(c)' /\ Parts[c] > 0}
      OBVIOUS
    <3>2. result'.calls = opened \/ result'.calls = Filter(opened, S)
      BY <1>2, <3>1 DEF StreamedAsSent
    <3> QED
      BY <3>2
  <2>4. opened' = opened
    BY <1>2
  <2> QED
    BY <2>1, <2>2, <2>3, <2>4 DEF CallsChosen
<1> QED
  BY <1>5, <1>6 DEF Recorded

LEMMA ActGrows ==
  ASSUME TypeOK, NEW batch, Act(batch)
  PROVE  LET calls == Filter(result.calls, batch) IN
         /\ calls \in Seq(Calls) /\ AddedBy(calls) \in Seq(Messages)
         /\ messages' = messages \o AddedBy(calls)
<1> DEFINE calls == Filter(result.calls, batch)
           s == AddedBy(calls)
           u == UsesOf(calls)
           m == Results(OfKind(calls, {"mcp"}))
           n == Results(OfKind(calls, {"internal"}))
<1>1. ActOn(calls) /\ calls \in Seq(Calls) /\ messages \in Seq(Messages)
  BY ActIsOn DEF ActOn, TypeOK
<1> HIDE DEF calls
<1>2. u \in Seq(Messages) /\ m \in Seq(Messages) /\ n \in Seq(Messages)
  BY <1>1, UsesType, OfKindType, ResultsType
<1>3. messages' = ((messages \o u) \o m) \o n /\ s = (u \o m) \o n
  BY <1>1 DEF ActOn, AddedBy
<1>4. s \in Seq(Messages)
  BY <1>1, AddedRange
<1> HIDE DEF u, m, n, s
<1>5. (messages \o u) \o m = messages \o (u \o m)
  BY <1>1, <1>2, ConcatAssociative
<1>6. u \o m \in Seq(Messages)
  BY <1>2, Appended
<1>7. (messages \o (u \o m)) \o n = messages \o ((u \o m) \o n)
  <2> DEFINE um == u \o m
  <2>1. um \in Seq(Messages)
    BY <1>6
  <2> HIDE DEF um
  <2>2. (messages \o um) \o n = messages \o (um \o n)
    BY <1>1, <1>2, <2>1, ConcatAssociative
  <2> QED
    BY <2>2 DEF um
<1>8. messages' = messages \o s
  BY <1>3, <1>5, <1>7
<1> QED
  BY <1>1, <1>4, <1>8 DEF calls, s

LEMMA RecordedAct ==
  ASSUME TypeInv, Assembled, Recorded, NEW batch, Act(batch) PROVE Recorded'
<1> DEFINE calls == Filter(result.calls, batch)
           s == AddedBy(calls)
<1>1. phase = "answered" /\ opened' = <<>> /\ issued' = issued
      /\ result.calls \in Seq(Calls) /\ messages \in Seq(Messages) /\ issued \subseteq Calls
  BY DEF Act, Forget, TypeInv, TypeOK
<1>2. calls \in Seq(Calls) /\ Distinct(calls) /\ Range(calls) \subseteq Range(opened)
  <2>1. Distinct(result.calls) /\ Range(result.calls) \subseteq Range(opened)
    BY <1>1 DEF Recorded, CallsChosen
  <2> QED
    BY <1>1, <2>1, FilterType, FilterDistinct, FilterRange
<1>3. awaiting = <<>> /\ Range(awaiting) = {}
  BY <1>1 DEF Recorded, NothingAwaited, Range
<1>4. ActOn(calls)
  BY ActIsOn DEF TypeInv
<1> HIDE DEF calls
<1>5. messages' = messages \o s /\ s \in Seq(Messages)
  BY ActGrows DEF calls, TypeInv
<1>6. \A m : m \in Range(s) <=>
              \E c \in Range(calls) :
                \/ m = UseOf(c)
                \/ m = ResultOf(c) /\ Kind[c] \in {"refused", "blocked", "mcp", "internal"}
  BY <1>2, AddedRange
<1>7. ASSUME NEW k \in DOMAIN s, IsUse(s[k]) PROVE s[k].ref \in Range(calls)
  <2>1. s[k] \in Range(s)
    BY DEF Range
  <2>2. PICK c \in Range(calls) : s[k] = UseOf(c) \/ s[k] = ResultOf(c)
    BY <1>6, <2>1
  <2> QED
    BY <1>7, <2>2, MessageFields DEF IsUse
<1>8. ASSUME NEW k \in DOMAIN s, NEW l \in DOMAIN s, IsUse(s[k]), IsUse(s[l]), s[k].ref = s[l].ref
      PROVE  k = l
  BY <1>2, <1>8, AddedOnce DEF IsUse
<1>9. ASSUME NEW c \in Range(calls) PROVE c \in Answered' \/ c \in Range(awaiting')
  <2>1. c \in Calls
    BY <1>2 DEF Range
  <2>2. Kind[c] \in Kinds
    BY <2>1, LLMAssumption
  <2>3. CASE Kind[c] = "service"
    <3>1. c \in Range(OfKind(calls, {"service"}))
      BY <1>2, <2>1, <2>3, FilterRange DEF OfKind
    <3>2. /\ OfKind(calls, {"service"}) \in Seq(Calls \cup {Permission})
          /\ (IF OfKind(calls, {"blocked"}) = <<>> THEN <<>> ELSE <<Permission>>)
               \in Seq(Calls \cup {Permission})
      <4>1. OfKind(calls, {"service"}) \in Seq(Calls \cup {Permission})
        BY <1>2, OfKindType, SeqMonotonic
      <4>2. <<>> \in Seq(Calls \cup {Permission}) /\ <<Permission>> \in Seq(Calls \cup {Permission})
        OBVIOUS
      <4> QED
        BY <4>1, <4>2
    <3>3. Range(OfKind(calls, {"service"})) \subseteq Range(awaiting')
      <4> DEFINE t == IF OfKind(calls, {"blocked"}) = <<>> THEN <<>> ELSE <<Permission>>
                 v == OfKind(calls, {"service"})
      <4>1. awaiting' = v \o t
        BY <1>4 DEF ActOn
      <4>2. v \in Seq(Calls \cup {Permission}) /\ t \in Seq(Calls \cup {Permission})
        BY <3>2
      <4> HIDE DEF t, v
      <4>3. Range(v \o t) = Range(v) \cup Range(t)
        BY <4>2, RangeOfConcat
      <4> QED
        BY <4>1, <4>3 DEF v
    <3> QED
      BY <3>1, <3>3
  <2>4. CASE Kind[c] # "service"
    <3>1. ResultOf(c) \in Range(s)
      BY <1>6, <2>2, <2>4 DEF Kinds
    <3> QED
      BY <1>5, <3>1, ResultsGrow DEF TypeInv
  <2> QED
    BY <2>3, <2>4
<1> HIDE DEF s
<1>10. ASSUME NEW k \in DOMAIN messages'
       PROVE  \/ k \in DOMAIN messages /\ messages'[k] = messages[k]
              \/ \E j \in DOMAIN s : k = Len(messages) + j /\ messages'[k] = s[j]
  BY <1>1, <1>5, Appended
<1>11. \A k \in DOMAIN messages : IsUse(messages[k]) =>
         messages[k].ref \in issued \ Range(opened) /\ messages[k].ref \in Answered
  BY <1>3 DEF Recorded, CallsKnown, CallsAnswered
<1>12. Range(opened) \subseteq issued /\ Range(opened') = {}
  BY <1>1 DEF Assembled, Range
<1>13. CallsKnown'
  BY <1>1, <1>2, <1>7, <1>10, <1>11, <1>12 DEF CallsKnown
<1>14. CallsAnswered'
  <2>1. Answered \subseteq Answered'
    BY <1>5, ResultsGrow DEF TypeInv
  <2> SUFFICES ASSUME NEW k \in DOMAIN messages', IsUse(messages'[k])
               PROVE  messages'[k].ref \in Answered' \/ messages'[k].ref \in Range(awaiting')
    BY DEF CallsAnswered
  <2>2. CASE k \in DOMAIN messages /\ messages'[k] = messages[k]
    BY <1>11, <2>1, <2>2
  <2>3. CASE \E j \in DOMAIN s : k = Len(messages) + j /\ messages'[k] = s[j]
    BY <1>7, <1>9, <2>3
  <2> QED
    BY <1>10, <2>2, <2>3
<1>15. CallsOnce'
  <2> SUFFICES ASSUME NEW k \in DOMAIN messages', NEW l \in DOMAIN messages',
                      IsUse(messages'[k]), IsUse(messages'[l]),
                      messages'[k].ref = messages'[l].ref
               PROVE  k = l
    BY DEF CallsOnce
  <2>1. \A i, j \in DOMAIN messages :
          IsUse(messages[i]) /\ IsUse(messages[j]) /\ messages[i].ref = messages[j].ref => i = j
    BY DEF Recorded, CallsOnce
  <2>2. \A i \in DOMAIN messages : IsUse(messages[i]) => messages[i].ref \notin Range(calls)
    BY <1>2, <1>11
  <2> QED
    BY <1>7, <1>8, <1>10, <2>1, <2>2
<1>16. NothingAwaited'
  BY DEF NothingAwaited, Act
<1>17. CallsChosen'
  BY DEF CallsChosen, Act
<1> QED
  BY <1>13, <1>14, <1>15, <1>16, <1>17 DEF Recorded

LEMMA RecordedResume == ASSUME TypeInv, Recorded, Resume PROVE Recorded'
<1>1. Replies \in Seq(Messages) /\ Len(Replies) = Len(awaiting)
      /\ awaiting \in Seq(Calls \cup {Permission}) /\ messages' = messages \o Replies
  BY RepliesType, ResumeReplies DEF TypeInv, TypeOK
<1>2. \A k \in DOMAIN Replies : ~IsUse(Replies[k])
  BY DEF Replies, Reply, Message, IsUse
<1>3. ASSUME NEW c \in Calls \cap Range(awaiting) PROVE c \in Answered'
  <2>1. PICK i \in DOMAIN awaiting : awaiting[i] = c
    BY DEF Range
  <2>2. c # Permission
    BY LLMAssumption
  <2>3. i \in DOMAIN Replies /\ Replies[i] = ResultOf(c)
    BY <2>1, <2>2 DEF Replies, Reply, ResultOf
  <2>4. ResultOf(c) \in Range(Replies)
    BY <2>3 DEF Range
  <2> QED
    BY <1>1, <2>4, ResultsGrow DEF TypeInv
<1>4. NothingAwaited' /\ CallsChosen' /\ issued' = issued /\ opened' = opened
  BY DEF Resume, NothingAwaited, CallsChosen, response
<1> QED
  BY <1>1, <1>2, <1>3, <1>4, RecordedGrows DEF TypeInv

LEMMA RecordedOutput ==
  ASSUME TypeInv, Recorded, Accepts \/ Rejects \/ AnswersNothing PROVE Recorded'
<1>1. PICK s \in Seq(Messages), next \in {"ready", "done"} :
        Output(s, next) /\ \A k \in DOMAIN s : s[k].type \in {"text", "answer"}
  BY OutputAdds
<1>2. /\ phase = "answered" /\ phase' = next /\ opened' = <<>> /\ awaiting' = awaiting
      /\ issued' = issued /\ messages' = messages \o s
  BY <1>1 DEF Output, Forget
<1>3. awaiting = <<>> /\ Range(opened') = {}
  BY <1>2 DEF Recorded, NothingAwaited, Range
<1>4. NothingAwaited' /\ CallsChosen'
  BY <1>2, <1>3 DEF NothingAwaited, CallsChosen
<1>5. \A k \in DOMAIN s : ~IsUse(s[k])
  BY <1>1 DEF IsUse
<1>6. Range(awaiting) \subseteq Range(awaiting')
  BY <1>2
<1> QED
  BY <1>2, <1>3, <1>4, <1>5, <1>6, RecordedGrows DEF TypeInv

LEMMA RecordedOpens ==
  ASSUME TypeInv, Recorded, NEW c \in Calls, Opens(c) PROVE Recorded'
<1>1. /\ phase = "waiting" /\ phase' = "waiting" /\ c \notin issued
      /\ issued' = issued \cup {c} /\ opened' = Append(opened, c) /\ opened \in Seq(Calls)
      /\ UNCHANGED <<messages, awaiting>>
  BY DEF Opens, TypeInv, TypeOK
<1>2. Range(opened') = Range(opened) \cup {c}
  <2>1. /\ DOMAIN opened' = DOMAIN opened \cup {Len(opened) + 1}
        /\ \A i \in DOMAIN opened : opened'[i] = opened[i]
        /\ opened'[Len(opened) + 1] = c
    BY <1>1
  <2> QED
    BY <2>1 DEF Range
<1>3. CallsChosen'
  BY <1>1 DEF CallsChosen
<1> QED
  BY <1>1, <1>2, <1>3, RecordedCalm

LEMMA RecordedStep ==
  ASSUME TypeInv, Assembled, Recorded, StreamedAsSent', [Next]_vars PROVE Recorded'
<1>1. CASE \E c \in Calls : OpenAIOpens(c) \/ AnthropicOpens(c)
  BY <1>1, RecordedOpens DEF OpenAIOpens, AnthropicOpens
<1>2. ASSUME UNCHANGED <<messages, awaiting, issued, opened>>, phase \in {"ready", "waiting", "answered"}
             \/ phase' \notin {"ready", "waiting", "answered"}, phase' # "answered"
      PROVE Recorded'
  BY <1>2, RecordedCalm DEF CallsChosen
<1>3. CASE \E i \in 1 .. MaxBatch :
             OpenAIContinues(i) \/ AnthropicContinues(i) \/ AnthropicStops(i)
  BY <1>2, <1>3 DEF OpenAIContinues, AnthropicContinues, Continues, AnthropicStops
<1>4. CASE InvokeOpenAI \/ InvokeAnthropic
  BY <1>2, <1>4 DEF InvokeOpenAI, InvokeAnthropic, Invoke, InLoop, response
<1>5. CASE Says
  BY <1>2, <1>5 DEF Says
<1>6. CASE Fails \/ Exhausted
  BY <1>2, <1>6 DEF Fails, Exhausted, response
<1>7. CASE \E reason : Answers(reason)
  BY <1>7, RecordedAnswers
<1>8. CASE \E batch : Act(batch)
  BY <1>8, RecordedAct
<1>9. CASE Resume
  BY <1>9, RecordedResume
<1>10. CASE Accepts \/ Rejects \/ AnswersNothing
  BY <1>10, RecordedOutput
<1>11. CASE UNCHANGED vars
  BY <1>11 DEF vars, config, response, Recorded, CallsKnown, CallsAnswered, CallsOnce,
               NothingAwaited, CallsChosen, Answered, IsUse
<1> QED
  BY <1>1, <1>3, <1>4, <1>5, <1>6, <1>7, <1>8, <1>9, <1>10, <1>11
     DEF Next, Adapter, Loop, Answers

LEMMA RequestStep ==
  ASSUME TypeInv, Recorded, EveryCallHasItsResult, [Next]_vars PROVE EveryCallHasItsResult'
<1>1. CASE InvokeOpenAI \/ InvokeAnthropic
  BY <1>1, RequestComplete
<1>2. ASSUME wire' = wire, phase = "waiting" \/ phase' # "waiting" PROVE EveryCallHasItsResult'
  BY <1>2 DEF EveryCallHasItsResult
<1>3. CASE \E c \in Calls : OpenAIOpens(c) \/ AnthropicOpens(c)
  BY <1>2, <1>3 DEF OpenAIOpens, AnthropicOpens, Opens
<1>4. CASE \E i \in 1 .. MaxBatch :
             OpenAIContinues(i) \/ AnthropicContinues(i) \/ AnthropicStops(i)
  BY <1>2, <1>4 DEF OpenAIContinues, AnthropicContinues, Continues, AnthropicStops
<1>5. CASE Says \/ Fails \/ Exhausted \/ Resume
  BY <1>2, <1>5 DEF Says, Fails, Exhausted, Resume
<1>6. CASE \E reason : Answers(reason)
  BY <1>2, <1>6, AnswersReturn DEF Returns, TypeInv
<1>7. CASE \E batch : Act(batch)
  BY <1>2, <1>7 DEF Act
<1>8. CASE Accepts \/ Rejects \/ AnswersNothing
  BY <1>2, <1>8 DEF Accepts, Rejects, AnswersNothing, Output
<1>9. CASE UNCHANGED vars
  BY <1>9 DEF vars, EveryCallHasItsResult
<1> QED
  BY <1>1, <1>3, <1>4, <1>5, <1>6, <1>7, <1>8, <1>9 DEF Next, Adapter, Loop, Answers

LEMMA RecordedInit == Init => Recorded /\ EveryCallHasItsResult
<1> SUFFICES ASSUME Init PROVE Recorded /\ EveryCallHasItsResult
  OBVIOUS
<1>1. messages = Conversation /\ phase = "ready" /\ awaiting = <<>>
  BY DEF Init
<1>2. \A i \in DOMAIN Conversation : ~IsUse(Conversation[i])
  <2>1. DOMAIN Conversation = 1 .. (Len(Attachments) + 1) /\ Len(Attachments) \in Nat
    BY ConversationType, LLMAssumption
  <2>2. \A i \in 1 .. (Len(Attachments) + 1) : i = 1 \/ i - 1 \in Media
    BY <2>1, LLMAssumption DEF Media
  <2>3. ~IsUse(Conversation[1])
    BY ConversationType DEF Message, IsUse
  <2>4. ASSUME NEW i \in Media PROVE ~IsUse(Conversation[i + 1])
    <3>1. Attachments[i] \in MediaTypes
      BY LLMAssumption DEF Media
    <3>2. Conversation[i + 1] = Message(Attachments[i], i, FALSE)
      BY ConversationType
    <3> QED
      BY <3>1, <3>2 DEF Message, IsUse, MediaTypes
  <2>5. \A i \in 1 .. (Len(Attachments) + 1) : (i - 1) + 1 = i
    BY <2>1
  <2> QED
    BY <2>1, <2>2, <2>3, <2>4, <2>5
<1> QED
  BY <1>1, <1>2 DEF Recorded, CallsKnown, CallsAnswered, CallsOnce, NothingAwaited,
                    CallsChosen, EveryCallHasItsResult

\* No request has a call without its result or has a call twice
\* (formatMessagesForOpenAI, formatMessagesForAnthropic, agentLoop.ts:164-440):
\* whichever calls are refused, blocked, run in place or sent out, and wherever
\* in the history their results are.
THEOREM RequestsComplete == Spec => []EveryCallHasItsResult
<1> DEFINE Inv == TypeInv /\ Assembled /\ StreamedAsSent /\ Recorded /\ EveryCallHasItsResult
<1>1. Init => Inv
  BY TypeInit, ResponseInit, RecordedInit
<1>2. Inv /\ [Next]_vars => Inv'
  BY TypeStep, AssembledStep, ResponseStep, RecordedStep, RequestStep
<1>3. Inv => EveryCallHasItsResult
  OBVIOUS
<1> HIDE DEF Inv
<1> QED
  BY <1>1, <1>2, <1>3, PTL DEF Spec

-----------------------------------------------------------------------------
(* Attachments *)

\* Steps that add to the history.
LEMMA MediaGrows ==
  ASSUME TypeOK, MediaKept, UNCHANGED <<vendor, shown>>,
         NEW s \in Seq(Messages), messages' = messages \o s,
         \A k \in DOMAIN s : s[k].type \notin MediaTypes
  PROVE  MediaKept'
<1>1. messages \in Seq(Messages) /\ DOMAIN messages = 1 .. Len(messages)
      /\ Media = 1 .. Len(Attachments) /\ Len(Attachments) \in Nat /\ Len(messages) \in Nat
  BY LLMAssumption DEF TypeOK, Media
<1>2. messages' \in Seq(Messages) /\ Len(messages') = Len(messages) + Len(s) /\ Len(s) \in Nat
  BY <1>1, Appended
<1>3. \A i \in Media : i + 1 \in DOMAIN messages
  BY <1>1 DEF MediaKept
<1>4. \A k \in DOMAIN messages : messages'[k] = messages[k]
  BY <1>1, Appended
<1>5. \A k \in DOMAIN messages' : messages'[k].type \in MediaTypes => k - 1 \in Media
  <2> SUFFICES ASSUME NEW k \in DOMAIN messages', messages'[k].type \in MediaTypes
               PROVE  k - 1 \in Media
    OBVIOUS
  <2>1. k \in DOMAIN messages \/ \E j \in DOMAIN s : k = Len(messages) + j
    BY <1>1, Appended
  <2>2. \A j \in DOMAIN s : messages'[Len(messages) + j] = s[j]
    BY <1>1, Appended
  <2>3. k \in DOMAIN messages
    BY <2>1, <2>2
  <2> QED
    BY <1>4, <2>3 DEF MediaKept
<1>6. Len(messages') > Len(Attachments)
  BY <1>1, <1>2 DEF MediaKept
<1>7. Omitted' = Omitted
  BY DEF Omitted
<1> QED
  BY <1>3, <1>4, <1>5, <1>6, <1>7 DEF MediaKept

\* In a request an attachment is sent in full or masked, as the history says.
LEMMA MediaFormatted ==
  ASSUME TypeOK, MediaKept, NEW i \in Media \ Omitted, NEW t \in MediaTypes \cup {"masked"}
  PROVE  Entry(t, i) \in Range(Formatted(messages)) <=>
           t = IF messages[i + 1].seen THEN "masked" ELSE Attachments[i]
<1> DEFINE ts == Transformed(messages)
           es == EntriesOf(ts)
           x == Entry(t, i)
           shownAs == IF messages[i + 1].seen THEN "masked" ELSE Attachments[i]
<1>1. messages \in Seq(Messages) /\ DOMAIN messages = 1 .. Len(messages)
      /\ Media = 1 .. Len(Attachments) /\ Len(Attachments) \in Nat /\ Len(messages) \in Nat
  BY LLMAssumption DEF TypeOK, Media
<1>2. es \in Seq(Seq(Entries)) /\ DOMAIN es = DOMAIN messages /\ Formatted(messages) = FlattenSeq(es)
  <2>1. es \in Seq(Seq(Entries)) /\ Len(es) = Len(messages) /\ Formatted(messages) = FlattenSeq(es)
    BY <1>1, FormattedTypes
  <2> HIDE DEF es
  <2> QED
    BY <1>1, <2>1
<1>3. x \in Range(Formatted(messages)) <=> \E k \in DOMAIN messages : x \in Range(es[k])
  <2> HIDE DEF es, x
  <2> QED
    BY <1>2, FlattenRange
<1>4. x.type = t /\ x.ref = i /\ t \notin {"tool_use", "tool_result", "no_result"}
  BY DEF Entry, MediaTypes
<1>5. \A type, ref : Entry(type, ref).type = type /\ Entry(type, ref).ref = ref
  BY DEF Entry
<1>6. ASSUME NEW k \in DOMAIN messages, x \in Range(es[k])
      PROVE  ~IsUse(messages[k]) /\ es[k] = <<Entry(ts[k].type, ts[k].ref)>>
             /\ x = Entry(ts[k].type, ts[k].ref)
  <2> DEFINE r == messages[k].ref
             use == Entry("tool_use", r)
             res == Entry(ResultType(ts, r), r)
             other == Entry(ts[k].type, ts[k].ref)
  <2>1. /\ IsUse(messages[k]) => es[k] = <<use, res>>
        /\ ~IsUse(messages[k]) => es[k] = <<>> \/ es[k] = <<other>>
    BY <1>1, EntriesAre DEF CallEntries
  <2>2. use.type = "tool_use" /\ res.type \in {"tool_result", "no_result"}
    BY <1>5 DEF ResultType
  <2> HIDE DEF use, res, other, r, x, es
  <2>3. x # use /\ x # res
    BY <1>4, <2>2
  <2>4. Range(<<use, res>>) = {use, res} /\ Range(<<>>) = {} /\ Range(<<other>>) = {other}
    BY DEF Range
  <2> QED
    BY <1>6, <2>1, <2>3, <2>4 DEF other
<1>7. ASSUME NEW k \in DOMAIN messages
      PROVE  /\ ts[k].ref = messages[k].ref
             /\ ts[k].type = IF IsSeenMedia(messages[k]) THEN "masked" ELSE messages[k].type
             /\ messages[k].type \in {"text", "answer", "tool_use", "tool_result"} \cup MediaTypes
             /\ messages[k].seen \in BOOLEAN
  <2>1. messages[k] \in Messages
    BY <1>1
  <2> QED
    BY <1>1, <2>1, TransformedMessages DEF Messages
<1>8. /\ i + 1 \in DOMAIN messages /\ messages[i + 1].type = Attachments[i]
      /\ messages[i + 1].ref = i /\ Attachments[i] \in MediaTypes
  BY <1>1, LLMAssumption DEF MediaKept, Media
<1> HIDE DEF ts, es, x
<1>9. ASSUME NEW k \in DOMAIN messages, x \in Range(es[k]) PROVE t = shownAs
  <2>1. ts[k].type = t /\ ts[k].ref = i
    BY <1>4, <1>5, <1>6, <1>9
  <2>2. messages[k].type \in MediaTypes
    BY <1>7, <2>1 DEF IsSeenMedia, MediaTypes
  <2>3. k - 1 \in Media /\ (k - 1) + 1 = k
    BY <1>1, <2>2 DEF MediaKept
  <2>4. messages[k].ref = k - 1
    BY <2>3 DEF MediaKept
  <2>5. k = i + 1
    BY <1>7, <2>1, <2>3, <2>4
  <2> QED
    BY <1>7, <1>8, <2>1, <2>2, <2>5 DEF IsSeenMedia
<1>10. ASSUME t = shownAs PROVE x \in Range(es[i + 1])
  <2> DEFINE m == messages[i + 1]
  <2>1. ts[i + 1].ref = i /\ ts[i + 1].type = shownAs
    BY <1>7, <1>8 DEF IsSeenMedia
  <2>2. ~IsUse(m) /\ m.type # "tool_result"
    BY <1>8 DEF IsUse, MediaTypes
  <2>3. ~(vendor # "openai" /\ m.type = "file")
    BY <1>8 DEF Omitted, TypeOK
  <2>4. es[i + 1] = <<Entry(ts[i + 1].type, ts[i + 1].ref)>>
    BY <1>1, <1>8, <2>2, <2>3, EntriesAre DEF es, ts
  <2>5. es[i + 1] = <<x>>
    BY <1>10, <2>1, <2>4 DEF x
  <2> QED
    BY <2>5 DEF Range
<1> QED
  BY <1>3, <1>8, <1>9, <1>10 DEF x

LEMMA RequestShows ==
  ASSUME TypeInv, MediaKept, InvokeOpenAI \/ InvokeAnthropic PROVE MediaShownOnce'
<1> DEFINE w == Formatted(messages)
<1>1. messages \in Seq(Messages) /\ wire' = w \o Limit /\ vendor' = vendor /\ shown' = shown
  BY DEF InvokeOpenAI, InvokeAnthropic, Invoke, InLoop, Formatted, config, TypeInv, TypeOK
<1>2. w \in Seq(Entries) /\ Limit \in Seq(Entries)
  BY <1>1, FormattedTypes, LimitType
<1>3. \A x \in Range(Limit) : x.type = "limit"
  BY DEF Limit, Range, Entry
<1> HIDE DEF w
<1>4. Range(wire') = Range(w) \cup Range(Limit)
  BY <1>1, <1>2, RangeOfConcat
<1>5. \A t, i : Entry(t, i).type = t
  BY DEF Entry
<1>6. Omitted' = Omitted
  BY <1>1 DEF Omitted
<1>7. ASSUME NEW i \in Media \ Omitted
      PROVE  /\ shown[i] <= 1
             /\ Entry(Attachments[i], i) \in Range(wire') <=> shown[i] = 0
             /\ Entry("masked", i) \in Range(wire') <=> shown[i] = 1
  <2>1. Attachments[i] \in MediaTypes /\ "masked" \notin MediaTypes /\ "limit" \notin MediaTypes
    BY LLMAssumption DEF Media, MediaTypes
  <2>2. /\ shown[i] \in {0, 1} /\ (messages[i + 1].seen <=> shown[i] = 1)
    BY DEF MediaKept
  <2>3. Entry(Attachments[i], i) \in Range(w) <=>
          Attachments[i] = IF messages[i + 1].seen THEN "masked" ELSE Attachments[i]
    BY <2>1, MediaFormatted DEF w, TypeInv
  <2>4. Entry("masked", i) \in Range(w) <=>
          "masked" = IF messages[i + 1].seen THEN "masked" ELSE Attachments[i]
    BY <2>1, MediaFormatted DEF w, TypeInv
  <2>5. Entry(Attachments[i], i) \notin Range(Limit) /\ Entry("masked", i) \notin Range(Limit)
    BY <1>3, <1>5, <2>1
  <2> QED
    BY <1>4, <2>1, <2>2, <2>3, <2>4, <2>5
<1> QED
  BY <1>1, <1>6, <1>7 DEF MediaShownOnce

LEMMA MediaAnswers ==
  ASSUME TypeInv, MediaKept, MediaShownOnce, NEW reason, Answers(reason) PROVE MediaKept'
<1>1. phase = "waiting" /\ Returns(Answer, reason)
  BY AnswersReturn DEF TypeInv
<1>2. /\ messages' = Seen(messages) /\ vendor' = vendor /\ messages \in Seq(Messages)
      /\ shown' = [i \in Media |-> shown[i] + IF Entry(Attachments[i], i) \in Range(wire)
                                              THEN 1 ELSE 0]
  BY <1>1 DEF Returns, config, TypeInv, TypeOK
<1>3. DOMAIN messages' = DOMAIN messages /\ Len(messages') = Len(messages)
      /\ DOMAIN messages = 1 .. Len(messages) /\ Len(messages) \in Nat
      /\ Media = 1 .. Len(Attachments) /\ Len(Attachments) \in Nat
  BY <1>2, SeenType, LLMAssumption DEF Seen, Media
<1>4. ASSUME NEW k \in DOMAIN messages
      PROVE  /\ messages'[k].type = messages[k].type /\ messages'[k].ref = messages[k].ref
             /\ messages'[k].seen = TRUE
  <2>1. messages'[k] = [messages[k] EXCEPT !.seen = TRUE] /\ messages[k] \in Messages
    BY <1>2 DEF Seen
  <2> QED
    BY <2>1 DEF Messages
<1>5. \A i \in Media : i + 1 \in DOMAIN messages
  BY <1>3 DEF MediaKept
<1>6. Omitted' = Omitted
  BY <1>2 DEF Omitted
<1>7. ASSUME NEW i \in Media \ Omitted PROVE shown'[i] = 1
  <2>1. shown[i] \in {0, 1}
    BY DEF MediaKept
  <2>2. Entry(Attachments[i], i) \in Range(wire) <=> shown[i] = 0
    BY <1>1 DEF MediaShownOnce
  <2>3. shown'[i] = shown[i] + IF Entry(Attachments[i], i) \in Range(wire) THEN 1 ELSE 0
    BY <1>2
  <2> QED
    BY <2>1, <2>2, <2>3
<1>8. \A i \in Media : messages'[i + 1].type = Attachments[i] /\ messages'[i + 1].ref = i
  BY <1>4, <1>5 DEF MediaKept
<1>9. \A k \in DOMAIN messages' : messages'[k].type \in MediaTypes => k - 1 \in Media
  BY <1>3, <1>4 DEF MediaKept
<1>10. \A i \in Media \ Omitted : messages'[i + 1].seen <=> shown'[i] = 1
  BY <1>4, <1>5, <1>7
<1>11. Len(messages') > Len(Attachments)
  BY <1>3 DEF MediaKept
<1> QED
  BY <1>6, <1>7, <1>8, <1>9, <1>10, <1>11 DEF MediaKept

LEMMA MediaStep ==
  ASSUME TypeInv, MediaKept, MediaShownOnce, [Next]_vars PROVE MediaKept'
<1>1. ASSUME UNCHANGED <<messages, shown, vendor>> PROVE MediaKept'
  BY <1>1 DEF MediaKept, Omitted
<1>2. CASE \E c \in Calls : OpenAIOpens(c) \/ AnthropicOpens(c)
  BY <1>1, <1>2 DEF OpenAIOpens, AnthropicOpens, Opens, config
<1>3. CASE \E i \in 1 .. MaxBatch :
             OpenAIContinues(i) \/ AnthropicContinues(i) \/ AnthropicStops(i)
  BY <1>1, <1>3 DEF OpenAIContinues, AnthropicContinues, Continues, AnthropicStops, config
<1>4. CASE InvokeOpenAI \/ InvokeAnthropic \/ Says \/ Fails \/ Exhausted \/ UNCHANGED vars
  BY <1>1, <1>4 DEF InvokeOpenAI, InvokeAnthropic, Invoke, Says, Fails, Exhausted, config, vars
<1>5. CASE \E reason : Answers(reason)
  BY <1>5, MediaAnswers
<1>6. ASSUME NEW batch, Act(batch) PROVE MediaKept'
  <2> DEFINE calls == Filter(result.calls, batch)
             s == AddedBy(calls)
  <2>1. calls \in Seq(Calls) /\ s \in Seq(Messages) /\ messages' = messages \o s
    BY <1>6, ActGrows DEF TypeInv
  <2>2. vendor' = vendor /\ shown' = shown
    BY <1>6 DEF Act, config
  <2> HIDE DEF calls
  <2>3. ASSUME NEW k \in DOMAIN s PROVE s[k].type \notin MediaTypes
    <3>1. s[k] \in Range(s)
      BY DEF Range
    <3>2. PICK c : s[k] = UseOf(c) \/ s[k] = ResultOf(c)
      BY <2>1, <3>1, AddedRange
    <3> QED
      BY <3>2, MessageFields DEF MediaTypes
  <2> QED
    BY <2>1, <2>2, <2>3, MediaGrows DEF TypeInv
<1>7. CASE Resume
  <2>1. Replies \in Seq(Messages) /\ messages' = messages \o Replies
        /\ vendor' = vendor /\ shown' = shown
    BY <1>7, RepliesType, ResumeReplies DEF TypeInv, Resume, config
  <2>2. \A k \in DOMAIN Replies : Replies[k].type \notin MediaTypes
    BY DEF Replies, Reply, Message, MediaTypes
  <2> QED
    BY <2>1, <2>2, MediaGrows DEF TypeInv
<1>8. CASE Accepts \/ Rejects \/ AnswersNothing
  <2>1. PICK s \in Seq(Messages), next \in {"ready", "done"} :
          Output(s, next) /\ \A k \in DOMAIN s : s[k].type \in {"text", "answer"}
    BY <1>8, OutputAdds
  <2>2. messages' = messages \o s /\ vendor' = vendor /\ shown' = shown
    BY <2>1 DEF Output, config
  <2>3. \A k \in DOMAIN s : s[k].type \notin MediaTypes
    BY <2>1 DEF MediaTypes
  <2> QED
    BY <2>1, <2>2, <2>3, MediaGrows DEF TypeInv
<1> QED
  BY <1>2, <1>3, <1>4, <1>5, <1>6, <1>7, <1>8 DEF Next, Adapter, Loop, Answers

LEMMA ShownStep ==
  ASSUME TypeInv, MediaKept, MediaShownOnce, [Next]_vars PROVE MediaShownOnce'
<1>1. CASE InvokeOpenAI \/ InvokeAnthropic
  BY <1>1, RequestShows
<1>2. ASSUME phase' = "waiting" => UNCHANGED <<vendor, shown, wire, phase>> PROVE MediaShownOnce'
  BY <1>2 DEF MediaShownOnce, Omitted
<1>3. CASE \E c \in Calls : OpenAIOpens(c) \/ AnthropicOpens(c)
  BY <1>2, <1>3 DEF OpenAIOpens, AnthropicOpens, Opens, config
<1>4. CASE \E i \in 1 .. MaxBatch :
             OpenAIContinues(i) \/ AnthropicContinues(i) \/ AnthropicStops(i)
  BY <1>2, <1>4 DEF OpenAIContinues, AnthropicContinues, Continues, AnthropicStops, config
<1>5. CASE Says \/ Fails \/ Exhausted \/ Resume \/ UNCHANGED vars
  BY <1>2, <1>5 DEF Says, Fails, Exhausted, Resume, config, vars
<1>6. CASE \E reason : Answers(reason)
  BY <1>2, <1>6, AnswersReturn DEF Returns, TypeInv
<1>7. CASE \E batch : Act(batch)
  BY <1>2, <1>7 DEF Act
<1>8. CASE Accepts \/ Rejects \/ AnswersNothing
  BY <1>2, <1>8 DEF Accepts, Rejects, AnswersNothing, Output
<1> QED
  BY <1>1, <1>3, <1>4, <1>5, <1>6, <1>7, <1>8 DEF Next, Adapter, Loop, Answers

LEMMA MediaInit == Init => MediaKept /\ MediaShownOnce
<1> SUFFICES ASSUME Init PROVE MediaKept /\ MediaShownOnce
  OBVIOUS
<1>1. messages = Conversation /\ phase = "ready" /\ shown = [i \in Media |-> 0]
  BY DEF Init
<1>2. /\ Len(Conversation) = Len(Attachments) + 1
      /\ DOMAIN Conversation = 1 .. (Len(Attachments) + 1)
      /\ Len(Attachments) \in Nat /\ Media = 1 .. Len(Attachments)
  BY ConversationType, LLMAssumption DEF Media
<1>3. ASSUME NEW i \in Media
      PROVE  /\ Conversation[i + 1].type = Attachments[i] /\ Conversation[i + 1].ref = i
             /\ Conversation[i + 1].seen = FALSE
  <2>1. Conversation[i + 1] = Message(Attachments[i], i, FALSE)
    BY ConversationType
  <2> QED
    BY <2>1 DEF Message
<1>4. ASSUME NEW k \in DOMAIN Conversation, Conversation[k].type \in MediaTypes
      PROVE  k - 1 \in Media
  <2>1. Conversation[1].type = "text"
    BY ConversationType DEF Message
  <2>2. k # 1
    BY <1>4, <2>1 DEF MediaTypes
  <2> QED
    BY <1>2, <2>2
<1>5. \A i \in Media : shown[i] = 0
  BY <1>1
<1>6. Len(Conversation) > Len(Attachments)
  BY <1>2
<1>7. MediaKept
  <2>1. \A i \in Media : messages[i + 1].type = Attachments[i] /\ messages[i + 1].ref = i
    BY <1>1, <1>3
  <2>2. \A i \in Media : ~messages[i + 1].seen
    BY <1>1, <1>3
  <2>3. ASSUME NEW i \in Media \ Omitted
        PROVE  shown[i] \in {0, 1} /\ (messages[i + 1].seen <=> shown[i] = 1)
    <3>1. shown[i] = 0
      BY <1>5
    <3>2. ~messages[i + 1].seen
      BY <2>2
    <3> QED
      BY <3>1, <3>2
  <2>4. \A k \in DOMAIN messages : messages[k].type \in MediaTypes => k - 1 \in Media
    BY <1>1, <1>4
  <2> QED
    BY <1>1, <1>6, <2>1, <2>3, <2>4 DEF MediaKept
<1> QED
  BY <1>1, <1>7 DEF MediaShownOnce

\* The model sees an attachment in full until a request with it has succeeded,
\* and never again (defaultContextTransformer.ts:7-16, agentLoop.ts:155-157),
\* however long the conversation and whatever it adds.
THEOREM MediaAreShownOnce == Spec => []MediaShownOnce
<1> DEFINE Inv == TypeInv /\ MediaKept /\ MediaShownOnce
<1>1. Init => Inv
  BY TypeInit, MediaInit
<1>2. Inv /\ [Next]_vars => Inv'
  BY TypeStep, MediaStep, ShownStep
<1>3. Inv => MediaShownOnce
  OBVIOUS
<1> HIDE DEF Inv
<1> QED
  BY <1>1, <1>2, <1>3, PTL DEF Spec

-----------------------------------------------------------------------------
(* The conversation *)

LEMMA FilterConcat ==
  ASSUME NEW A, NEW s \in Seq(A), NEW t \in Seq(A), NEW S
  PROVE  Filter(s \o t, S) = Filter(s, S) \o Filter(t, S)
<1> DEFINE st == s \o t
           fs == Singles(s, S)
           ft == Singles(t, S)
           fst == Singles(st, S)
<1>1. /\ st \in Seq(A) /\ Len(st) = Len(s) + Len(t) /\ Len(s) \in Nat /\ Len(t) \in Nat
      /\ \A k \in DOMAIN s : k \in DOMAIN st /\ st[k] = s[k]
      /\ \A k \in DOMAIN t : Len(s) + k \in DOMAIN st /\ st[Len(s) + k] = t[k]
      /\ \A k \in DOMAIN st : k \in DOMAIN s \/ \E j \in DOMAIN t : k = Len(s) + j
  BY Appended
<1> HIDE DEF st
<1>2. /\ fs \in Seq(Seq(A)) /\ Len(fs) = Len(s) /\ DOMAIN fs = DOMAIN s
      /\ ft \in Seq(Seq(A)) /\ Len(ft) = Len(t) /\ DOMAIN ft = DOMAIN t
      /\ fst \in Seq(Seq(A)) /\ Len(fst) = Len(st) /\ DOMAIN fst = DOMAIN st
      /\ Filter(s, S) = FlattenSeq(fs) /\ Filter(t, S) = FlattenSeq(ft)
      /\ Filter(st, S) = FlattenSeq(fst)
  BY <1>1, SinglesType
<1>3. /\ \A k \in DOMAIN s : fs[k] = IF s[k] \in S THEN <<s[k]>> ELSE <<>>
      /\ \A k \in DOMAIN t : ft[k] = IF t[k] \in S THEN <<t[k]>> ELSE <<>>
      /\ \A k \in DOMAIN st : fst[k] = IF st[k] \in S THEN <<st[k]>> ELSE <<>>
  BY DEF Singles
<1> HIDE DEF fs, ft, fst
<1>4. /\ fs \o ft \in Seq(Seq(A)) /\ Len(fs \o ft) = Len(fs) + Len(ft)
      /\ \A k \in DOMAIN fs : (fs \o ft)[k] = fs[k]
      /\ \A k \in DOMAIN ft : (fs \o ft)[Len(fs) + k] = ft[k]
  <2>1. fs \in Seq(Seq(A)) /\ ft \in Seq(Seq(A))
    BY <1>2
  <2> QED
    BY <2>1, Appended
<1>5. ASSUME NEW k \in DOMAIN st PROVE fst[k] = (fs \o ft)[k]
  <2>1. CASE k \in DOMAIN s
    <3>1. st[k] = s[k] /\ (fs \o ft)[k] = fs[k]
      BY <1>1, <1>2, <1>4, <2>1
    <3>2. fst[k] = fs[k]
      BY <1>3, <2>1, <3>1
    <3> QED
      BY <3>1, <3>2
  <2>2. CASE \E j \in DOMAIN t : k = Len(s) + j
    <3>1. PICK j \in DOMAIN t : k = Len(s) + j
      BY <2>2
    <3>2. st[k] = t[j] /\ (fs \o ft)[k] = ft[j]
      BY <1>1, <1>2, <1>4, <3>1
    <3>3. fst[k] = ft[j]
      BY <1>3, <3>1, <3>2
    <3> QED
      BY <3>2, <3>3
  <2> QED
    BY <1>1, <2>1, <2>2
<1>6. fst = fs \o ft
  <2>1. DOMAIN st = 1 .. Len(fst) /\ Len(fst) = Len(fs \o ft)
    BY <1>1, <1>2, <1>4
  <2>2. \A k \in 1 .. Len(fst) : fst[k] = (fs \o ft)[k]
    BY <1>5, <2>1
  <2> DEFINE fj == fs \o ft
  <2>3. fj \in Seq(Seq(A)) /\ Len(fst) = Len(fj) /\ \A k \in 1 .. Len(fst) : fst[k] = fj[k]
    BY <1>4, <2>1, <2>2
  <2> HIDE DEF fj
  <2>4. fst = fj
    BY <1>2, <2>3, SeqEqual
  <2> QED
    BY <2>4 DEF fj
<1>7. FlattenSeq(fs \o ft) = FlattenSeq(fs) \o FlattenSeq(ft)
  BY <1>2, FlattenConcat
<1> QED
  BY <1>2, <1>6, <1>7 DEF st

\* What Lasting keeps and what it makes of it.
Keeps == {x \in Entries : x.type # "limit" /\ x.ref \notin Omitted}
View(x) == IF x.ref \in Media THEN Entry("media", x.ref) ELSE x
Views == Entries \cup {Entry("media", i) : i \in Media}

LEMMA LastingIs ==
  ASSUME NEW w \in Seq(Entries)
  PROVE  /\ Filter(w, Keeps) \in Seq(Entries)
         /\ Lasting(w) = [i \in DOMAIN Filter(w, Keeps) |-> View(Filter(w, Keeps)[i])]
         /\ Lasting(w) \in Seq(Views) /\ Len(Lasting(w)) = Len(Filter(w, Keeps))
         /\ \A i \in DOMAIN Lasting(w) :
              i \in DOMAIN Filter(w, Keeps) /\ Lasting(w)[i] = View(Filter(w, Keeps)[i])
<1> DEFINE kept == Filter(w, Keeps)
           same == Filter(w, {x \in Range(w) : x.type # "limit" /\ x.ref \notin Omitted})
<1>1. kept = same
  <2>1. \A i \in DOMAIN w : w[i] \in Entries /\ w[i] \in Range(w)
    BY DEF Range
  <2>2. \A i \in DOMAIN w :
          w[i] \in Keeps <=> w[i] \in {x \in Range(w) : x.type # "limit" /\ x.ref \notin Omitted}
    BY <2>1 DEF Keeps
  <2> QED
    BY <2>2, FilterSame
<1>2. Lasting(w) = [i \in DOMAIN same |->
                      IF same[i].ref \in Media THEN Entry("media", same[i].ref) ELSE same[i]]
  BY DEF Lasting
<1> HIDE DEF same
<1>3. Lasting(w) = [i \in DOMAIN kept |-> View(kept[i])]
  BY <1>1, <1>2 DEF View
<1>4. kept \in Seq(Entries)
  BY FilterType
<1> HIDE DEF kept
<1>5. \A i \in DOMAIN kept : View(kept[i]) \in Views
  BY <1>4 DEF View, Views
<1>6. Lasting(w) \in [1 .. Len(kept) -> Views] /\ Len(kept) \in Nat /\ DOMAIN kept = 1 .. Len(kept)
  BY <1>3, <1>4, <1>5
<1>7. Lasting(w) \in Seq(Views) /\ Len(Lasting(w)) = Len(kept) /\ DOMAIN Lasting(w) = DOMAIN kept
  BY <1>6
<1>8. \A i \in DOMAIN kept : Lasting(w)[i] = View(kept[i])
  BY <1>3
<1> QED
  BY <1>3, <1>4, <1>7, <1>8 DEF kept

LEMMA LastingConcat ==
  ASSUME NEW u \in Seq(Entries), NEW v \in Seq(Entries)
  PROVE  Lasting(u \o v) = Lasting(u) \o Lasting(v)
<1> DEFINE uv == u \o v
           f == Filter(u, Keeps)
           g == Filter(v, Keeps)
           h == Filter(uv, Keeps)
           lu == Lasting(u)
           lv == Lasting(v)
           luv == Lasting(uv)
<1>1. uv \in Seq(Entries)
  BY Appended
<1>2. h = f \o g
  BY FilterConcat
<1> HIDE DEF uv
<1>3. /\ f \in Seq(Entries) /\ lu \in Seq(Views) /\ Len(lu) = Len(f)
      /\ g \in Seq(Entries) /\ lv \in Seq(Views) /\ Len(lv) = Len(g)
      /\ h \in Seq(Entries) /\ luv \in Seq(Views) /\ Len(luv) = Len(h)
      /\ \A i \in DOMAIN lu : i \in DOMAIN f /\ lu[i] = View(f[i])
      /\ \A i \in DOMAIN lv : i \in DOMAIN g /\ lv[i] = View(g[i])
      /\ \A i \in DOMAIN luv : i \in DOMAIN h /\ luv[i] = View(h[i])
  BY <1>1, LastingIs
<1> HIDE DEF f, g, h, lu, lv, luv
<1>4. /\ lu \o lv \in Seq(Views) /\ Len(lu \o lv) = Len(lu) + Len(lv)
      /\ \A k \in DOMAIN lu : (lu \o lv)[k] = lu[k]
      /\ \A k \in DOMAIN lv : (lu \o lv)[Len(lu) + k] = lv[k]
  <2>1. lu \in Seq(Views) /\ lv \in Seq(Views)
    BY <1>3
  <2> QED
    BY <2>1, Appended
<1>5. /\ Len(h) = Len(f) + Len(g)
      /\ \A k \in DOMAIN f : h[k] = f[k]
      /\ \A k \in DOMAIN g : h[Len(f) + k] = g[k]
      /\ \A k \in DOMAIN h : k \in DOMAIN f \/ \E j \in DOMAIN g : k = Len(f) + j
  BY <1>2, <1>3, Appended
<1>6. DOMAIN lu = DOMAIN f /\ DOMAIN lv = DOMAIN g /\ DOMAIN luv = DOMAIN h
  BY <1>3
<1>7. ASSUME NEW k \in DOMAIN luv PROVE luv[k] = (lu \o lv)[k]
  <2>1. CASE k \in DOMAIN f
    <3>1. (lu \o lv)[k] = View(f[k])
      BY <1>3, <1>4, <1>6, <2>1
    <3>2. luv[k] = View(f[k])
      BY <1>3, <1>5, <2>1
    <3> QED
      BY <3>1, <3>2
  <2>2. CASE \E j \in DOMAIN g : k = Len(f) + j
    <3>1. PICK j \in DOMAIN g : k = Len(f) + j
      BY <2>2
    <3>2. (lu \o lv)[k] = View(g[j])
      BY <1>3, <1>4, <1>6, <3>1
    <3>3. luv[k] = View(g[j])
      BY <1>3, <1>5, <3>1
    <3> QED
      BY <3>2, <3>3
  <2> QED
    BY <1>5, <1>6, <2>1, <2>2
<1> DEFINE lj == lu \o lv
<1>8. lj \in Seq(Views) /\ Len(luv) = Len(lj) /\ \A k \in 1 .. Len(luv) : luv[k] = lj[k]
  BY <1>3, <1>4, <1>5, <1>7
<1> HIDE DEF lj
<1>9. luv = lj
  BY <1>3, <1>8, SeqEqual
<1> QED
  BY <1>9 DEF lj, luv, lu, lv, uv

LEMMA LastingEmpty == Lasting(<<>>) = <<>>
<1>1. <<>> \in Seq(Entries) /\ DOMAIN <<>> = {}
  OBVIOUS
<1>2. Filter(<<>>, Keeps) = <<>>
  <2>1. Singles(<<>>, Keeps) = <<>>
    BY <1>1 DEF Singles
  <2> QED
    BY <1>1, <2>1, SinglesType, FlattenEmpty
<1>3. Len(Lasting(<<>>)) = 0 /\ Lasting(<<>>) \in Seq(Views)
  BY <1>1, <1>2, LastingIs
<1> QED
  BY <1>3

LEMMA LastingOne ==
  ASSUME NEW x \in Entries
  PROVE  Lasting(<<x>>) = IF x \in Keeps THEN <<View(x)>> ELSE <<>>
<1> DEFINE one == <<x>>
           kept == Filter(one, Keeps)
           it == IF x \in Keeps THEN <<x>> ELSE <<>>
<1>1. one \in Seq(Entries) /\ DOMAIN one = 1 .. 1 /\ one[1] = x /\ Len(one) = 1
  OBVIOUS
<1>2. it \in Seq(Entries)
  OBVIOUS
<1> HIDE DEF one, it
<1>3. kept = it
  <2> DEFINE ss == Singles(one, Keeps)
  <2>1. ss \in Seq(Seq(Entries)) /\ Len(ss) = 1 /\ kept = FlattenSeq(ss)
    BY <1>1, SinglesType
  <2>2. ss[1] = it
    BY <1>1 DEF Singles, it
  <2> HIDE DEF ss
  <2> DEFINE tt == <<it>>
  <2>3. tt \in Seq(Seq(Entries)) /\ Len(tt) = 1 /\ tt[1] = it
    BY <1>2
  <2> HIDE DEF tt
  <2>4. \A k \in 1 .. 1 : ss[k] = tt[k]
    BY <2>2, <2>3
  <2>5. ss = tt
    BY <2>1, <2>3, <2>4, SeqEqual
  <2>6. FlattenSeq(tt) = it
    BY <1>2, FlattenOne DEF tt
  <2> QED
    BY <2>1, <2>5, <2>6
<1> HIDE DEF kept
<1>4. /\ Lasting(one) \in Seq(Views) /\ Len(Lasting(one)) = Len(it)
      /\ \A i \in DOMAIN Lasting(one) : Lasting(one)[i] = View(it[i])
  BY <1>1, <1>3, LastingIs DEF kept
<1>5. CASE x \in Keeps
  <2> DEFINE v == View(x)
             ll == Lasting(one)
             vv == <<v>>
  <2>1. it = <<x>>
    BY <1>5 DEF it
  <2>2. Len(it) = 1 /\ it[1] = x
    BY <2>1
  <2>3. ll \in Seq(Views) /\ Len(ll) = 1 /\ \A i \in DOMAIN ll : ll[i] = View(it[i])
    BY <1>4, <2>2
  <2>4. ll[1] = v
    <3> HIDE DEF ll
    <3>1. 1 \in DOMAIN ll
      BY <2>3
    <3> QED
      BY <2>2, <2>3, <3>1
  <2>5. v \in Views
    BY DEF View, Views
  <2> HIDE DEF v, ll
  <2>6. vv \in Seq(Views) /\ Len(vv) = 1 /\ vv[1] = v
    BY <2>5
  <2> HIDE DEF vv
  <2>7. \A k \in 1 .. 1 : ll[k] = vv[k]
    BY <2>4, <2>6
  <2>8. ll = vv
    BY <2>3, <2>6, <2>7, SeqEqual
  <2> QED
    BY <1>5, <2>8 DEF ll, vv, v, one
<1>6. CASE x \notin Keeps
  <2>1. Len(it) = 0
    BY <1>6 DEF it
  <2>2. Lasting(one) = <<>>
    BY <1>4, <2>1
  <2> QED
    BY <1>6, <2>2 DEF one
<1> QED
  BY <1>5, <1>6

\* Lasting takes the entries one by one.
LEMMA LastingFlatten ==
  ASSUME NEW ss \in Seq(Seq(Entries))
  PROVE  Lasting(FlattenSeq(ss)) = FlattenSeq([i \in DOMAIN ss |-> Lasting(ss[i])])
<1> DEFINE Each(tt) == [i \in DOMAIN tt |-> Lasting(tt[i])]
           S == {n \in Nat : \A tt \in Seq(Seq(Entries)) : Len(tt) = n =>
                   Lasting(FlattenSeq(tt)) = FlattenSeq(Each(tt))}
<1>1. 0 \in S
  <2>1. ASSUME NEW tt \in Seq(Seq(Entries)), Len(tt) = 0
        PROVE  Lasting(FlattenSeq(tt)) = FlattenSeq(Each(tt))
    <3>1. tt = <<>> /\ DOMAIN tt = {}
      BY <2>1
    <3>2. Each(tt) = <<>>
      BY <3>1
    <3> HIDE DEF Each
    <3> QED
      BY <3>1, <3>2, FlattenEmpty, LastingEmpty
  <2> HIDE DEF Each
  <2> QED
    BY <2>1
<1>2. ASSUME NEW n \in Nat, n \in S PROVE n + 1 \in S
  <2>1. ASSUME NEW tt \in Seq(Seq(Entries)), Len(tt) = n + 1
        PROVE  Lasting(FlattenSeq(tt)) = FlattenSeq(Each(tt))
    <3> DEFINE front == [k \in 1 .. n |-> tt[k]]
               last == tt[n + 1]
    <3>1. front \in Seq(Seq(Entries)) /\ tt = Append(front, last)
      BY <2>1, FrontLast
    <3>2. n + 1 \in DOMAIN tt /\ last \in Seq(Entries) /\ DOMAIN tt = 1 .. (n + 1)
      BY <2>1
    <3>3. DOMAIN front = 1 .. n /\ Len(front) = n /\ \A k \in 1 .. n : front[k] = tt[k]
      <4>1. DOMAIN front = 1 .. n /\ \A k \in 1 .. n : front[k] = tt[k]
        OBVIOUS
      <4> HIDE DEF front
      <4> QED
        BY <3>1, <4>1
    <3> HIDE DEF front, last
    <3>4. FlattenSeq(tt) = FlattenSeq(front) \o last
      BY <3>1, <3>2, FlattenAppend
    <3>5. FlattenSeq(front) \in Seq(Entries)
      BY <3>1, FlattenType
    <3>6. Lasting(FlattenSeq(tt)) = Lasting(FlattenSeq(front)) \o Lasting(last)
      BY <3>2, <3>4, <3>5, LastingConcat
    <3>7. Lasting(FlattenSeq(front)) = FlattenSeq(Each(front))
      <4> HIDE DEF Each
      <4> QED
        BY <1>2, <3>1, <3>3
    <3>8. Each(tt) \in Seq(Seq(Views)) /\ Len(Each(tt)) = n + 1 /\ DOMAIN Each(tt) = 1 .. (n + 1)
      <4>1. \A k \in 1 .. (n + 1) : tt[k] \in Seq(Entries)
        BY <2>1
      <4>2. \A k \in 1 .. (n + 1) : Lasting(tt[k]) \in Seq(Views)
        BY <4>1, LastingIs
      <4>3. Each(tt) \in [1 .. (n + 1) -> Seq(Views)]
        BY <3>2, <4>2
      <4> HIDE DEF Each
      <4> QED
        BY <4>3
    <3>9. Each(tt)[n + 1] = Lasting(last)
      BY <3>2 DEF last
    <3>10. [k \in 1 .. n |-> Each(tt)[k]] = Each(front)
      <4>1. \A k \in 1 .. n : k \in DOMAIN tt
        BY <3>2
      <4>2. \A k \in 1 .. n : Each(tt)[k] = Lasting(tt[k]) /\ Lasting(tt[k]) = Lasting(front[k])
        BY <3>3, <4>1
      <4>3. Each(front) = [k \in 1 .. n |-> Lasting(front[k])]
        BY <3>3
      <4> HIDE DEF Each
      <4> QED
        BY <4>2, <4>3
    <3> HIDE DEF Each
    <3>11. Each(front) \in Seq(Seq(Views)) /\ Each(tt) = Append(Each(front), Each(tt)[n + 1])
      <4> DEFINE et == Each(tt)
      <4>1. et \in Seq(Seq(Views)) /\ Len(et) = n + 1
        BY <3>8
      <4> HIDE DEF et
      <4>2. [k \in 1 .. n |-> et[k]] \in Seq(Seq(Views))
            /\ et = Append([k \in 1 .. n |-> et[k]], et[n + 1])
        BY <4>1, FrontLast
      <4>3. [k \in 1 .. n |-> et[k]] = Each(front)
        BY <3>10 DEF et
      <4> QED
        BY <4>2, <4>3 DEF et
    <3>12. Lasting(last) \in Seq(Views)
      BY <3>2, LastingIs
    <3>13. FlattenSeq(Each(tt)) = FlattenSeq(Each(front)) \o Lasting(last)
      BY <3>9, <3>11, <3>12, FlattenAppend
    <3> QED
      BY <3>6, <3>7, <3>13
  <2> HIDE DEF Each
  <2> QED
    BY <2>1
<1>3. Nat \subseteq S
  <2> HIDE DEF S
  <2> QED
    BY <1>1, <1>2, SetInduction
<1>4. Len(ss) \in S
  <2>1. Len(ss) \in Nat
    OBVIOUS
  <2> HIDE DEF S
  <2> QED
    BY <1>3, <2>1
<1>5. Lasting(FlattenSeq(ss)) = FlattenSeq(Each(ss))
  <2> HIDE DEF Each
  <2> QED
    BY <1>4
<1> QED
  BY <1>5

\* What a message of the history lastingly is in a request, once it has its
\* result.
Piece(m) ==
  IF IsUse(m) THEN <<Entry("tool_use", m.ref), Entry("tool_result", m.ref)>>
  ELSE IF m.type = "tool_result" \/ m.ref \in Omitted THEN <<>>
  ELSE <<View(Entry(m.type, m.ref))>>

PiecesTo(n) == [i \in 1 .. n |-> Piece(messages[i])]

\* The last request was a beginning of the history.
Covered == \E n \in 0 .. Len(messages) : Lasting(wire) = FlattenSeq(PiecesTo(n))

LEMMA LastingPiece ==
  ASSUME TypeInv, Recorded, MediaKept, phase = "ready", NEW i \in DOMAIN messages
  PROVE  Lasting(EntriesOf(Transformed(messages))[i]) = Piece(messages[i])
<1> DEFINE ts == Transformed(messages)
           es == EntriesOf(ts)
           m == messages[i]
<1>1. messages \in Seq(Messages) /\ m \in Messages /\ issued \subseteq Calls
      /\ i \in 1 .. Len(messages)
  BY DEF TypeInv, TypeOK
<1>2. m.type \in {"text", "answer", "tool_use", "tool_result"} \cup MediaTypes /\ m.ref \in Refs
  BY <1>1 DEF Messages
<1>3. /\ DOMAIN ts = DOMAIN messages /\ ts[i].ref = m.ref
      /\ ts[i].type = IF IsSeenMedia(m) THEN "masked" ELSE m.type
      /\ Entry(ts[i].type, ts[i].ref) \in Entries
  BY <1>1, TransformedMessages
<1>4. Media \subseteq Nat /\ Omitted \subseteq Media
  BY LLMAssumption DEF Media, Omitted
<1>5. m.type \in MediaTypes => m.ref \in Media /\ m.type = Attachments[m.ref]
  <2> SUFFICES ASSUME m.type \in MediaTypes PROVE m.ref \in Media /\ m.type = Attachments[m.ref]
    OBVIOUS
  <2>1. i - 1 \in Media /\ (i - 1) + 1 = i
    BY <1>1 DEF MediaKept
  <2> QED
    BY <2>1 DEF MediaKept
<1>6. CASE IsUse(m)
  <2> DEFINE c == m.ref
             use == Entry("tool_use", c)
             res == Entry("tool_result", c)
  <2>1. c \in Calls
    BY <1>1, <1>6 DEF Recorded, CallsKnown
  <2>2. c \notin Media /\ c \notin Omitted /\ c \in Refs
    BY <1>4, <2>1, LLMAssumption DEF Refs
  <2>3. c \in Answered
    <3>1. Range(awaiting) = {}
      BY DEF Recorded, NothingAwaited, Range
    <3> QED
      BY <1>6, <3>1 DEF Recorded, CallsAnswered
  <2>4. ResultType(ts, c) = "tool_result"
    <3>1. PICK j \in DOMAIN messages : messages[j].type = "tool_result" /\ messages[j].ref = c
      BY <2>3 DEF Answered
    <3>2. j \in DOMAIN ts /\ ts[j].type = "tool_result" /\ ts[j].ref = c
      BY <1>1, <3>1, TransformedMessages DEF IsSeenMedia, MediaTypes
    <3> QED
      BY <3>2 DEF ResultType
  <2>5. es[i] = <<use, res>>
    BY <1>1, <1>6, <2>4, EntriesAre DEF CallEntries
  <2>6. /\ use \in Entries /\ use.type = "tool_use" /\ use.ref = c
        /\ res \in Entries /\ res.type = "tool_result" /\ res.ref = c
    BY <2>2 DEF Entry, Entries
  <2>7. Piece(m) = <<use, res>>
    BY <1>6 DEF Piece
  <2> HIDE DEF use, res, c, es, m
  <2>8. use \in Keeps /\ res \in Keeps /\ View(use) = use /\ View(res) = res
    BY <2>2, <2>6 DEF Keeps, View
  <2>9. Lasting(<<use>>) = <<use>> /\ Lasting(<<res>>) = <<res>>
    BY <2>6, <2>8, LastingOne
  <2>10. <<use, res>> = <<use>> \o <<res>>
    BY <2>6, JoinOfTwo
  <2>11. <<use>> \in Seq(Entries) /\ <<res>> \in Seq(Entries)
    BY <2>6
  <2>12. Lasting(<<use>> \o <<res>>) = Lasting(<<use>>) \o Lasting(<<res>>)
    BY <2>11, LastingConcat
  <2> QED
    BY <2>5, <2>7, <2>9, <2>10, <2>12 DEF es, m
<1>7. CASE m.type = "tool_result" \/ (vendor # "openai" /\ m.type = "file" /\ ~m.seen)
  <2>1. es[i] = <<>>
    BY <1>1, <1>7, EntriesAre
  <2>2. m.type = "tool_result" \/ m.ref \in Omitted
    BY <1>5, <1>7 DEF Omitted, MediaTypes, TypeInv, TypeOK
  <2>3. ~IsUse(m)
    BY <1>7 DEF IsUse
  <2>4. Piece(m) = <<>>
    BY <2>2, <2>3 DEF Piece
  <2> QED
    BY <2>1, <2>4, LastingEmpty
<1>8. CASE ~IsUse(m) /\ ~(m.type = "tool_result" \/ (vendor # "openai" /\ m.type = "file" /\ ~m.seen))
  <2> DEFINE x == Entry(ts[i].type, ts[i].ref)
             y == Entry(m.type, m.ref)
  <2>1. es[i] = <<x>>
    BY <1>1, <1>8, EntriesAre
  <2>2. x.type # "limit" /\ x.ref = m.ref /\ y.ref = m.ref /\ x \in Entries
    BY <1>2, <1>3 DEF Entry, MediaTypes
  <2>3. m.ref \notin Media => x = y
    BY <1>3, <1>5 DEF IsSeenMedia
  <2>4. Piece(m) = IF m.ref \in Omitted THEN <<>> ELSE <<View(y)>>
    BY <1>8 DEF Piece
  <2> HIDE DEF x, y, es, ts, m
  <2>5. View(x) = View(y)
    BY <2>2, <2>3 DEF View
  <2>6. x \in Keeps <=> m.ref \notin Omitted
    BY <2>2 DEF Keeps
  <2>7. Lasting(<<x>>) = IF x \in Keeps THEN <<View(x)>> ELSE <<>>
    BY <2>2, LastingOne
  <2> QED
    BY <2>1, <2>4, <2>5, <2>6, <2>7 DEF es, ts, m
<1> QED
  BY <1>6, <1>7, <1>8

LEMMA PiecesType ==
  ASSUME TypeOK, NEW n \in 0 .. Len(messages)
  PROVE  PiecesTo(n) \in Seq(Seq(Views)) /\ Len(PiecesTo(n)) = n
<1>1. messages \in Seq(Messages) /\ n \in Nat
  BY DEF TypeOK
<1>2. ASSUME NEW i \in 1 .. n PROVE Piece(messages[i]) \in Seq(Views)
  <2> DEFINE m == messages[i]
             use == Entry("tool_use", m.ref)
             res == Entry("tool_result", m.ref)
             x == View(Entry(m.type, m.ref))
  <2>1. m \in Messages
    BY <1>1
  <2>2. m.ref \in Refs /\ m.type \in {"text", "answer", "tool_use", "tool_result"} \cup MediaTypes
    BY <2>1 DEF Messages
  <2>3. use \in Views /\ res \in Views
    BY <2>2 DEF Entry, Entries, Views
  <2>4. x \in Views
    BY <2>2 DEF Entry, Entries, Views, View
  <2>5. Piece(m) = <<use, res>> \/ Piece(m) = <<>> \/ Piece(m) = <<x>>
    BY DEF Piece
  <2> HIDE DEF use, res, x, m
  <2>6. <<use, res>> \in Seq(Views) /\ <<>> \in Seq(Views) /\ <<x>> \in Seq(Views)
    BY <2>3, <2>4
  <2> QED
    BY <2>5, <2>6 DEF m
<1>3. PiecesTo(n) \in [1 .. n -> Seq(Views)]
  BY <1>2 DEF PiecesTo
<1> QED
  BY <1>1, <1>3

\* A request is all of the history.
LEMMA RequestPieces ==
  ASSUME TypeInv, Recorded, MediaKept, InvokeOpenAI \/ InvokeAnthropic
  PROVE  Lasting(wire') = FlattenSeq(PiecesTo(Len(messages)))
<1> DEFINE w == Formatted(messages)
           es == EntriesOf(Transformed(messages))
           all == [i \in DOMAIN es |-> Lasting(es[i])]
<1>1. messages \in Seq(Messages) /\ phase = "ready" /\ wire' = w \o Limit
  BY DEF InvokeOpenAI, InvokeAnthropic, Invoke, InLoop, Formatted, TypeInv, TypeOK
<1>2. /\ w \in Seq(Entries) /\ Limit \in Seq(Entries) /\ w = FlattenSeq(es)
      /\ es \in Seq(Seq(Entries)) /\ Len(es) = Len(messages)
  BY <1>1, FormattedTypes, LimitType
<1>3. Lasting(Limit) = <<>>
  <2> DEFINE x == Entry("limit", None)
  <2>1. x \in Entries /\ x \notin Keeps
    BY DEF Entry, Entries, Refs, Keeps
  <2>2. Limit = <<>> \/ Limit = <<x>>
    BY DEF Limit
  <2> HIDE DEF x
  <2>3. Lasting(<<x>>) = <<>>
    BY <2>1, LastingOne
  <2> QED
    BY <2>2, <2>3, LastingEmpty
<1>4. Lasting(w) = FlattenSeq(all)
  <2> HIDE DEF es
  <2> QED
    BY <1>2, LastingFlatten
<1>5. all = PiecesTo(Len(messages))
  <2>1. \A i \in DOMAIN messages : Lasting(es[i]) = Piece(messages[i])
    BY <1>1, LastingPiece
  <2>2. DOMAIN es = 1 .. Len(messages) /\ DOMAIN messages = 1 .. Len(messages)
    <3> HIDE DEF es
    <3> QED
      BY <1>1, <1>2
  <2> HIDE DEF es
  <2> QED
    BY <2>1, <2>2 DEF PiecesTo
<1> HIDE DEF w
<1>6. Lasting(w \o Limit) = Lasting(w) \o Lasting(Limit)
  BY <1>2, LastingConcat
<1>7. Lasting(w) \o <<>> = Lasting(w)
  BY <1>2, LastingIs, ConcatEmptySeq
<1> QED
  BY <1>1, <1>3, <1>4, <1>5, <1>6, <1>7

\* What a message is in requests does not change, and only a request changes wire.
LEMMA HistoryKept ==
  ASSUME TypeInv, [Next]_vars
  PROVE  /\ vendor' = vendor
         /\ \A i \in DOMAIN messages :
              /\ i \in DOMAIN messages'
              /\ messages'[i].type = messages[i].type /\ messages'[i].ref = messages[i].ref
         /\ wire' = wire \/ InvokeOpenAI \/ InvokeAnthropic
<1> DEFINE Stays == \A i \in DOMAIN messages :
                      /\ i \in DOMAIN messages'
                      /\ messages'[i].type = messages[i].type
                      /\ messages'[i].ref = messages[i].ref
<1>1. messages \in Seq(Messages)
  BY DEF TypeInv, TypeOK
<1>2. ASSUME messages' = messages PROVE Stays
  BY <1>2
<1>3. ASSUME NEW s \in Seq(Messages), messages' = messages \o s PROVE Stays
  BY <1>1, <1>3, Appended
<1> HIDE DEF Stays
<1>4. CASE \E c \in Calls : OpenAIOpens(c) \/ AnthropicOpens(c)
  BY <1>2, <1>4 DEF OpenAIOpens, AnthropicOpens, Opens, config, Stays
<1>5. CASE \E i \in 1 .. MaxBatch :
             OpenAIContinues(i) \/ AnthropicContinues(i) \/ AnthropicStops(i)
  BY <1>2, <1>5 DEF OpenAIContinues, AnthropicContinues, Continues, AnthropicStops, config, Stays
<1>6. CASE InvokeOpenAI \/ InvokeAnthropic
  BY <1>2, <1>6 DEF InvokeOpenAI, InvokeAnthropic, Invoke, config, Stays
<1>7. CASE Says \/ Fails \/ Exhausted \/ UNCHANGED vars
  BY <1>2, <1>7 DEF Says, Fails, Exhausted, config, vars, Stays
<1>8. ASSUME NEW reason, Answers(reason)
      PROVE  Stays /\ vendor' = vendor /\ wire' = wire
  <2>1. messages' = Seen(messages) /\ vendor' = vendor /\ wire' = wire
    BY <1>8, AnswersReturn DEF Returns, config, TypeInv
  <2>2. ASSUME NEW i \in DOMAIN messages
        PROVE  /\ i \in DOMAIN messages'
               /\ messages'[i].type = messages[i].type /\ messages'[i].ref = messages[i].ref
    <3>1. messages'[i] = [messages[i] EXCEPT !.seen = TRUE] /\ messages[i] \in Messages
          /\ i \in DOMAIN messages'
      BY <1>1, <2>1 DEF Seen
    <3> QED
      BY <3>1 DEF Messages
  <2> QED
    BY <2>1, <2>2 DEF Stays
<1>9. ASSUME NEW batch, Act(batch) PROVE Stays /\ vendor' = vendor /\ wire' = wire
  <2>1. \E s \in Seq(Messages) : messages' = messages \o s
    BY <1>9, ActGrows DEF TypeInv
  <2> QED
    BY <1>3, <1>9, <2>1 DEF Act, config
<1>10. CASE Resume
  <2>1. \E s \in Seq(Messages) : messages' = messages \o s
    BY <1>10, RepliesType, ResumeReplies DEF TypeInv
  <2> QED
    BY <1>3, <1>10, <2>1 DEF Resume, config, Stays
<1>11. CASE Accepts \/ Rejects \/ AnswersNothing
  <2>1. \E s \in Seq(Messages), next \in {"ready", "done"} : Output(s, next)
    BY <1>11, OutputAdds
  <2> QED
    BY <1>3, <2>1 DEF Output, config, Stays
<1> QED
  BY <1>4, <1>5, <1>6, <1>7, <1>8, <1>9, <1>10, <1>11 DEF Next, Adapter, Loop, Answers, Stays

LEMMA CoveredStep ==
  ASSUME TypeInv, Recorded, MediaKept, Covered, [Next]_vars PROVE Covered'
<1>1. messages \in Seq(Messages) /\ Len(messages) \in Nat /\ DOMAIN messages = 1 .. Len(messages)
  BY DEF TypeInv, TypeOK
<1>2. messages' \in Seq(Messages) /\ Len(messages') \in Nat /\ DOMAIN messages' = 1 .. Len(messages')
  BY TypeStep DEF TypeInv, TypeOK
<1>3. /\ vendor' = vendor
      /\ \A i \in DOMAIN messages :
           /\ i \in DOMAIN messages'
           /\ messages'[i].type = messages[i].type /\ messages'[i].ref = messages[i].ref
      /\ wire' = wire \/ InvokeOpenAI \/ InvokeAnthropic
  BY HistoryKept
<1>4. 0 .. Len(messages) \subseteq 0 .. Len(messages')
  <2>1. CASE Len(messages) = 0
    BY <1>2, <2>1
  <2>2. CASE Len(messages) > 0
    <3>1. Len(messages) \in DOMAIN messages'
      BY <1>1, <1>3, <2>2
    <3> QED
      BY <1>1, <1>2, <3>1
  <2> QED
    BY <1>1, <2>1, <2>2
<1>5. PICK n \in 0 .. Len(messages) : Lasting(wire') = FlattenSeq(PiecesTo(n))
  <2>1. CASE wire' = wire
    BY <2>1 DEF Covered
  <2>2. CASE InvokeOpenAI \/ InvokeAnthropic
    BY <1>1, <2>2, RequestPieces
  <2> QED
    BY <1>3, <2>1, <2>2
<1>6. Omitted' = Omitted
  BY <1>3 DEF Omitted
<1>7. Lasting(wire)' = Lasting(wire')
  BY <1>6 DEF Lasting
<1>8. PiecesTo(n)' = PiecesTo(n)
  <2>1. ASSUME NEW i \in 1 .. n PROVE Piece(messages[i])' = Piece(messages[i])
    <3>1. messages'[i].type = messages[i].type /\ messages'[i].ref = messages[i].ref
      BY <1>1, <1>3
    <3> QED
      BY <1>6, <3>1 DEF Piece, IsUse
  <2> QED
    BY <2>1 DEF PiecesTo
<1>9. Lasting(wire)' = FlattenSeq(PiecesTo(n))'
  BY <1>5, <1>7, <1>8
<1> QED
  BY <1>4, <1>9 DEF Covered

LEMMA GrowsStep ==
  ASSUME TypeInv, Recorded, MediaKept, Covered, [Next]_vars
  PROVE  [IsPrefix(Lasting(wire), Lasting(wire'))]_wire
<1> SUFFICES ASSUME InvokeOpenAI \/ InvokeAnthropic PROVE IsPrefix(Lasting(wire), Lasting(wire'))
  BY HistoryKept
<1>1. PICK n \in 0 .. Len(messages) : Lasting(wire) = FlattenSeq(PiecesTo(n))
  BY DEF Covered
<1> DEFINE l == Len(messages)
           d == l - n
           rest == [i \in 1 .. d |-> Piece(messages[n + i])]
<1>2. l \in Nat /\ n \in Nat /\ l \in 0 .. l /\ d \in Nat /\ n + d = l
  BY DEF TypeInv, TypeOK
<1>3. Lasting(wire') = FlattenSeq(PiecesTo(l))
  BY RequestPieces
<1>4. /\ PiecesTo(n) \in Seq(Seq(Views)) /\ Len(PiecesTo(n)) = n
      /\ PiecesTo(l) \in Seq(Seq(Views)) /\ Len(PiecesTo(l)) = l
  BY <1>2, PiecesType DEF TypeInv
<1>5. /\ \A i \in 1 .. n : PiecesTo(l)[i] = PiecesTo(n)[i]
      /\ \A i \in 1 .. d : n + i \in 1 .. l /\ PiecesTo(l)[n + i] = rest[i]
  BY <1>2 DEF PiecesTo
<1> HIDE DEF l, d
<1>6. rest \in Seq(Seq(Views)) /\ Len(rest) = d
  <2>1. \A i \in 1 .. l : PiecesTo(l)[i] \in Seq(Views)
    BY <1>4
  <2>2. \A i \in 1 .. d : Piece(messages[n + i]) \in Seq(Views)
    BY <1>5, <2>1
  <2>3. rest \in [1 .. d -> Seq(Views)]
    BY <2>2
  <2> HIDE DEF rest
  <2> QED
    BY <1>2, <2>3
<1> HIDE DEF rest
<1>7. PiecesTo(l) = PiecesTo(n) \o rest
  <2> DEFINE p == PiecesTo(l)
             q == PiecesTo(n)
             qr == q \o rest
  <2>1. /\ p \in Seq(Seq(Views)) /\ Len(p) = l /\ q \in Seq(Seq(Views)) /\ Len(q) = n
        /\ \A i \in 1 .. n : p[i] = q[i]
        /\ \A i \in 1 .. d : p[n + i] = rest[i]
    BY <1>4, <1>5
  <2> HIDE DEF p, q
  <2>2. /\ qr \in Seq(Seq(Views)) /\ Len(qr) = n + d
        /\ \A i \in DOMAIN q : qr[i] = q[i]
        /\ \A i \in DOMAIN rest : qr[n + i] = rest[i]
    <3>1. q \in Seq(Seq(Views)) /\ rest \in Seq(Seq(Views)) /\ Len(q) = n
      BY <1>6, <2>1
    <3>2. qr \in Seq(Seq(Views)) /\ Len(qr) = Len(q) + Len(rest)
      BY <3>1, ConcatProperties
    <3>3. \A i \in DOMAIN q : qr[i] = q[i]
      BY <3>1, Appended
    <3>4. \A i \in DOMAIN rest : qr[Len(q) + i] = rest[i]
      BY <3>1, Appended
    <3> HIDE DEF qr
    <3> QED
      BY <1>6, <3>1, <3>2, <3>3, <3>4
  <2> HIDE DEF qr
  <2>3. Len(qr) = l /\ DOMAIN q = 1 .. n /\ DOMAIN rest = 1 .. d
    BY <1>2, <1>6, <2>1, <2>2
  <2>4. \A i \in 1 .. l : i \in 1 .. n \/ (i - n \in 1 .. d /\ n + (i - n) = i)
    BY <1>2
  <2>5. ASSUME NEW i \in 1 .. l PROVE p[i] = qr[i]
    <3>1. CASE i \in 1 .. n
      BY <2>1, <2>2, <2>3, <3>1
    <3>2. CASE i - n \in 1 .. d /\ n + (i - n) = i
      <4>1. p[n + (i - n)] = rest[i - n] /\ qr[n + (i - n)] = rest[i - n]
        BY <2>1, <2>2, <2>3, <3>2
      <4> QED
        BY <3>2, <4>1
    <3> QED
      BY <2>4, <3>1, <3>2
  <2>6. p = qr
    BY <2>1, <2>2, <2>3, <2>5, SeqEqual
  <2> QED
    BY <2>6 DEF p, q, qr
<1> DEFINE a == FlattenSeq(PiecesTo(n))
           b == FlattenSeq(rest)
<1>8. Lasting(wire') = a \o b
  BY <1>3, <1>4, <1>6, <1>7, FlattenConcat
<1>9. a \in Seq(Views) /\ b \in Seq(Views)
  BY <1>4, <1>6, FlattenType
<1> HIDE DEF a, b
<1>10. Len(a) <= Len(a \o b) /\ Len(a) \in Nat
  BY <1>9
<1>11. SubSeq(a, 1, Len(a)) = SubSeq(a \o b, 1, Len(a))
  <2> DEFINE ab == a \o b
             sa == SubSeq(a, 1, Len(a))
             sab == SubSeq(ab, 1, Len(a))
  <2>1. \A i \in 1 .. Len(a) : ab[i] = a[i] /\ a[i] \in Views
    BY <1>9, Appended
  <2> HIDE DEF ab
  <2>2. /\ sa \in Seq(Views) /\ sab \in Seq(Views) /\ Len(sa) = Len(a) /\ Len(sab) = Len(a)
        /\ \A i \in 1 .. Len(a) : sa[i] = a[i] /\ sab[i] = ab[i]
    <3>1. Len(a) \in Int /\ (\A i \in 1 .. Len(a) : ab[i] \in Views)
      BY <1>10, <2>1
    <3>2. /\ sa \in Seq(Views) /\ Len(sa) = IF 1 <= Len(a) THEN Len(a) - 1 + 1 ELSE 0
          /\ \A i \in 1 .. Len(a) - 1 + 1 : sa[i] = a[1 + i - 1]
      BY <2>1, <3>1, SubSeqProperties
    <3>3. /\ sab \in Seq(Views) /\ Len(sab) = IF 1 <= Len(a) THEN Len(a) - 1 + 1 ELSE 0
          /\ \A i \in 1 .. Len(a) - 1 + 1 : sab[i] = ab[1 + i - 1]
      BY <3>1, SubSeqProperties
    <3> HIDE DEF sa, sab
    <3>4. Len(a) - 1 + 1 = Len(a) /\ \A i \in 1 .. Len(a) : 1 + i - 1 = i
      BY <1>10
    <3> QED
      BY <1>10, <3>2, <3>3, <3>4
  <2> HIDE DEF sa, sab
  <2>3. \A i \in 1 .. Len(sa) : sa[i] = sab[i]
    BY <2>1, <2>2
  <2>4. sa = sab
    BY <2>2, <2>3, SeqEqual
  <2> QED
    BY <2>4 DEF sa, sab, ab
<1> QED
  BY <1>1, <1>8, <1>10, <1>11 DEF IsPrefix, a

LEMMA CoveredInit == Init => Covered
<1> SUFFICES ASSUME Init PROVE Covered
  OBVIOUS
<1>1. wire = <<>> /\ Len(messages) \in Nat
  BY ConversationType DEF Init
<1>2. PiecesTo(0) = <<>>
  BY DEF PiecesTo
<1>3. 0 \in 0 .. Len(messages)
  BY <1>1
<1> QED
  BY <1>1, <1>2, <1>3, LastingEmpty, FlattenEmpty DEF Covered

\* Each request repeats the one before and adds to its end
\* (formatMessagesForOpenAI, formatMessagesForAnthropic,
\* defaultContextTransformer.ts:7-16): for any history, however late or in
\* whatever order its results came, and although media are masked in between.
THEOREM ConversationOnlyGrows == Spec => ConversationGrows
<1> DEFINE Inv == TypeInv /\ Assembled /\ StreamedAsSent /\ Recorded /\ MediaKept
                  /\ MediaShownOnce /\ Covered
<1>1. Init => Inv
  BY TypeInit, ResponseInit, RecordedInit, MediaInit, CoveredInit
<1>2. Inv /\ [Next]_vars => Inv'
  BY TypeStep, AssembledStep, ResponseStep, RecordedStep, MediaStep, ShownStep, CoveredStep
<1>3. Inv /\ [Next]_vars => [IsPrefix(Lasting(wire), Lasting(wire'))]_wire
  BY GrowsStep
<1> HIDE DEF Inv
<1> QED
  BY <1>1, <1>2, <1>3, PTL DEF Spec, ConversationGrows
=============================================================================
