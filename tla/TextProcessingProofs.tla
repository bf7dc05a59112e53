------------------------ MODULE TextProcessingProofs ------------------------
(***************************************************************************)
(* What the process server does to a text, for texts of any length: it is  *)
(* what the reference definition of TextProcessing says.  The induction    *)
(* over the text is the run of the loops itself; what the definitions      *)
(* compute (InOrder, FlattenSeq) is shown with the least number for which  *)
(* a claim would be wrong.                                                 *)
(***************************************************************************)
EXTENDS TextProcessing, SequenceTheorems, FiniteSetTheorems, TLAPS

(* Every set of natural numbers has a least element, which Min finds. *)
LEMMA Least ==
    ASSUME NEW S \in SUBSET Nat, S # {}
    PROVE  /\ Min(S) \in S /\ \A x \in S : Min(S) <= x
           /\ \E m \in S : \A x \in S : m <= x
  <1> DEFINE R == { ss \in Nat \X Nat : ss[1] < ss[2] }
  <1>1. IsWellFoundedOn(R, Nat)
    <2>1. R = OpToRel(<, Nat)
      BY DEF OpToRel
    <2> QED BY <2>1, NatLessThanWellFounded, Zenon
  <1>2. \E x \in S : \A y \in S : ~(<<y, x>> \in R)
    <2> HIDE DEF R
    <2> QED BY <1>1, WFMin, Zenon
  <1>3. PICK m \in S : \A y \in S : ~(<<y, m>> \in R)
    BY <1>2
  <1>4. ASSUME NEW y \in S PROVE m <= y
    <2>1. ~(<<y, m>> \in R)
      BY <1>3
    <2>2. m \in Nat /\ y \in Nat
      OBVIOUS
    <2> QED BY <2>1, <2>2
  <1> QED BY <1>4, Zenon DEF Min

-----------------------------------------------------------------------------
(* The elements of a set of numbers that are less than a number. *)
Below(S, x) == { y \in S : y < x }

(* InOrder enumerates a finite set of numbers: its element k is the only   *)
(* one that k - 1 elements are below of.                                   *)
LEMMA Enumerated ==
    ASSUME NEW S \in SUBSET Int, IsFiniteSet(S)
    PROVE  /\ Cardinality(S) \in Nat
           /\ \A x \in S : /\ IsFiniteSet(Below(S, x))
                           /\ Cardinality(Below(S, x)) \in 0..(Cardinality(S) - 1)
           /\ \A k \in 1..Cardinality(S) :
                /\ InOrder(S)[k] \in S
                /\ Cardinality(Below(S, InOrder(S)[k])) = k - 1
           /\ \A x, y \in S : x < y => Cardinality(Below(S, x)) < Cardinality(Below(S, y))
  <1> DEFINE n == Cardinality(S)
             rank == [x \in S |-> Cardinality(Below(S, x))]
  <1>1. n \in Nat
    BY FS_CardinalityType
  <1>2. ASSUME NEW x \in S
        PROVE  /\ IsFiniteSet(Below(S, x)) /\ Cardinality(Below(S, x)) \in 0..(n - 1)
    <2>1. Below(S, x) \in SUBSET S /\ Below(S, x) # S
      BY DEF Below
    <2>2. /\ IsFiniteSet(Below(S, x)) /\ Cardinality(Below(S, x)) <= n
          /\ Cardinality(Below(S, x)) # n
      BY <2>1, FS_Subset
    <2>3. Cardinality(Below(S, x)) \in Nat
      BY <2>2, FS_CardinalityType
    <2> QED BY <1>1, <2>2, <2>3
  <1>3. ASSUME NEW x \in S, NEW y \in S, x < y
        PROVE  Cardinality(Below(S, x)) < Cardinality(Below(S, y))
    <2>1. \A z \in S : z < x => z < y
      <3> SUFFICES ASSUME NEW z \in S, z < x PROVE z < y
        OBVIOUS
      <3>1. x \in Int /\ y \in Int /\ z \in Int
        OBVIOUS
      <3> QED BY <1>3, <3>1
    <2>2. Below(S, x) \in SUBSET Below(S, y) /\ Below(S, x) # Below(S, y)
      <3>1. \A z : z \in Below(S, x) => z \in Below(S, y)
        BY <2>1 DEF Below
      <3>2. x \in Below(S, y) /\ x \notin Below(S, x)
        <4>1. x \in Int /\ ~(x < x)
          OBVIOUS
        <4> QED BY <1>3, <4>1, Zenon DEF Below
      <3> QED BY <3>1, <3>2, Zenon
    <2>3. /\ Cardinality(Below(S, x)) <= Cardinality(Below(S, y))
          /\ Cardinality(Below(S, y)) # Cardinality(Below(S, x))
      BY <1>2, <2>2, FS_Subset
    <2> QED BY <1>2, <2>3
  <1>4. rank \in Injection(S, 0..(n - 1))
    <2>1. rank \in [S -> 0..(n - 1)]
      BY <1>2
    <2>2. ASSUME NEW x \in S, NEW y \in S, rank[x] = rank[y] PROVE x = y
      <3>1. ~(x < y) /\ ~(y < x)
        BY <1>2, <1>3, <2>2
      <3> QED BY <3>1
    <2> QED BY <2>1, <2>2 DEF Injection, IsInjective
  <1>5. IsFiniteSet(0..(n - 1)) /\ Cardinality(0..(n - 1)) = n
    BY <1>1, FS_Interval
  <1>6. rank \in Surjection(S, 0..(n - 1))
    <2> HIDE DEF rank, n
    <2>1. Cardinality(S) = Cardinality(0..(n - 1))
      BY <1>5 DEF n
    <2> QED BY <1>4, <1>5, <2>1, FS_Injection, Zenon
  <1>7. ASSUME NEW k \in 1..n
        PROVE  InOrder(S)[k] \in S /\ Cardinality(Below(S, InOrder(S)[k])) = k - 1
    <2>1. \E x \in S : Cardinality(Below(S, x)) = k - 1
      <3>1. k - 1 \in 0..(n - 1)
        BY <1>1
      <3>2. \E x \in S : rank[x] = k - 1
        BY <1>6, <3>1, Zenon DEF Surjection
      <3> QED BY <3>2
    <2>2. InOrder(S)[k] = CHOOSE x \in S : Cardinality(Below(S, x)) = k - 1
      BY DEF InOrder, Below
    <2> QED BY <2>1, <2>2
  <1> QED BY <1>1, <1>2, <1>3, <1>7

-----------------------------------------------------------------------------
(* The function that FlattenSeq computes, and takes the last value of. *)
IsFlatten(f, s) == f = [k \in 1..Len(s) |-> IF k = 1 THEN s[k] ELSE f[k - 1] \o s[k]]

(* FlattenSeq, by that function. *)
LEMMA FlattenDef ==
    ASSUME NEW s, Len(s) # 0
    PROVE  FlattenSeq(s) = (CHOOSE f : IsFlatten(f, s))[Len(s)]
  BY DEF FlattenSeq, IsFlatten

(* A recursion over the places of a sequence has a solution, and only one. *)
LEMMA FlattenExists ==
    ASSUME NEW T, NEW s \in Seq(T), Len(s) # 0
    PROVE  /\ \E f : IsFlatten(f, s)
           /\ \A f, g : IsFlatten(f, s) /\ IsFlatten(g, s) => f = g
  <1> DEFINE n == Len(s)
             Upto(f, m) == f = [k \in 1..m |-> IF k = 1 THEN s[k] ELSE f[k - 1] \o s[k]]
             bad == { m \in 1..n : ~\E f : Upto(f, m) }
  <1>1. n \in Nat \ {0}
    BY LenProperties
  <1>2. bad = {}
    <2> SUFFICES ASSUME bad # {} PROVE FALSE
      OBVIOUS
    <2>1. bad \in SUBSET Nat
      <3>1. \A m : m \in bad => m \in 1..n
        BY Zenon
      <3>2. \A m \in 1..n : m \in Nat
        BY <1>1
      <3> QED BY <3>1, <3>2, Zenon
    <2>2. PICK m \in bad : \A x \in bad : m <= x
      <3> HIDE DEF bad
      <3> QED BY <2>1, Least
    <2>3. m \in 1..n /\ ~\E f : Upto(f, m)
      OBVIOUS
    <2>4. CASE m = 1
      <3> DEFINE f == [k \in 1..1 |-> s[1]]
      <3>1. f = [k \in 1..m |-> IF k = 1 THEN s[k] ELSE f[k - 1] \o s[k]]
        BY <2>4
      <3> QED BY <3>1, <2>3, Zenon
    <2>5. CASE m # 1
      <3>1. m - 1 \in 1..n /\ ~(m <= m - 1)
        BY <1>1, <2>3, <2>5
      <3>2. m - 1 \notin bad
        <4> HIDE DEF bad
        <4> QED BY <2>2, <3>1
      <3>3. PICK g : Upto(g, m - 1)
        BY <3>1, <3>2
      <3> DEFINE f == [k \in 1..m |-> IF k = m THEN g[m - 1] \o s[m] ELSE g[k]]
      <3>4. ASSUME NEW k \in 1..m
            PROVE  f[k] = IF k = 1 THEN s[k] ELSE f[k - 1] \o s[k]
        <4>1. CASE k = m
          <5>1. m \in 1..m /\ m - 1 \in 1..m /\ m - 1 # m
            BY <2>3, <2>5, <1>1
          <5>2. f[m] = g[m - 1] \o s[m] /\ f[m - 1] = g[m - 1]
            BY ONLY <5>1
          <5> QED BY <4>1, <2>5, <5>2
        <4>2. CASE k # m
          <5>1. k \in 1..(m - 1) /\ (k # 1 => k - 1 \in 1..m /\ k - 1 # m)
            BY <4>2, <2>3, <1>1
          <5>2. g[k] = IF k = 1 THEN s[k] ELSE g[k - 1] \o s[k]
            BY <3>3, <5>1
          <5> QED BY <4>2, <5>1, <5>2
        <4> QED BY <4>1, <4>2
      <3>5. f = [k \in 1..m |-> IF k = 1 THEN s[k] ELSE f[k - 1] \o s[k]]
        BY <3>4
      <3> QED BY <3>5, <2>3, Zenon
    <2> QED BY <2>4, <2>5
  <1>3. \E f : IsFlatten(f, s)
    <2>1. n \in 1..n
      BY <1>1
    <2>2. \E f : Upto(f, n)
      BY <1>2, <2>1, Zenon
    <2> QED BY <2>2, Zenon DEF IsFlatten
  <1>4. ASSUME NEW f, NEW g, IsFlatten(f, s), IsFlatten(g, s) PROVE f = g
    <2> DEFINE apart == { k \in 1..n : f[k] # g[k] }
    <2>1. apart = {}
      <3> SUFFICES ASSUME apart # {} PROVE FALSE
        OBVIOUS
      <3>1. apart \in SUBSET Nat
        BY <1>1
      <3>2. PICK m \in apart : \A x \in apart : m <= x
        <4> HIDE DEF apart
        <4> QED BY <3>1, Least
      <3>3. m \in 1..n /\ f[m] # g[m]
        OBVIOUS
      <3>4. /\ f[m] = IF m = 1 THEN s[m] ELSE f[m - 1] \o s[m]
            /\ g[m] = IF m = 1 THEN s[m] ELSE g[m - 1] \o s[m]
        BY <1>4, <3>3 DEF IsFlatten
      <3>5. m # 1 /\ f[m - 1] # g[m - 1]
        BY <3>3, <3>4, Zenon
      <3>6. m - 1 \in 1..n /\ ~(m <= m - 1)
        BY <1>1, <3>3, <3>5
      <3>7. m - 1 \in apart
        BY <3>5, <3>6
      <3> QED
        <4> HIDE DEF apart
        <4> QED BY <3>2, <3>6, <3>7
    <2>2. \A k \in 1..n : f[k] = g[k]
      BY <2>1
    <2> QED BY <1>4, <2>2 DEF IsFlatten
  <1> QED BY <1>3, <1>4

(* Flattening one more sequence adds it at the end. *)
LEMMA FlattenAppend ==
    ASSUME NEW T, NEW s \in Seq(T), NEW w \in T
    PROVE  FlattenSeq(Append(s, w)) = IF s = <<>> THEN w ELSE FlattenSeq(s) \o w
  <1> DEFINE t == Append(s, w)
             n == Len(s)
  <1>1. /\ t \in Seq(T) /\ n \in Nat /\ Len(t) = n + 1
        /\ t[n + 1] = w /\ \A k \in 1..n : t[k] = s[k]
        /\ s = <<>> <=> n = 0
    BY AppendProperties, LenProperties, EmptySeq
  <1> HIDE DEF t, n
  <1>2. PICK f : IsFlatten(f, t) /\ FlattenSeq(t) = f[n + 1]
    <2>1. Len(t) # 0
      BY <1>1
    <2>2. \E f : IsFlatten(f, t)
      BY <1>1, <2>1, FlattenExists
    <2> QED BY <1>1, <2>1, <2>2, FlattenDef
  <1>3. \A k \in 1..(n + 1) : f[k] = IF k = 1 THEN t[k] ELSE f[k - 1] \o t[k]
    BY <1>1, <1>2, Zenon DEF IsFlatten
  <1>4. CASE n = 0
    BY <1>1, <1>2, <1>3, <1>4 DEF t
  <1>5. CASE n # 0
    <2> DEFINE g == [k \in 1..n |-> f[k]]
    <2>1. ASSUME NEW k \in 1..n PROVE g[k] = IF k = 1 THEN s[k] ELSE g[k - 1] \o s[k]
      <3>1. k \in 1..(n + 1) /\ (k # 1 => k - 1 \in 1..n)
        BY <1>1
      <3> QED BY <1>1, <1>3, <3>1
    <2>2. IsFlatten(g, s)
      BY <2>1, Zenon DEF IsFlatten, n
    <2>3. FlattenSeq(s) = g[n]
      <3>1. Len(s) # 0
        BY <1>5 DEF n
      <3> HIDE DEF g
      <3>2. IsFlatten(CHOOSE h : IsFlatten(h, s), s)
        BY <2>2, Zenon
      <3>3. g = CHOOSE h : IsFlatten(h, s)
        BY <2>2, <3>1, <3>2, FlattenExists, Zenon
      <3> QED BY <3>1, <3>3, FlattenDef, Zenon DEF n
    <2>4. n \in 1..n /\ n + 1 \in 1..(n + 1) /\ n + 1 # 1 /\ (n + 1) - 1 = n
      BY <1>1, <1>5
    <2>5. f[n + 1] = f[n] \o w
      BY <1>1, <1>3, <2>4
    <2>6. g[n] = f[n]
      BY <2>4
    <2> QED BY <1>1, <1>2, <1>5, <2>3, <2>5, <2>6, Zenon DEF t
  <1> QED BY <1>4, <1>5

(* Joining one more word adds a space and the word. *)
LEMMA JoinAppend ==
    ASSUME NEW C, Space \in C, NEW list \in Seq(Seq(C)), NEW w \in Seq(C)
    PROVE  JoinWords(Append(list, w)) =
              IF list = <<>> THEN w ELSE JoinWords(list) \o (<<Space>> \o w)
  <1> DEFINE Spaced(l) == [k \in 1..Len(l) |-> IF k = 1 THEN l[k] ELSE <<Space>> \o l[k]]
             u == IF list = <<>> THEN w ELSE <<Space>> \o w
             t == Append(list, w)
             n == Len(list)
  <1>1. /\ t \in Seq(Seq(C)) /\ n \in Nat /\ Len(t) = n + 1
        /\ t[n + 1] = w /\ \A k \in 1..n : t[k] = list[k] /\ list[k] \in Seq(C)
        /\ list = <<>> <=> n = 0
    BY AppendProperties, LenProperties, EmptySeq, ElementOfSeq
  <1>2. \A v \in Seq(C) : <<Space>> \o v \in Seq(C)
    BY ConcatProperties
  <1> HIDE DEF t, n
  <1>3. /\ Spaced(list) \in Seq(Seq(C)) /\ Len(Spaced(list)) = n
        /\ Spaced(list) = <<>> <=> n = 0
    <2>1. \A k \in 1..n : list[k] \in Seq(C) /\ <<Space>> \o list[k] \in Seq(C)
      BY <1>1, <1>2
    <2>2. Spaced(list) \in Seq(Seq(C)) /\ Len(Spaced(list)) = n
      BY <1>1, <2>1 DEF n
    <2> HIDE DEF Spaced
    <2> QED BY <2>2, EmptySeq
  <1>4. Spaced(t) \in Seq(Seq(C)) /\ Len(Spaced(t)) = n + 1
    <2>1. \A k \in 1..(n + 1) : t[k] \in Seq(C)
      BY <1>1, ElementOfSeq
    <2> QED BY <1>1, <1>2, <2>1
  <1>5. u \in Seq(C)
    BY <1>2
  <1>6. /\ Append(Spaced(list), u) \in Seq(Seq(C)) /\ Len(Append(Spaced(list), u)) = n + 1
        /\ \A k \in 1..n : Append(Spaced(list), u)[k] = Spaced(list)[k]
        /\ Append(Spaced(list), u)[n + 1] = u
    <2> HIDE DEF Spaced, u
    <2> QED BY <1>3, <1>5, AppendProperties
  <1>7. ASSUME NEW k \in 1..(n + 1) PROVE Spaced(t)[k] = Append(Spaced(list), u)[k]
    <2>1. Spaced(t)[k] = IF k = 1 THEN t[k] ELSE <<Space>> \o t[k]
      BY <1>1
    <2>2. CASE k = n + 1
      <3>1. k = 1 <=> list = <<>>
        BY <1>1, <2>2
      <3>2. Append(Spaced(list), u)[k] = u
        BY <1>6, <2>2
      <3> QED BY <1>1, <2>1, <2>2, <3>1, <3>2
    <2>3. CASE k # n + 1
      <3>1. k \in 1..n
        BY <1>1, <2>3
      <3>2. Spaced(list)[k] = IF k = 1 THEN list[k] ELSE <<Space>> \o list[k]
        BY <3>1 DEF n
      <3> QED BY <1>1, <1>6, <2>1, <3>1, <3>2
    <2> QED BY <2>2, <2>3
  <1>8. Spaced(t) = Append(Spaced(list), u)
    <2> HIDE DEF Spaced, u
    <2> QED BY <1>4, <1>6, <1>7, SeqEqual
  <1>9. FlattenSeq(Append(Spaced(list), u)) =
           IF Spaced(list) = <<>> THEN u ELSE FlattenSeq(Spaced(list)) \o u
    <2> HIDE DEF Spaced, u
    <2> QED BY <1>3, <1>5, FlattenAppend
  <1> QED BY <1>1, <1>3, <1>8, <1>9, Zenon DEF JoinWords, t

(* The first places of the first n words of a list. *)
First(list, n) == { k \in 1..n : \A j \in 1..(k - 1) : list[j] # list[k] }

(* The first occurrences among them, in order. *)
FirstUpto(list, n) ==
    [k \in 1..Cardinality(First(list, n)) |-> list[InOrder(First(list, n))[k]]]

(* The first places are some of the places 1..n, and 1 is one. *)
LEMMA FirstFinite ==
    ASSUME NEW list, NEW n \in Nat
    PROVE  /\ First(list, n) \in SUBSET (1..n) /\ First(list, n) \in SUBSET Int
           /\ IsFiniteSet(First(list, n)) /\ Cardinality(First(list, n)) \in Nat
           /\ Cardinality(First(list, n)) = 0 <=> n = 0
  <1>1. First(list, n) \in SUBSET (1..n) /\ First(list, n) \in SUBSET Int
    BY DEF First
  <1>2. IsFiniteSet(First(list, n)) /\ Cardinality(First(list, n)) \in Nat
    <2>1. IsFiniteSet(1..n)
      BY FS_Interval
    <2>2. IsFiniteSet(First(list, n))
      BY <1>1, <2>1, FS_Subset
    <2> QED BY <2>2, FS_CardinalityType
  <1>3. First(list, n) = {} <=> n = 0
    <2>1. n # 0 => 1 \in First(list, n)
      BY DEF First
    <2> QED BY <1>1, <2>1
  <1> QED BY <1>1, <1>2, <1>3, FS_EmptySet

(* InOrder puts a greater number behind the others. *)
LEMMA GreatestAdded ==
    ASSUME NEW S \in SUBSET Int, IsFiniteSet(S), NEW m \in Int, \A x \in S : x < m
    PROVE  /\ Cardinality(S \cup {m}) = Cardinality(S) + 1
           /\ \A k \in 1..Cardinality(S) : InOrder(S \cup {m})[k] = InOrder(S)[k]
           /\ InOrder(S \cup {m})[Cardinality(S) + 1] = m
  <1> DEFINE U == S \cup {m}
             n == Cardinality(S)
  <1>1. m \notin S
    OBVIOUS
  <1>2. IsFiniteSet(U) /\ Cardinality(U) = n + 1 /\ n \in Nat /\ U \in SUBSET Int
    BY <1>1, FS_AddElement, FS_CardinalityType
  <1>3. /\ Below(U, m) = S
        /\ \A x \in S : Below(U, x) = Below(S, x)
    <2>1. ~(m < m) /\ \A x \in S : ~(m < x) /\ x < m
      OBVIOUS
    <2> QED BY <2>1 DEF Below
  <1> HIDE DEF U, n
  <1>4. \A x, y \in U : Cardinality(Below(U, x)) = Cardinality(Below(U, y)) => x = y
    <2> SUFFICES ASSUME NEW x \in U, NEW y \in U,
                        Cardinality(Below(U, x)) = Cardinality(Below(U, y))
                 PROVE  x = y
      OBVIOUS
    <2>1. /\ x \in Int /\ y \in Int
          /\ Cardinality(Below(U, x)) \in Int /\ Cardinality(Below(U, y)) \in Int
      BY <1>2, Enumerated
    <2>2. /\ x < y => Cardinality(Below(U, x)) < Cardinality(Below(U, y))
          /\ y < x => Cardinality(Below(U, y)) < Cardinality(Below(U, x))
      BY <1>2, Enumerated
    <2> QED BY <2>1, <2>2
  <1>5. ASSUME NEW k \in 1..n PROVE InOrder(U)[k] = InOrder(S)[k]
    <2>1. InOrder(S)[k] \in S /\ Cardinality(Below(S, InOrder(S)[k])) = k - 1
      BY Enumerated DEF n
    <2>2. InOrder(U)[k] \in U /\ Cardinality(Below(U, InOrder(U)[k])) = k - 1
      <3>1. k \in 1..Cardinality(U)
        BY <1>2
      <3> QED BY <1>2, <3>1, Enumerated
    <2> QED BY <1>3, <1>4, <2>1, <2>2 DEF U
  <1>6. InOrder(U)[n + 1] = m
    <2>1. InOrder(U)[n + 1] \in U /\ Cardinality(Below(U, InOrder(U)[n + 1])) = n
      <3>1. n + 1 \in 1..Cardinality(U) /\ (n + 1) - 1 = n
        BY <1>2
      <3> QED BY <1>2, <3>1, Enumerated
    <2> QED BY <1>3, <1>4, <2>1 DEF U, n
  <1> QED BY <1>2, <1>5, <1>6 DEF U, n

(* One more word of a list is one more first occurrence, or not. *)
LEMMA FirstGrows ==
    ASSUME NEW T, NEW list \in Seq(T), NEW n \in Nat, n < Len(list)
    PROVE  /\ FirstUpto(list, n) \in Seq(T)
           /\ FirstUpto(list, n) = <<>> <=> n = 0
           /\ FirstUpto(list, n + 1) =
                 IF list[n + 1] \in { list[k] : k \in 1..n }
                 THEN FirstUpto(list, n) ELSE Append(FirstUpto(list, n), list[n + 1])
  <1> DEFINE S == First(list, n)
             c == Cardinality(S)
             w == list[n + 1]
  <1>1. /\ S \in SUBSET (1..n) /\ S \in SUBSET Int /\ IsFiniteSet(S) /\ c \in Nat
        /\ c = 0 <=> n = 0
    BY FirstFinite
  <1>2. \A k \in 1..(n + 1) : list[k] \in T
    BY LenProperties
  <1>3. \A k \in 1..c : InOrder(S)[k] \in 1..n /\ list[InOrder(S)[k]] \in T
    <2>1. \A k \in 1..c : InOrder(S)[k] \in S
      BY <1>1, Enumerated
    <2>2. \A x \in S : x \in 1..n /\ list[x] \in T
      BY <1>1, <1>2
    <2> QED BY ONLY <2>1, <2>2
  <1>4. /\ FirstUpto(list, n) \in Seq(T) /\ Len(FirstUpto(list, n)) = c
        /\ \A k \in 1..c : FirstUpto(list, n)[k] = list[InOrder(S)[k]]
    <2> HIDE DEF S
    <2>1. FirstUpto(list, n) = [k \in 1..c |-> list[InOrder(S)[k]]]
      BY DEF FirstUpto, S
    <2> HIDE DEF c
    <2> QED BY <1>1, <1>3, <2>1
  <1>5. FirstUpto(list, n) = <<>> <=> n = 0
    <2> HIDE DEF S, c
    <2> QED BY <1>1, <1>4, EmptySeq
  <1>6. CASE w \in { list[k] : k \in 1..n }
    <2>1. First(list, n + 1) = S
      <3>1. n + 1 \notin First(list, n + 1)
        <4>1. PICK k \in 1..n : list[k] = w
          BY <1>6
        <4>2. k \in 1..((n + 1) - 1)
          BY <4>1
        <4> QED BY <4>1, <4>2 DEF First
      <3> QED BY <3>1 DEF First
    <2> QED BY <1>4, <1>5, <1>6, <2>1 DEF FirstUpto
  <1>7. CASE w \notin { list[k] : k \in 1..n }
    <2>1. First(list, n + 1) = S \cup {n + 1}
      BY <1>7 DEF First
    <2>2. \A x \in S : x < n + 1
      BY <1>1
    <2> DEFINE old == FirstUpto(list, n)
               new == FirstUpto(list, n + 1)
               g == InOrder(S)
               h == InOrder(S \cup {n + 1})
    <2>3. /\ Cardinality(S \cup {n + 1}) = c + 1
          /\ \A k \in 1..c : h[k] = g[k]
          /\ h[c + 1] = n + 1
      <3>1. n + 1 \in Int
        OBVIOUS
      <3> HIDE DEF S
      <3> QED BY <1>1, <2>2, <3>1, GreatestAdded
    <2>4. new = [k \in 1..(c + 1) |-> list[h[k]]]
      BY <2>1, <2>3 DEF FirstUpto
    <2>5. \A k \in 1..c : k \in 1..(c + 1) /\ old[k] = list[g[k]] /\ list[g[k]] \in T
      BY <1>1, <1>3, <1>4
    <2>6. w \in T /\ c \in Nat /\ c + 1 \in 1..(c + 1) /\ w = list[n + 1]
          /\ \A k \in 1..(c + 1) : k \in 1..c \/ k = c + 1
      BY <1>1, <1>2
    <2>7. old \in Seq(T) /\ Len(old) = c
      BY <1>4
    <2> HIDE DEF old, new, g, h, c, w, S
    <2>8. new[c + 1] = w /\ \A k \in 1..c : new[k] = old[k]
      BY ONLY <2>3, <2>4, <2>5, <2>6
    <2>9. new \in Seq(T) /\ Len(new) = c + 1
      <3>1. \A k \in 1..(c + 1) : list[h[k]] \in T
        BY ONLY <2>3, <2>5, <2>6
      <3> QED BY ONLY <2>4, <2>6, <3>1
    <2>10. /\ Append(old, w) \in Seq(T) /\ Len(Append(old, w)) = c + 1
           /\ \A k \in 1..c : Append(old, w)[k] = old[k]
           /\ Append(old, w)[c + 1] = w
      BY ONLY <2>6, <2>7, AppendProperties
    <2>11. \A k \in 1..(c + 1) : new[k] = Append(old, w)[k]
      BY ONLY <2>6, <2>8, <2>10
    <2>12. new = Append(old, w)
      BY ONLY <2>9, <2>10, <2>11, SeqEqual
    <2> QED BY <1>4, <1>5, <1>7, <2>12 DEF w, old, new
  <1> QED BY <1>6, <1>7

-----------------------------------------------------------------------------
(* InOrder is strictly increasing and leaves out no element. *)
LEMMA Neighbours ==
    ASSUME NEW S \in SUBSET Int, IsFiniteSet(S), NEW k \in 1..(Cardinality(S) - 1)
    PROVE  /\ InOrder(S)[k] \in S /\ InOrder(S)[k + 1] \in S
           /\ InOrder(S)[k] < InOrder(S)[k + 1]
           /\ \A x \in S : InOrder(S)[k] < x => InOrder(S)[k + 1] <= x
  <1> DEFINE a == InOrder(S)[k]
             b == InOrder(S)[k + 1]
             rank(x) == Cardinality(Below(S, x))
  <1>1. Cardinality(S) \in Nat
    BY FS_CardinalityType
  <1>2. k \in 1..Cardinality(S) /\ k + 1 \in 1..Cardinality(S)
    BY <1>1
  <1>3. /\ a \in S /\ b \in S /\ rank(a) = k - 1 /\ rank(b) = (k + 1) - 1
        /\ \A x \in S : rank(x) \in Int
        /\ \A x, y \in S : x < y => rank(x) < rank(y)
    BY <1>1, <1>2, Enumerated
  <1> HIDE DEF a, b, rank
  <1>4. a < b
    <2>1. a # b /\ ~(b < a)
      BY <1>3
    <2> QED BY <1>3, <2>1
  <1>5. ASSUME NEW x \in S, a < x PROVE b <= x
    <2>1. ~(x < b)
      BY <1>3, <1>5
    <2> QED BY <1>3, <2>1
  <1> QED BY <1>3, <1>4, <1>5 DEF a, b

(* The boundaries of a text: the first is 0, the last one behind its end. *)
LEMMA BordersOf ==
    ASSUME NEW C, NEW str \in Seq(C)
    PROVE  LET B  == Boundaries(str)
               c  == Cardinality(B)
               at == InOrder(B)
           IN  /\ B \in SUBSET (0..(Len(str) + 1)) /\ IsFiniteSet(B)
               /\ c \in Nat /\ c > 1
               /\ at[1] = 0
               /\ \A k \in 1..c : at[k] \in B /\ (at[k] = Len(str) + 1 <=> k = c)
  <1> DEFINE B  == Boundaries(str)
             c  == Cardinality(B)
             at == InOrder(B)
             N  == Len(str)
  <1>1. N \in Nat
    BY LenProperties
  <1>2. /\ B \in SUBSET (0..(N + 1)) /\ B \in SUBSET Int
        /\ 0 \in B /\ N + 1 \in B /\ \A x \in B : x \in 0..(N + 1)
    BY <1>1 DEF Boundaries
  <1>3. IsFiniteSet(B) /\ c \in Nat
    <2>1. IsFiniteSet(0..(N + 1))
      BY <1>1, FS_Interval
    <2>2. IsFiniteSet(B)
      BY <1>2, <2>1, FS_Subset
    <2> QED BY <2>2, FS_CardinalityType
  <1> HIDE DEF B, N
  <1>4. /\ \A x \in B : Cardinality(Below(B, x)) \in 0..(c - 1)
        /\ \A k \in 1..c : at[k] \in B /\ Cardinality(Below(B, at[k])) = k - 1
        /\ \A x, y \in B : x < y => Cardinality(Below(B, x)) < Cardinality(Below(B, y))
    BY <1>2, <1>3, Enumerated
  <1> HIDE DEF c, at
  <1>5. c > 1
    <2>1. Cardinality(Below(B, 0)) < Cardinality(Below(B, N + 1))
      <3>1. 0 < N + 1
        BY <1>1
      <3> QED BY <1>2, <1>4, <3>1, Zenon
    <2>2. /\ Cardinality(Below(B, 0)) \in 0..(c - 1)
          /\ Cardinality(Below(B, N + 1)) \in 0..(c - 1)
      BY <1>2, <1>4
    <2> QED BY ONLY <1>3, <2>1, <2>2
  <1>6. at[1] = 0
    <2>1. at[1] \in B /\ Cardinality(Below(B, at[1])) = 0
      BY <1>3, <1>4, <1>5
    <2>2. 0 < at[1] => Cardinality(Below(B, 0)) < 0
      BY <1>2, <1>4, <2>1, Zenon
    <2>3. Cardinality(Below(B, 0)) \in 0..(c - 1) /\ at[1] \in 0..(N + 1)
      BY <1>2, <1>4, <2>1, Zenon
    <2> QED BY ONLY <1>1, <1>3, <2>2, <2>3
  <1>7. ASSUME NEW k \in 1..c PROVE at[k] = N + 1 <=> k = c
    <2>1. at[k] \in B /\ at[k] \in 0..(N + 1) /\ Cardinality(Below(B, at[k])) = k - 1
      BY <1>2, <1>4
    <2>2. Cardinality(Below(B, N + 1)) = c - 1
      <3>1. Below(B, N + 1) = B \ {N + 1}
        <4>1. \A x \in B : x < N + 1 <=> x # N + 1
          BY <1>1, <1>2
        <4> QED BY <4>1 DEF Below
      <3> QED BY <1>2, <1>3, <3>1, FS_RemoveElement DEF c
    <2>3. CASE at[k] = N + 1
      BY <1>3, <2>1, <2>2, <2>3
    <2>4. CASE at[k] # N + 1
      <3>1. at[k] < N + 1
        BY <1>1, <2>1, <2>4
      <3>2. k - 1 < c - 1
        BY <1>2, <1>4, <2>1, <2>2, <3>1
      <3> QED BY <1>3, <2>4, <3>2
    <2> QED BY <2>3, <2>4
  <1> QED BY <1>2, <1>3, <1>4, <1>5, <1>6, <1>7 DEF B, c, at, N

(* The characters of a text that is worked on. *)
Chars == Char \cup {QuestionMark, Space}

(* The boundaries of the text, and its words. *)
Border(k) == InOrder(Boundaries(text))[k]
W == WordsOf(text)

(* The loop of RemoveDuplicateWords goes from a boundary to the next and   *)
(* takes the word between them.                                            *)
LEMMA NextWord ==
    ASSUME text \in Seq(Chars), NEW k \in 1..Len(W)
    PROVE  /\ Border(k) \in 0..Size /\ Border(k + 1) \in 1..(Size + 1)
           /\ EndOfWord(Border(k)) \in 0..Size
           /\ EndOfWord(Border(k)) + 1 = Border(k + 1)
           /\ Substr(Border(k), EndOfWord(Border(k))) = W[k]
           /\ W[k] \in Seq(Chars)
           /\ \A j \in 1..Len(W[k]) : \E m \in 1..Size : W[k][j] = text[m]
  <1> DEFINE B == Boundaries(text)
             c == Cardinality(B)
             a == Border(k)
             b == Border(k + 1)
             e == EndOfWord(a)
  <1>1. /\ Size \in Nat /\ c \in Nat /\ c > 1 /\ IsFiniteSet(B)
        /\ B \in SUBSET (0..(Size + 1)) /\ B \in SUBSET Int
        /\ \A j \in 1..c : Border(j) = Size + 1 <=> j = c
    <2>1. Size \in Nat
      BY LenProperties DEF Size
    <2>2. /\ c \in Nat /\ c > 1 /\ IsFiniteSet(B) /\ B \in SUBSET (0..(Size + 1))
          /\ \A j \in 1..c : Border(j) = Size + 1 <=> j = c
      BY BordersOf DEF Size, Border
    <2> QED BY <2>1, <2>2
  <1>2. W = [j \in 1..(c - 1) |-> SubSeq(text, Border(j) + 1, Border(j + 1) - 1)]
    <2> HIDE DEF B
    <2>1. Len(InOrder(B)) = c
      BY <1>1 DEF InOrder
    <2> QED BY <2>1 DEF W, WordsOf, Border, B
  <1>3. Len(W) = c - 1 /\ k \in 1..(c - 1) /\ k \in 1..c /\ k # c
    <2> HIDE DEF c
    <2>1. Len(W) = c - 1
      BY <1>1, <1>2
    <2> QED BY <1>1, <2>1
  <1>4. /\ a \in B /\ b \in B /\ a < b /\ a # Size + 1
        /\ \A x \in B : a < x => b <= x
    BY <1>1, <1>3, Neighbours DEF Border
  <1>5. a \in 0..Size /\ b \in 1..(Size + 1)
    <2>1. a \in 0..(Size + 1) /\ b \in 0..(Size + 1)
      BY <1>1, <1>4
    <2> QED BY <1>1, <1>4, <2>1
  <1>6. W[k] = SubSeq(text, a + 1, b - 1)
    BY <1>2, <1>3
  <1> HIDE DEF a, b, c
  <1>7. \A x : x \in B <=> x = 0 \/ x = Size + 1 \/ (x \in 1..Size /\ text[x] = Space)
    BY DEF Boundaries, Size
  <1> HIDE DEF B
  <1>8. e \in 0..Size /\ e + 1 = b
    <2>1. \A x \in SpacesFrom(a) : x \in Nat /\ x + 1 \in B /\ a < x + 1 /\ x < Size
      BY <1>1, <1>5, <1>7 DEF SpacesFrom, CharAt
    <2>2. CASE SpacesFrom(a) = {}
      <3>1. b = Size + 1
        <4>1. b # Size + 1 => b - 1 \in SpacesFrom(a)
          BY <1>1, <1>4, <1>5, <1>7 DEF SpacesFrom, CharAt
        <4> QED BY <2>2, <4>1
      <3>2. e = Size
        BY <2>2 DEF EndOfWord
      <3> QED BY <1>1, <3>1, <3>2
    <2>3. CASE SpacesFrom(a) # {}
      <3>1. e = Min(SpacesFrom(a))
        BY <2>3 DEF EndOfWord
      <3>2. SpacesFrom(a) \in SUBSET Nat
        BY <2>1
      <3>3. e \in SpacesFrom(a) /\ \A x \in SpacesFrom(a) : e <= x
        BY <2>3, <3>1, <3>2, Least
      <3> HIDE DEF e
      <3>4. e \in Nat /\ e + 1 \in B /\ a < e + 1 /\ e < Size
        BY <2>1, <3>3
      <3>5. b <= e + 1
        BY <1>4, <3>4
      <3>6. b - 1 \in SpacesFrom(a)
        <4>1. b # Size + 1 /\ b \in 1..Size /\ text[b] = Space
          BY <1>1, <1>4, <1>5, <1>7, <3>4, <3>5
        <4> QED BY <1>1, <1>4, <1>5, <4>1 DEF SpacesFrom, CharAt
      <3>7. e <= b - 1
        BY <3>3, <3>6
      <3> QED BY <1>1, <1>5, <3>4, <3>5, <3>7
    <2> QED BY <2>2, <2>3
  <1> HIDE DEF e
  <1>9. Substr(a, e) = SubSeq(text, a + 1, b - 1)
    <2>1. {e, Size} \in SUBSET Nat /\ {e, Size} # {}
      BY <1>1, <1>8
    <2>2. Min({e, Size}) \in {e, Size} /\ \A x \in {e, Size} : Min({e, Size}) <= x
      BY <2>1, Least
    <2> DEFINE m == Min({e, Size})
    <2> HIDE DEF m
    <2>3. (m = e \/ m = Size) /\ m <= e
      BY <2>2 DEF m
    <2>4. Size \in Int /\ e \in Int /\ e <= Size
      BY <1>1, <1>8
    <2>5. m = e
      BY ONLY <2>3, <2>4
    <2>6. Substr(a, e) = SubSeq(text, a + 1, m)
      BY Zenon DEF Substr, m
    <2>7. e = b - 1
      BY <1>5, <1>8
    <2> QED BY <2>5, <2>6, <2>7, Zenon
  <1>10. /\ W[k] \in Seq(Chars)
         /\ \A j \in 1..Len(W[k]) : \E m \in 1..Size : W[k][j] = text[m]
    <2>1. \A j \in (a + 1)..(b - 1) : j \in 1..Size /\ text[j] \in Chars
      <3>1. \A j \in (a + 1)..(b - 1) : j \in 1..Size
        BY <1>1, <1>5
      <3> QED BY <3>1, ElementOfSeq DEF Size
    <2>2. a + 1 \in Int /\ b - 1 \in Int
      BY <1>5
    <2>3. /\ W[k] \in Seq(Chars)
          /\ Len(W[k]) = IF a + 1 <= b - 1 THEN (b - 1) - (a + 1) + 1 ELSE 0
          /\ \A j \in 1..((b - 1) - (a + 1) + 1) : W[k][j] = text[(a + 1) + j - 1]
      BY <1>6, <2>1, <2>2, SubSeqProperties
    <2>4. ASSUME NEW j \in 1..Len(W[k]) PROVE \E m \in 1..Size : W[k][j] = text[m]
      <3>1. j \in 1..((b - 1) - (a + 1) + 1) /\ (a + 1) + j - 1 \in (a + 1)..(b - 1)
        BY <1>5, <2>3
      <3> QED BY <2>1, <2>3, <3>1
    <2> QED BY <2>3, <2>4
  <1> QED BY <1>5, <1>6, <1>8, <1>9, <1>10 DEF a, b, e

-----------------------------------------------------------------------------
(* The first loop has cleaned the characters before its place, and counted *)
(* those it replaced.                                                      *)
Unprintable(n) == { k \in 1..n : ~Printable(input[k]) }

CleanInv ==
    /\ Size = Len(input)
    /\ \A k \in 1..Size : text[k] = IF k <= i /\ ~Printable(input[k])
                                    THEN QuestionMark ELSE input[k]
    /\ IsFiniteSet(Unprintable(i)) /\ errorsFound = Cardinality(Unprintable(i))
    /\ pc = "clean" => prevWordBeg = 0 /\ words = {} /\ resStr = <<>>
    /\ pc # "clean" => i = Size

(* The second loop is at a boundary, has seen the words before it, and has *)
(* their first occurrences, each with a space behind it.                   *)
Joined(n) == JoinWords(FirstUpto(W, n))

Taken(n) ==
    /\ n \in 0..Len(W) /\ prevWordBeg = Border(n + 1)
    /\ words = { W[k] : k \in 1..n }
    /\ n = 0 => resStr = <<>>
    /\ n # 0 => Joined(n) \in Seq(Chars) /\ resStr = Joined(n) \o <<Space>>

WordsInv ==
    /\ pc = "words" => \E n \in Nat : Taken(n)
    /\ pc = "done" => resStr = JoinWords(FirstOccurrences(W))
    /\ \A k \in 1..Len(resStr) : Printable(resStr[k])

IInv == TypeOK /\ CleanInv /\ WordsInv

(* What the loop leaves of the text is the text cleaned. *)
LEMMA TextIsCleaned ==
    ASSUME TypeOK, CleanInv, pc # "clean"
    PROVE  /\ text = Cleaned(input)
           /\ \A k \in 1..Size : Printable(text[k])
           /\ text \in Seq(Chars)
  <1>1. /\ Size \in Nat /\ Size = Len(text) /\ Len(input) = Size
        /\ text \in [1..Size -> Char \cup {QuestionMark}]
    BY LenProperties DEF TypeOK, CleanInv, Size
  <1>2. ASSUME NEW k \in 1..Size
        PROVE  text[k] = IF Printable(input[k]) THEN input[k] ELSE QuestionMark
    BY <1>1, <1>2 DEF CleanInv
  <1>3. text = [k \in 1..Size |-> IF Printable(input[k]) THEN input[k] ELSE QuestionMark]
    BY <1>1, <1>2
  <1>4. text = Cleaned(input)
    BY <1>1, <1>3 DEF Cleaned
  <1>5. \A k \in 1..Size : Printable(text[k])
    BY <1>2 DEF Printable, QuestionMark
  <1>6. text \in Seq(Chars)
    <2>1. Char \cup {QuestionMark} \subseteq Chars
      BY DEF Chars
    <2> QED BY <2>1, SeqMonotonic DEF TypeOK
  <1> QED BY <1>4, <1>5, <1>6

(* The words of the text, and where they begin and end. *)
LEMMA WordList ==
    ASSUME text \in Seq(Chars)
    PROVE  /\ Size \in Nat /\ Len(W) \in Nat /\ Len(W) # 0 /\ W \in Seq(Seq(Chars))
           /\ Border(1) = 0
           /\ \A k \in 1..(Len(W) + 1) : Border(k) = Size + 1 <=> k = Len(W) + 1
  <1> DEFINE B == Boundaries(text)
             c == Cardinality(B)
  <1>1. /\ Size \in Nat /\ c \in Nat /\ c > 1 /\ Border(1) = 0
        /\ \A j \in 1..c : Border(j) = Size + 1 <=> j = c
    BY BordersOf, LenProperties DEF Size, Border
  <1>2. W = [j \in 1..(c - 1) |-> SubSeq(text, Border(j) + 1, Border(j + 1) - 1)]
    <2> HIDE DEF B
    <2>1. Len(InOrder(B)) = c
      BY <1>1 DEF InOrder
    <2> QED BY <2>1 DEF W, WordsOf, Border, B
  <1> HIDE DEF c
  <1>3. Len(W) = c - 1
    BY <1>1, <1>2
  <1>4. \A k \in 1..Len(W) : W[k] \in Seq(Chars)
    BY NextWord
  <1>5. W \in Seq(Seq(Chars))
    <2>1. W \in [1..(c - 1) -> Seq(Chars)]
      BY <1>2, <1>3, <1>4
    <2> QED BY <1>1, <2>1, SeqDef
  <1> QED BY <1>1, <1>3, <1>5

-----------------------------------------------------------------------------
(* Before the first loop nothing is cleaned and nothing taken. *)
LEMMA InitInv == Init => IInv
  <1> SUFFICES ASSUME Init PROVE IInv
    OBVIOUS
  <1>1. text = input /\ input \in Seq(Char) /\ Len(input) \in Nat
    BY LenProperties DEF Init
  <1>2. input \in Seq(Char \cup {QuestionMark})
    BY <1>1, SeqMonotonic
  <1>3. TypeOK
    <2>1. <<>> \in Seq(Char \cup {QuestionMark, Space})
      BY EmptySeq
    <2> QED BY <1>1, <1>2, <2>1 DEF Init, TypeOK, Size
  <1>4. CleanInv
    <2>1. Unprintable(0) = {}
      BY DEF Unprintable
    <2> QED BY <1>1, <2>1, FS_EmptySet DEF Init, CleanInv, Size
  <1>5. WordsInv
    BY EmptySeq DEF Init, WordsInv
  <1> QED BY <1>3, <1>4, <1>5 DEF IInv

(* An iteration of the first loop. *)
LEMMA CleanCharInv ==
    ASSUME IInv, CleanChar
    PROVE  IInv'
  <1> USE DEF IInv
  <1>1. /\ Size \in Nat /\ Size = Len(text) /\ Len(input) = Size /\ i \in Nat /\ i < Size
        /\ pc = "clean" /\ pc' = "clean" /\ i' = i + 1 /\ i' \in 0..Size
        /\ i + 1 \in 1..Size /\ text \in Seq(Char \cup {QuestionMark})
        /\ CharAt(i) = input[i + 1]
        /\ UNCHANGED <<input, prevWordBeg, words, resStr>>
    BY LenProperties DEF CleanChar, TypeOK, CleanInv, Size, CharAt
  <1>2. Unprintable(i') = IF Printable(CharAt(i)) THEN Unprintable(i)
                          ELSE Unprintable(i) \cup {i + 1}
    BY <1>1 DEF Unprintable
  <1>3. i + 1 \notin Unprintable(i) /\ Unprintable(i)' = Unprintable(i')
    BY <1>1 DEF Unprintable
  <1>4. /\ IsFiniteSet(Unprintable(i)) /\ errorsFound = Cardinality(Unprintable(i))
        /\ errorsFound \in 0..i
    BY DEF CleanInv, TypeOK
  <1>5. CASE Printable(CharAt(i))
    <2>1. UNCHANGED <<text, errorsFound>>
      BY <1>5 DEF CleanChar
    <2>2. TypeOK'
      BY <1>1, <2>1 DEF TypeOK, Size
    <2>3. CleanInv'
      <3>1. Size' = Size /\ \A k \in 1..Size : k <= i' <=> k <= i \/ k = i + 1
        BY <1>1, <2>1 DEF Size
      <3> QED BY <1>1, <1>2, <1>3, <1>4, <1>5, <2>1, <3>1 DEF CleanInv
    <2> QED BY <1>1, <2>2, <2>3 DEF WordsInv
  <1>6. CASE ~Printable(CharAt(i))
    <2>1. text' = [text EXCEPT ![i + 1] = QuestionMark] /\ errorsFound' = errorsFound + 1
      BY <1>6 DEF CleanChar
    <2>2. /\ text' \in Seq(Char \cup {QuestionMark}) /\ Len(text') = Size
          /\ \A k \in 1..Size : text'[k] = IF k = i + 1 THEN QuestionMark ELSE text[k]
      BY <1>1, <2>1, ExceptSeq
    <2>3. TypeOK'
      BY <1>1, <1>4, <2>1, <2>2 DEF TypeOK, Size
    <2>4. CleanInv'
      <3>1. Size' = Size /\ \A k \in 1..Size : k <= i' <=> k <= i \/ k = i + 1
        BY <1>1, <2>2 DEF Size
      <3>2. IsFiniteSet(Unprintable(i)') /\ errorsFound' = Cardinality(Unprintable(i)')
        BY <1>2, <1>3, <1>4, <1>6, <2>1, FS_AddElement
      <3>3. ASSUME NEW k \in 1..Size
            PROVE  text'[k] = IF k <= i' /\ ~Printable(input'[k])
                              THEN QuestionMark ELSE input'[k]
        BY <1>1, <1>6, <2>2, <3>1 DEF CleanInv
      <3> QED BY <1>1, <2>2, <3>1, <3>2, <3>3 DEF CleanInv
    <2> QED BY <1>1, <2>3, <2>4 DEF WordsInv
  <1> QED BY <1>5, <1>6

(* The first loop ends, and the second one is at the first boundary. *)
LEMMA AllCleanInv ==
    ASSUME IInv, AllClean
    PROVE  IInv'
  <1> USE DEF IInv
  <1>1. /\ UNCHANGED <<input, text, i, errorsFound, prevWordBeg, words, resStr>>
        /\ pc = "clean" /\ pc' = "words" /\ i = Size
    BY DEF AllClean
  <1>2. TypeOK' /\ CleanInv'
    BY <1>1 DEF TypeOK, CleanInv, Size, Unprintable
  <1>3. text \in Seq(Chars)
    <2>1. Char \cup {QuestionMark} \subseteq Chars
      BY DEF Chars
    <2> QED BY <2>1, SeqMonotonic DEF TypeOK
  <1>4. (Taken(0))'
    <2>1. Len(W) \in Nat /\ Border(1) = 0
      BY <1>1, <1>3, WordList
    <2> QED BY <1>1, <2>1 DEF Taken, CleanInv, W, Border
  <1>5. WordsInv'
    BY <1>1, <1>4 DEF WordsInv
  <1> QED BY <1>2, <1>5

(* An iteration of the second loop takes the next word. *)
LEMMA TakeWordInv ==
    ASSUME IInv, TakeWord
    PROVE  IInv'
  <1> USE DEF IInv
  <1>1. /\ pc = "words" /\ pc' = "words" /\ prevWordBeg # Size + 1
        /\ UNCHANGED <<input, text, i, errorsFound>>
    BY DEF TakeWord
  <1>2. text \in Seq(Chars) /\ \A k \in 1..Size : Printable(text[k])
    BY <1>1, TextIsCleaned
  <1>3. PICK n \in Nat : Taken(n)
    BY <1>1 DEF WordsInv
  <1> DEFINE w == W[n + 1]
             end == EndOfWord(prevWordBeg)
  <1>4. n + 1 \in 1..Len(W) /\ n < Len(W) /\ prevWordBeg = Border(n + 1)
    <2>1. Len(W) \in Nat /\ n \in 0..Len(W) /\ prevWordBeg = Border(n + 1)
      BY <1>2, <1>3, WordList DEF Taken
    <2>2. ASSUME n = Len(W) PROVE FALSE
      <3>1. n + 1 \in 1..(Len(W) + 1) /\ n + 1 = Len(W) + 1
        BY <2>1, <2>2
      <3>2. Border(n + 1) = Size + 1
        BY <1>2, <3>1, WordList
      <3> QED BY <1>1, <2>1, <3>2
    <2> QED BY <2>1, <2>2
  <1>5. /\ end + 1 = Border(n + 2) /\ Border(n + 2) \in 1..(Size + 1)
        /\ Substr(prevWordBeg, end) = w /\ w \in Seq(Chars)
        /\ \A j \in 1..Len(w) : Printable(w[j])
    <2>1. (n + 1) + 1 = n + 2
      OBVIOUS
    <2> QED BY <1>2, <1>4, <2>1, NextWord
  <1>6. /\ prevWordBeg' = Border(n + 2)
        /\ w \in words => resStr' = resStr /\ words' = words
        /\ w \notin words => /\ resStr' = resStr \o w \o <<Space>>
                             /\ words' = words \cup {w}
    BY <1>5, Zenon DEF TakeWord
  <1> HIDE DEF w, end
  <1>7. /\ words = { W[k] : k \in 1..n }
        /\ n = 0 => resStr = <<>>
        /\ n # 0 => Joined(n) \in Seq(Chars) /\ resStr = Joined(n) \o <<Space>>
    BY <1>3 DEF Taken
  <1>8. words' = { W[k] : k \in 1..(n + 1) }
    BY <1>6, <1>7 DEF w
  <1>9. /\ FirstUpto(W, n) \in Seq(Seq(Chars))
        /\ FirstUpto(W, n) = <<>> <=> n = 0
        /\ FirstUpto(W, n + 1) =
              IF w \in words THEN FirstUpto(W, n) ELSE Append(FirstUpto(W, n), w)
    BY <1>2, <1>4, <1>7, WordList, FirstGrows DEF w
  <1>10. /\ Joined(n + 1) \in Seq(Chars) /\ resStr' = Joined(n + 1) \o <<Space>>
         /\ \A k \in 1..Len(resStr') : Printable(resStr'[k])
    <2>1. <<Space>> \in Seq(Chars) /\ Printable(Space)
      BY DEF Chars, Printable, Space
    <2>2. CASE w \in words
      <3>1. n # 0 /\ Joined(n + 1) = Joined(n)
        BY <1>7, <1>9, <2>2 DEF Joined
      <3> QED BY <1>6, <1>7, <2>2, <3>1 DEF WordsInv
    <2>3. CASE w \notin words /\ n = 0
      <3>1. Joined(n + 1) = w
        BY <1>5, <1>9, <2>1, <2>3, JoinAppend DEF Joined, Chars
      <3>2. resStr' = w \o <<Space>>
        BY <1>5, <1>6, <1>7, <2>3, ConcatEmptySeq
      <3>3. \A k \in 1..Len(w \o <<Space>>) : Printable((w \o <<Space>>)[k])
        BY <1>5, <2>1, ConcatProperties, LenProperties
      <3> QED BY <1>5, <3>1, <3>2, <3>3
    <2>4. CASE w \notin words /\ n # 0
      <3> DEFINE j == Joined(n)
      <3>1. Joined(n + 1) = j \o (<<Space>> \o w)
        <4>1. Space \in Chars
          BY DEF Chars
        <4>2. FirstUpto(W, n) # <<>>
          BY <1>9, <2>4
        <4>3. JoinWords(Append(FirstUpto(W, n), w)) = j \o (<<Space>> \o w)
          BY <1>5, <1>9, <4>1, <4>2, JoinAppend DEF Joined
        <4> QED BY <1>9, <2>4, <4>3 DEF Joined
      <3>2. j \in Seq(Chars) /\ resStr = j \o <<Space>>
        BY <1>7, <2>4
      <3> HIDE DEF j
      <3>3. /\ <<Space>> \o w \in Seq(Chars) /\ j \o (<<Space>> \o w) \in Seq(Chars)
            /\ resStr \in Seq(Chars) /\ resStr \o w = j \o (<<Space>> \o w)
        BY <1>5, <2>1, <3>2, ConcatProperties, ConcatAssociative
      <3>4. resStr' = Joined(n + 1) \o <<Space>>
        BY <1>6, <2>4, <3>1, <3>3
      <3>5. \A k \in 1..Len(resStr \o w) : Printable((resStr \o w)[k])
        BY <1>5, <3>3, ConcatProperties, LenProperties DEF WordsInv
      <3>6. \A k \in 1..Len((resStr \o w) \o <<Space>>) :
               Printable(((resStr \o w) \o <<Space>>)[k])
        BY <2>1, <3>3, <3>5, ConcatProperties, LenProperties
      <3> QED BY <1>6, <2>4, <3>1, <3>3, <3>4, <3>6
    <2> QED BY <2>2, <2>3, <2>4
  <1>11. (Taken(n + 1))'
    <2>1. W' = W /\ Border(n + 2)' = Border(n + 2) /\ Joined(n + 1)' = Joined(n + 1)
      BY <1>1 DEF W, Border, Joined
    <2>2. n + 1 \in 0..Len(W) /\ n + 1 # 0 /\ (n + 1) + 1 = n + 2
      BY <1>4
    <2> QED BY <1>1, <1>6, <1>8, <1>10, <2>1, <2>2 DEF Taken
  <1>12. WordsInv'
    BY <1>1, <1>10, <1>11 DEF WordsInv
  <1>13. CleanInv'
    BY <1>1 DEF CleanInv, Size, Unprintable
  <1>14. TypeOK'
    <2>1. prevWordBeg' \in 0..(Size' + 1) /\ Size' = Size
      <3>1. Size \in Nat /\ Size' = Size
        BY <1>1, <1>2, WordList DEF Size
      <3> QED BY <1>5, <1>6, <3>1
    <2>2. resStr' \in Seq(Char \cup {QuestionMark, Space})
      BY <1>10, ConcatProperties DEF Chars
    <2>3. w \in Seq(Char \cup {QuestionMark})
      <3>1. \A j \in 1..Len(w) : w[j] \in Char \cup {QuestionMark}
        <4>1. \A m \in 1..Size : text[m] \in Char \cup {QuestionMark}
          BY ElementOfSeq DEF TypeOK, Size
        <4> QED BY <1>2, <1>4, <4>1, NextWord DEF w
      <3>2. w \in [1..Len(w) -> Chars] /\ Len(w) \in Nat
        BY <1>5, LenProperties
      <3>3. w \in [1..Len(w) -> Char \cup {QuestionMark}]
        BY <3>1, <3>2
      <3> QED BY <3>2, <3>3, SeqDef
    <2> QED BY <1>1, <1>6, <2>1, <2>2, <2>3 DEF TypeOK
  <1> QED BY <1>12, <1>13, <1>14

(* The last space is cut off. *)
LEMMA ReturnWordsInv ==
    ASSUME IInv, ReturnWords
    PROVE  IInv'
  <1> USE DEF IInv
  <1>1. /\ pc = "words" /\ pc' = "done" /\ prevWordBeg = Size + 1
        /\ resStr' = SubSeq(resStr, 1, Len(resStr) - 1)
        /\ UNCHANGED <<input, text, i, errorsFound, prevWordBeg, words>>
    BY DEF ReturnWords
  <1>2. text \in Seq(Chars)
    BY <1>1, TextIsCleaned
  <1>3. PICK n \in Nat : Taken(n)
    BY <1>1 DEF WordsInv
  <1>4. n = Len(W) /\ n # 0
    <2>1. Len(W) \in Nat /\ n \in 0..Len(W) /\ Border(n + 1) = Size + 1 /\ Len(W) # 0
      BY <1>1, <1>2, <1>3, WordList DEF Taken
    <2>2. n + 1 \in 1..(Len(W) + 1)
      BY <2>1
    <2>3. n + 1 = Len(W) + 1
      BY <1>2, <2>1, <2>2, WordList
    <2> QED BY <2>1, <2>3
  <1> DEFINE j == Joined(n)
  <1>5. j \in Seq(Chars) /\ resStr = j \o <<Space>>
    BY <1>3, <1>4 DEF Taken
  <1>6. j = JoinWords(FirstOccurrences(W))
    <2>1. Len(InOrder(First(W, n))) = Cardinality(First(W, n))
      BY FirstFinite DEF InOrder
    <2> QED BY <1>4, <2>1 DEF Joined, FirstUpto, FirstOccurrences, First
  <1> HIDE DEF j
  <1>7. resStr' = j
    <2>1. /\ resStr \in Seq(Chars) /\ Len(j) \in Nat /\ Len(resStr) = Len(j) + 1
          /\ \A k \in 1..Len(j) : resStr[k] = j[k] /\ j[k] \in Chars
      BY <1>5, ConcatProperties, LenProperties, ElementOfSeq DEF Chars
    <2>2. /\ resStr' \in Seq(Chars) /\ Len(resStr') = Len(j)
          /\ \A k \in 1..Len(j) : resStr'[k] = resStr[k]
      BY <1>1, <2>1, SubSeqProperties
    <2> QED BY <1>5, <2>1, <2>2, SeqEqual
  <1>8. \A k \in 1..Len(resStr') : Printable(resStr'[k])
    <2>1. Len(j) \in Nat /\ Len(resStr) = Len(j) + 1 /\ \A k \in 1..Len(j) : resStr[k] = j[k]
      BY <1>5, ConcatProperties, LenProperties DEF Chars
    <2> QED BY <1>7, <2>1 DEF WordsInv
  <1>9. WordsInv'
    BY <1>1, <1>6, <1>7, <1>8 DEF WordsInv, W
  <1>10. TypeOK' /\ CleanInv'
    BY <1>1, <1>5, <1>7 DEF TypeOK, CleanInv, Size, Unprintable, Chars
  <1> QED BY <1>9, <1>10

(* The invariant is inductive. *)
THEOREM Inductive == Spec => []IInv
  <1>1. IInv /\ [Next]_vars => IInv'
    <2>1. IInv /\ Next => IInv'
      BY CleanCharInv, AllCleanInv, TakeWordInv, ReturnWordsInv DEF Next
    <2>2. IInv /\ UNCHANGED vars => IInv'
      BY DEF vars, IInv, TypeOK, CleanInv, WordsInv, Size, Unprintable, Taken, Border, W, Joined
    <2> QED BY <2>1, <2>2
  <1> QED BY InitInv, <1>1, PTL DEF Spec

(* What the invariant says of the second loop and of the result. *)
LEMMA InsideText == IInv => StaysInside
  <1> SUFFICES ASSUME IInv, pc = "words"
               PROVE  /\ prevWordBeg <= Size + 1
                      /\ prevWordBeg = Size + 1 => Len(resStr) > 0
    BY DEF StaysInside
  <1>1. text \in Seq(Chars)
    BY TextIsCleaned DEF IInv
  <1>2. PICK n \in Nat : Taken(n)
    BY DEF IInv, WordsInv
  <1>3. Size \in Nat /\ prevWordBeg <= Size + 1
    BY <1>1, WordList DEF IInv, TypeOK
  <1>4. CASE n = 0
    BY <1>1, <1>2, <1>3, <1>4, WordList DEF Taken
  <1>5. CASE n # 0
    <2>1. Joined(n) \in Seq(Chars) /\ resStr = Joined(n) \o <<Space>>
      BY <1>2, <1>5 DEF Taken
    <2>2. <<Space>> \in Seq(Chars) /\ Len(<<Space>>) = 1
      BY DEF Chars
    <2>3. Len(resStr) > 0
      BY <2>1, <2>2, ConcatProperties, LenProperties
    <2> QED BY <1>3, <2>3
  <1> QED BY <1>4, <1>5

LEMMA WithoutDuplicates == IInv => DuplicatesAreRemoved
  BY TextIsCleaned DEF IInv, WordsInv, DuplicatesAreRemoved, W

LEMMA OnlyPrintables == IInv => PassedOnIsPrintable
  <1> SUFFICES ASSUME IInv, pc = "done"
               PROVE  errorsFound = Cardinality({ k \in 1..Len(input) : ~Printable(input[k]) })
    BY DEF IInv, WordsInv, PassedOnIsPrintable
  <1> QED BY DEF IInv, CleanInv, Unprintable

-----------------------------------------------------------------------------
(* Every variable keeps its type, for texts of any length. *)
THEOREM TypeCorrect == Spec => []TypeOK
  <1>1. IInv => TypeOK
    BY DEF IInv
  <1> QED BY Inductive, <1>1, PTL

(* The loop meets the end of every text, and resize() has something to cut *)
(* off, the empty text included.                                           *)
THEOREM NeverOutside == Spec => []StaysInside
  BY Inductive, InsideText, PTL

(* For every text: the loop computes the first occurrences of its words.   *)
THEOREM RemovesDuplicates == Spec => []DuplicatesAreRemoved
  BY Inductive, WithoutDuplicates, PTL

(* For every text: what is passed on is printable, and the count is right. *)
THEOREM Printables == Spec => []PassedOnIsPrintable
  BY Inductive, OnlyPrintables, PTL
=============================================================================
