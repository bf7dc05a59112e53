-------------------------- MODULE HttpResponseProofs --------------------------
(***************************************************************************)
(* The parser of HttpResponse on messages of any length: its types, and    *)
(* that the messages which the programs build around a json arrive, for    *)
(* every json.  The invariant says where the parser is after each symbol   *)
(* of such a message.  What the definitions with a recursive function      *)
(* compute (Number, ToDecimal) is shown with the least number for which a  *)
(* claim would be wrong.                                                   *)
(***************************************************************************)
EXTENDS HttpResponse, SequenceTheorems, WellFoundedInduction, TLAPS

(* A set of numbers that is not empty has a least element, which Min finds. *)
LEMMA Least ==
    ASSUME NEW S \in SUBSET Nat, S # {}
    PROVE  /\ Min(S) \in S /\ \A x \in S : Min(S) <= x
           /\ \E m \in S : \A x \in S : m <= x
  <1> DEFINE R == { ss \in Nat \X Nat : ss[1] < ss[2] }
  <1>1. IsWellFoundedOn(R, Nat)
    <2>1. R = OpToRel(<, Nat)
      BY DEF OpToRel
    <2> QED BY <2>1, NatLessThanWellFounded, Zenon
  <1>2. \E x \in S : \A y \in S : ~(<<y, x>> \in R)
    <2> HIDE DEF R
    <2> QED BY <1>1, WFMin, Zenon
  <1>3. PICK m \in S : \A y \in S : ~(<<y, m>> \in R)
    BY <1>2
  <1>4. ASSUME NEW y \in S PROVE m <= y
    <2>1. ~(<<y, m>> \in R)
      BY <1>3
    <2>2. m \in Nat /\ y \in Nat
      OBVIOUS
    <2> QED BY <2>1, <2>2
  <1> QED BY <1>4, Zenon DEF Min

-----------------------------------------------------------------------------
(* Numbers and their digits. *)

(* A digit has a value, and the value has this digit. *)
LEMMA DigitValue ==
    /\ \A d \in Digit : ValueOf(d) \in 0..9
    /\ \A v \in 0..9 : Numeral[v + 1] \in Digit /\ ValueOf(Numeral[v + 1]) = v
  <1>1. \A u, v \in 0..9 : Numeral[u + 1] = Numeral[v + 1] => u = v
    BY DEF Numeral
  <1>2. \A v \in 0..9 : Numeral[v + 1] \in Digit
    BY DEF Numeral, Digit
  <1>3. \A d \in Digit : \E v \in 0..9 : Numeral[v + 1] = d
    <2>1. /\ Numeral[0 + 1] = "0" /\ Numeral[1 + 1] = "1" /\ Numeral[2 + 1] = "2"
          /\ Numeral[3 + 1] = "3" /\ Numeral[4 + 1] = "4" /\ Numeral[5 + 1] = "5"
          /\ Numeral[6 + 1] = "6" /\ Numeral[7 + 1] = "7" /\ Numeral[8 + 1] = "8"
          /\ Numeral[9 + 1] = "9"
      BY DEF Numeral
    <2>2. 0 \in 0..9 /\ 1 \in 0..9 /\ 2 \in 0..9 /\ 3 \in 0..9 /\ 4 \in 0..9
          /\ 5 \in 0..9 /\ 6 \in 0..9 /\ 7 \in 0..9 /\ 8 \in 0..9 /\ 9 \in 0..9
      OBVIOUS
    <2> QED BY <2>1, <2>2, Zenon DEF Digit
  <1>4. \A v \in 0..9 : ValueOf(Numeral[v + 1]) = v
    <2> TAKE v \in 0..9
    <2>1. ValueOf(Numeral[v + 1]) \in 0..9 /\ Numeral[ValueOf(Numeral[v + 1]) + 1] = Numeral[v + 1]
      BY Zenon DEF ValueOf
    <2> QED BY <1>1, <2>1, Zenon
  <1> QED BY <1>2, <1>3, <1>4, Zenon

(* value is the function that Number defines. *)
Counts(value, digits, base) ==
    value = [k \in 0..Len(digits) |->
                IF k = 0 THEN 0 ELSE value[k - 1] * base + ValueOf(digits[k])]

(* There is one, and only one; what it says of the whole is the number. *)
LEMMA NumberIs ==
    ASSUME NEW digits \in Seq(Digit), NEW base \in Nat
    PROVE  /\ \E value : Counts(value, digits, base)
           /\ \A value : Counts(value, digits, base) =>
                 Number(digits, base) = value[Len(digits)]
  <1> DEFINE n == Len(digits)
             Upto(f, m) == f = [k \in 0..m |->
                                   IF k = 0 THEN 0 ELSE f[k - 1] * base + ValueOf(digits[k])]
             bad == { m \in 0..n : ~\E f : Upto(f, m) }
  <1>1. n \in Nat
    BY LenProperties
  <1> HIDE DEF n
  <1>2. bad = {}
    <2> SUFFICES ASSUME bad # {} PROVE FALSE
      OBVIOUS
    <2>1. bad \in SUBSET Nat
      <3>1. \A m : m \in bad => m \in 0..n
        BY Zenon
      <3>2. \A m \in 0..n : m \in Nat
        BY <1>1
      <3> QED BY <3>1, <3>2, Zenon
    <2>2. PICK m \in bad : \A x \in bad : m <= x
      <3> HIDE DEF bad
      <3> QED BY <2>1, Least
    <2>3. m \in 0..n /\ ~\E f : Upto(f, m)
      OBVIOUS
    <2>4. CASE m = 0
      <3> DEFINE f == [k \in 0..0 |-> 0]
      <3>1. f = [k \in 0..m |-> IF k = 0 THEN 0 ELSE f[k - 1] * base + ValueOf(digits[k])]
        BY <2>4
      <3> QED BY <3>1, <2>3, Zenon
    <2>5. CASE m # 0
      <3>1. m - 1 \in 0..n /\ ~(m <= m - 1)
        BY <1>1, <2>3, <2>5
      <3>2. m - 1 \notin bad
        <4> HIDE DEF bad
        <4> QED BY <2>2, <3>1
      <3>3. PICK g : Upto(g, m - 1)
        BY <3>1, <3>2
      <3> DEFINE f == [k \in 0..m |-> IF k = m THEN g[m - 1] * base + ValueOf(digits[m]) ELSE g[k]]
      <3>4. ASSUME NEW k \in 0..m
            PROVE  f[k] = IF k = 0 THEN 0 ELSE f[k - 1] * base + ValueOf(digits[k])
        <4>1. CASE k = m
          <5>1. m \in 0..m /\ m - 1 \in 0..m /\ m - 1 # m
            BY <2>3, <2>5, <1>1
          <5>2. f[m] = g[m - 1] * base + ValueOf(digits[m]) /\ f[m - 1] = g[m - 1]
            BY ONLY <5>1
          <5> QED BY <4>1, <2>5, <5>2
        <4>2. CASE k # m
          <5>1. k \in 0..(m - 1) /\ (k # 0 => k - 1 \in 0..m /\ k - 1 # m)
            BY <4>2, <2>3, <1>1
          <5>2. g[k] = IF k = 0 THEN 0 ELSE g[k - 1] * base + ValueOf(digits[k])
            BY <3>3, <5>1
          <5> QED BY <4>2, <5>1, <5>2
        <4> QED BY <4>1, <4>2
      <3>5. f = [k \in 0..m |-> IF k = 0 THEN 0 ELSE f[k - 1] * base + ValueOf(digits[k])]
        BY <3>4
      <3> QED BY <3>5, <2>3, Zenon
    <2> QED BY <2>4, <2>5
  <1>3. \E f : Counts(f, digits, base)
    <2>1. n \in 0..n
      BY <1>1
    <2>2. \E f : Upto(f, n)
      BY <1>2, <2>1, Zenon
    <2> QED BY <2>2, Zenon DEF Counts, n
  <1>4. ASSUME NEW f, NEW g, Counts(f, digits, base), Counts(g, digits, base) PROVE f = g
    <2> DEFINE apart == { k \in 0..n : f[k] # g[k] }
    <2>1. apart = {}
      <3> SUFFICES ASSUME apart # {} PROVE FALSE
        OBVIOUS
      <3>1. apart \in SUBSET Nat
        BY <1>1
      <3>2. PICK m \in apart : \A x \in apart : m <= x
        <4> HIDE DEF apart
        <4> QED BY <3>1, Least
      <3>3. m \in 0..n /\ f[m] # g[m]
        OBVIOUS
      <3>4. /\ f[m] = IF m = 0 THEN 0 ELSE f[m - 1] * base + ValueOf(digits[m])
            /\ g[m] = IF m = 0 THEN 0 ELSE g[m - 1] * base + ValueOf(digits[m])
        BY <1>4, <3>3 DEF Counts, n
      <3>5. m # 0 /\ f[m - 1] # g[m - 1]
        BY <3>3, <3>4, Zenon
      <3>6. m - 1 \in 0..n /\ ~(m <= m - 1)
        BY <1>1, <3>3, <3>5
      <3>7. m - 1 \in apart
        BY <3>5, <3>6
      <3> QED
        <4> HIDE DEF apart
        <4> QED BY <3>2, <3>6, <3>7
    <2>2. \A k \in 0..n : f[k] = g[k]
      BY <2>1
    <2> QED BY <1>4, <2>2 DEF Counts, n
  <1>5. Number(digits, base) = (CHOOSE f : Counts(f, digits, base))[n]
    BY Zenon DEF Number, Counts, n
  <1>6. Counts(CHOOSE f : Counts(f, digits, base), digits, base)
    BY <1>3, Zenon
  <1> QED BY <1>3, <1>4, <1>5, <1>6, Zenon DEF n

(* The number of a word of digits is a natural number. *)
LEMMA NumberType ==
    ASSUME NEW digits \in Seq(Digit), NEW base \in Nat
    PROVE  Number(digits, base) \in Nat
  <1>1. PICK value : Counts(value, digits, base)
    BY NumberIs
  <1> DEFINE n == Len(digits)
             bad == { k \in 0..n : value[k] \notin Nat }
  <1>2. n \in Nat
    BY LenProperties
  <1> HIDE DEF n
  <1>3. bad = {}
    <2> SUFFICES ASSUME bad # {} PROVE FALSE
      OBVIOUS
    <2>1. bad \in SUBSET Nat
      BY <1>2
    <2>2. PICK m \in bad : \A x \in bad : m <= x
      <3> HIDE DEF bad
      <3> QED BY <2>1, Least
    <2>3. m \in 0..n /\ value[m] \notin Nat
      OBVIOUS
    <2>4. value[m] = IF m = 0 THEN 0 ELSE value[m - 1] * base + ValueOf(digits[m])
      BY <1>1, <2>3 DEF Counts, n
    <2>5. m # 0
      BY <2>3, <2>4
    <2>6. m - 1 \in 0..n /\ ~(m <= m - 1) /\ m \in 1..Len(digits)
      BY <1>2, <2>3, <2>5 DEF n
    <2>7. value[m - 1] \in Nat
      <3>1. m - 1 \notin bad
        <4> HIDE DEF bad
        <4> QED BY <2>2, <2>6
      <3> QED BY <2>6, <3>1
    <2>8. ValueOf(digits[m]) \in Nat
      <3>1. digits[m] \in Digit
        BY <2>6, ElementOfSeq
      <3>2. ValueOf(digits[m]) \in 0..9
        BY <3>1, DigitValue
      <3> QED BY <3>2
    <2>9. value[m - 1] * base \in Nat
      BY <2>7
    <2> QED BY <2>3, <2>4, <2>5, <2>8, <2>9
  <1>4. value[n] \in Nat
    BY <1>2, <1>3
  <1> QED BY <1>1, <1>4, NumberIs DEF n

(* One more digit: the number so far times the base, plus the value of the   *)
(* digit.                                                                    *)
LEMMA NumberAppend ==
    ASSUME NEW digits \in Seq(Digit), NEW d \in Digit
    PROVE  Number(Append(digits, d), 10) = Number(digits, 10) * 10 + ValueOf(d)
  <1> DEFINE more == Append(digits, d)
             n == Len(digits)
  <1>1. /\ more \in Seq(Digit) /\ n \in Nat /\ Len(more) = n + 1
        /\ more[n + 1] = d /\ \A k \in 1..n : more[k] = digits[k]
    BY AppendProperties, LenProperties
  <1> HIDE DEF more, n
  <1>2. PICK value : Counts(value, more, 10)
    BY <1>1, NumberIs
  <1>3. \A k \in 0..(n + 1) :
            value[k] = IF k = 0 THEN 0 ELSE value[k - 1] * 10 + ValueOf(more[k])
    BY <1>1, <1>2, Zenon DEF Counts
  <1> DEFINE less == [k \in 0..n |-> value[k]]
  <1>4. Counts(less, digits, 10)
    <2>1. ASSUME NEW k \in 0..n
          PROVE  less[k] = IF k = 0 THEN 0 ELSE less[k - 1] * 10 + ValueOf(digits[k])
      <3>1. k \in 0..(n + 1) /\ (k # 0 => k - 1 \in 0..n /\ k \in 1..n)
        BY <1>1
      <3> QED BY <1>1, <1>3, <3>1
    <2> QED BY <2>1, Zenon DEF Counts, n
  <1>5. n \in 0..n /\ n + 1 \in 0..(n + 1) /\ n + 1 # 0 /\ (n + 1) - 1 = n
    BY <1>1
  <1>6. Number(digits, 10) = value[n]
    <2>1. less[n] = value[n]
      BY <1>5
    <2> HIDE DEF less
    <2> QED BY <1>4, <2>1, NumberIs DEF n
  <1>7. Number(more, 10) = value[n + 1]
    BY <1>1, <1>2, NumberIs
  <1>8. value[n + 1] = value[n] * 10 + ValueOf(more[n + 1])
    BY <1>3, <1>5
  <1> QED BY <1>1, <1>6, <1>7, <1>8 DEF more

(* text is the function that ToDecimal defines. *)
Writes(text, n) ==
    text = [m \in 0..n |->
               IF m < 10 THEN <<Numeral[m + 1]>>
               ELSE Append(text[m \div 10], Numeral[(m % 10) + 1])]

(* There is a function that ToDecimal defines, and its last value is the     *)
(* text.                                                                     *)
LEMMA ToDecimalDef ==
    ASSUME NEW n \in Nat
    PROVE  \E text : Writes(text, n) /\ ToDecimal(n) = text[n]
  <1> DEFINE bad == { m \in 0..n : ~\E f : Writes(f, m) }
  <1>1. bad = {}
    <2> SUFFICES ASSUME bad # {} PROVE FALSE
      OBVIOUS
    <2>1. bad \in SUBSET Nat
      OBVIOUS
    <2>2. PICK m \in bad : \A x \in bad : m <= x
      <3> HIDE DEF bad
      <3> QED BY <2>1, Least
    <2>3. m \in 0..n /\ ~\E f : Writes(f, m)
      OBVIOUS
    <2>4. CASE m = 0
      <3> DEFINE f == [k \in 0..0 |-> <<Numeral[0 + 1]>>]
      <3>1. ASSUME NEW k \in 0..m
            PROVE  f[k] = IF k < 10 THEN <<Numeral[k + 1]>>
                          ELSE Append(f[k \div 10], Numeral[(k % 10) + 1])
        <4>1. k = 0 /\ k < 10 /\ k \in 0..0
          BY <2>4
        <4>2. f[0] = <<Numeral[0 + 1]>>
          OBVIOUS
        <4> HIDE DEF f
        <4> QED BY <4>1, <4>2
      <3>2. f = [k \in 0..m |-> IF k < 10 THEN <<Numeral[k + 1]>>
                                ELSE Append(f[k \div 10], Numeral[(k % 10) + 1])]
        BY <2>4, <3>1
      <3> QED BY <3>2, <2>3, Zenon DEF Writes
    <2>5. CASE m # 0
      <3>1. m - 1 \in 0..n /\ ~(m <= m - 1)
        BY <2>3, <2>5
      <3>2. m - 1 \notin bad
        <4> HIDE DEF bad
        <4> QED BY <2>2, <3>1
      <3>3. PICK g : Writes(g, m - 1)
        BY <3>1, <3>2
      <3> DEFINE new == IF m < 10 THEN <<Numeral[m + 1]>>
                        ELSE Append(g[m \div 10], Numeral[(m % 10) + 1])
                 f == [k \in 0..m |-> IF k = m THEN new ELSE g[k]]
      <3> HIDE DEF new
      <3>4. ASSUME NEW k \in 0..m
            PROVE  f[k] = IF k < 10 THEN <<Numeral[k + 1]>>
                          ELSE Append(f[k \div 10], Numeral[(k % 10) + 1])
        <4>1. k \in Nat /\ m \in Nat
          BY <2>3
        <4>2. ~(k < 10) => k \div 10 \in 0..m /\ k \div 10 # m /\ f[k \div 10] = g[k \div 10]
          <5>1. ~(k < 10) => k \div 10 \in 0..m /\ k \div 10 < k
            BY <4>1
          <5> QED BY <4>1, <5>1
        <4>3. CASE k = m
          <5>1. f[k] = new
            BY <4>3
          <5> HIDE DEF f
          <5> QED BY <4>2, <4>3, <5>1 DEF new
        <4>4. CASE k # m
          <5>1. k \in 0..(m - 1) /\ f[k] = g[k]
            BY <4>1, <4>4
          <5>2. g[k] = IF k < 10 THEN <<Numeral[k + 1]>>
                       ELSE Append(g[k \div 10], Numeral[(k % 10) + 1])
            BY <3>3, <5>1 DEF Writes
          <5> HIDE DEF f
          <5> QED BY <4>2, <5>1, <5>2
        <4> QED BY <4>3, <4>4
      <3>5. f = [k \in 0..m |-> IF k < 10 THEN <<Numeral[k + 1]>>
                                ELSE Append(f[k \div 10], Numeral[(k % 10) + 1])]
        <4>1. \E h : f = [k \in 0..m |-> h[k]]
          <5>1. f = [k \in 0..m |-> f[k]]
            OBVIOUS
          <5> HIDE DEF f
          <5> QED BY <5>1, Zenon
        <4> HIDE DEF f
        <4> QED BY <3>4, <4>1
      <3> QED BY <3>5, <2>3, Zenon DEF Writes
    <2> QED BY <2>4, <2>5
  <1>2. \E f : Writes(f, n)
    <2>1. n \in 0..n
      OBVIOUS
    <2> QED BY <1>1, <2>1, Zenon
  <1>3. ToDecimal(n) = (CHOOSE f : Writes(f, n))[n]
    BY Zenon DEF ToDecimal, Writes
  <1> QED BY <1>2, <1>3, Zenon

(* The digits of a number are a word of digits, and the number of it. *)
LEMMA ToDecimalIs ==
    ASSUME NEW n \in Nat
    PROVE  /\ ToDecimal(n) \in Seq(Digit) /\ Len(ToDecimal(n)) \in Nat \ {0}
           /\ Number(ToDecimal(n), 10) = n
  <1>1. PICK text : Writes(text, n) /\ ToDecimal(n) = text[n]
    BY ToDecimalDef
  <1> DEFINE Well(m) == text[m] \in Seq(Digit) /\ text[m] # <<>> /\ Number(text[m], 10) = m
             bad == { m \in 0..n : ~Well(m) }
  <1>2. bad = {}
    <2> SUFFICES ASSUME bad # {} PROVE FALSE
      OBVIOUS
    <2>1. bad \in SUBSET Nat
      OBVIOUS
    <2>2. PICK m \in bad : \A x \in bad : m <= x
      <3> HIDE DEF bad
      <3> QED BY <2>1, Least
    <2>3. m \in 0..n /\ ~Well(m)
      OBVIOUS
    <2>4. text[m] = IF m < 10 THEN <<Numeral[m + 1]>>
                    ELSE Append(text[m \div 10], Numeral[(m % 10) + 1])
      BY <1>1, <2>3 DEF Writes
    <2>5. CASE m < 10
      <3>1. m \in 0..9
        BY <2>3, <2>5
      <3> DEFINE d == Numeral[m + 1]
      <3>2. d \in Digit /\ ValueOf(d) = m
        BY <3>1, DigitValue
      <3> HIDE DEF d
      <3>3. text[m] = Append(<<>>, d) /\ <<>> \in Seq(Digit) /\ text[m] # <<>>
            /\ text[m] \in Seq(Digit)
        BY <2>4, <2>5, <3>2 DEF d
      <3>4. Number(<<>>, 10) = 0
        <4>1. PICK value : Counts(value, <<>>, 10)
          BY <3>3, NumberIs
        <4>2. Number(<<>>, 10) = value[0]
          BY <3>3, <4>1, NumberIs
        <4>3. value[0] = 0
          BY <4>1 DEF Counts
        <4> QED BY <4>2, <4>3
      <3>5. Number(text[m], 10) = 0 * 10 + m
        BY <3>2, <3>3, <3>4, NumberAppend
      <3> QED BY <2>3, <3>1, <3>3, <3>5
    <2>6. CASE ~(m < 10)
      <3>1. /\ m \div 10 \in 0..n /\ ~(m <= m \div 10) /\ m % 10 \in 0..9
            /\ m = (m \div 10) * 10 + (m % 10)
        BY <2>3, <2>6
      <3> DEFINE d == Numeral[(m % 10) + 1]
      <3>2. d \in Digit /\ ValueOf(d) = m % 10
        BY <3>1, DigitValue
      <3>3. Well(m \div 10)
        <4>1. m \div 10 \notin bad
          <5> HIDE DEF bad
          <5> QED BY <2>2, <3>1
        <4> QED BY <3>1, <4>1
      <3> HIDE DEF d
      <3>4. text[m] = Append(text[m \div 10], d)
        BY <2>4, <2>6 DEF d
      <3>5. text[m] \in Seq(Digit) /\ text[m] # <<>>
        BY ONLY <3>2, <3>3, <3>4, AppendProperties
      <3>6. Number(text[m], 10) = (m \div 10) * 10 + (m % 10)
        BY <3>2, <3>3, <3>4, NumberAppend
      <3> QED BY <2>3, <3>1, <3>5, <3>6
    <2> QED BY <2>5, <2>6
  <1>3. Well(n)
    <2>1. n \in 0..n
      OBVIOUS
    <2> QED BY <1>2, <2>1
  <1> QED BY <1>1, <1>3, LenProperties, EmptySeq

(* The leading digits of a text are digits. *)
LEMMA LeadingType ==
    ASSUME NEW T, NEW str \in Seq(T)
    PROVE  /\ Leading(str) \in Seq(Digit)
           /\ str \in Seq(Digit) => Leading(str) = str
  <1> DEFINE other == { k \in 1..Len(str) : str[k] \notin Digit }
  <1>1. Len(str) \in Nat /\ str \in [1..Len(str) -> T]
    BY LenProperties
  <1>2. CASE other = {}
    <2>1. Leading(str) = str
      BY <1>2, Zenon DEF Leading
    <2>2. \A k \in 1..Len(str) : str[k] \in Digit
      BY <1>2
    <2>3. str \in Seq(Digit)
      BY <1>1, <2>2
    <2> QED BY <2>1, <2>3
  <1>3. CASE other # {}
    <2>1. Leading(str) = SubSeq(str, 1, Min(other) - 1)
      BY <1>3, Zenon DEF Leading
    <2>2. other \in SUBSET Nat
      BY <1>1
    <2>3. Min(other) \in other /\ \A x \in other : Min(other) <= x
      <3> HIDE DEF other
      <3> QED BY <1>3, <2>2, Least
    <2> DEFINE m == Min(other)
    <2>4. m \in 1..Len(str)
      BY <2>3
    <2>5. str \notin Seq(Digit)
      <3>1. str[m] \notin Digit
        BY <2>3
      <3> QED BY <2>4, <3>1, ElementOfSeq
    <2>6. \A k \in 1..(m - 1) : k \in 1..Len(str) /\ str[k] \in Digit
      <3> SUFFICES ASSUME NEW k \in 1..(m - 1) PROVE k \in 1..Len(str) /\ str[k] \in Digit
        OBVIOUS
      <3>1. k \in 1..Len(str) /\ ~(m <= k)
        BY <1>1, <2>4
      <3>2. k \notin other
        <4> HIDE DEF other
        <4> QED BY <2>3, <3>1
      <3> QED BY <3>1, <3>2
    <2> HIDE DEF m, other
    <2>7. SubSeq(str, 1, m - 1) = [i \in 1..(m - 1) |-> str[i]]
      BY <1>1, <2>4
    <2>8. [i \in 1..(m - 1) |-> str[i]] \in Seq(Digit)
      <3>1. m - 1 \in Nat
        BY <1>1, <2>4
      <3> QED BY <2>6, <3>1
    <2> QED BY <2>1, <2>5, <2>7, <2>8 DEF m
  <1> QED BY <1>2, <1>3

(* atoi() returns an integer. *)
LEMMA AtoiType ==
    ASSUME NEW T, NEW str \in Seq(T)
    PROVE  Atoi(str) \in Int
  <1> DEFINE at == SelectInSeq(str, LAMBDA s : s # "SP")
             number == IF at = 0 THEN <<>> ELSE SubSeq(str, at, Len(str))
             I == { i \in 1..Len(str) : str[i] # "SP" }
  <1>1. Len(str) \in Nat
    BY LenProperties
  <1>2. at = IF I # {} THEN Min(I) ELSE 0
    BY Zenon DEF SelectInSeq
  <1>3. at \in 0..Len(str)
    <2>1. CASE I = {}
      BY <1>1, <1>2, <2>1
    <2>2. CASE I # {}
      <3>1. I \in SUBSET Nat
        BY <1>1
      <3>2. Min(I) \in I
        <4> HIDE DEF I
        <4> QED BY <2>2, <3>1, Least
      <3>3. Min(I) \in 1..Len(str)
        BY <3>2
      <3> QED BY <1>1, <1>2, <2>2, <3>3
    <2> QED BY <2>1, <2>2
  <1> HIDE DEF at
  <1>4. number \in Seq(T)
    <2>1. CASE at = 0
      BY <2>1
    <2>2. CASE at # 0
      <3>1. at \in 1..(Len(str) + 1) /\ Len(str) \in (at - 1)..Len(str)
        BY <1>1, <1>3, <2>2
      <3> QED BY <2>2, <3>1, SubSeqProperties
    <2> QED BY <2>1, <2>2
  <1>5. number # <<>> => Tail(number) \in Seq(T)
    BY <1>4, HeadTailProperties
  <1> HIDE DEF number
  <1>6. Number(Leading(number), 10) \in Nat
    BY <1>4, LeadingType, NumberType
  <1>7. number # <<>> => Number(Leading(Tail(number)), 10) \in Nat
    BY <1>5, LeadingType, NumberType
  <1>8. Atoi(str) = IF number # <<>> /\ number[1] = "-"
                    THEN 0 - Number(Leading(Tail(number)), 10)
                    ELSE Number(Leading(number), 10)
    BY Zenon DEF Atoi, number, at
  <1> QED BY <1>6, <1>7, <1>8

(* atoi() reads back what std::to_string() wrote. *)
LEMMA AtoiOfToDecimal ==
    ASSUME NEW n \in Nat
    PROVE  Atoi(ToDecimal(n)) = n
  <1> DEFINE str == ToDecimal(n)
             at == SelectInSeq(str, LAMBDA s : s # "SP")
             number == IF at = 0 THEN <<>> ELSE SubSeq(str, at, Len(str))
             I == { i \in 1..Len(str) : str[i] # "SP" }
  <1>1. /\ str \in Seq(Digit) /\ Len(str) \in Nat \ {0} /\ Number(str, 10) = n
        /\ \A i \in 1..Len(str) : str[i] \in Digit
    BY ToDecimalIs, ElementOfSeq
  <1> HIDE DEF str
  <1>2. at = IF I # {} THEN Min(I) ELSE 0
    BY Zenon DEF SelectInSeq
  <1>3. at = 1
    <2>1. 1 \in I /\ I \in SUBSET Nat /\ \A i \in I : 1 <= i
      BY <1>1 DEF Digit
    <2>2. Min(I) \in I /\ \A x \in I : Min(I) <= x
      <3> HIDE DEF I
      <3> QED BY <2>1, Least
    <2>3. Min(I) = 1
      <3> HIDE DEF I
      <3>1. Min(I) <= 1 /\ 1 <= Min(I) /\ Min(I) \in Nat
        BY <2>1, <2>2
      <3> QED BY <3>1
    <2> HIDE DEF I
    <2> QED BY <1>2, <2>1, <2>3
  <1> HIDE DEF at
  <1>4. number = str
    BY <1>1, <1>3, SubSeqFull
  <1>5. number[1] # "-"
    <2>1. str[1] \in Digit
      BY <1>1
    <2> HIDE DEF number
    <2> QED BY <1>4, <2>1 DEF Digit
  <1>6. Leading(number) = str
    BY <1>1, <1>4, LeadingType
  <1> HIDE DEF number
  <1>7. Atoi(str) = IF number # <<>> /\ number[1] = "-"
                    THEN 0 - Number(Leading(Tail(number)), 10)
                    ELSE Number(Leading(number), 10)
    BY Zenon DEF Atoi, number, at
  <1> QED BY <1>1, <1>5, <1>6, <1>7 DEF str

-----------------------------------------------------------------------------
(* The table of the transitions. *)

(* What continues a header on the next line. *)
Blanks == {"SP", "TAB"}

(* What the classes of symbols have in common, and what not. *)
LEMMA Classes ==
    /\ NameChar \subseteq Symbol /\ ValueChar \subseteq Symbol /\ Alnum \subseteq Symbol
    /\ Digit \subseteq Alnum /\ Digit \subseteq ValueChar
    /\ "CR" \notin NameChar /\ ":" \notin NameChar /\ "SP" \notin NameChar /\ "TAB" \notin NameChar
    /\ "CR" \notin ValueChar /\ "TAB" \notin ValueChar
    /\ "CR" \notin Alnum /\ "SEMI" \notin Alnum /\ "SP" \notin Digit
  BY DEF NameChar, ValueChar, Alnum, Symbol, IsChar, Digit, Word, Control, Special

(* States with a branch that is an action of its own. *)
Branching == { "ResponseHttpVersion_statusCodeStart", "ResponseHttpVersion_statusCode",
               "HeaderValue", "ExpectingNewline_3", "Post", "ChunkSizeNewLine",
               "ChunkSizeNewLine_3", "ChunkData" }

(* Where the edges lead: never into a content, and into a header only from a *)
(* header.                                                                   *)
LEMMA EdgeEnds ==
    ASSUME NEW e \in Edges
    PROVE  /\ e[3] \in State
           /\ e[3] # "Post" /\ e[3] # "ChunkData" /\ e[3] # "HeaderName"
           /\ e[3] = "HeaderLws" => e[1] = "HeaderLws"
           /\ e[3] = "SpaceBeforeHeaderValue" => e[1] = "HeaderName"
           /\ e[3] = "HeaderValue" => e[1] = "SpaceBeforeHeaderValue"
  <1>1. CASE e \in StatusLineEdges
    <2>1. e[3] \in State
      BY <1>1 DEF StatusLineEdges, State
    <2>2. e[3] \notin {"Post", "ChunkData", "HeaderName", "HeaderLws",
                       "SpaceBeforeHeaderValue", "HeaderValue"}
      BY <1>1 DEF StatusLineEdges
    <2> QED BY <2>1, <2>2
  <1>2. CASE e \in HeaderEdges
    <2>1. e[3] \in State
      BY <1>2 DEF HeaderEdges, State
    <2> QED BY <1>2, <2>1 DEF HeaderEdges
  <1>3. CASE e \in ChunkEdges
    <2>1. e[3] \in State
      BY <1>3 DEF ChunkEdges, State
    <2>2. e[3] \notin {"Post", "ChunkData", "HeaderName", "HeaderLws",
                       "SpaceBeforeHeaderValue", "HeaderValue"}
      BY <1>3 DEF ChunkEdges
    <2> QED BY <2>1, <2>2
  <1> QED BY <1>1, <1>2, <1>3 DEF Edges

(* Where the edges begin, and on which symbols when a state has other        *)
(* branches too.                                                             *)
LEMMA EdgeStarts ==
    ASSUME NEW e \in Edges
    PROVE  /\ e[1] \notin Branching
           /\ e[1] = "HeaderLineStart" => e[2] = {"CR"}
           /\ e[1] = "HeaderName" => e[2] = {":"}
           /\ e[1] = "HeaderLws" => e[2] = {"CR"} \/ e[2] = Blanks
           /\ e[1] = "ChunkSize" => e[2] = {"SEMI"} \/ e[2] = {"CR"}
  <1>1. CASE e \in StatusLineEdges
    <2>1. e[1] \notin Branching
      BY <1>1 DEF StatusLineEdges, Branching
    <2>2. e[1] \notin {"HeaderLineStart", "HeaderName", "HeaderLws", "ChunkSize"}
      BY <1>1 DEF StatusLineEdges
    <2> QED BY <2>1, <2>2
  <1>2. CASE e \in HeaderEdges
    <2>1. e[1] \notin Branching /\ e[1] # "ChunkSize"
      BY <1>2 DEF HeaderEdges, Branching
    <2>2. e[1] = "HeaderLineStart" => e[2] = {"CR"}
      BY <1>2 DEF HeaderEdges
    <2>3. e[1] = "HeaderName" => e[2] = {":"}
      BY <1>2 DEF HeaderEdges
    <2>4. e[1] = "HeaderLws" => e[2] = {"CR"} \/ e[2] = Blanks
      BY <1>2 DEF HeaderEdges, Blanks
    <2> QED BY <2>1, <2>2, <2>3, <2>4
  <1>3. CASE e \in ChunkEdges
    <2>1. e[1] \notin Branching
      BY <1>3 DEF ChunkEdges, Branching
    <2>2. e[1] \notin {"HeaderLineStart", "HeaderName", "HeaderLws"}
      BY <1>3 DEF ChunkEdges
    <2>3. e[1] = "ChunkSize" => e[2] = {"SEMI"} \/ e[2] = {"CR"}
      BY <1>3 DEF ChunkEdges
    <2> QED BY <2>1, <2>2, <2>3
  <1> QED BY <1>1, <1>2, <1>3 DEF Edges

(* Two edges that begin alike end alike. *)
LEMMA EdgesAgree ==
    ASSUME NEW e \in Edges, NEW f \in Edges, NEW s, e[1] = f[1], s \in e[2], s \in f[2]
    PROVE  e[3] = f[3]
  <1>1. "CR" \notin Alnum /\ "SEMI" \notin Alnum /\ ":" \notin Alnum /\ "=" \notin Alnum
        /\ "CR" \notin Digit /\ "." \notin Digit /\ "SP" \notin Digit
    BY DEF Alnum, Digit, Word
  <1> DEFINE InStatusLine ==
               { "ResponseStatusStart", "ResponseHttpVersion_ht", "ResponseHttpVersion_htt",
                 "ResponseHttpVersion_http", "ResponseHttpVersion_slash",
                 "ResponseHttpVersion_majorStart", "ResponseHttpVersion_major",
                 "ResponseHttpVersion_minorStart", "ResponseHttpVersion_minor",
                 "ResponseHttpVersion_statusTextStart", "ResponseHttpVersion_statusText",
                 "ResponseHttpVersion_newLine" }
             InHeaders ==
               { "HeaderLineStart", "HeaderLws", "HeaderName", "SpaceBeforeHeaderValue",
                 "ExpectingNewline_2" }
  <1>2. /\ \A g \in StatusLineEdges : g[1] \in InStatusLine
        /\ \A g \in HeaderEdges : g[1] \in InHeaders
        /\ \A g \in ChunkEdges : g[1] \notin InStatusLine /\ g[1] \notin InHeaders
    <2>1. \A g \in StatusLineEdges : g[1] \in InStatusLine
      BY DEF StatusLineEdges
    <2>2. \A g \in HeaderEdges : g[1] \in InHeaders
      BY DEF HeaderEdges
    <2>3. \A g \in ChunkEdges : g[1] \notin InStatusLine /\ g[1] \notin InHeaders
      BY DEF ChunkEdges
    <2> QED BY <2>1, <2>2, <2>3
  <1>3. \A x \in InHeaders : x \notin InStatusLine
    OBVIOUS
  <1> HIDE DEF InStatusLine, InHeaders
  <1>4. CASE e \in StatusLineEdges
    <2>1. f \in StatusLineEdges
      BY <1>2, <1>3, <1>4 DEF Edges
    <2> QED BY <1>1, <1>4, <2>1 DEF StatusLineEdges
  <1>5. CASE e \in HeaderEdges
    <2>1. f \in HeaderEdges
      BY <1>2, <1>3, <1>5 DEF Edges
    <2> QED BY <1>5, <2>1 DEF HeaderEdges
  <1>6. CASE e \in ChunkEdges
    <2>1. f \in ChunkEdges
      BY <1>2, <1>6 DEF Edges
    <2> QED BY <1>1, <1>6, <2>1 DEF ChunkEdges, Alpha, ChunkText
  <1> QED BY <1>4, <1>5, <1>6 DEF Edges

-----------------------------------------------------------------------------
(* The types, and what keeps them: a value is added only to a header that  *)
(* has begun, and sizes are counted down from above zero.                  *)

(* What the types need: there is a header to add to, and something left to   *)
(* read.                                                                     *)
MovesWell ==
    /\ state \in {"HeaderName", "SpaceBeforeHeaderValue", "HeaderValue", "HeaderLws"} =>
          headers # <<>>
    /\ result = "none" => /\ contentSize >= 0
                          /\ state = "Post" => contentSize > 0
                          /\ state = "ChunkData" => chunkSize > 0

(* The types, with what keeps them: the first half of the inductive          *)
(* invariant.                                                                *)
IType == TypeOK /\ MovesWell

(* A header, as resp.headers keeps it. *)
Header == [name : Seq(Symbol), value : Seq(Symbol)]

(* The types hold for a parser that has read nothing. *)
LEMMA InitType == Init => IType
  <1> SUFFICES ASSUME Init PROVE IType
    OBVIOUS
  <1>1. input \in Seq(Symbol) /\ begin \in 0..Len(input)
    <2>1. input \in Seq(Symbol)
      BY HttpAssumption DEF Init
    <2> QED BY <2>1, LenProperties DEF Init
  <1>2. headers \in Seq(Header) /\ chunkSizeStr \in Seq(Alnum) /\ content \in Seq(Symbol)
    BY EmptySeq DEF Init
  <1>3. state \in State
    BY DEF Init, State
  <1>4. result = "none" /\ statusCode = 0 /\ contentSize = 0 /\ chunkSize = 0
        /\ state = "ResponseStatusStart"
    BY DEF Init
  <1>5. chunked \in BOOLEAN
    BY Zenon DEF Init
  <1> QED BY <1>1, <1>2, <1>3, <1>4, <1>5 DEF IType, TypeOK, MovesWell, Header

(* The symbol that a step consumes. *)
LEMMA NextSymbol ==
    ASSUME TypeOK, begin < Len(input)
    PROVE  Symbol1 \in Symbol /\ begin + 1 \in 0..Len(input)
  <1>1. Len(input) \in Nat
    BY LenProperties DEF TypeOK
  <1>2. begin + 1 \in 1..Len(input)
    BY <1>1 DEF TypeOK
  <1> QED BY <1>2, ElementOfSeq DEF TypeOK, Symbol1

(* A transition that only changes the state keeps the types. *)
LEMMA MovesType ==
    ASSUME IType, Moves, Consumes PROVE IType'
  <1>1. PICK e \in Edges : At(e[1]) /\ Symbol1 \in e[2] /\ state' = e[3]
    BY DEF Moves
  <1>2. UNCHANGED <<statusCode, headers, contentSize, chunked, chunkSizeStr, chunkSize,
                    content, result>>
    BY DEF Moves, headVars, chunkVars
  <1>3. UNCHANGED input /\ begin' \in 0..Len(input)
    BY <1>1, NextSymbol DEF Consumes, At, IType
  <1>4. TypeOK'
    BY <1>1, <1>2, <1>3, EdgeEnds DEF TypeOK, IType
  <1>5. MovesWell'
    <2>1. state = e[1]
      BY <1>1 DEF At
    <2> QED BY <1>1, <1>2, <2>1, EdgeEnds DEF MovesWell, IType
  <1> QED BY <1>4, <1>5 DEF IType

(* So does a digit of the status code. *)
LEMMA ReadsStatusCodeType ==
    ASSUME IType, ReadsStatusCode, Consumes PROVE IType'
  <1>1. /\ UNCHANGED <<headers, contentSize, chunked, chunkSizeStr, chunkSize, content, result,
                       input>>
        /\ begin' \in 0..Len(input) /\ statusCode' \in Nat
        /\ state' \in {"ResponseHttpVersion_statusCode", "ResponseHttpVersion_statusTextStart"}
    <2>1. begin' \in 0..Len(input)
      BY NextSymbol DEF Consumes, At, IType, ReadsStatusCode
    <2>2. Symbol1 \in Digit => 10 * statusCode + ValueOf(Symbol1) \in Nat
      <3> SUFFICES ASSUME Symbol1 \in Digit PROVE 10 * statusCode + ValueOf(Symbol1) \in Nat
        OBVIOUS
      <3>1. ValueOf(Symbol1) \in 0..9
        BY DigitValue
      <3> QED BY <3>1 DEF IType, TypeOK
    <2> QED BY <2>1, <2>2 DEF ReadsStatusCode, Consumes, chunkVars, IType, TypeOK
  <1>2. state' \in State
    BY <1>1 DEF State
  <1> QED BY <1>1, <1>2 DEF IType, TypeOK, MovesWell

(* So does a symbol of a name or of a value, added to the last header. *)
LEMMA ReadsHeaderType ==
    ASSUME IType, ReadsHeader, Consumes PROVE IType'
  <1>1. /\ UNCHANGED <<statusCode, contentSize, chunked, chunkSizeStr, chunkSize, content,
                       result, input>>
        /\ begin' \in 0..Len(input) /\ Symbol1 \in Symbol
    BY NextSymbol DEF Consumes, At, IType, ReadsHeader, chunkVars
  <1>2. headers \in Seq(Header)
    BY DEF IType, TypeOK, Header
  <1>3. headers' \in Seq(Header) /\ headers' # <<>>
        /\ state' \in {"HeaderName", "HeaderLws", "HeaderValue"}
    <2>1. CASE /\ At("HeaderLineStart") /\ Symbol1 \in NameChar
               /\ headers' = Append(headers, [name |-> <<Symbol1>>, value |-> <<>>])
               /\ state' = "HeaderName"
      <3>1. [name |-> <<Symbol1>>, value |-> <<>>] \in Header
        BY <1>1 DEF Header
      <3> QED BY <1>2, <2>1, <3>1, AppendProperties
    <2>2. CASE /\ At("HeaderLineStart") /\ headers # <<>> /\ Symbol1 \in {"SP", "TAB"}
               /\ state' = "HeaderLws" /\ UNCHANGED headers
      BY <1>2, <2>2
    <2>3. CASE /\ At("HeaderName") /\ Symbol1 \in NameChar
               /\ headers' = [headers EXCEPT ![Len(headers)] = [name |-> Append(@.name, Symbol1), value |-> @.value]]
               /\ UNCHANGED state
      <3>1. headers # <<>> /\ state' = "HeaderName"
        BY <2>3 DEF IType, MovesWell, At
      <3>2. Len(headers) \in 1..Len(headers) /\ headers[Len(headers)] \in Header
        BY <1>2, <3>1, LenProperties, EmptySeq, ElementOfSeq
      <3>3. [name |-> Append(headers[Len(headers)].name, Symbol1), value |-> headers[Len(headers)].value]
              \in Header
        BY <1>1, <3>2, AppendProperties DEF Header
      <3> QED BY <1>2, <2>3, <3>1, <3>2, <3>3, ExceptSeq, LenProperties, EmptySeq
    <2>4. CASE /\ \/ At("HeaderValue") /\ Symbol1 \in ValueChar
                  \/ At("HeaderLws") /\ Symbol1 \in ValueChar \ {"SP"}
               /\ headers' = [headers EXCEPT ![Len(headers)] = [name |-> @.name, value |-> Append(@.value, Symbol1)]]
               /\ state' = "HeaderValue"
      <3>1. headers # <<>> /\ state' = "HeaderValue"
        BY <2>4 DEF IType, MovesWell, At
      <3>2. Len(headers) \in 1..Len(headers) /\ headers[Len(headers)] \in Header
        BY <1>2, <3>1, LenProperties, EmptySeq, ElementOfSeq
      <3>3. [name |-> headers[Len(headers)].name, value |-> Append(headers[Len(headers)].value, Symbol1)]
              \in Header
        BY <1>1, <3>2, AppendProperties DEF Header
      <3> QED BY <1>2, <2>4, <3>1, <3>2, <3>3, ExceptSeq, LenProperties, EmptySeq
    <2> QED BY <2>1, <2>2, <2>3, <2>4 DEF ReadsHeader
  <1>4. state' \in State
    BY <1>3 DEF State
  <1> QED BY <1>1, <1>3, <1>4 DEF IType, TypeOK, MovesWell, Header

(* So does the end of a value; a negative length stops the parser. *)
LEMMA EndsHeaderType ==
    ASSUME IType, EndsHeader, Consumes PROVE IType'
  <1>1. /\ UNCHANGED <<statusCode, headers, chunkSizeStr, chunkSize, content, input>>
        /\ begin' \in 0..Len(input) /\ state' = "ExpectingNewline_2" /\ result = "none"
    BY NextSymbol DEF Consumes, At, IType, EndsHeader, chunkVars
  <1>2. contentSize' \in Int
    <2>1. headers \in Seq(Header) /\ headers # <<>>
      BY DEF IType, TypeOK, MovesWell, EndsHeader, At, Header
    <2>2. Last(headers) \in Header
      <3>1. Len(headers) \in 1..Len(headers)
        BY <2>1, LenProperties, EmptySeq
      <3> QED BY <2>1, <3>1, ElementOfSeq DEF Last
    <2>3. Atoi(Last(headers).value) \in Int
      BY <2>2, AtoiType DEF Header
    <2>4. contentSize \in Int
      BY DEF IType, TypeOK
    <2> QED BY <2>3, <2>4, Zenon DEF EndsHeader
  <1>3. chunked' \in BOOLEAN
    BY DEF EndsHeader
  <1>4. result' = IF contentSize' < 0 THEN "thrown" ELSE "none"
    BY DEF EndsHeader
  <1>5. state' \in State
    BY <1>1 DEF State
  <1>6. TypeOK'
    BY <1>1, <1>2, <1>3, <1>4, <1>5 DEF IType, TypeOK
  <1>7. MovesWell'
    BY <1>1, <1>2, <1>4 DEF MovesWell
  <1> QED BY <1>6, <1>7 DEF IType

(* So does the end of the head: a content that is waited for is not empty. *)
LEMMA EndsHeadType ==
    ASSUME IType, EndsHead, Consumes PROVE IType'
  <1>1. /\ UNCHANGED <<statusCode, headers, contentSize, chunked, chunkSizeStr, chunkSize,
                       content, input>>
        /\ begin' \in 0..Len(input) /\ state = "ExpectingNewline_3" /\ result = "none"
    BY NextSymbol DEF Consumes, At, IType, EndsHead, headVars, chunkVars
  <1>2. /\ state' \in {"ExpectingNewline_3", "ChunkSize", "Post"}
        /\ result' \in {"none", "ParsingCompleted"}
        /\ state' = "Post" => contentSize # 0
    BY <1>1 DEF EndsHead
  <1>3. state' \in State
    BY <1>2 DEF State
  <1> QED BY <1>1, <1>2, <1>3 DEF IType, TypeOK, MovesWell

(* So does a symbol of a content that is counted. *)
LEMMA ReadsContentType ==
    ASSUME IType, ReadsContent, Consumes PROVE IType'
  <1>1. /\ UNCHANGED <<state, statusCode, headers, chunked, chunkSizeStr, chunkSize, input>>
        /\ begin' \in 0..Len(input) /\ state = "Post" /\ result = "none" /\ Symbol1 \in Symbol
    BY NextSymbol DEF Consumes, At, IType, ReadsContent, chunkVars
  <1>2. content' \in Seq(Symbol)
    BY <1>1, AppendProperties DEF ReadsContent, IType, TypeOK
  <1>3. /\ contentSize' = contentSize - 1 /\ contentSize > 0 /\ contentSize \in Int
        /\ result' = IF contentSize' = 0 THEN "ParsingCompleted" ELSE "none"
    BY <1>1 DEF ReadsContent, IType, TypeOK, MovesWell
  <1> QED BY <1>1, <1>2, <1>3 DEF IType, TypeOK, MovesWell

(* So does the size of a chunk. *)
LEMMA ReadsChunkSizeType ==
    ASSUME IType, ReadsChunkSize, Consumes PROVE IType'
  <1>1. /\ UNCHANGED <<statusCode, headers, contentSize, chunked, content, result, input>>
        /\ begin' \in 0..Len(input)
    BY NextSymbol DEF Consumes, At, IType, ReadsChunkSize, headVars
  <1>2. CASE /\ At("ChunkSize") /\ Symbol1 \in Alnum
             /\ chunkSizeStr' = Append(chunkSizeStr, Symbol1)
             /\ UNCHANGED <<state, chunkSize>>
    <2>1. chunkSizeStr' \in Seq(Alnum)
      BY <1>2, AppendProperties DEF IType, TypeOK
    <2> QED BY <1>1, <1>2, <2>1 DEF IType, TypeOK, MovesWell, At
  <1>3. CASE /\ At("ChunkSizeNewLine") /\ Symbol1 = "LF"
             /\ chunkSize' = Number(Leading(chunkSizeStr), 16)
             /\ chunkSizeStr' = <<>>
             /\ state' = IF chunkSize' = 0 THEN "ChunkSizeNewLine_2" ELSE "ChunkData"
    <2>1. chunkSize' \in Nat
      <3>1. Leading(chunkSizeStr) \in Seq(Digit)
        BY LeadingType DEF IType, TypeOK
      <3> QED BY <1>3, <3>1, NumberType
    <2>2. state' \in State
      BY <1>3 DEF State
    <2>3. TypeOK'
      BY <1>1, <1>3, <2>1, <2>2 DEF IType, TypeOK
    <2>4. MovesWell'
      BY <1>1, <1>3, <2>1 DEF IType, MovesWell, At
    <2> QED BY <2>3, <2>4 DEF IType
  <1> QED BY <1>2, <1>3 DEF ReadsChunkSize

(* So does a symbol of a chunk: the state changes when none is left. *)
LEMMA ReadsChunkType ==
    ASSUME IType, ReadsChunk, Consumes PROVE IType'
  <1>1. /\ UNCHANGED <<statusCode, headers, contentSize, chunked, chunkSizeStr, result, input>>
        /\ begin' \in 0..Len(input) /\ state = "ChunkData" /\ result = "none" /\ Symbol1 \in Symbol
    BY NextSymbol DEF Consumes, At, IType, ReadsChunk, headVars
  <1>2. content' \in Seq(Symbol)
    BY <1>1, AppendProperties DEF ReadsChunk, IType, TypeOK
  <1>3. /\ chunkSize' = chunkSize - 1 /\ chunkSize > 0 /\ chunkSize \in Nat
        /\ state' = IF chunkSize' = 0 THEN "ChunkDataNewLine_1" ELSE "ChunkData"
    BY <1>1 DEF ReadsChunk, IType, TypeOK, MovesWell
  <1>4. state' \in State
    BY <1>3 DEF State
  <1>5. chunkSize' \in Nat
    BY <1>3
  <1>6. TypeOK'
    BY <1>1, <1>2, <1>4, <1>5 DEF IType, TypeOK
  <1>7. MovesWell'
    BY <1>1, <1>3, <1>5 DEF IType, MovesWell
  <1> QED BY <1>6, <1>7 DEF IType

(* So do the end of the chunks, an error and the end of the input. *)
LEMMA StopsType ==
    ASSUME IType, (EndsChunks /\ Consumes) \/ Rejects \/ Returns PROVE IType'
  <1>1. /\ UNCHANGED <<state, statusCode, headers, contentSize, chunked, chunkSizeStr,
                       chunkSize, content, input>>
        /\ result = "none" /\ result' \in {"ParsingCompleted", "ParsingError", "ParsingIncompleted"}
    BY DEF EndsChunks, Consumes, Rejects, Returns, headVars, chunkVars, At
  <1>2. begin' \in 0..Len(input)
    <2>1. TypeOK
      BY DEF IType
    <2>2. CASE Consumes /\ begin < Len(input)
      BY <2>1, <2>2, NextSymbol DEF Consumes
    <2>3. CASE begin' = begin
      BY <2>1, <2>3 DEF TypeOK
    <2> QED BY <2>2, <2>3 DEF EndsChunks, At, Rejects, Returns
  <1> QED BY <1>1, <1>2 DEF IType, TypeOK, MovesWell

(* Every step of the parser keeps the types. *)
LEMMA NextType == IType /\ [Next]_vars => IType'
  <1> SUFFICES ASSUME IType, [Next]_vars PROVE IType'
    OBVIOUS
  <1>1. CASE Accepts
    BY <1>1, MovesType, ReadsStatusCodeType, ReadsHeaderType, EndsHeaderType, EndsHeadType,
       ReadsContentType, ReadsChunkSizeType, ReadsChunkType, StopsType DEF Accepts
  <1>2. CASE Rejects \/ Returns
    BY <1>2, StopsType
  <1>3. CASE UNCHANGED vars
    BY <1>3 DEF vars, IType, TypeOK, MovesWell
  <1> QED BY <1>1, <1>2, <1>3 DEF Next

-----------------------------------------------------------------------------
(* Where the parser is in a message that the programs build. *)

(* The state in front of each symbol of BuiltHead, and behind the last one. *)
Stage ==
    << "ResponseStatusStart", "ResponseHttpVersion_ht", "ResponseHttpVersion_htt",
       "ResponseHttpVersion_http", "ResponseHttpVersion_slash",
       "ResponseHttpVersion_majorStart", "ResponseHttpVersion_major",
       "ResponseHttpVersion_minorStart", "ResponseHttpVersion_minor",
       "ResponseHttpVersion_statusCodeStart", "ResponseHttpVersion_statusCode",
       "ResponseHttpVersion_statusCode", "ResponseHttpVersion_statusCode",
       "ResponseHttpVersion_statusTextStart", "ResponseHttpVersion_statusText",
       "ResponseHttpVersion_newLine", "HeaderLineStart", "HeaderName",
       "SpaceBeforeHeaderValue", "HeaderValue", "HeaderValue", "HeaderValue",
       "HeaderValue", "ExpectingNewline_2", "HeaderLineStart", "HeaderName",
       "SpaceBeforeHeaderValue", "HeaderValue" >>

(* Nothing of the content is read, and the message is not in chunks. *)
Plain == chunked = FALSE /\ content = <<>>

(* The symbols in front of the length: what the fields hold behind each. *)
InHead ==
    /\ begin \in 0..26 /\ state = Stage[begin + 1]
    /\ Plain /\ contentSize = 0
    /\ begin <= 9 => statusCode = 0
    /\ begin = 10 => statusCode = 2
    /\ begin = 11 => statusCode = 20
    /\ begin = 12 => statusCode = 200
    /\ begin \in 17..22 => headers[Len(headers)].name = <<"y">>
    /\ begin \in 25..26 => headers[Len(headers)] = [name |-> <<"Content-Length">>, value |-> <<>>]

(* In the length: the value of the last header is what was read of it. *)
InLength(text) ==
    /\ begin - 27 \in 0..Len(text) /\ state = "HeaderValue"
    /\ Plain
    /\ headers[Len(headers)] = [name |-> <<"Content-Length">>,
                                value |-> SubSeq(text, 1, begin - 27)]

(* Behind the length, which is now the size of the content. *)
InEnd(text, size) ==
    /\ Plain /\ contentSize = size
    /\ \/ begin = 28 + Len(text) /\ state = "ExpectingNewline_2"
       \/ begin = 29 + Len(text) /\ state = "HeaderLineStart"
       \/ begin = 30 + Len(text) /\ state = "ExpectingNewline_3"

(* In the content: what was read of it, and how much is left. *)
InJson(text, json) ==
    /\ begin - 31 - Len(text) \in 0..(Len(json) - 1) /\ state = "Post"
    /\ content = SubSeq(json, 1, begin - 31 - Len(text))
    /\ contentSize = Len(json) - (begin - 31 - Len(text))

(* The parser is at some place of the message around a json. *)
OnTheWay(text, json) ==
    InHead \/ InLength(text) \/ InEnd(text, Len(json)) \/ InJson(text, json)

(* The parser has returned: with the json, or because the message is not all *)
(* there.                                                                    *)
Arrived(json) ==
    \/ result = "ParsingCompleted" /\ begin = Len(BuildsResponse(json)) /\ content = json
    \/ result = "ParsingIncompleted" /\ begin = Len(input) /\ begin < Len(BuildsResponse(json))

(* Whoever reads a beginning of a message of the programs is on the way or   *)
(* has arrived.                                                              *)
Arriving ==
    \A json \in Json : IsPrefix(input, BuildsResponse(json)) =>
        IF result = "none" THEN OnTheWay(ToDecimal(Len(json)), json) ELSE Arrived(json)

(* The inductive invariant. *)
IInv == IType /\ Arriving

(* A prefix has the same elements, and is the whole when it is as long. *)
LEMMA PrefixElements ==
    ASSUME NEW S, NEW s \in Seq(S), NEW t \in Seq(S), IsPrefix(s, t)
    PROVE  /\ Len(s) \in 0..Len(t) /\ \A k \in 1..Len(s) : s[k] = t[k]
           /\ Len(s) = Len(t) => s = t
  <1>1. Len(s) \in Nat /\ Len(t) \in Nat /\ Len(s) <= Len(t)
        /\ SubSeq(s, 1, Len(s)) = SubSeq(t, 1, Len(s))
    BY LenProperties DEF IsPrefix
  <1>2. SubSeq(s, 1, Len(s)) = s
    BY SubSeqFull
  <1>3. ASSUME NEW k \in 1..Len(s) PROVE s[k] = t[k]
    <2>1. SubSeq(t, 1, Len(s))[k] = t[1 + k - 1]
      BY <1>1, <1>3, SubSeqProperties
    <2>2. 1 + k - 1 = k
      BY <1>1
    <2> QED BY <1>1, <1>2, <2>1, <2>2
  <1> QED BY <1>1, <1>2, <1>3, SubSeqFull

(* The elements of two sequences in a row. *)
LEMMA Joined ==
    ASSUME NEW S, NEW s \in Seq(S), NEW t \in Seq(S)
    PROVE  /\ s \o t \in Seq(S) /\ Len(s \o t) = Len(s) + Len(t)
           /\ \A k \in 1..Len(s) : (s \o t)[k] = s[k]
           /\ \A k \in 1..Len(t) : (s \o t)[Len(s) + k] = t[k]
  <1> DEFINE m == Len(s)
             n == Len(t)
             j == s \o t
  <1>1. m \in Nat /\ n \in Nat
    BY LenProperties
  <1>2. j \in Seq(S) /\ Len(j) = m + n
        /\ \A k \in 1..(m + n) : j[k] = IF k <= m THEN s[k] ELSE t[k - m]
    BY ConcatProperties
  <1> HIDE DEF m, n, j
  <1>3. ASSUME NEW k \in 1..m PROVE j[k] = s[k]
    <2>1. k \in 1..(m + n) /\ k <= m
      BY <1>1
    <2> QED BY <1>2, <2>1
  <1>4. ASSUME NEW k \in 1..n PROVE j[m + k] = t[k]
    <2>1. m + k \in 1..(m + n) /\ ~(m + k <= m) /\ (m + k) - m = k
      BY <1>1
    <2> QED BY <1>2, <2>1
  <1> QED BY <1>2, <1>3, <1>4 DEF m, n, j

(* The elements of four sequences in a row. *)
LEMMA FourJoined ==
    ASSUME NEW S, NEW h \in Seq(S), NEW t \in Seq(S), NEW b \in Seq(S), NEW j \in Seq(S),
           NEW msg, msg = ((h \o t) \o b) \o j
    PROVE  /\ msg \in Seq(S) /\ Len(msg) = Len(h) + Len(t) + Len(b) + Len(j)
           /\ \A k \in 1..Len(h) : msg[k] = h[k]
           /\ \A k \in 1..Len(t) : msg[Len(h) + k] = t[k]
           /\ \A k \in 1..Len(b) : msg[Len(h) + Len(t) + k] = b[k]
           /\ \A k \in 1..Len(j) : msg[Len(h) + Len(t) + Len(b) + k] = j[k]
  <1> DEFINE x == h \o t
             y == x \o b
  <1>0. Len(h) \in Nat /\ Len(t) \in Nat /\ Len(b) \in Nat /\ Len(j) \in Nat
    BY LenProperties
  <1>3. /\ x \in Seq(S) /\ Len(x) = Len(h) + Len(t)
        /\ \A k \in 1..Len(h) : x[k] = h[k]
        /\ \A k \in 1..Len(t) : x[Len(h) + k] = t[k]
    BY Joined
  <1> HIDE DEF x
  <1>4. /\ y \in Seq(S) /\ Len(y) = Len(x) + Len(b)
        /\ \A k \in 1..Len(x) : y[k] = x[k]
        /\ \A k \in 1..Len(b) : y[Len(x) + k] = b[k]
    <2>1. x \in Seq(S)
      BY <1>3
    <2> QED BY ONLY <2>1, b \in Seq(S), Joined
  <1> HIDE DEF y
  <1>5. /\ msg \in Seq(S) /\ Len(msg) = Len(y) + Len(j)
        /\ \A k \in 1..Len(y) : msg[k] = y[k]
        /\ \A k \in 1..Len(j) : msg[Len(y) + k] = j[k]
    <2>1. msg = y \o j
      BY DEF x, y
    <2>2. y \in Seq(S)
      BY <1>4
    <2> QED BY ONLY <2>1, <2>2, j \in Seq(S), Joined
  <1>7. ASSUME NEW k \in 1..Len(h) PROVE msg[k] = h[k]
    <2>1. k \in 1..Len(x) /\ k \in 1..Len(y)
      BY <1>0, <1>3, <1>4
    <2> QED BY <1>3, <1>4, <1>5, <2>1
  <1>8. ASSUME NEW k \in 1..Len(t) PROVE msg[Len(h) + k] = t[k]
    <2>1. PICK i : i = Len(h) + k
      OBVIOUS
    <2>2. i \in 1..Len(x) /\ i \in 1..Len(y)
      BY <1>0, <1>3, <1>4, <2>1
    <2>3. msg[i] = x[i]
      BY <1>4, <1>5, <2>2
    <2>4. x[i] = t[k]
      BY <1>3, <2>1
    <2> QED BY <2>1, <2>3, <2>4
  <1>9. ASSUME NEW k \in 1..Len(b) PROVE msg[Len(h) + Len(t) + k] = b[k]
    <2>1. PICK i : i = Len(x) + k
      OBVIOUS
    <2>2. i \in 1..Len(y) /\ i = Len(h) + Len(t) + k
      BY <1>0, <1>3, <1>4, <2>1
    <2>3. msg[i] = y[i]
      BY <1>5, <2>2
    <2>4. y[i] = b[k]
      BY <1>4, <2>1
    <2> QED BY <2>2, <2>3, <2>4
  <1>10. ASSUME NEW k \in 1..Len(j) PROVE msg[Len(h) + Len(t) + Len(b) + k] = j[k]
    <2>1. PICK i : i = Len(y) + k
      OBVIOUS
    <2>2. i = Len(h) + Len(t) + Len(b) + k
      BY <1>0, <1>3, <1>4, <2>1
    <2>4. msg[i] = j[k]
      BY <1>5, <2>1
    <2> QED BY <2>2, <2>4
  <1>11. Len(msg) = Len(h) + Len(t) + Len(b) + Len(j)
    BY <1>0, <1>3, <1>4, <1>5
  <1> QED BY <1>5, <1>7, <1>8, <1>9, <1>10, <1>11

(* The message around a json, piece by piece. *)
IsBuilt(msg, text, json) ==
    /\ text \in Seq(Digit) /\ Len(text) \in Nat \ {0} /\ Len(json) \in Nat
    /\ msg \in Seq(Symbol) /\ Len(msg) = 31 + Len(text) + Len(json)
    /\ \A k \in 1..27 : msg[k] = BuiltHead[k]
    /\ \A k \in 1..Len(text) : msg[27 + k] = text[k]
    /\ msg[28 + Len(text)] = "CR" /\ msg[29 + Len(text)] = "LF"
    /\ msg[30 + Len(text)] = "CR" /\ msg[31 + Len(text)] = "LF"
    /\ \A k \in 1..Len(json) : msg[31 + Len(text) + k] = json[k]

(* What BuildsResponse builds is built like this. *)
LEMMA Built ==
    ASSUME NEW json \in Seq(Symbol), NEW text, text = ToDecimal(Len(json)),
           NEW msg, msg = BuildsResponse(json)
    PROVE  IsBuilt(msg, text, json)
  <1> DEFINE breaks == <<"CR", "LF", "CR", "LF">>
  <1>1. /\ text \in Seq(Digit) /\ Len(text) \in Nat \ {0} /\ Len(json) \in Nat
        /\ \A k \in 1..Len(text) : text[k] \in Digit
    BY ToDecimalIs, LenProperties, ElementOfSeq
  <1>2. text \in Seq(Symbol)
    BY <1>1 DEF Symbol
  <1>3. BuiltHead \in Seq(Symbol) /\ Len(BuiltHead) = 27
    <2>1. /\ {"H", "T", "P", "OK", "y", "Content-Length"} \subseteq Symbol
          /\ {"/", ":", "SP", "CR", "LF", ".", "0", "1", "2"} \subseteq Symbol
      BY DEF Symbol, Digit, Word, Special, Control
    <2> QED BY <2>1 DEF BuiltHead
  <1>4. breaks \in Seq(Symbol) /\ Len(breaks) = 4
        /\ breaks[1] = "CR" /\ breaks[2] = "LF" /\ breaks[3] = "CR" /\ breaks[4] = "LF"
    BY DEF Symbol, Control
  <1> HIDE DEF breaks
  <1>5. msg = ((BuiltHead \o text) \o breaks) \o json
    BY DEF BuildsResponse, breaks
  <1>6. /\ msg \in Seq(Symbol) /\ Len(msg) = Len(BuiltHead) + Len(text) + Len(breaks) + Len(json)
        /\ \A k \in 1..Len(BuiltHead) : msg[k] = BuiltHead[k]
        /\ \A k \in 1..Len(text) : msg[Len(BuiltHead) + k] = text[k]
        /\ \A k \in 1..Len(breaks) : msg[Len(BuiltHead) + Len(text) + k] = breaks[k]
        /\ \A k \in 1..Len(json) :
              msg[Len(BuiltHead) + Len(text) + Len(breaks) + k] = json[k]
    <2>1. BuiltHead \in Seq(Symbol) /\ breaks \in Seq(Symbol)
      BY <1>3, <1>4
    <2> QED BY ONLY <1>2, <1>5, <2>1, json \in Seq(Symbol), FourJoined
  <1>7. /\ Len(BuiltHead) + Len(text) + Len(breaks) + Len(json) = 31 + Len(text) + Len(json)
        /\ \A k \in Int : /\ Len(BuiltHead) + Len(text) + Len(breaks) + k = 31 + Len(text) + k
                          /\ Len(BuiltHead) + Len(text) + k = 27 + Len(text) + k
                          /\ Len(BuiltHead) + k = 27 + k
        /\ Len(BuiltHead) + Len(text) + 1 = 28 + Len(text)
        /\ Len(BuiltHead) + Len(text) + 2 = 29 + Len(text)
        /\ Len(BuiltHead) + Len(text) + 3 = 30 + Len(text)
        /\ Len(BuiltHead) + Len(text) + 4 = 31 + Len(text)
    BY <1>1, <1>3, <1>4
  <1>8. \A k \in 1..27 : msg[k] = BuiltHead[k]
    BY <1>3, <1>6
  <1>9. ASSUME NEW k \in 1..Len(text) PROVE msg[27 + k] = text[k]
    <2>1. msg[Len(BuiltHead) + k] = text[k]
      BY <1>6
    <2>2. Len(BuiltHead) + k = 27 + k
      BY <1>1, <1>7
    <2> QED BY <2>1, <2>2, Zenon
  <1>10. ASSUME NEW k \in 1..Len(json) PROVE msg[31 + Len(text) + k] = json[k]
    <2>1. msg[Len(BuiltHead) + Len(text) + Len(breaks) + k] = json[k]
      BY <1>6
    <2>2. Len(BuiltHead) + Len(text) + Len(breaks) + k = 31 + Len(text) + k
      BY <1>1, <1>3, <1>4
    <2> QED BY <2>1, <2>2, Zenon
  <1>11. /\ msg[28 + Len(text)] = "CR" /\ msg[29 + Len(text)] = "LF"
         /\ msg[30 + Len(text)] = "CR" /\ msg[31 + Len(text)] = "LF"
    <2>1. 1 \in 1..Len(breaks) /\ 2 \in 1..Len(breaks) /\ 3 \in 1..Len(breaks)
          /\ 4 \in 1..Len(breaks)
      BY <1>4
    <2>2. /\ msg[Len(BuiltHead) + Len(text) + 1] = "CR"
          /\ msg[Len(BuiltHead) + Len(text) + 2] = "LF"
          /\ msg[Len(BuiltHead) + Len(text) + 3] = "CR"
          /\ msg[Len(BuiltHead) + Len(text) + 4] = "LF"
      BY <1>4, <1>6, <2>1
    <2> QED BY <1>7, <2>2, Zenon
  <1>12. msg \in Seq(Symbol) /\ Len(msg) = 31 + Len(text) + Len(json)
    BY <1>6, <1>7, Zenon
  <1> QED BY <1>1, <1>8, <1>9, <1>10, <1>11, <1>12 DEF IsBuilt

-----------------------------------------------------------------------------
(* One step at a time: what a symbol does to a state. *)

(* A symbol that has a branch is not rejected. *)
LEMMA GoesOn ==
    ASSUME Next, result = "none", begin < Len(input), TypeOK, Expected
    PROVE  Accepts
  <1>1. begin # Len(input)
    BY LenProperties DEF TypeOK
  <1> QED BY <1>1 DEF Next, Rejects, Returns

(* A symbol of an edge changes the state, and nothing else. *)
LEMMA EdgeStep ==
    ASSUME Next, TypeOK, NEW e \in Edges, At(e[1]), Symbol1 \in e[2]
    PROVE  /\ Consumes /\ state' = e[3]
           /\ UNCHANGED <<statusCode, headers, contentSize, chunked, content, result>>
  <1>1. Accepts
    BY GoesOn DEF At, Expected
  <1>2. e[1] = state
    BY DEF At
  <1>3. ~ReadsStatusCode /\ ~EndsHeader /\ ~EndsHead /\ ~ReadsContent /\ ~ReadsChunk /\ ~EndsChunks
    BY <1>2, EdgeStarts DEF Branching, ReadsStatusCode, EndsHeader, EndsHead, ReadsContent,
       ReadsChunk, EndsChunks, At
  <1>4. ~ReadsHeader
    <2>1. state = "HeaderLineStart" => Symbol1 = "CR"
      BY <1>2, EdgeStarts
    <2>2. state = "HeaderName" => Symbol1 = ":"
      BY <1>2, EdgeStarts
    <2>3. state = "HeaderLws" => Symbol1 \in {"CR", "SP", "TAB"}
      BY <1>2, EdgeStarts DEF Blanks
    <2>4. state # "HeaderValue"
      BY <1>2, EdgeStarts DEF Branching
    <2> QED BY <2>1, <2>2, <2>3, <2>4, Classes DEF ReadsHeader, At
  <1>5. ~ReadsChunkSize
    <2>1. state = "ChunkSize" => Symbol1 \in {"CR", "SEMI"}
      BY <1>2, EdgeStarts
    <2>2. state # "ChunkSizeNewLine"
      BY <1>2, EdgeStarts DEF Branching
    <2> QED BY <2>1, <2>2, Classes DEF ReadsChunkSize, At
  <1>6. Consumes /\ Moves
    BY <1>1, <1>3, <1>4, <1>5 DEF Accepts
  <1>7. PICK f \in Edges : At(f[1]) /\ Symbol1 \in f[2] /\ state' = f[3]
    BY <1>6 DEF Moves
  <1>8. f[3] = e[3]
    BY <1>2, <1>7, EdgesAgree DEF At
  <1> QED BY <1>6, <1>7, <1>8 DEF Moves, headVars

(* A symbol of the status code is read as one. *)
LEMMA StatusStep ==
    ASSUME Next, TypeOK,
           At("ResponseHttpVersion_statusCodeStart") \/ At("ResponseHttpVersion_statusCode"),
           Symbol1 \in Digit \/ (/\ state = "ResponseHttpVersion_statusCode"
                                 /\ Symbol1 = "SP" /\ statusCode \in 100..999)
    PROVE  ReadsStatusCode /\ Consumes
  <1>1. Accepts
    BY GoesOn DEF At, Expected
  <1>2. ~Moves
    BY EdgeStarts DEF Moves, At, Branching
  <1> QED BY <1>1, <1>2 DEF Accepts, ReadsHeader, EndsHeader, EndsHead, ReadsContent,
             ReadsChunkSize, ReadsChunk, EndsChunks, At

(* The first symbol of a name begins a header. *)
LEMMA HeaderStartStep ==
    ASSUME Next, TypeOK, At("HeaderLineStart"), Symbol1 \in NameChar
    PROVE  /\ Consumes /\ state' = "HeaderName"
           /\ headers' = Append(headers, [name |-> <<Symbol1>>, value |-> <<>>])
           /\ UNCHANGED <<statusCode, contentSize, chunked, content, result>>
  <1>1. Accepts
    BY GoesOn DEF At, Expected
  <1>2. ~Moves
    BY EdgeStarts, Classes DEF Moves, At
  <1>3. Consumes /\ ReadsHeader
    BY <1>1, <1>2 DEF Accepts, ReadsStatusCode, EndsHeader, EndsHead, ReadsContent,
             ReadsChunkSize, ReadsChunk, EndsChunks, At
  <1> QED BY <1>3, Classes DEF ReadsHeader, At

(* A symbol of a value is added to it. *)
LEMMA ValueStep ==
    ASSUME Next, TypeOK, At("HeaderValue"), Symbol1 \in ValueChar
    PROVE  /\ Consumes /\ state' = "HeaderValue"
           /\ headers' = [headers EXCEPT ![Len(headers)] =
                             [name |-> @.name, value |-> Append(@.value, Symbol1)]]
           /\ UNCHANGED <<statusCode, contentSize, chunked, content, result>>
  <1>1. Accepts
    BY GoesOn DEF At, Expected
  <1>2. ~Moves
    BY EdgeStarts DEF Moves, At, Branching
  <1>3. Consumes /\ ReadsHeader
    BY <1>1, <1>2, Classes DEF Accepts, ReadsStatusCode, EndsHeader, EndsHead, ReadsContent,
             ReadsChunkSize, ReadsChunk, EndsChunks, At
  <1> QED BY <1>3 DEF ReadsHeader, At

(* A carriage return ends a value. *)
LEMMA EndsValueStep ==
    ASSUME Next, TypeOK, At("HeaderValue"), Symbol1 = "CR"
    PROVE  EndsHeader /\ Consumes
  <1>1. Accepts
    BY GoesOn DEF At, Expected
  <1>2. ~Moves
    BY EdgeStarts DEF Moves, At, Branching
  <1> QED BY <1>1, <1>2, Classes DEF Accepts, ReadsStatusCode, ReadsHeader, EndsHead, ReadsContent,
             ReadsChunkSize, ReadsChunk, EndsChunks, At

(* The symbol behind the empty line ends the head. *)
LEMMA EndsHeadStep ==
    ASSUME Next, TypeOK, At("ExpectingNewline_3"), Symbol1 = "LF"
    PROVE  EndsHead /\ Consumes
  <1>1. Accepts
    BY GoesOn DEF At, Expected
  <1>2. ~Moves
    BY EdgeStarts DEF Moves, At, Branching
  <1> QED BY <1>1, <1>2, Classes DEF Accepts, ReadsStatusCode, ReadsHeader, EndsHeader, ReadsContent,
             ReadsChunkSize, ReadsChunk, EndsChunks, At

(* A symbol of the content is added to it. *)
LEMMA ContentStep ==
    ASSUME Next, TypeOK, At("Post")
    PROVE  ReadsContent /\ Consumes
  <1>1. Accepts
    BY GoesOn DEF At, Expected
  <1>2. ~Moves
    BY EdgeStarts DEF Moves, At, Branching
  <1> QED BY <1>1, <1>2, Classes DEF Accepts, ReadsStatusCode, ReadsHeader, EndsHeader, EndsHead,
             ReadsChunkSize, ReadsChunk, EndsChunks, At

-----------------------------------------------------------------------------
(* The places of BuiltHead where a symbol only changes the state. *)
PlainPlaces == (0..8) \cup (13..15) \cup {17, 18, 23, 25, 26}

(* At each of these places there is an edge, from its stage to the next one. *)
LEMMA HeadEdges ==
    ASSUME NEW k \in PlainPlaces
    PROVE  \E e \in Edges : /\ e[1] = Stage[k + 1] /\ BuiltHead[k + 1] \in e[2]
                            /\ e[3] = Stage[k + 2]
  <1> USE DEF Stage, BuiltHead
  <1> DEFINE Along(n) == \E e \in Edges : /\ e[1] = Stage[n] /\ BuiltHead[n] \in e[2]
                                          /\ e[3] = Stage[n + 1]
  <1>1. <<Stage[1], {"H"}, Stage[2]>> \in Edges /\ BuiltHead[1] = "H"
    BY DEF Edges, StatusLineEdges
  <1>2. <<Stage[2], {"T"}, Stage[3]>> \in Edges /\ BuiltHead[2] = "T"
    BY DEF Edges, StatusLineEdges
  <1>3. <<Stage[3], {"T"}, Stage[4]>> \in Edges /\ BuiltHead[3] = "T"
    BY DEF Edges, StatusLineEdges
  <1>4. <<Stage[4], {"P"}, Stage[5]>> \in Edges /\ BuiltHead[4] = "P"
    BY DEF Edges, StatusLineEdges
  <1>5. <<Stage[5], {"/"}, Stage[6]>> \in Edges /\ BuiltHead[5] = "/"
    BY DEF Edges, StatusLineEdges
  <1>6. <<Stage[6], Digit, Stage[7]>> \in Edges /\ BuiltHead[6] \in Digit
    BY DEF Edges, StatusLineEdges, Digit
  <1>7. <<Stage[7], {"."}, Stage[8]>> \in Edges /\ BuiltHead[7] = "."
    BY DEF Edges, StatusLineEdges
  <1>8. <<Stage[8], Digit, Stage[9]>> \in Edges /\ BuiltHead[8] \in Digit
    BY DEF Edges, StatusLineEdges, Digit
  <1>9. <<Stage[9], {"SP"}, Stage[10]>> \in Edges /\ BuiltHead[9] = "SP"
    BY DEF Edges, StatusLineEdges
  <1>14. <<Stage[14], IsChar, Stage[15]>> \in Edges /\ BuiltHead[14] \in IsChar
    BY DEF Edges, StatusLineEdges, IsChar, Symbol, Word
  <1>15. <<Stage[15], {"CR"}, Stage[16]>> \in Edges /\ BuiltHead[15] = "CR"
    BY DEF Edges, StatusLineEdges
  <1>16. <<Stage[16], {"LF"}, Stage[17]>> \in Edges /\ BuiltHead[16] = "LF"
    BY DEF Edges, StatusLineEdges
  <1>18. <<Stage[18], {":"}, Stage[19]>> \in Edges /\ BuiltHead[18] = ":"
    BY DEF Edges, HeaderEdges
  <1>19. <<Stage[19], {"SP"}, Stage[20]>> \in Edges /\ BuiltHead[19] = "SP"
    BY DEF Edges, HeaderEdges
  <1>24. <<Stage[24], {"LF"}, Stage[25]>> \in Edges /\ BuiltHead[24] = "LF"
    BY DEF Edges, HeaderEdges
  <1>26. <<Stage[26], {":"}, Stage[27]>> \in Edges /\ BuiltHead[26] = ":"
    BY DEF Edges, HeaderEdges
  <1>27. <<Stage[27], {"SP"}, Stage[28]>> \in Edges /\ BuiltHead[27] = "SP"
    BY DEF Edges, HeaderEdges
  <1>28. ASSUME NEW n, NEW c, <<Stage[n], c, Stage[n + 1]>> \in Edges, BuiltHead[n] \in c
         PROVE  Along(n)
    <2>1. PICK e : e = <<Stage[n], c, Stage[n + 1]>>
      OBVIOUS
    <2>2. e[1] = Stage[n] /\ e[2] = c /\ e[3] = Stage[n + 1]
      BY <2>1
    <2> QED BY <1>28, <2>1, <2>2
  <1>29. Along(1) /\ Along(2) /\ Along(3) /\ Along(4) /\ Along(5) /\ Along(6) /\ Along(7)
         /\ Along(8) /\ Along(9) /\ Along(14) /\ Along(15) /\ Along(16) /\ Along(18)
         /\ Along(19) /\ Along(24) /\ Along(26) /\ Along(27)
    <2> HIDE DEF Along, Stage, BuiltHead
    <2>1. /\ 1 + 1 = 2 /\ 2 + 1 = 3 /\ 3 + 1 = 4 /\ 4 + 1 = 5 /\ 5 + 1 = 6 /\ 6 + 1 = 7
          /\ 7 + 1 = 8 /\ 8 + 1 = 9 /\ 9 + 1 = 10 /\ 14 + 1 = 15 /\ 15 + 1 = 16
          /\ 16 + 1 = 17 /\ 18 + 1 = 19 /\ 19 + 1 = 20 /\ 24 + 1 = 25 /\ 26 + 1 = 27
          /\ 27 + 1 = 28
      OBVIOUS
    <2>2. /\ Along(1) /\ Along(2) /\ Along(3) /\ Along(4) /\ Along(5)
      BY <1>1, <1>2, <1>3, <1>4, <1>5, <1>28, <2>1
    <2>3. /\ Along(6) /\ Along(7) /\ Along(8) /\ Along(9)
      BY <1>6, <1>7, <1>8, <1>9, <1>28, <2>1
    <2>4. /\ Along(14) /\ Along(15) /\ Along(16) /\ Along(18) /\ Along(19)
      BY <1>14, <1>15, <1>16, <1>18, <1>19, <1>28, <2>1
    <2>5. /\ Along(24) /\ Along(26) /\ Along(27)
      BY <1>24, <1>26, <1>27, <1>28, <2>1
    <2> QED BY <2>2, <2>3, <2>4, <2>5
  <1>30. k + 1 \in {1, 2, 3, 4, 5, 6, 7, 8, 9, 14, 15, 16, 18, 19, 24, 26, 27}
         /\ (k + 1) + 1 = k + 2
    BY DEF PlainPlaces
  <1>31. Along(k + 1)
    <2>1. PICK n : n = k + 1
      OBVIOUS
    <2>2. Along(n)
      <3> HIDE DEF Along
      <3> QED BY <1>29, <1>30, <2>1
    <2> HIDE DEF Stage, BuiltHead
    <2> QED BY <2>1, <2>2
  <1> QED
    <2> HIDE DEF Stage, BuiltHead
    <2> QED BY <1>30, <1>31

(* The other stages. *)
LEMMA StageIs ==
    /\ Stage[10] = "ResponseHttpVersion_statusCodeStart"
    /\ Stage[11] = "ResponseHttpVersion_statusCode" /\ Stage[12] = Stage[11]
    /\ Stage[13] = Stage[11]
    /\ Stage[14] = "ResponseHttpVersion_statusTextStart"
    /\ Stage[17] = "HeaderLineStart" /\ Stage[18] = "HeaderName"
    /\ Stage[20] = "HeaderValue" /\ Stage[21] = Stage[20] /\ Stage[22] = Stage[20]
    /\ Stage[23] = Stage[20] /\ Stage[24] = "ExpectingNewline_2"
    /\ Stage[25] = "HeaderLineStart" /\ Stage[26] = "HeaderName" /\ Stage[28] = "HeaderValue"
  BY DEF Stage

(* The other symbols of the head. *)
LEMMA HeadIs ==
    /\ BuiltHead[17] = "y" /\ BuiltHead[20] = "y" /\ BuiltHead[21] = "/" /\ BuiltHead[22] = "y"
    /\ BuiltHead[25] = "Content-Length"
  BY DEF BuiltHead

(* The constant part of the head, one symbol. *)
LEMMA HeadStep ==
    ASSUME IType, Next, result = "none", begin < Len(input), InHead,
           Symbol1 = BuiltHead[begin + 1], NEW text \in Seq(Digit)
    PROVE  (InHead \/ InLength(text))' /\ result' = "none"
  <1>1. /\ begin \in 0..26 /\ state = Stage[begin + 1] /\ chunked = FALSE /\ content = <<>>
        /\ contentSize = 0 /\ TypeOK
    BY DEF InHead, Plain, IType
  <1>2. CASE begin \in PlainPlaces
    <2>1. PICK e \in Edges : /\ e[1] = Stage[begin + 1] /\ BuiltHead[begin + 1] \in e[2]
                             /\ e[3] = Stage[begin + 2]
      BY <1>2, HeadEdges
    <2>2. /\ Consumes /\ state' = Stage[begin + 2]
          /\ UNCHANGED <<statusCode, headers, contentSize, chunked, content, result>>
      BY <1>1, <2>1, EdgeStep DEF At
    <2>3. begin' = begin + 1
      BY <2>2 DEF Consumes
    <2>4. CASE begin = 26
      <3>1. Stage[28] = "HeaderValue"
        BY DEF Stage
      <3>2. begin' - 27 = 0 /\ Len(text) \in Nat
        BY <2>3, <2>4, LenProperties
      <3>3. SubSeq(text, 1, 0) = <<>>
        BY SubSeqEmpty
      <3>4. headers[Len(headers)] = [name |-> <<"Content-Length">>, value |-> <<>>]
        BY <2>4 DEF InHead
      <3> QED BY <1>1, <2>2, <2>4, <3>1, <3>2, <3>3, <3>4 DEF InLength, Plain
    <2>5. CASE begin # 26
      <3>1. begin' \in 0..26 /\ begin' + 1 = begin + 2
        BY <1>1, <2>3, <2>5
      <3>2. /\ begin' <= 9 => begin <= 9
            /\ begin' \notin {10, 11, 12}
            /\ begin' \in 17..22 => begin \in 17..22
            /\ begin' \in 25..26 => begin \in 25..26
        BY <1>2, <2>3 DEF PlainPlaces
      <3> QED BY <1>1, <2>2, <3>1, <3>2 DEF InHead, Plain
    <2> QED BY <2>4, <2>5
  <1>3. CASE begin \in 9..12
    <2>1. At("ResponseHttpVersion_statusCodeStart") \/ At("ResponseHttpVersion_statusCode")
      BY <1>1, <1>3, StageIs DEF At
    <2>2. /\ begin = 9 => Symbol1 = Numeral[2 + 1] /\ statusCode = 0
          /\ begin = 10 => Symbol1 = Numeral[0 + 1] /\ statusCode = 2
          /\ begin = 11 => Symbol1 = Numeral[0 + 1] /\ statusCode = 20
          /\ begin = 12 => Symbol1 = "SP" /\ statusCode = 200
      BY DEF BuiltHead, Numeral, InHead
    <2>3. 2 \in 0..9 /\ 0 \in 0..9
      OBVIOUS
    <2>4. /\ begin = 9 => Symbol1 \in Digit /\ ValueOf(Symbol1) = 2
          /\ begin \in 10..11 => Symbol1 \in Digit /\ ValueOf(Symbol1) = 0
          /\ begin = 12 => Symbol1 = "SP" /\ Symbol1 \notin Digit
      <3>1. Numeral[2 + 1] \in Digit /\ Numeral[0 + 1] \in Digit
            /\ ValueOf(Numeral[2 + 1]) = 2 /\ ValueOf(Numeral[0 + 1]) = 0
        BY <2>3, DigitValue
      <3> QED BY <2>2, <3>1, Classes
    <2>5. ReadsStatusCode /\ Consumes
      <3>1. begin = 12 => state = "ResponseHttpVersion_statusCode"
        BY <1>1 DEF Stage
      <3>2. begin = 12 => statusCode \in 100..999
        BY <2>2
      <3> QED BY <1>1, <1>3, <2>1, <2>4, <3>1, <3>2, StatusStep
    <2>6. /\ begin' = begin + 1
          /\ UNCHANGED <<headers, contentSize, chunked, content, result>>
          /\ begin \in 9..11 => /\ statusCode' = 10 * statusCode + ValueOf(Symbol1)
                                /\ state' = "ResponseHttpVersion_statusCode"
          /\ begin = 12 => state' = "ResponseHttpVersion_statusTextStart"
      BY <2>4, <2>5, Classes DEF ReadsStatusCode, Consumes
    <2>7. begin' \in 10..13
      BY <1>3, <2>6
    <2>8. state' = Stage[begin' + 1]
      <3>1. CASE begin \in 9..11
        <4>1. state' = "ResponseHttpVersion_statusCode" /\ begin' \in 10..12
          BY <2>6, <3>1
        <4> QED BY <4>1, StageIs
      <3>2. CASE begin = 12
        <4>1. state' = "ResponseHttpVersion_statusTextStart" /\ begin' = 13
          BY <2>6, <3>2
        <4> QED BY <4>1, StageIs
      <3> QED BY <1>3, <3>1, <3>2
    <2>9. /\ begin' = 10 => statusCode' = 2
          /\ begin' = 11 => statusCode' = 20
          /\ begin' = 12 => statusCode' = 200
      BY <1>3, <2>2, <2>4, <2>6
    <2> QED BY <1>1, <2>6, <2>7, <2>8, <2>9 DEF InHead, Plain
  <1>4. CASE begin \in {16, 24}
    <2>1. At("HeaderLineStart") /\ Symbol1 \in NameChar
          /\ Symbol1 = IF begin = 16 THEN "y" ELSE "Content-Length"
      <3>1. "y" \in NameChar /\ "Content-Length" \in NameChar
        <4>1. "y" \in Symbol /\ "Content-Length" \in Symbol
          BY DEF Symbol, Word
        <4> QED BY <4>1 DEF NameChar, IsChar, Control, Special
      <3>2. /\ state = "HeaderLineStart"
            /\ Symbol1 = IF begin = 16 THEN "y" ELSE "Content-Length"
        <4>1. state = Stage[begin + 1] /\ Symbol1 = BuiltHead[begin + 1]
          BY <1>1
        <4> QED BY ONLY <1>4, <4>1, StageIs, HeadIs
      <3> QED BY <3>1, <3>2 DEF At
    <2>2. /\ begin' = begin + 1 /\ state' = "HeaderName"
          /\ headers' = Append(headers, [name |-> <<Symbol1>>, value |-> <<>>])
          /\ UNCHANGED <<statusCode, contentSize, chunked, content, result>>
      BY <1>1, <2>1, HeaderStartStep DEF Consumes
    <2>3. headers'[Len(headers')] = [name |-> <<Symbol1>>, value |-> <<>>]
      <3>1. headers \in Seq(Header)
        BY <1>1 DEF TypeOK, Header
      <3>2. [name |-> <<Symbol1>>, value |-> <<>>] \in Header
        <4>1. Symbol1 \in Symbol
          BY <2>1, Classes
        <4> QED BY <4>1 DEF Header
      <3> QED BY <2>2, <3>1, <3>2, AppendProperties, LenProperties
    <2>4. state' = Stage[begin' + 1]
      BY ONLY <1>4, <2>2, StageIs
    <2>5. /\ begin' \in {17, 25}
          /\ begin' = 17 => headers'[Len(headers')].name = <<"y">>
          /\ begin' = 25 => headers'[Len(headers')] = [name |-> <<"Content-Length">>, value |-> <<>>]
      BY <1>4, <2>1, <2>2, <2>3
    <2> QED BY <1>1, <2>2, <2>4, <2>5 DEF InHead, Plain
  <1>5. CASE begin \in 19..21
    <2>1. At("HeaderValue") /\ Symbol1 \in ValueChar
      <3>1. "y" \in ValueChar /\ "/" \in ValueChar
        <4>1. "y" \in Symbol /\ "/" \in Symbol
          BY DEF Symbol, Word, Special
        <4>2. "y" \notin Control /\ "/" \notin Control
          BY DEF Control
        <4> QED BY <4>1, <4>2 DEF ValueChar
      <3>2. state = "HeaderValue" /\ Symbol1 \in {"y", "/"}
        <4>1. state = Stage[begin + 1] /\ Symbol1 = BuiltHead[begin + 1]
          BY <1>1
        <4> QED BY ONLY <1>5, <4>1, StageIs, HeadIs
      <3> QED BY <3>1, <3>2 DEF At
    <2>2. /\ begin' = begin + 1 /\ state' = "HeaderValue"
          /\ headers' = [headers EXCEPT ![Len(headers)] =
                            [name |-> @.name, value |-> Append(@.value, Symbol1)]]
          /\ UNCHANGED <<statusCode, contentSize, chunked, content, result>>
      BY <1>1, <2>1, ValueStep DEF Consumes
    <2>3. headers'[Len(headers')].name = headers[Len(headers)].name
      <3>1. headers \in Seq(Header) /\ headers # <<>>
        BY <1>1, <2>1 DEF TypeOK, Header, IType, MovesWell, At
      <3>2. Len(headers) \in 1..Len(headers)
        BY <3>1, LenProperties, EmptySeq
      <3> QED BY <2>2, <3>1, <3>2
    <2>4. state' = Stage[begin' + 1]
      BY ONLY <1>5, <2>2, StageIs
    <2>5. begin' \in 20..22
      BY <1>5, <2>2
    <2>6. headers[Len(headers)].name = <<"y">>
      BY ONLY InHead, <1>5 DEF InHead
    <2> QED BY <1>1, <2>2, <2>3, <2>4, <2>5, <2>6 DEF InHead, Plain
  <1>6. CASE begin = 22
    <2>1. At("HeaderValue") /\ Symbol1 = "CR"
      BY <1>1, <1>6 DEF Stage, At, BuiltHead
    <2>2. EndsHeader /\ Consumes
      BY <1>1, <2>1, EndsValueStep
    <2>3. Last(headers).name = <<"y">>
      BY <1>6 DEF InHead, Last
    <2>4. /\ ~SameWord(Last(headers).name, "Content-Length")
          /\ ~SameWord(Last(headers).name, "Transfer-Encoding")
      BY <2>3 DEF SameWord
    <2>5. /\ begin' = 23 /\ state' = "ExpectingNewline_2" /\ contentSize' = 0 /\ chunked' = FALSE
          /\ result' = "none" /\ UNCHANGED <<statusCode, headers, content>>
      <3>1. contentSize' = 0
        BY <1>1, <2>2, <2>4, Zenon DEF EndsHeader
      <3>2. chunked' = FALSE
        BY <1>1, <2>2, <2>4, Zenon DEF EndsHeader
      <3> QED BY <1>1, <1>6, <2>2, <3>1, <3>2 DEF EndsHeader, Consumes
    <2>6. state' = Stage[begin' + 1]
      BY <2>5 DEF Stage
    <2> QED BY <1>1, <2>5, <2>6 DEF InHead, Plain
  <1>7. begin \in PlainPlaces \cup (9..12) \cup {16, 24} \cup (19..21) \cup {22}
    BY <1>1 DEF PlainPlaces
  <1> QED BY <1>2, <1>3, <1>4, <1>5, <1>6, <1>7

(* The beginning of a sequence, longer by an element. *)
LEMMA OneMore ==
    ASSUME NEW S, NEW s \in Seq(S), NEW j \in 0..(Len(s) - 1)
    PROVE  Append(SubSeq(s, 1, j), s[j + 1]) = SubSeq(s, 1, j + 1)
  <1>1. Len(s) \in Nat
    BY LenProperties
  <1> QED BY <1>1

(* The length, one digit, or its end. *)
LEMMA LengthStep ==
    ASSUME IType, Next, result = "none", begin < Len(input),
           NEW size \in Nat, NEW text, text = ToDecimal(size), InLength(text),
           \A k \in 1..Len(text) : begin + 1 = 27 + k => Symbol1 = text[k],
           begin = 27 + Len(text) => Symbol1 = "CR"
    PROVE  (InLength(text) \/ InEnd(text, size))' /\ result' = "none"
  <1>1. /\ begin - 27 \in 0..Len(text) /\ At("HeaderValue") /\ chunked = FALSE /\ content = <<>>
        /\ headers[Len(headers)] = [name |-> <<"Content-Length">>,
                                    value |-> SubSeq(text, 1, begin - 27)]
        /\ TypeOK
    BY DEF InLength, Plain, At, IType
  <1>2. text \in Seq(Digit) /\ Len(text) \in Nat \ {0} /\ begin \in Nat
        /\ \A k \in 1..Len(text) : text[k] \in Digit
    <2>1. text \in Seq(Digit) /\ Len(text) \in Nat \ {0}
      BY ToDecimalIs
    <2>2. begin \in Nat
      BY LenProperties DEF IType, TypeOK
    <2> QED BY <2>1, <2>2, ElementOfSeq
  <1>3. headers \in Seq(Header) /\ headers # <<>> /\ Len(headers) \in 1..Len(headers)
    <2>1. headers \in Seq(Header) /\ headers # <<>>
      BY <1>1 DEF TypeOK, IType, MovesWell, At, Header
    <2> QED BY <2>1, LenProperties, EmptySeq
  <1>4. PICK j \in 0..Len(text) : j = begin - 27
    BY <1>1
  <1>5. CASE j < Len(text)
    <2>1. j + 1 \in 1..Len(text) /\ begin + 1 = 27 + (j + 1)
      BY <1>2, <1>4, <1>5
    <2>2. Symbol1 = text[j + 1] /\ Symbol1 \in Digit /\ Symbol1 \in ValueChar
      BY <1>2, <2>1, Classes
    <2>3. /\ begin' = begin + 1 /\ state' = "HeaderValue"
          /\ headers' = [headers EXCEPT ![Len(headers)] =
                            [name |-> @.name, value |-> Append(@.value, Symbol1)]]
          /\ UNCHANGED <<chunked, content, result>>
      BY <1>1, <2>2, ValueStep DEF Consumes
    <2>4. headers'[Len(headers')] = [name |-> <<"Content-Length">>,
                                     value |-> Append(SubSeq(text, 1, j), Symbol1)]
      BY <1>1, <1>3, <1>4, <2>3
    <2>5. Append(SubSeq(text, 1, j), text[j + 1]) = SubSeq(text, 1, j + 1)
      <3>1. j \in 0..(Len(text) - 1)
        BY <1>2, <2>1
      <3> QED BY <1>2, <3>1, OneMore
    <2>6. begin' - 27 = j + 1 /\ begin' - 27 \in 0..Len(text)
      BY <1>2, <1>4, <1>5, <2>3
    <2>7. InLength(text)'
      BY <1>1, <2>2, <2>3, <2>4, <2>5, <2>6 DEF InLength, Plain
    <2> QED BY <2>3, <2>7
  <1>6. CASE j = Len(text)
    <2>1. Symbol1 = "CR"
      BY <1>2, <1>4, <1>6
    <2>2. EndsHeader /\ Consumes
      BY <1>1, <2>1, EndsValueStep
    <2>3. Last(headers) = [name |-> <<"Content-Length">>, value |-> text]
      <3>1. SubSeq(text, 1, Len(text)) = text
        BY <1>2, SubSeqFull
      <3> QED BY <1>1, <1>4, <1>6, <3>1 DEF Last
    <2>4. /\ SameWord(Last(headers).name, "Content-Length")
          /\ ~SameWord(Last(headers).name, "Transfer-Encoding")
      BY <2>3 DEF SameWord
    <2>5. Atoi(Last(headers).value) = size
      BY <2>3, AtoiOfToDecimal
    <2>6. contentSize' = size
      BY <2>2, <2>4, <2>5, Zenon DEF EndsHeader
    <2>7. chunked' = FALSE
      BY <1>1, <2>2, <2>4, Zenon DEF EndsHeader
    <2>8. begin' = 28 + Len(text) /\ state' = "ExpectingNewline_2" /\ content' = <<>>
          /\ result' = "none"
      BY <1>1, <1>2, <1>4, <1>6, <2>2, <2>6 DEF EndsHeader, Consumes
    <2> QED BY <2>6, <2>7, <2>8 DEF InEnd, Plain
  <1> QED BY <1>2, <1>4, <1>5, <1>6

(* The line breaks behind the length. *)
LEMMA EndStep ==
    ASSUME IType, Next, result = "none", begin < Len(input),
           NEW json \in Json, NEW text, text = ToDecimal(Len(json)), InEnd(text, Len(json)),
           begin \in {28 + Len(text), 30 + Len(text)} => Symbol1 = "LF",
           begin = 29 + Len(text) => Symbol1 = "CR",
           Len(BuildsResponse(json)) = 31 + Len(text) + Len(json)
    PROVE  \/ (InEnd(text, Len(json)) \/ InJson(text, json))' /\ result' = "none"
           \/ Arrived(json)' /\ result' # "none"
  <1>1. Len(text) \in Nat \ {0} /\ Len(json) \in Nat /\ begin \in Nat /\ TypeOK
        /\ json \in Seq(Byte)
    <2>1. json \in Seq(Byte)
      BY HttpAssumption
    <2> QED BY <2>1, ToDecimalIs, LenProperties DEF IType, TypeOK
  <1>2. chunked = FALSE /\ content = <<>> /\ contentSize = Len(json)
    BY DEF InEnd, Plain
  <1>3. CASE begin = 28 + Len(text) /\ state = "ExpectingNewline_2"
    <2>1. PICK e : e = <<"ExpectingNewline_2", {"LF"}, "HeaderLineStart">>
      OBVIOUS
    <2>2. e \in Edges
      BY <2>1 DEF Edges, HeaderEdges
    <2>3. At(e[1]) /\ Symbol1 \in e[2] /\ e[3] = "HeaderLineStart"
      BY <1>3, <2>1 DEF At
    <2>4. begin' = begin + 1 /\ state' = "HeaderLineStart"
          /\ UNCHANGED <<contentSize, chunked, content, result>>
      BY <1>1, <2>2, <2>3, EdgeStep DEF Consumes
    <2>5. begin' = 29 + Len(text)
      BY <1>1, <1>3, <2>4
    <2> QED BY <1>2, <2>4, <2>5 DEF InEnd, Plain
  <1>4. CASE begin = 29 + Len(text) /\ state = "HeaderLineStart"
    <2>1. PICK e : e = <<"HeaderLineStart", {"CR"}, "ExpectingNewline_3">>
      OBVIOUS
    <2>2. e \in Edges
      BY <2>1 DEF Edges, HeaderEdges
    <2>3. At(e[1]) /\ Symbol1 \in e[2] /\ e[3] = "ExpectingNewline_3"
      BY <1>4, <2>1 DEF At
    <2>4. begin' = begin + 1 /\ state' = "ExpectingNewline_3"
          /\ UNCHANGED <<contentSize, chunked, content, result>>
      BY <1>1, <2>2, <2>3, EdgeStep DEF Consumes
    <2>5. begin' = 30 + Len(text)
      BY <1>1, <1>4, <2>4
    <2> QED BY <1>2, <2>4, <2>5 DEF InEnd, Plain
  <1>5. CASE begin = 30 + Len(text) /\ state = "ExpectingNewline_3"
    <2>1. EndsHead /\ Consumes
      BY <1>1, <1>5, EndsHeadStep DEF At
    <2>2. begin' = 31 + Len(text) /\ UNCHANGED <<contentSize, chunked, content>>
      BY <1>1, <1>5, <2>1 DEF EndsHead, Consumes, headVars
    <2>3. CASE Len(json) = 0
      <3>1. result' = "ParsingCompleted"
        BY <1>2, <2>1, <2>3 DEF EndsHead
      <3>2. json = <<>>
        BY <1>1, <2>3, EmptySeq
      <3> QED BY <1>1, <1>2, <2>2, <2>3, <3>1, <3>2 DEF Arrived
    <2>4. CASE Len(json) # 0
      <3>1. state' = "Post" /\ result' = "none"
        BY <1>2, <2>1, <2>4 DEF EndsHead
      <3>2. begin' - 31 - Len(text) = 0 /\ 0 \in 0..(Len(json) - 1) /\ Len(json) - 0 = Len(json)
        BY <1>1, <2>2, <2>4
      <3>3. SubSeq(json, 1, 0) = <<>>
        BY <1>1, SubSeqEmpty
      <3> QED BY <1>2, <2>2, <3>1, <3>2, <3>3 DEF InJson
    <2> QED BY <2>3, <2>4
  <1> QED BY <1>3, <1>4, <1>5 DEF InEnd

(* The content, one symbol. *)
LEMMA JsonStep ==
    ASSUME IType, Next, result = "none", begin < Len(input),
           NEW json \in Json, NEW text, text = ToDecimal(Len(json)), InJson(text, json),
           \A k \in 1..Len(json) : begin + 1 = 31 + Len(text) + k => Symbol1 = json[k],
           Len(BuildsResponse(json)) = 31 + Len(text) + Len(json)
    PROVE  \/ InJson(text, json)' /\ result' = "none"
           \/ Arrived(json)' /\ result' # "none"
  <1>1. Len(text) \in Nat \ {0} /\ Len(json) \in Nat /\ begin \in Nat /\ TypeOK
        /\ json \in Seq(Byte)
    <2>1. json \in Seq(Byte)
      BY HttpAssumption
    <2> QED BY <2>1, ToDecimalIs, LenProperties DEF IType, TypeOK
  <1>2. PICK j \in 0..(Len(json) - 1) : j = begin - 31 - Len(text)
    BY DEF InJson
  <1>3. At("Post") /\ content = SubSeq(json, 1, j) /\ contentSize = Len(json) - j
    BY <1>2 DEF InJson, At
  <1>4. j + 1 \in 1..Len(json) /\ begin + 1 = 31 + Len(text) + (j + 1)
    BY <1>1, <1>2
  <1>5. Symbol1 = json[j + 1]
    BY <1>4
  <1>6. ReadsContent /\ Consumes
    BY <1>1, <1>3, ContentStep
  <1>7. Append(SubSeq(json, 1, j), json[j + 1]) = SubSeq(json, 1, j + 1)
    BY <1>1, <1>2, OneMore
  <1>8. /\ content' = SubSeq(json, 1, j + 1) /\ contentSize' = Len(json) - (j + 1)
        /\ begin' - 31 - Len(text) = j + 1 /\ begin' = 31 + Len(text) + (j + 1)
        /\ result' = IF contentSize' = 0 THEN "ParsingCompleted" ELSE "none"
        /\ state' = "Post"
    <2>1. /\ content' = Append(content, Symbol1) /\ contentSize' = contentSize - 1
          /\ begin' = begin + 1 /\ state' = "Post"
          /\ result' = IF contentSize' = 0 THEN "ParsingCompleted" ELSE "none"
      BY <1>3, <1>6 DEF ReadsContent, Consumes, At
    <2>2. contentSize' = Len(json) - (j + 1)
      BY <1>1, <1>2, <1>3, <2>1
    <2>3. begin' - 31 - Len(text) = j + 1 /\ begin' = 31 + Len(text) + (j + 1)
      BY <1>1, <1>2, <2>1
    <2>4. content' = SubSeq(json, 1, j + 1)
      BY <1>3, <1>5, <1>7, <2>1, Zenon
    <2> QED BY <2>1, <2>2, <2>3, <2>4
  <1>9. CASE j + 1 = Len(json)
    <2>1. content' = json
      BY <1>1, <1>8, <1>9, SubSeqFull
    <2>2. begin' = Len(BuildsResponse(json))
      BY <1>8, <1>9
    <2>3. contentSize' = 0
      <3>1. contentSize' = Len(json) - Len(json)
        BY <1>8, <1>9
      <3> QED BY <1>1, <3>1
    <2> QED BY <1>8, <2>1, <2>2, <2>3 DEF Arrived
  <1>10. CASE j + 1 # Len(json)
    <2>1. Len(json) - (j + 1) # 0 /\ j + 1 \in 0..(Len(json) - 1)
      <3>1. Len(json) \in Nat /\ j \in 0..(Len(json) - 1)
        BY <1>1
      <3> QED BY ONLY <1>10, <3>1
    <2> QED BY <1>8, <2>1 DEF InJson
  <1> QED BY <1>9, <1>10

-----------------------------------------------------------------------------
(* The invariant holds for a parser that has read nothing. *)
LEMMA InitInv == Init => IInv
  <1> SUFFICES ASSUME Init PROVE Arriving
    BY InitType DEF IInv
  <1> SUFFICES ASSUME NEW json \in Json
               PROVE  OnTheWay(ToDecimal(Len(json)), json) /\ result = "none"
    BY DEF Arriving
  <1>1. Stage[1] = "ResponseStatusStart"
    BY DEF Stage
  <1>2. begin = 0 /\ state = "ResponseStatusStart" /\ content = <<>> /\ contentSize = 0
        /\ statusCode = 0 /\ result = "none"
    BY DEF Init
  <1>3. chunked = FALSE
    BY Zenon DEF Init
  <1>4. InHead
    BY <1>1, <1>2, <1>3 DEF InHead, Plain
  <1> QED BY <1>2, <1>4 DEF OnTheWay

(* Every step leads from one place of the message to the next, or returns. *)
LEMMA ArrivingInv ==
    ASSUME IInv, [Next]_vars PROVE Arriving'
  <1> SUFFICES ASSUME NEW json \in Json, IsPrefix(input, BuildsResponse(json))'
               PROVE  (IF result = "none" THEN OnTheWay(ToDecimal(Len(json)), json)
                       ELSE Arrived(json))'
    BY DEF Arriving
  <1>1. PICK msg : msg = BuildsResponse(json)
    OBVIOUS
  <1>2. PICK text : text = ToDecimal(Len(json))
    OBVIOUS
  <1>3. json \in Seq(Symbol) /\ IType /\ TypeOK
    <2>1. json \in Seq(Byte)
      BY HttpAssumption
    <2> QED BY <2>1 DEF Byte, IInv, IType
  <1>4. /\ Len(text) \in Nat \ {0} /\ Len(json) \in Nat /\ text \in Seq(Digit)
        /\ msg \in Seq(Symbol) /\ Len(msg) = 31 + Len(text) + Len(json)
        /\ \A k \in 1..27 : msg[k] = BuiltHead[k]
        /\ \A k \in 1..Len(text) : msg[27 + k] = text[k]
        /\ msg[28 + Len(text)] = "CR" /\ msg[29 + Len(text)] = "LF"
        /\ msg[30 + Len(text)] = "CR" /\ msg[31 + Len(text)] = "LF"
        /\ \A k \in 1..Len(json) : msg[31 + Len(text) + k] = json[k]
    <2>1. IsBuilt(msg, text, json)
      BY <1>1, <1>2, <1>3, Built, Zenon
    <2> QED BY <2>1 DEF IsBuilt
  <1>5. input' = input
    BY DEF Next, Accepts, Rejects, Returns, Consumes, vars
  <1>6. /\ input \in Seq(Symbol) /\ begin \in Nat /\ Len(input) \in Nat /\ begin <= Len(input)
    BY <1>3, LenProperties DEF TypeOK
  <1>7. /\ Len(input) <= Len(msg) /\ \A k \in 1..Len(input) : input[k] = msg[k]
    <2>1. IsPrefix(input, msg)
      BY <1>1, <1>5
    <2>2. msg \in Seq(Symbol) /\ input \in Seq(Symbol) /\ Len(msg) \in Nat
      BY <1>4, <1>6, LenProperties
    <2>3. Len(input) \in 0..Len(msg) /\ \A k \in 1..Len(input) : input[k] = msg[k]
      BY <2>1, <2>2, PrefixElements
    <2> QED BY <1>6, <2>2, <2>3
  <1>8. IF result = "none" THEN OnTheWay(text, json) ELSE Arrived(json)
    BY <1>2, <1>5 DEF IInv, Arriving
  <1>9. CASE UNCHANGED vars
    BY <1>2, <1>8, <1>9 DEF vars, OnTheWay, InHead, InLength, InEnd, InJson, Plain, Arrived
  <1>10. CASE Next /\ begin = Len(input)
    <2>1. Returns /\ result = "none"
      <3>1. ~(begin < Len(input))
        BY <1>6, <1>10
      <3>2. ~Accepts
        BY <3>1 DEF Accepts, Moves, ReadsStatusCode, ReadsHeader, EndsHeader, EndsHead,
           ReadsContent, ReadsChunkSize, ReadsChunk, EndsChunks, At
      <3> QED BY <1>10, <3>1, <3>2 DEF Next, Rejects, Returns
    <2>2. result' = "ParsingIncompleted" /\ begin' = begin
      BY <2>1 DEF Returns
    <2>3. begin < Len(msg)
      <3>1. Len(text) \in Nat \ {0} /\ Len(json) \in Nat /\ Len(msg) = 31 + Len(text) + Len(json)
        BY <1>4
      <3>2. \/ begin \in 0..26 \/ begin - 27 \in 0..Len(text)
            \/ begin \in {28 + Len(text), 29 + Len(text), 30 + Len(text)}
            \/ begin - 31 - Len(text) \in 0..(Len(json) - 1)
        BY <1>8, <2>1 DEF OnTheWay, InHead, InLength, InEnd, InJson
      <3> QED BY <1>6, <3>1, <3>2
    <2> QED BY <1>1, <1>5, <1>10, <2>2, <2>3 DEF Arrived
  <1>11. CASE Next /\ begin # Len(input)
    <2>1. result = "none"
      BY <1>11 DEF Next, Returns, Rejects, Accepts, Moves, ReadsStatusCode, ReadsHeader,
         EndsHeader, EndsHead, ReadsContent, ReadsChunkSize, ReadsChunk, EndsChunks, At
    <2>2. begin < Len(input) /\ begin + 1 \in 1..Len(input)
      BY <1>6, <1>11
    <2>3. Symbol1 = msg[begin + 1]
      BY <1>7, <2>2 DEF Symbol1
    <2>4. CASE InHead
      <3>1. Symbol1 = BuiltHead[begin + 1]
        <4>1. begin + 1 \in 1..27
          BY <2>4 DEF InHead
        <4> QED BY <1>4, <2>3, <4>1
      <3>2. (InHead \/ InLength(text))' /\ result' = "none"
        BY <1>3, <1>4, <1>11, <2>1, <2>2, <2>4, <3>1, HeadStep
      <3> QED BY <1>2, <3>2 DEF OnTheWay
    <2>5. CASE InLength(text)
      <3>1. \A k \in 1..Len(text) : begin + 1 = 27 + k => Symbol1 = text[k]
        BY <1>4, <2>3
      <3>2. begin = 27 + Len(text) => Symbol1 = "CR"
        <4>1. begin = 27 + Len(text) => begin + 1 = 28 + Len(text)
          BY <1>4
        <4> QED BY <1>4, <2>3, <4>1
      <3>3. (InLength(text) \/ InEnd(text, Len(json)))' /\ result' = "none"
        BY <1>2, <1>3, <1>4, <1>11, <2>1, <2>2, <2>5, <3>1, <3>2, LengthStep
      <3> QED BY <1>2, <3>3 DEF OnTheWay
    <2>6. CASE InEnd(text, Len(json))
      <3>1. /\ begin = 28 + Len(text) => begin + 1 = 29 + Len(text)
            /\ begin = 29 + Len(text) => begin + 1 = 30 + Len(text)
            /\ begin = 30 + Len(text) => begin + 1 = 31 + Len(text)
        <4>1. Len(text) \in Nat
          BY <1>4
        <4> QED BY <4>1
      <3>2. /\ begin \in {28 + Len(text), 30 + Len(text)} => Symbol1 = "LF"
            /\ begin = 29 + Len(text) => Symbol1 = "CR"
        BY <1>4, <2>3, <3>1
      <3>3. \/ (InEnd(text, Len(json)) \/ InJson(text, json))' /\ result' = "none"
            \/ Arrived(json)' /\ result' # "none"
        BY <1>1, <1>2, <1>3, <1>4, <1>11, <2>1, <2>2, <2>6, <3>2, EndStep
      <3> QED BY <1>2, <3>3 DEF OnTheWay
    <2>7. CASE InJson(text, json)
      <3>1. \A k \in 1..Len(json) : begin + 1 = 31 + Len(text) + k => Symbol1 = json[k]
        BY <1>4, <2>3
      <3>2. \/ InJson(text, json)' /\ result' = "none"
            \/ Arrived(json)' /\ result' # "none"
        BY <1>1, <1>2, <1>3, <1>4, <1>11, <2>1, <2>2, <2>7, <3>1, JsonStep
      <3> QED BY <1>2, <3>2 DEF OnTheWay
    <2> QED BY <1>8, <2>1, <2>4, <2>5, <2>6, <2>7 DEF OnTheWay
  <1> QED BY <1>9, <1>10, <1>11

(* Every step of the parser keeps the invariant: its fields have their       *)
(* types, and in a message that a program built they are what this place of  *)
(* the message calls for (httpresponseparser.h:49-520).                      *)
THEOREM Inductive == Spec => []IInv
  <1>1. IInv /\ [Next]_vars => IInv'
    BY NextType, ArrivingInv DEF IInv
  <1> QED BY InitInv, <1>1, PTL DEF Spec

(* The parser never leaves its types: no header is added to before there is  *)
(* one (httpresponseparser.h:225-290), and no count of a content or of a     *)
(* chunk passes zero (424-520).                                              *)
THEOREM TypeCorrect == Spec => []TypeOK
  <1>1. IInv => TypeOK
    BY DEF IInv, IType
  <1> QED BY <1>1, Inductive, PTL

(* Whatever json a program wraps in a message, the parser of the other       *)
(* program hands over exactly this json, after the last symbol and not       *)
(* before; a part of the message is incomplete, and never an error           *)
(* (ProcessServer.cpp:44-46, Client/main.cpp:26-28,                          *)
(* httpresponseparser.h:49-520).                                             *)
THEOREM OwnMessages == Spec => []OwnMessagesArrive
  <1>1. IInv => OwnMessagesArrive
    <2> SUFFICES ASSUME IInv, NEW json \in Json,
                        result # "none", IsPrefix(input, BuildsResponse(json))
                 PROVE  IF input = BuildsResponse(json)
                        THEN result = "ParsingCompleted" /\ content = json /\ begin = Len(input)
                        ELSE result = "ParsingIncompleted"
      BY DEF OwnMessagesArrive
    <2>1. PICK msg : msg = BuildsResponse(json)
      OBVIOUS
    <2>2. json \in Seq(Symbol) /\ TypeOK
      <3>1. json \in Seq(Byte)
        BY HttpAssumption
      <3> QED BY <3>1 DEF Byte, IInv, IType
    <2>3. msg \in Seq(Symbol)
      BY <2>1, <2>2, Built DEF IsBuilt
    <2>4. Len(input) <= Len(msg) /\ (Len(input) = Len(msg) => input = msg)
          /\ begin <= Len(input) /\ begin \in Nat /\ Len(input) \in Nat /\ Len(msg) \in Nat
      BY <2>1, <2>2, <2>3, PrefixElements, LenProperties DEF TypeOK
    <2>5. Arrived(json)
      BY DEF IInv, Arriving
    <2> QED BY <2>1, <2>4, <2>5 DEF Arrived
  <1> QED BY <1>1, Inductive, PTL
=============================================================================
