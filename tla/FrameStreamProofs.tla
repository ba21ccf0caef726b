------------------------- MODULE FrameStreamProofs -------------------------
(***************************************************************************)
(* Theorems about Protocol and FrameStream for every base, every number of *)
(* digits in a length, every limit, request, raw command and answer.       *)
(***************************************************************************)
EXTENDS FrameStream, SequenceTheorems, WellFoundedInduction, TLAPS

-----------------------------------------------------------------------------
(***************************************************************************)
(* Induction over a set of numbers, and recursive functions.               *)
(***************************************************************************)

LEMMA LeastNumber ==
  ASSUME NEW T \in SUBSET Nat, T # {}
  PROVE  \E x \in T : \A y \in T : x <= y
<1> DEFINE R == OpToRel(<, Nat)
<1>1. IsWellFoundedOn(R, Nat)
  BY NatLessThanWellFounded
<1>2. \A x, y \in Nat : y < x => <<y, x>> \in R
  BY DEF OpToRel
<1> HIDE DEF R
<1>3. \E x \in T : \A y \in T : <<y, x>> \notin R
  BY <1>1, WFMin
<1>4. PICK x \in T : \A y \in T : <<y, x>> \notin R
  BY <1>3
<1>5. ASSUME NEW y \in T PROVE x <= y
  <2>1. x \in Nat /\ y \in Nat /\ ~ (y < x)
    BY <1>2, <1>4
  <2> QED BY <2>1
<1> QED BY <1>5

Inductive(S, N) == 0 \in S /\ \A n \in 0 .. N - 1 : n \in S => n + 1 \in S

\* The first number that is not in S would have a predecessor in S.
LEMMA Induction ==
  ASSUME NEW N \in Nat, NEW S, Inductive(S, N)
  PROVE  \A n \in 0 .. N : n \in S
<1> USE DEF Inductive
<1> DEFINE T == {n \in 0 .. N : n \notin S}
<1> SUFFICES T = {}
  OBVIOUS
<1>1. SUFFICES ASSUME T # {} PROVE FALSE
  OBVIOUS
<1>2. PICK x \in T : \A y \in T : x <= y
  <2>1. T \in SUBSET Nat
    OBVIOUS
  <2> HIDE DEF T
  <2> QED BY <1>1, <2>1, LeastNumber
<1>3. x \in 0 .. N /\ x # 0 /\ x \notin S
  OBVIOUS
<1>4. x - 1 \in 0 .. N - 1 /\ x - 1 \in S
  BY <1>2, <1>3
<1> QED BY <1>3, <1>4

\* f starts at a and takes each value from the one before it.
Recursive(f, N, T, a, g) ==
  /\ f \in [0 .. N -> T]
  /\ f[0] = a
  /\ \A i \in 1 .. N : f[i] = g[<<i, f[i - 1]>>]

LEMMA RecursiveFunction ==
  ASSUME NEW N \in Nat, NEW T, NEW a \in T, NEW g \in [(1 .. N) \X T -> T]
  PROVE  \E f : Recursive(f, N, T, a, g)
<1> DEFINE Good(n, f) == f[0] = a /\ \A i \in 1 .. n : f[i] = g[<<i, f[i - 1]>>]
           S == {n \in 0 .. N : \E f \in [0 .. n -> T] : Good(n, f)}
<1>1. 0 \in S
  <2> DEFINE h == [i \in 0 .. 0 |-> a]
  <2>1. h \in [0 .. 0 -> T] /\ Good(0, h)
    OBVIOUS
  <2> HIDE DEF h, Good
  <2> QED BY <2>1
<1>2. ASSUME NEW n \in 0 .. N - 1, n \in S
      PROVE  n + 1 \in S
  <2>1. PICK f \in [0 .. n -> T] : Good(n, f)
    BY <1>2
  <2> DEFINE h == [i \in 0 .. n + 1 |-> IF i = n + 1 THEN g[<<i, f[n]>>] ELSE f[i]]
  <2>2. g[<<n + 1, f[n]>>] \in T
    <3>1. f[n] \in T /\ n + 1 \in 1 .. N
      OBVIOUS
    <3>2. <<n + 1, f[n]>> \in (1 .. N) \X T
      BY <3>1
    <3> QED BY <3>2
  <2>3. h \in [0 .. n + 1 -> T]
    BY <2>2
  <2>4. h[0] = a
    BY <2>1
  <2>5. ASSUME NEW i \in 1 .. n + 1 PROVE h[i] = g[<<i, h[i - 1]>>]
    BY <2>1, <2>5
  <2>6. Good(n + 1, h)
    BY <2>4, <2>5
  <2> HIDE DEF h, Good
  <2> QED BY <2>3, <2>6
<1>3. N \in S
  <2>1. Inductive(S, N)
    BY <1>1, <1>2 DEF Inductive
  <2> HIDE DEF S
  <2> QED BY <2>1, Induction
<1>4. PICK f \in [0 .. N -> T] : Good(N, f)
  BY <1>3
<1> QED BY <1>4 DEF Recursive

-----------------------------------------------------------------------------
(***************************************************************************)
(* Lengths and their digits: what binary.BigEndian writes it reads again.  *)
(***************************************************************************)

\* The lengths that LenBytes bytes can hold.
Length == 0 .. Power[LenBytes] - 1

LEMMA PowerFacts ==
  /\ Power \in [0 .. LenBytes -> Nat \ {0}]
  /\ Power[0] = 1
  /\ \A k \in 1 .. LenBytes : Power[k] = Base * Power[k - 1]
<1> DEFINE g == [p \in (1 .. LenBytes) \X (Nat \ {0}) |-> Base * p[2]]
<1>1. LenBytes \in Nat /\ Base \in Nat \ {0}
  BY ProtocolAssumption
<1>2. g \in [(1 .. LenBytes) \X (Nat \ {0}) -> Nat \ {0}]
  BY <1>1
<1>3. PICK f : Recursive(f, LenBytes, Nat \ {0}, 1, g)
  <2>1. 1 \in Nat \ {0}
    OBVIOUS
  <2> HIDE DEF g
  <2> QED BY <1>1, <1>2, <2>1, RecursiveFunction
<1>4. f = [i \in 0 .. LenBytes |-> IF i = 0 THEN 1 ELSE Base * f[i - 1]]
  <2>1. ASSUME NEW i \in 1 .. LenBytes PROVE f[i] = Base * f[i - 1]
    <3>1. i - 1 \in 0 .. LenBytes
      BY <1>1
    <3>2. f[i - 1] \in (Nat \ {0}) /\ f[i] = g[<<i, f[i - 1]>>]
      <4> HIDE DEF g
      <4> QED BY <1>3, <3>1 DEF Recursive
    <3>3. <<i, f[i - 1]>> \in (1 .. LenBytes) \X (Nat \ {0})
      BY <3>2
    <3> QED BY <3>2, <3>3
  <2> HIDE DEF g
  <2>2. \A i \in 0 .. LenBytes : f[i] = IF i = 0 THEN 1 ELSE Base * f[i - 1]
    <3>1. f[0] = 1
      BY <1>3 DEF Recursive
    <3> QED BY <1>1, <2>1, <3>1
  <2>3. f = [i \in 0 .. LenBytes |-> f[i]]
    BY <1>3 DEF Recursive
  <2> QED BY <2>2, <2>3
<1>5. Power = [i \in 0 .. LenBytes |-> IF i = 0 THEN 1 ELSE Base * Power[i - 1]]
  BY <1>4 DEF Power
<1>6. ASSUME NEW i \in 0 .. LenBytes, Power[i] \in Nat \ {0}, i < LenBytes
      PROVE  Power[i + 1] \in Nat \ {0}
  BY <1>1, <1>5, <1>6
<1>7. Power[0] = 1
  BY <1>1, <1>5
<1> DEFINE S == {i \in 0 .. LenBytes : Power[i] \in Nat \ {0}}
<1>8. \A i \in 0 .. LenBytes : i \in S
  <2>1. 0 \in S
    BY <1>1, <1>7
  <2>2. \A i \in 0 .. LenBytes - 1 : i \in S => i + 1 \in S
    BY <1>1, <1>6
  <2>3. Inductive(S, LenBytes)
    BY <2>1, <2>2 DEF Inductive
  <2> HIDE DEF S
  <2> QED BY <1>1, <2>3, Induction
<1>9. Power \in [0 .. LenBytes -> Nat \ {0}]
  <2>1. Power = [i \in 0 .. LenBytes |-> Power[i]]
    BY <1>5
  <2> QED BY <1>8, <2>1
<1>10. ASSUME NEW k \in 1 .. LenBytes PROVE Power[k] = Base * Power[k - 1]
  BY <1>1, <1>5
<1> QED BY <1>7, <1>9, <1>10

LEMMA DivideTwice ==
  ASSUME NEW n \in Nat, NEW b \in Nat \ {0}, NEW c \in Nat \ {0}
  PROVE  n \div (b * c) = (n \div c) \div b
OBVIOUS

LEMMA QuotientAndDigit ==
  ASSUME NEW b \in Nat \ {0}, NEW n \in Nat
  PROVE  /\ n \div b \in Nat /\ n % b \in 0 .. b - 1
         /\ n = (n \div b) * b + (n % b)
OBVIOUS

LEMMA DigitIsRemainder ==
  ASSUME NEW b \in Nat \ {0}, NEW q \in Nat, NEW d \in 0 .. b - 1
  PROVE  (q * b + d) \div b = q /\ (q * b + d) % b = d
OBVIOUS

\* The values of the first digits of d.
IsValue(v, d) ==
  /\ v \in [0 .. LenBytes -> Nat]
  /\ v[0] = 0
  /\ \A i \in 1 .. LenBytes : v[i] = v[i - 1] * Base + d[i]

Digits == {d \in Seq(Byte) : Len(d) = LenBytes}

LEMMA Uint32IsValue ==
  ASSUME NEW d \in Digits
  PROVE  \E v : IsValue(v, d) /\ Uint32(d) = v[LenBytes]
<1> DEFINE g == [p \in (1 .. LenBytes) \X Nat |-> p[2] * Base + d[p[1]]]
           value == CHOOSE v : v = [i \in 0 .. LenBytes |-> IF i = 0 THEN 0 ELSE v[i - 1] * Base + d[i]]
<1>1. LenBytes \in Nat /\ Base \in Nat \ {0}
  BY ProtocolAssumption
<1>2. \A i \in 1 .. LenBytes : d[i] \in Nat
  BY <1>1 DEF Digits, Byte
<1>3. g \in [(1 .. LenBytes) \X Nat -> Nat]
  BY <1>1, <1>2
<1>4. PICK f : Recursive(f, LenBytes, Nat, 0, g)
  <2>1. 0 \in Nat
    OBVIOUS
  <2> HIDE DEF g
  <2> QED BY <1>1, <1>3, <2>1, RecursiveFunction
<1>5. f = [i \in 0 .. LenBytes |-> IF i = 0 THEN 0 ELSE f[i - 1] * Base + d[i]]
  <2>1. ASSUME NEW i \in 1 .. LenBytes PROVE f[i] = f[i - 1] * Base + d[i]
    <3>1. i - 1 \in 0 .. LenBytes
      BY <1>1
    <3>2. f[i - 1] \in Nat /\ f[i] = g[<<i, f[i - 1]>>]
      <4> HIDE DEF g
      <4> QED BY <1>4, <3>1 DEF Recursive
    <3>3. <<i, f[i - 1]>> \in (1 .. LenBytes) \X Nat
      BY <3>2
    <3> QED BY <3>2, <3>3
  <2> HIDE DEF g
  <2>2. \A i \in 0 .. LenBytes : f[i] = IF i = 0 THEN 0 ELSE f[i - 1] * Base + d[i]
    <3>1. f[0] = 0
      BY <1>4 DEF Recursive
    <3> QED BY <1>1, <2>1, <3>1
  <2>3. f = [i \in 0 .. LenBytes |-> f[i]]
    BY <1>4 DEF Recursive
  <2> QED BY <2>2, <2>3
<1>6. value = [i \in 0 .. LenBytes |-> IF i = 0 THEN 0 ELSE value[i - 1] * Base + d[i]]
  BY <1>5
<1>7. Uint32(d) = value[LenBytes]
  BY DEF Uint32
<1> HIDE DEF value
<1> DEFINE S == {i \in 0 .. LenBytes : value[i] \in Nat}
<1>8. \A i \in 0 .. LenBytes : i \in S
  <2>1. 0 \in S
    BY <1>1, <1>6
  <2>2. \A i \in 0 .. LenBytes - 1 : i \in S => i + 1 \in S
    BY <1>1, <1>2, <1>6
  <2>3. Inductive(S, LenBytes)
    BY <2>1, <2>2 DEF Inductive
  <2> HIDE DEF S
  <2> QED BY <1>1, <2>3, Induction
<1>9. IsValue(value, d)
  <2>1. value = [i \in 0 .. LenBytes |-> value[i]]
    BY <1>6
  <2>2. value \in [0 .. LenBytes -> Nat]
    BY <1>8, <2>1
  <2>3. value[0] = 0
    BY <1>1, <1>6
  <2>4. ASSUME NEW i \in 1 .. LenBytes PROVE value[i] = value[i - 1] * Base + d[i]
    BY <1>1, <1>6
  <2> QED BY <2>2, <2>3, <2>4 DEF IsValue
<1> QED BY <1>7, <1>9

LEMMA LengthFacts ==
  /\ LenBytes \in Nat \ {0} /\ Base \in Nat \ {0} /\ Power[LenBytes] \in Nat \ {0}
  /\ Length \subseteq Nat /\ 0 \in Length
  /\ MaxKeyLength \in Length /\ MaxValueLength \in Length
<1>1. LenBytes \in Nat \ {0} /\ Base \in Nat \ {0}
  BY ProtocolAssumption
<1>2. Power[LenBytes] \in Nat \ {0}
  BY <1>1, PowerFacts
<1> QED BY <1>1, <1>2, ProtocolAssumption DEF Length

LEMMA BigEndianIsDigits ==
  ASSUME NEW n \in Nat
  PROVE  /\ BigEndian(n) \in Digits
         /\ \A i \in 1 .. LenBytes : BigEndian(n)[i] = (n \div Power[LenBytes - i]) % Base
<1>1. LenBytes \in Nat /\ Base \in Nat \ {0}
  BY LengthFacts
<1>2. ASSUME NEW i \in 1 .. LenBytes PROVE (n \div Power[LenBytes - i]) % Base \in Byte
  <2>1. LenBytes - i \in 0 .. LenBytes
    BY <1>1
  <2>2. Power[LenBytes - i] \in Nat \ {0}
    BY <2>1, PowerFacts
  <2>3. n \div Power[LenBytes - i] \in Nat
    BY <2>2, QuotientAndDigit
  <2> QED BY <1>1, <2>3, QuotientAndDigit DEF Byte
<1>3. BigEndian(n) \in [1 .. LenBytes -> Byte]
  BY <1>2 DEF BigEndian
<1>4. BigEndian(n) \in Seq(Byte) /\ Len(BigEndian(n)) = LenBytes
  BY <1>1, <1>3
<1> QED BY <1>4 DEF Digits, BigEndian

\* A length is less than Power[LenBytes].
LEMMA Uint32IsLength ==
  ASSUME NEW d \in Digits
  PROVE  Uint32(d) \in Length
<1>1. PICK v : IsValue(v, d) /\ Uint32(d) = v[LenBytes]
  BY Uint32IsValue
<1>2. LenBytes \in Nat /\ Base \in Nat \ {0}
  BY LengthFacts
<1> DEFINE S == {i \in 0 .. LenBytes : v[i] < Power[i]}
<1>3. 0 \in S
  BY <1>1, <1>2, PowerFacts DEF IsValue
<1>4. ASSUME NEW i \in 0 .. LenBytes - 1, i \in S
      PROVE  i + 1 \in S
  <2>1. i + 1 \in 1 .. LenBytes /\ i \in 0 .. LenBytes /\ v[i] < Power[i]
    BY <1>2, <1>4
  <2>2. d[i + 1] \in 0 .. Base - 1
    BY <1>2, <2>1 DEF Digits, Byte
  <2>3. v[i + 1] = v[i] * Base + d[i + 1]
    BY <1>1, <2>1 DEF IsValue
  <2>4. Power[i + 1] = Base * Power[i]
    BY <2>1, PowerFacts
  <2>5. v[i] \in Nat /\ Power[i] \in Nat
    BY <1>1, <2>1, PowerFacts DEF IsValue
  <2>6. ASSUME NEW a \in Nat, NEW p \in Nat, a < p, NEW b \in Nat \ {0}, NEW c \in 0 .. b - 1
        PROVE  a * b + c < b * p
    <3>1. p = a + 1 + (p - a - 1) /\ p - a - 1 \in Nat
      BY <2>6
    <3>2. b * p = b * a + b + b * (p - a - 1)
      BY <3>1
    <3>3. b * (p - a - 1) \in Nat
      BY <3>1
    <3> QED BY <3>2, <3>3
  <2>7. v[i + 1] < Power[i + 1]
    BY <1>2, <2>1, <2>2, <2>3, <2>4, <2>5, <2>6
  <2> QED BY <2>1, <2>7
<1>5. Inductive(S, LenBytes)
  BY <1>3, <1>4 DEF Inductive
<1>6. LenBytes \in S
  <2> HIDE DEF S
  <2>1. LenBytes \in 0 .. LenBytes
    BY <1>2
  <2> QED BY <1>2, <1>5, <2>1, Induction
<1>7. v[LenBytes] < Power[LenBytes] /\ v[LenBytes] \in Nat
  BY <1>1, <1>2, <1>6 DEF IsValue
<1> QED BY <1>1, <1>7, LengthFacts DEF Length

\* The first i digits of n are those of n without its last LenBytes - i digits.
LEMMA Uint32OfBigEndian ==
  ASSUME NEW n \in Length
  PROVE  Uint32(BigEndian(n)) = n
<1>1. n \in Nat /\ n < Power[LenBytes]
  BY LengthFacts DEF Length
<1>2. BigEndian(n) \in Digits
  BY <1>1, BigEndianIsDigits
<1>3. PICK v : IsValue(v, BigEndian(n)) /\ Uint32(BigEndian(n)) = v[LenBytes]
  BY <1>2, Uint32IsValue
<1>4. LenBytes \in Nat /\ Base \in Nat \ {0}
  BY LengthFacts
<1> DEFINE S == {i \in 0 .. LenBytes : v[i] = n \div Power[LenBytes - i]}
<1>5. 0 \in S
  <2>1. n \div Power[LenBytes] = 0
    BY <1>1, LengthFacts
  <2> QED BY <1>3, <1>4, <2>1 DEF IsValue
<1>6. ASSUME NEW i \in 0 .. LenBytes - 1, i \in S
      PROVE  i + 1 \in S
  <2>1. /\ i + 1 \in 1 .. LenBytes
        /\ LenBytes - i \in 1 .. LenBytes
        /\ LenBytes - (i + 1) \in 0 .. LenBytes
        /\ LenBytes - (i + 1) = (LenBytes - i) - 1
    BY <1>4
  <2> DEFINE p == Power[LenBytes - (i + 1)]
             q == n \div p
  <2>2. v[i + 1] = v[i] * Base + BigEndian(n)[i + 1]
    BY <1>3, <2>1 DEF IsValue
  <2>3. BigEndian(n)[i + 1] = q % Base
    BY <1>1, <2>1, BigEndianIsDigits
  <2>4. p \in Nat \ {0}
    BY <2>1, PowerFacts
  <2>5. Power[LenBytes - i] = Base * p
    BY <2>1, PowerFacts
  <2> HIDE DEF p
  <2>6. v[i] = q \div Base /\ q \in Nat
    <3>1. v[i] = n \div (Base * p)
      BY <1>6, <2>5
    <3> HIDE DEF q
    <3>2. n \div (Base * p) = (n \div p) \div Base
      <4>1. PICK b \in Nat \ {0}, c \in Nat \ {0} : b = Base /\ c = p
        BY <1>4, <2>4
      <4>2. n \div (b * c) = (n \div c) \div b
        BY <1>1, DivideTwice
      <4> QED BY <4>1, <4>2
    <3> QED BY <1>1, <2>4, <3>1, <3>2, QuotientAndDigit DEF q
  <2> HIDE DEF q
  <2>7. v[i + 1] = q
    BY <1>4, <2>2, <2>3, <2>6, QuotientAndDigit
  <2> QED BY <2>1, <2>7 DEF p, q
<1>7. Inductive(S, LenBytes)
  BY <1>5, <1>6 DEF Inductive
<1>8. LenBytes \in S
  <2> HIDE DEF S
  <2>1. LenBytes \in 0 .. LenBytes
    BY <1>4
  <2> QED BY <1>4, <1>7, <2>1, Induction
<1>9. n \div Power[0] = n
  BY <1>1, PowerFacts
<1> QED BY <1>3, <1>4, <1>8, <1>9

LEMMA BigEndianOfUint32 ==
  ASSUME NEW d \in Digits
  PROVE  BigEndian(Uint32(d)) = d
<1> DEFINE n == Uint32(d)
<1>1. n \in Nat
  BY Uint32IsLength, LengthFacts
<1>2. PICK v : IsValue(v, d) /\ n = v[LenBytes]
  BY Uint32IsValue
<1> HIDE DEF n
<1>3. LenBytes \in Nat /\ Base \in Nat \ {0}
  BY LengthFacts
<1>4. \A i \in 1 .. LenBytes : d[i] \in 0 .. Base - 1
  BY <1>3 DEF Digits, Byte
<1> DEFINE S == {j \in 0 .. LenBytes : v[LenBytes - j] = n \div Power[j]}
<1>5. 0 \in S
  BY <1>1, <1>2, <1>3, PowerFacts
<1>6. ASSUME NEW j \in 0 .. LenBytes - 1, j \in S
      PROVE  j + 1 \in S
  <2>1. /\ j + 1 \in 1 .. LenBytes /\ j \in 0 .. LenBytes
        /\ LenBytes - j \in 1 .. LenBytes
        /\ LenBytes - (j + 1) \in 0 .. LenBytes
        /\ LenBytes - (j + 1) = (LenBytes - j) - 1
    BY <1>3
  <2> DEFINE p == Power[j]
             i == LenBytes - j
  <2>2. p \in Nat \ {0} /\ Power[j + 1] = Base * p
    BY <2>1, PowerFacts
  <2>3. v[i] = v[i - 1] * Base + d[i] /\ v[i - 1] \in Nat
    BY <1>2, <2>1 DEF IsValue
  <2>4. v[i - 1] = v[i] \div Base
    <3>1. PICK a \in Nat, c \in 0 .. Base - 1 : a = v[i - 1] /\ c = d[i]
      BY <1>3, <1>4, <2>1, <2>3
    <3>2. (a * Base + c) \div Base = a
      BY <1>3, DigitIsRemainder
    <3> QED BY <2>3, <3>1, <3>2
  <2> HIDE DEF p
  <2>5. n \div Power[j + 1] = (n \div p) \div Base
    <3>1. PICK b \in Nat \ {0}, c \in Nat \ {0} : b = Base /\ c = p
      BY <1>3, <2>2
    <3>2. n \div (b * c) = (n \div c) \div b
      BY <1>1, DivideTwice
    <3> QED BY <2>2, <3>1, <3>2
  <2>6. v[i] = n \div p
    BY <1>6 DEF p
  <2> QED BY <2>1, <2>4, <2>5, <2>6
<1>7. Inductive(S, LenBytes)
  BY <1>5, <1>6 DEF Inductive
<1>8. \A j \in 0 .. LenBytes : j \in S
  <2> HIDE DEF S
  <2> QED BY <1>3, <1>7, Induction
<1>9. ASSUME NEW i \in 1 .. LenBytes PROVE BigEndian(n)[i] = d[i]
  <2>1. LenBytes - i \in 0 .. LenBytes /\ LenBytes - (LenBytes - i) = i /\ i - 1 \in 0 .. LenBytes
    BY <1>3
  <2>2. v[i] = n \div Power[LenBytes - i]
    BY <1>8, <2>1
  <2>3. v[i] = v[i - 1] * Base + d[i] /\ v[i - 1] \in Nat
    BY <1>2, <2>1 DEF IsValue
  <2>4. v[i] % Base = d[i]
    <3>1. PICK a \in Nat, c \in 0 .. Base - 1 : a = v[i - 1] /\ c = d[i]
      BY <1>3, <1>4, <2>3
    <3>2. (a * Base + c) % Base = c
      BY <1>3, DigitIsRemainder
    <3> QED BY <2>3, <3>1, <3>2
  <2> QED BY <1>1, <2>2, <2>4, BigEndianIsDigits
<1>10. BigEndian(n) \in Digits
  BY <1>1, BigEndianIsDigits
<1>11. BigEndian(n) = d
  BY <1>9, <1>10, SeqEqual DEF Digits
<1> QED BY <1>11 DEF n

-----------------------------------------------------------------------------
(***************************************************************************)
(* Parts of a sequence of bytes.                                           *)
(***************************************************************************)

Bytes == Seq(Byte)

LEMMA SliceFacts ==
  ASSUME NEW s \in Bytes, NEW i \in Nat, NEW n \in Nat, i + n <= Len(s)
  PROVE  /\ Slice(s, i, n) \in Bytes /\ Len(Slice(s, i, n)) = n
         /\ \A j \in 1 .. n : Slice(s, i, n)[j] = s[i + j]
<1>1. \A j \in i + 1 .. i + n : s[j] \in Byte
  <2>1. Len(s) \in Nat
    BY LenProperties DEF Bytes
  <2> QED BY <2>1, ElementOfSeq DEF Bytes
<1>2. /\ SubSeq(s, i + 1, i + n) \in Seq(Byte)
      /\ Len(SubSeq(s, i + 1, i + n)) = IF i + 1 <= i + n THEN i + n - (i + 1) + 1 ELSE 0
      /\ \A j \in 1 .. i + n - (i + 1) + 1 : SubSeq(s, i + 1, i + n)[j] = s[i + 1 + j - 1]
  <2>1. i + 1 \in Int /\ i + n \in Int
    OBVIOUS
  <2> QED BY <1>1, <2>1, SubSeqProperties
<1>3. i + n - (i + 1) + 1 = n /\ \A j \in 1 .. n : i + 1 + j - 1 = i + j
  OBVIOUS
<1> QED BY <1>2, <1>3 DEF Slice, Bytes

LEMMA ConcatBytes ==
  ASSUME NEW s \in Bytes, NEW t \in Bytes
  PROVE  /\ s \o t \in Bytes /\ Len(s \o t) = Len(s) + Len(t) /\ Len(s) \in Nat /\ Len(t) \in Nat
         /\ \A j \in 1 .. Len(s) : (s \o t)[j] = s[j]
         /\ \A j \in 1 .. Len(t) : (s \o t)[Len(s) + j] = t[j]
<1>1. Len(s) \in Nat /\ Len(t) \in Nat
  BY LenProperties DEF Bytes
<1> QED BY <1>1, ConcatProperties DEF Bytes

LEMMA BytesAssociative ==
  ASSUME NEW s \in Bytes, NEW t \in Bytes, NEW u \in Bytes
  PROVE  (s \o t) \o u = s \o (t \o u)
BY ConcatAssociative DEF Bytes

LEMMA SameBytes ==
  ASSUME NEW s \in Bytes, NEW t \in Bytes,
         Len(s) = Len(t), \A j \in 1 .. Len(t) : s[j] = t[j]
  PROVE  s = t
BY SeqEqual DEF Bytes

LEMMA SliceInPrefix ==
  ASSUME NEW s \in Bytes, NEW t \in Bytes, NEW i \in Nat, NEW n \in Nat, i + n <= Len(s)
  PROVE  Slice(s \o t, i, n) = Slice(s, i, n)
<1>1. /\ s \o t \in Bytes /\ Len(s \o t) = Len(s) + Len(t) /\ Len(s) \in Nat /\ Len(t) \in Nat
      /\ \A j \in 1 .. Len(s) : (s \o t)[j] = s[j]
  BY ConcatBytes
<1>2. /\ Slice(s \o t, i, n) \in Bytes /\ Len(Slice(s \o t, i, n)) = n
      /\ \A j \in 1 .. n : Slice(s \o t, i, n)[j] = (s \o t)[i + j]
  <2>1. i + n <= Len(s \o t)
    BY <1>1
  <2> QED BY <1>1, <2>1, SliceFacts
<1>3. /\ Slice(s, i, n) \in Bytes /\ Len(Slice(s, i, n)) = n
      /\ \A j \in 1 .. n : Slice(s, i, n)[j] = s[i + j]
  BY SliceFacts
<1>4. ASSUME NEW j \in 1 .. n PROVE Slice(s \o t, i, n)[j] = Slice(s, i, n)[j]
  <2>1. i + j \in 1 .. Len(s)
    BY <1>1
  <2> QED BY <1>1, <1>2, <1>3, <2>1
<1> DEFINE a == Slice(s \o t, i, n)
           b == Slice(s, i, n)
<1>5. a \in Bytes /\ b \in Bytes /\ Len(a) = n /\ Len(b) = n /\ \A j \in 1 .. n : a[j] = b[j]
  BY <1>2, <1>3, <1>4
<1>6. a = b
  <2> HIDE DEF a, b
  <2> QED BY <1>5, SameBytes
<1> QED BY <1>6

LEMMA SliceInSuffix ==
  ASSUME NEW s \in Bytes, NEW t \in Bytes, NEW i \in Nat, NEW n \in Nat, i + n <= Len(t)
  PROVE  Slice(s \o t, Len(s) + i, n) = Slice(t, i, n)
<1>1. /\ s \o t \in Bytes /\ Len(s \o t) = Len(s) + Len(t) /\ Len(s) \in Nat /\ Len(t) \in Nat
      /\ \A j \in 1 .. Len(t) : (s \o t)[Len(s) + j] = t[j]
  BY ConcatBytes
<1>2. /\ Slice(s \o t, Len(s) + i, n) \in Bytes /\ Len(Slice(s \o t, Len(s) + i, n)) = n
      /\ \A j \in 1 .. n : Slice(s \o t, Len(s) + i, n)[j] = (s \o t)[Len(s) + i + j]
  <2>1. Len(s) + i \in Nat /\ Len(s) + i + n <= Len(s \o t)
    BY <1>1
  <2> QED BY <1>1, <2>1, SliceFacts
<1>3. /\ Slice(t, i, n) \in Bytes /\ Len(Slice(t, i, n)) = n
      /\ \A j \in 1 .. n : Slice(t, i, n)[j] = t[i + j]
  BY SliceFacts
<1>4. ASSUME NEW j \in 1 .. n PROVE (s \o t)[Len(s) + i + j] = t[i + j]
  <2>1. i + j \in 1 .. Len(t) /\ Len(s) + i + j = Len(s) + (i + j)
    BY <1>1
  <2> QED BY <1>1, <2>1
<1> DEFINE a == Slice(s \o t, Len(s) + i, n)
           b == Slice(t, i, n)
<1>5. a \in Bytes /\ b \in Bytes /\ Len(a) = n /\ Len(b) = n /\ \A j \in 1 .. n : a[j] = b[j]
  BY <1>2, <1>3, <1>4
<1>6. a = b
  <2> HIDE DEF a, b
  <2> QED BY <1>5, SameBytes
<1> QED BY <1>6

LEMMA WholeSlice ==
  ASSUME NEW s \in Bytes
  PROVE  Slice(s, 0, Len(s)) = s
<1>1. Len(s) \in Nat
  BY LenProperties DEF Bytes
<1> DEFINE a == Slice(s, 0, Len(s))
<1>2. a \in Bytes /\ Len(a) = Len(s) /\ \A j \in 1 .. Len(s) : a[j] = s[0 + j]
  <2>1. 0 \in Nat /\ 0 + Len(s) <= Len(s)
    BY <1>1
  <2> QED BY <1>1, <2>1, SliceFacts
<1> HIDE DEF a
<1>3. \A j \in 1 .. Len(s) : 0 + j = j
  BY <1>1
<1>4. a = s
  BY <1>2, <1>3, SameBytes
<1> QED BY <1>4 DEF a

LEMMA TakeDropAreSlices ==
  ASSUME NEW s \in Bytes, NEW n \in 0 .. Len(s)
  PROVE  Take(s, n) = Slice(s, 0, n) /\ Drop(s, n) = Slice(s, n, Len(s) - n)
<1>1. Len(s) \in Nat
  BY LenProperties DEF Bytes
<1>2. 0 + 1 = 1 /\ 0 + n = n /\ n + (Len(s) - n) = Len(s)
  BY <1>1
<1> QED BY <1>2 DEF Take, Drop, Slice

LEMMA TakeDropBytes ==
  ASSUME NEW s \in Bytes, NEW n \in 0 .. Len(s)
  PROVE  /\ Take(s, n) \in Bytes /\ Len(Take(s, n)) = n
         /\ Drop(s, n) \in Bytes /\ Len(Drop(s, n)) = Len(s) - n
         /\ Take(s, n) \o Drop(s, n) = s
<1>1. Len(s) \in Nat
  BY LenProperties DEF Bytes
<1>2. Take(s, n) = Slice(s, 0, n) /\ Drop(s, n) = Slice(s, n, Len(s) - n)
  BY TakeDropAreSlices
<1>3. /\ Take(s, n) \in Bytes /\ Len(Take(s, n)) = n
      /\ \A j \in 1 .. n : Take(s, n)[j] = s[0 + j]
  <2>1. 0 \in Nat /\ n \in Nat /\ 0 + n <= Len(s)
    BY <1>1
  <2> QED BY <1>2, <2>1, SliceFacts
<1>4. /\ Drop(s, n) \in Bytes /\ Len(Drop(s, n)) = Len(s) - n
      /\ \A j \in 1 .. Len(s) - n : Drop(s, n)[j] = s[n + j]
  <2>1. n \in Nat /\ Len(s) - n \in Nat /\ n + (Len(s) - n) <= Len(s)
    BY <1>1
  <2> QED BY <1>2, <2>1, SliceFacts
<1> DEFINE u == Take(s, n) \o Drop(s, n)
<1>5. /\ u \in Bytes /\ Len(u) = Len(s)
      /\ \A j \in 1 .. n : u[j] = Take(s, n)[j]
      /\ \A j \in 1 .. Len(s) - n : u[n + j] = Drop(s, n)[j]
  <2> DEFINE a == Take(s, n)
             b == Drop(s, n)
  <2>1. n + (Len(s) - n) = Len(s)
    BY <1>1
  <2>2. a \in Bytes /\ b \in Bytes /\ Len(a) = n /\ Len(b) = Len(s) - n /\ u = a \o b
    BY <1>3, <1>4
  <2> HIDE DEF a, b, u
  <2>3. /\ u \in Bytes /\ Len(u) = Len(s)
        /\ \A j \in 1 .. n : u[j] = a[j]
        /\ \A j \in 1 .. Len(s) - n : u[n + j] = b[j]
    <3>1. /\ a \o b \in Bytes /\ Len(a \o b) = Len(a) + Len(b)
          /\ \A j \in 1 .. Len(a) : (a \o b)[j] = a[j]
          /\ \A j \in 1 .. Len(b) : (a \o b)[Len(a) + j] = b[j]
      BY <2>2, ConcatBytes
    <3> QED BY <2>1, <2>2, <3>1
  <2> QED BY <2>3 DEF a, b
<1>6. ASSUME NEW j \in 1 .. Len(s) PROVE u[j] = s[j]
  <2> HIDE DEF u
  <2>1. CASE j <= n
    <3>1. j \in 1 .. n /\ 0 + j = j
      BY <1>1, <2>1
    <3> QED BY <1>3, <1>5, <3>1
  <2>2. CASE j > n
    <3>1. j - n \in 1 .. Len(s) - n /\ n + (j - n) = j
      BY <1>1, <2>2
    <3> QED BY <1>4, <1>5, <3>1
  <2> QED BY <1>1, <2>1, <2>2
<1>7. u = s
  <2> HIDE DEF u
  <2> QED BY <1>5, <1>6, SameBytes
<1> QED BY <1>3, <1>4, <1>7

LEMMA TakeDropOfConcat ==
  ASSUME NEW s \in Bytes, NEW t \in Bytes
  PROVE  Take(s \o t, Len(s)) = s /\ Drop(s \o t, Len(s)) = t
<1>1. s \o t \in Bytes /\ Len(s \o t) = Len(s) + Len(t) /\ Len(s) \in Nat /\ Len(t) \in Nat
  BY ConcatBytes
<1>2. /\ Take(s \o t, Len(s)) = Slice(s \o t, 0, Len(s))
      /\ Drop(s \o t, Len(s)) = Slice(s \o t, Len(s), Len(t))
  <2>1. Len(s) \in 0 .. Len(s \o t) /\ Len(s \o t) - Len(s) = Len(t)
    BY <1>1
  <2> QED BY <1>1, <2>1, TakeDropAreSlices
<1>3. Slice(s \o t, 0, Len(s)) = s
  <2>1. 0 \in Nat /\ 0 + Len(s) <= Len(s)
    BY <1>1
  <2>2. Slice(s \o t, 0, Len(s)) = Slice(s, 0, Len(s))
    BY <1>1, <2>1, SliceInPrefix
  <2> QED BY <2>2, WholeSlice
<1>4. Slice(s \o t, Len(s), Len(t)) = t
  <2>1. 0 \in Nat /\ 0 + Len(t) <= Len(t) /\ Len(s) + 0 = Len(s)
    BY <1>1
  <2>2. Slice(s \o t, Len(s) + 0, Len(t)) = Slice(t, 0, Len(t))
    BY <1>1, <2>1, SliceInSuffix
  <2> QED BY <2>1, <2>2, WholeSlice
<1> QED BY <1>2, <1>3, <1>4

LEMMA OneByte ==
  ASSUME NEW c \in Byte
  PROVE  <<c>> \in Bytes /\ Len(<<c>>) = 1 /\ <<c>>[1] = c
BY DEF Bytes

\* u is s and t joined.
Joins(u, s, t) == u = s \o t

LEMMA Joined ==
  ASSUME NEW s \in Bytes, NEW t \in Bytes
  PROVE  \E u \in Bytes : Joins(u, s, t)
BY ConcatBytes DEF Joins

LEMMA JoinedBytes ==
  ASSUME NEW u \in Bytes, NEW s \in Bytes, NEW t \in Bytes, Joins(u, s, t)
  PROVE  /\ Len(s) \in Nat /\ Len(t) \in Nat /\ Len(u) = Len(s) + Len(t)
         /\ \A j \in 1 .. Len(s) : u[j] = s[j]
         /\ \A j \in 1 .. Len(t) : u[Len(s) + j] = t[j]
BY ConcatBytes DEF Joins

LEMMA JoinedPrefix ==
  ASSUME NEW u \in Bytes, NEW s \in Bytes, NEW t \in Bytes, Joins(u, s, t),
         NEW i \in Nat, NEW n \in Nat, i + n <= Len(s)
  PROVE  Slice(u, i, n) = Slice(s, i, n)
BY SliceInPrefix DEF Joins

LEMMA JoinedSuffix ==
  ASSUME NEW u \in Bytes, NEW s \in Bytes, NEW t \in Bytes, Joins(u, s, t),
         NEW i \in Nat, NEW n \in Nat, i + n <= Len(t)
  PROVE  Slice(u, Len(s) + i, n) = Slice(t, i, n)
BY SliceInSuffix DEF Joins

-----------------------------------------------------------------------------
(***************************************************************************)
(* Headers.                                                                *)
(***************************************************************************)

HeaderOf(cmd, keyLen, valueLen) == <<cmd>> \o BigEndian(keyLen) \o BigEndian(valueLen)

Header == {h \in Bytes : Len(h) = FrameHeaderSize}

LEMMA SizeFacts ==
  /\ LenBytes \in Nat \ {0} /\ FrameHeaderSize \in Nat
  /\ FrameHeaderSize = 1 + LenBytes + LenBytes /\ FrameHeaderSize >= 3
BY LengthFacts DEF FrameHeaderSize

\* A header has the fields it was built from.
LEMMA HeaderHasFields ==
  ASSUME NEW cmd \in Byte, NEW k \in Length, NEW v \in Length
  PROVE  /\ HeaderOf(cmd, k, v) \in Header
         /\ HeaderOf(cmd, k, v)[1] = cmd
         /\ KeyLen(HeaderOf(cmd, k, v)) = k /\ ValueLen(HeaderOf(cmd, k, v)) = v
<1>1. PICK L \in Nat \ {0} : L = LenBytes /\ FrameHeaderSize = 1 + L + L
  BY SizeFacts
<1>2. PICK c \in Bytes : c = <<cmd>> /\ Len(c) = 1 /\ c[1] = cmd
  BY OneByte
<1>3. PICK a \in Bytes, b \in Bytes :
        a = BigEndian(k) /\ b = BigEndian(v) /\ Len(a) = L /\ Len(b) = L
  BY <1>1, BigEndianIsDigits, LengthFacts DEF Digits, Bytes
<1>4. PICK p \in Bytes : Joins(p, c, a)
  BY Joined
<1>5. PICK h \in Bytes : Joins(h, p, b)
  BY Joined
<1>6. h = HeaderOf(cmd, k, v)
  BY <1>2, <1>3, <1>4, <1>5 DEF HeaderOf, Joins
<1>7. Len(p) = 1 + L /\ p[1] = cmd
  <2>1. 1 \in 1 .. Len(c) /\ Len(a) = L
    BY <1>2, <1>3
  <2>2. Len(p) = Len(c) + Len(a) /\ p[1] = c[1]
    BY <1>4, <2>1, JoinedBytes
  <2> QED BY <1>2, <2>1, <2>2
<1>8. Len(h) = 1 + L + L /\ h[1] = cmd
  <2>1. 1 \in 1 .. Len(p) /\ Len(b) = L
    BY <1>1, <1>3, <1>7
  <2>2. Len(h) = Len(p) + Len(b) /\ h[1] = p[1]
    BY <1>5, <2>1, JoinedBytes
  <2> QED BY <1>7, <2>1, <2>2
<1>9. Slice(h, 1, L) = a
  <2>1. 1 \in Nat /\ L \in Nat /\ 1 + L <= Len(p)
    BY <1>1, <1>7
  <2>2. Slice(h, 1, L) = Slice(p, 1, L)
    BY <1>5, <2>1, JoinedPrefix
  <2>3. 0 \in Nat /\ 0 + L <= Len(a) /\ Len(c) + 0 = 1
    BY <1>1, <1>2, <1>3
  <2>4. Slice(p, Len(c) + 0, L) = Slice(a, 0, L)
    BY <1>1, <1>4, <2>3, JoinedSuffix
  <2>5. Slice(a, 0, L) = a
    <3>1. Len(a) = L
      BY <1>3
    <3> QED BY <3>1, WholeSlice
  <2> QED BY <2>2, <2>3, <2>4, <2>5
<1>10. Slice(h, 1 + L, L) = b
  <2>1. 0 \in Nat /\ 0 + L <= Len(b) /\ Len(p) + 0 = 1 + L
    BY <1>1, <1>3, <1>7
  <2>2. Slice(h, Len(p) + 0, L) = Slice(b, 0, L)
    BY <1>1, <1>5, <2>1, JoinedSuffix
  <2>3. Slice(b, 0, L) = b
    <3>1. Len(b) = L
      BY <1>3
    <3> QED BY <3>1, WholeSlice
  <2> QED BY <2>1, <2>2, <2>3
<1>11. KeyLen(h) = k /\ ValueLen(h) = v
  BY <1>1, <1>3, <1>9, <1>10, Uint32OfBigEndian DEF KeyLen, ValueLen
<1>12. h \in Header
  BY <1>1, <1>8 DEF Header
<1> QED BY <1>6, <1>11, <1>12, <1>8

\* And a header is built from the fields it has.
LEMMA HeaderIsItsFields ==
  ASSUME NEW h \in Header
  PROVE  /\ h[1] \in Byte /\ KeyLen(h) \in Length /\ ValueLen(h) \in Length
         /\ HeaderOf(h[1], KeyLen(h), ValueLen(h)) = h
<1>1. PICK L \in Nat \ {0} : L = LenBytes /\ FrameHeaderSize = 1 + L + L
  BY SizeFacts
<1>2. h \in Bytes /\ Len(h) = 1 + L + L
  BY <1>1 DEF Header
<1>3. PICK a \in Bytes : /\ a = Slice(h, 1, L) /\ Len(a) = L
                         /\ \A j \in 1 .. L : a[j] = h[1 + j]
  <2>1. 1 \in Nat /\ L \in Nat /\ 1 + L <= Len(h)
    BY <1>1, <1>2
  <2> QED BY <1>2, <2>1, SliceFacts
<1>4. PICK b \in Bytes : /\ b = Slice(h, 1 + L, L) /\ Len(b) = L
                         /\ \A j \in 1 .. L : b[j] = h[1 + L + j]
  <2>1. 1 + L \in Nat /\ L \in Nat /\ 1 + L + L <= Len(h)
    BY <1>1, <1>2
  <2> QED BY <1>2, <2>1, SliceFacts
<1>5. a \in Digits /\ b \in Digits
  BY <1>1, <1>3, <1>4 DEF Digits, Bytes
<1>6. KeyLen(h) = Uint32(a) /\ ValueLen(h) = Uint32(b)
  BY <1>1, <1>3, <1>4 DEF KeyLen, ValueLen
<1>7. BigEndian(KeyLen(h)) = a /\ BigEndian(ValueLen(h)) = b
  BY <1>5, <1>6, BigEndianOfUint32
<1>8. h[1] \in Byte
  <2>1. 1 \in 1 .. Len(h)
    BY <1>1, <1>2
  <2> QED BY <1>2, <2>1, ElementOfSeq DEF Bytes
<1>9. PICK c \in Bytes : c = <<h[1]>> /\ Len(c) = 1 /\ c[1] = h[1]
  BY <1>8, OneByte
<1>10. PICK p \in Bytes : Joins(p, c, a)
  BY Joined
<1>11. PICK u \in Bytes : Joins(u, p, b)
  BY Joined
<1>12. Len(p) = 1 + L /\ p[1] = h[1] /\ \A j \in 1 .. L : p[1 + j] = a[j]
  <2>1. Len(a) = L /\ 1 \in 1 .. Len(c)
    BY <1>3, <1>9
  <2>2. /\ Len(p) = Len(c) + Len(a)
        /\ \A j \in 1 .. Len(c) : p[j] = c[j]
        /\ \A j \in 1 .. Len(a) : p[Len(c) + j] = a[j]
    BY <1>10, JoinedBytes
  <2> QED BY <1>9, <2>1, <2>2
<1>13. /\ Len(u) = 1 + L + L
       /\ \A j \in 1 .. 1 + L : u[j] = p[j]
       /\ \A j \in 1 .. L : u[1 + L + j] = b[j]
  <2>1. Len(b) = L
    BY <1>4
  <2>2. /\ Len(u) = Len(p) + Len(b)
        /\ \A j \in 1 .. Len(p) : u[j] = p[j]
        /\ \A j \in 1 .. Len(b) : u[Len(p) + j] = b[j]
    BY <1>11, JoinedBytes
  <2> QED BY <1>12, <2>1, <2>2
<1>14. ASSUME NEW j \in 1 .. Len(h) PROVE u[j] = h[j]
  <2>1. CASE j = 1
    BY <1>1, <1>12, <1>13, <2>1
  <2>2. CASE j \in 2 .. 1 + L
    <3>1. j - 1 \in 1 .. L /\ 1 + (j - 1) = j /\ j \in 1 .. 1 + L
      BY <1>1, <2>2
    <3>2. u[j] = p[j] /\ p[j] = a[j - 1] /\ a[j - 1] = h[j]
      <4>1. u[j] = p[j]
        BY <1>13, <3>1
      <4>2. p[1 + (j - 1)] = a[j - 1]
        BY <1>12, <3>1
      <4>3. a[j - 1] = h[1 + (j - 1)]
        BY <1>3, <3>1
      <4> QED BY <3>1, <4>1, <4>2, <4>3
    <3> QED BY <3>2
  <2>3. CASE j \in 2 + L .. 1 + L + L
    <3>1. j - 1 - L \in 1 .. L /\ 1 + L + (j - 1 - L) = j
      BY <1>1, <2>3
    <3> QED BY <1>4, <1>13, <3>1
  <2> QED BY <1>1, <1>2, <2>1, <2>2, <2>3
<1>15. u = h
  BY <1>2, <1>13, <1>14, SameBytes
<1>16. u = HeaderOf(h[1], KeyLen(h), ValueLen(h))
  BY <1>7, <1>9, <1>10, <1>11 DEF HeaderOf, Joins
<1> QED BY <1>5, <1>6, <1>8, <1>15, <1>16, Uint32IsLength

\* What follows a header does not change its fields.
LEMMA HeaderOfStream ==
  ASSUME NEW h \in Header, NEW t \in Bytes
  PROVE  /\ KeyLen(h \o t) = KeyLen(h) /\ ValueLen(h \o t) = ValueLen(h)
         /\ (h \o t)[1] = h[1]
<1>1. PICK L \in Nat \ {0} : L = LenBytes /\ FrameHeaderSize = 1 + L + L
  BY SizeFacts
<1>2. h \in Bytes /\ Len(h) = 1 + L + L
  BY <1>1 DEF Header
<1>3. Slice(h \o t, 1, L) = Slice(h, 1, L)
  <2>1. 1 \in Nat /\ L \in Nat /\ 1 + L <= Len(h)
    BY <1>1, <1>2
  <2> QED BY <1>2, <2>1, SliceInPrefix
<1>4. Slice(h \o t, 1 + L, L) = Slice(h, 1 + L, L)
  <2>1. 1 + L \in Nat /\ L \in Nat /\ 1 + L + L <= Len(h)
    BY <1>1, <1>2
  <2> QED BY <1>2, <2>1, SliceInPrefix
<1>5. (h \o t)[1] = h[1]
  <2>1. 1 \in 1 .. Len(h)
    BY <1>1, <1>2
  <2> QED BY <1>2, <2>1, ConcatBytes
<1> QED BY <1>1, <1>3, <1>4, <1>5 DEF KeyLen, ValueLen

-----------------------------------------------------------------------------
(***************************************************************************)
(* Requests and responses, as a header and what follows it.                *)
(***************************************************************************)

\* What the code cuts out of the bytes behind a header.
KeyOf(h, body) == Take(body, KeyLen(h))
ValueOf(h, body) == Slice(body, KeyLen(h), ValueLen(h))

\* The parts of such a body: the key, the value and the rest.
LEMMA BodyParts ==
  ASSUME NEW body \in Bytes, NEW k \in Nat, NEW v \in Nat, k + v <= Len(body)
  PROVE  /\ Take(body, k) \in Bytes /\ Len(Take(body, k)) = k
         /\ Slice(body, k, v) \in Bytes /\ Len(Slice(body, k, v)) = v
         /\ Drop(body, k + v) \in Bytes /\ Len(Drop(body, k + v)) = Len(body) - (k + v)
         /\ Take(body, k) \o (Slice(body, k, v) \o Drop(body, k + v)) = body
<1>1. Len(body) \in Nat /\ k \in 0 .. Len(body) /\ k + v \in 0 .. Len(body)
  BY LenProperties DEF Bytes
<1>2. PICK a \in Bytes, d \in Bytes :
        /\ a = Take(body, k) /\ Len(a) = k
        /\ d = Drop(body, k) /\ Len(d) = Len(body) - k
        /\ Joins(body, a, d)
  <2>1. /\ Take(body, k) \in Bytes /\ Len(Take(body, k)) = k
        /\ Drop(body, k) \in Bytes /\ Len(Drop(body, k)) = Len(body) - k
        /\ Take(body, k) \o Drop(body, k) = body
    BY <1>1, TakeDropBytes
  <2> QED BY <2>1 DEF Joins
<1>3. v \in 0 .. Len(d)
  BY <1>1, <1>2
<1>4. /\ Take(d, v) \in Bytes /\ Len(Take(d, v)) = v
      /\ Drop(d, v) \in Bytes /\ Len(Drop(d, v)) = Len(d) - v
      /\ Take(d, v) \o Drop(d, v) = d
  BY <1>3, TakeDropBytes
<1>5. Take(d, v) = Slice(d, 0, v) /\ Drop(d, v) = Slice(d, v, Len(d) - v)
  BY <1>3, TakeDropAreSlices
<1>6. Slice(body, k, v) = Slice(d, 0, v)
  <2>1. 0 \in Nat /\ 0 + v <= Len(d) /\ Len(a) + 0 = k
    BY <1>2, <1>3
  <2>2. Slice(body, Len(a) + 0, v) = Slice(d, 0, v)
    <3>1. Joins(body, a, d)
      BY <1>2
    <3> QED BY <2>1, <3>1, JoinedSuffix
  <2> QED BY <2>1, <2>2
<1>7. Drop(body, k + v) = Slice(d, v, Len(d) - v)
  <2>1. /\ Len(d) - v \in Nat /\ v + (Len(d) - v) <= Len(d)
        /\ Len(a) + v = k + v /\ Len(body) - (k + v) = Len(d) - v
    BY <1>1, <1>2, <1>3
  <2>2. Slice(body, Len(a) + v, Len(d) - v) = Slice(d, v, Len(d) - v)
    <3>1. PICK n \in Nat : n = Len(d) - v /\ v + n <= Len(d)
      BY <2>1
    <3>2. Joins(body, a, d)
      BY <1>2
    <3>3. Slice(body, Len(a) + v, n) = Slice(d, v, n)
      BY <3>1, <3>2, JoinedSuffix
    <3> QED BY <3>1, <3>3
  <2>3. Drop(body, k + v) = Slice(body, k + v, Len(body) - (k + v))
    BY <1>1, TakeDropAreSlices
  <2> QED BY <2>1, <2>2, <2>3
<1>8. Take(body, k) \o (Slice(body, k, v) \o Drop(body, k + v)) = body
  BY <1>2, <1>4, <1>5, <1>6, <1>7 DEF Joins
<1>9. Len(body) - (k + v) = Len(d) - v
  BY <1>1, <1>2
<1> QED BY <1>2, <1>4, <1>5, <1>6, <1>7, <1>8, <1>9

\* DecodeRequest of a header and what follows it.
LEMMA DecodeRequestParts ==
  ASSUME NEW h \in Header, NEW body \in Bytes
  PROVE  DecodeRequest(h \o body) =
           IF Len(body) < KeyLen(h) + ValueLen(h) THEN Error
           ELSE Ok(NewFrame(h[1], KeyOf(h, body), ValueOf(h, body)))
<1>1. h \in Bytes /\ Len(h) = FrameHeaderSize /\ FrameHeaderSize \in Nat
  BY SizeFacts DEF Header
<1>2. KeyLen(h) \in Nat /\ ValueLen(h) \in Nat
  BY HeaderIsItsFields, LengthFacts
<1>3. PICK data \in Bytes : Joins(data, h, body)
  BY <1>1, Joined
<1>4. Len(body) \in Nat /\ Len(data) = FrameHeaderSize + Len(body)
  BY <1>1, <1>3, JoinedBytes
<1>5. KeyLen(data) = KeyLen(h) /\ ValueLen(data) = ValueLen(h) /\ data[1] = h[1]
  BY <1>3, HeaderOfStream DEF Joins
<1>6. ASSUME Len(body) >= KeyLen(h) + ValueLen(h)
      PROVE  /\ Slice(data, FrameHeaderSize, KeyLen(h)) = KeyOf(h, body)
             /\ Slice(data, FrameHeaderSize + KeyLen(h), ValueLen(h)) = ValueOf(h, body)
  <2>1. /\ 0 \in Nat /\ 0 + KeyLen(h) <= Len(body) /\ Len(h) + 0 = FrameHeaderSize
        /\ KeyLen(h) + ValueLen(h) <= Len(body) /\ KeyLen(h) \in 0 .. Len(body)
    BY <1>1, <1>2, <1>4, <1>6
  <2>2. Slice(data, Len(h) + 0, KeyLen(h)) = Slice(body, 0, KeyLen(h))
    <3>1. PICK k \in Nat : k = KeyLen(h)
      BY <1>2
    <3>2. h \in Bytes /\ Joins(data, h, body) /\ 0 \in Nat /\ 0 + k <= Len(body)
      BY <1>1, <1>3, <2>1, <3>1
    <3>3. Slice(data, Len(h) + 0, k) = Slice(body, 0, k)
      BY <3>2, JoinedSuffix
    <3> QED BY <3>1, <3>3
  <2>3. Slice(data, Len(h) + KeyLen(h), ValueLen(h)) = Slice(body, KeyLen(h), ValueLen(h))
    <3>1. PICK k \in Nat, v \in Nat : k = KeyLen(h) /\ v = ValueLen(h)
      BY <1>2
    <3>2. h \in Bytes /\ Joins(data, h, body) /\ k + v <= Len(body)
      BY <1>1, <1>3, <2>1, <3>1
    <3>3. Slice(data, Len(h) + k, v) = Slice(body, k, v)
      BY <3>2, JoinedSuffix
    <3> QED BY <3>1, <3>3
  <2>4. Take(body, KeyLen(h)) = Slice(body, 0, KeyLen(h))
    BY <2>1, TakeDropAreSlices
  <2> QED BY <1>1, <2>1, <2>2, <2>3, <2>4 DEF KeyOf, ValueOf
<1>7. DecodeRequest(data) =
        IF Len(body) < KeyLen(h) + ValueLen(h) THEN Error
        ELSE Ok(NewFrame(h[1], KeyOf(h, body), ValueOf(h, body)))
  <2>1. ~ (Len(data) < FrameHeaderSize)
    BY <1>1, <1>4
  <2>2. Len(data) < FrameHeaderSize + KeyLen(h) + ValueLen(h) <=> Len(body) < KeyLen(h) + ValueLen(h)
    BY <1>1, <1>2, <1>4
  <2>3. CASE Len(body) < KeyLen(h) + ValueLen(h)
    BY <1>5, <2>2, <2>3 DEF DecodeRequest
  <2>4. CASE ~ (Len(body) < KeyLen(h) + ValueLen(h))
    <3>1. Len(body) >= KeyLen(h) + ValueLen(h)
      BY <1>2, <1>4, <2>4
    <3> QED BY <1>5, <1>6, <2>1, <2>2, <2>4, <3>1 DEF DecodeRequest
  <2> QED BY <2>3, <2>4
<1> QED BY <1>3, <1>7 DEF Joins

LEMMA DecodeOfShort ==
  ASSUME NEW data, Len(data) < FrameHeaderSize
  PROVE  DecodeRequest(data) = Error /\ DecodeResponse(data) = Error
BY DEF DecodeRequest, DecodeResponse

\* DecodeResponse of a header and what follows it.
LEMMA DecodeResponseParts ==
  ASSUME NEW h \in Header, NEW body \in Bytes
  PROVE  DecodeResponse(h \o body) =
           IF Len(body) < KeyLen(h) + ValueLen(h) THEN Error
           ELSE IF Len(body) < 1 + ValueLen(h) THEN Overrun
           ELSE Ok([Command |-> h[1], KeyLen |-> KeyLen(h), ValueLen |-> ValueLen(h), Key |-> <<>>,
                    Value |-> <<body[1]>> \o Slice(body, 1, ValueLen(h))])
<1>1. h \in Bytes /\ Len(h) = FrameHeaderSize /\ FrameHeaderSize \in Nat
  BY SizeFacts DEF Header
<1>2. KeyLen(h) \in Nat /\ ValueLen(h) \in Nat
  BY HeaderIsItsFields, LengthFacts
<1>3. PICK data \in Bytes : Joins(data, h, body)
  BY <1>1, Joined
<1>4. Len(body) \in Nat /\ Len(data) = FrameHeaderSize + Len(body)
  BY <1>1, <1>3, JoinedBytes
<1>5. KeyLen(data) = KeyLen(h) /\ ValueLen(data) = ValueLen(h) /\ data[1] = h[1]
  BY <1>3, HeaderOfStream DEF Joins
<1>6. ASSUME Len(body) >= 1 + ValueLen(h)
      PROVE  /\ data[FrameHeaderSize + 1] = body[1]
             /\ Slice(data, FrameHeaderSize + 1, ValueLen(h)) = Slice(body, 1, ValueLen(h))
  <2>1. 1 \in Nat /\ 1 + ValueLen(h) <= Len(body) /\ 1 \in 1 .. Len(body)
    BY <1>2, <1>4, <1>6
  <2>2. Slice(data, Len(h) + 1, ValueLen(h)) = Slice(body, 1, ValueLen(h))
    BY <1>1, <1>2, <1>3, <2>1, JoinedSuffix
  <2>3. data[Len(h) + 1] = body[1]
    BY <1>1, <1>3, <2>1, JoinedBytes
  <2> QED BY <1>1, <2>2, <2>3
<1>7. ~ (Len(data) < FrameHeaderSize)
  BY <1>1, <1>4
<1>8. /\ Len(data) < FrameHeaderSize + KeyLen(h) + ValueLen(h) <=> Len(body) < KeyLen(h) + ValueLen(h)
      /\ Len(data) < FrameHeaderSize + 1 + ValueLen(h) <=> Len(body) < 1 + ValueLen(h)
  BY <1>1, <1>2, <1>4
<1>9. CASE Len(body) < KeyLen(h) + ValueLen(h)
  <2>1. DecodeResponse(data) = Error
    BY <1>5, <1>8, <1>9 DEF DecodeResponse
  <2> QED BY <1>3, <1>9, <2>1 DEF Joins
<1>10. CASE ~ (Len(body) < KeyLen(h) + ValueLen(h)) /\ Len(body) < 1 + ValueLen(h)
  <2>1. DecodeResponse(data) = Overrun
    BY <1>5, <1>7, <1>8, <1>10 DEF DecodeResponse
  <2> QED BY <1>3, <1>10, <2>1 DEF Joins
<1>11. CASE ~ (Len(body) < KeyLen(h) + ValueLen(h)) /\ ~ (Len(body) < 1 + ValueLen(h))
  <2>1. Len(body) >= 1 + ValueLen(h)
    BY <1>2, <1>4, <1>11
  <2>2. DecodeResponse(data) =
          Ok([Command |-> h[1], KeyLen |-> KeyLen(h), ValueLen |-> ValueLen(h), Key |-> <<>>,
              Value |-> <<body[1]>> \o Slice(body, 1, ValueLen(h))])
    BY <1>5, <1>6, <1>7, <1>8, <1>11, <2>1 DEF DecodeResponse
  <2> QED BY <1>3, <1>11, <2>2 DEF Joins
<1> QED BY <1>9, <1>10, <1>11

LEMMA HeaderOfBytes ==
  ASSUME NEW cmd \in Byte, NEW k \in Nat, NEW v \in Nat
  PROVE  HeaderOf(cmd, k, v) \in Bytes
<1>1. <<cmd>> \in Bytes
  BY OneByte
<1>2. BigEndian(k) \in Bytes /\ BigEndian(v) \in Bytes
  BY BigEndianIsDigits DEF Digits, Bytes
<1>3. <<cmd>> \o BigEndian(k) \in Bytes
  BY <1>1, <1>2, ConcatBytes
<1> QED BY <1>2, <1>3, ConcatBytes DEF HeaderOf

LEMMA OnWireBytes ==
  ASSUME NEW cmd \in Byte, NEW key \in Bytes, NEW value \in Bytes
  PROVE  /\ OnWire(cmd, key, value) \in Bytes
         /\ OnWire(cmd, key, value) = HeaderOf(cmd, Len(key), Len(value)) \o (key \o value)
         /\ key \o value \in Bytes /\ Len(key \o value) = Len(key) + Len(value)
<1>1. PICK h \in Bytes : h = HeaderOf(cmd, Len(key), Len(value))
  BY ConcatBytes, HeaderOfBytes
<1>2. h \o key \in Bytes /\ key \o value \in Bytes /\ Len(key \o value) = Len(key) + Len(value)
  BY ConcatBytes
<1>3. (h \o key) \o value \in Bytes
  BY <1>2, ConcatBytes
<1>4. (h \o key) \o value = h \o (key \o value)
  BY BytesAssociative
<1>5. OnWire(cmd, key, value) = (h \o key) \o value
  BY <1>1 DEF OnWire, HeaderOf
<1> QED BY <1>1, <1>2, <1>3, <1>4, <1>5

\* A request within the limits: its header and its body.
LEMMA RequestOnWire ==
  ASSUME NEW cmd \in Byte, NEW key \in Bytes, NEW value \in Bytes,
         Len(key) \in Length, Len(value) \in Length
  PROVE  \E h \in Header :
           /\ OnWire(cmd, key, value) = h \o (key \o value)
           /\ h[1] = cmd /\ KeyLen(h) = Len(key) /\ ValueLen(h) = Len(value)
           /\ KeyOf(h, key \o value) = key /\ ValueOf(h, key \o value) = value
<1>1. PICK h \in Header : /\ h = HeaderOf(cmd, Len(key), Len(value))
                          /\ h[1] = cmd /\ KeyLen(h) = Len(key) /\ ValueLen(h) = Len(value)
  BY HeaderHasFields
<1>2. OnWire(cmd, key, value) = h \o (key \o value)
  BY <1>1, OnWireBytes
<1>3. Take(key \o value, Len(key)) = key
  BY TakeDropOfConcat
<1>4. Slice(key \o value, Len(key), Len(value)) = value
  <2>1. Len(key) \in Nat /\ Len(value) \in Nat
    BY ConcatBytes
  <2>2. 0 \in Nat /\ 0 + Len(value) <= Len(value) /\ Len(key) + 0 = Len(key)
    BY <2>1
  <2>3. Slice(key \o value, Len(key) + 0, Len(value)) = Slice(value, 0, Len(value))
    BY <2>1, <2>2, SliceInSuffix
  <2> QED BY <2>2, <2>3, WholeSlice
<1> QED BY <1>1, <1>2, <1>3, <1>4 DEF KeyOf, ValueOf

\* What the handler cuts out of a stream, encoded again, is what it has read.
LEMMA CutOnWire ==
  ASSUME NEW h \in Header, NEW body \in Bytes, KeyLen(h) + ValueLen(h) <= Len(body)
  PROVE  /\ KeyOf(h, body) \in Bytes /\ ValueOf(h, body) \in Bytes
         /\ Len(KeyOf(h, body)) = KeyLen(h) /\ Len(ValueOf(h, body)) = ValueLen(h)
         /\ OnWire(h[1], KeyOf(h, body), ValueOf(h, body)) \in Bytes
         /\ Drop(body, KeyLen(h) + ValueLen(h)) \in Bytes
         /\ OnWire(h[1], KeyOf(h, body), ValueOf(h, body)) \o Drop(body, KeyLen(h) + ValueLen(h))
              = h \o body
<1>1. /\ h \in Bytes /\ h[1] \in Byte /\ KeyLen(h) \in Nat /\ ValueLen(h) \in Nat
      /\ HeaderOf(h[1], KeyLen(h), ValueLen(h)) = h
  BY HeaderIsItsFields, LengthFacts DEF Header
<1>2. PICK key \in Bytes, value \in Bytes, rest \in Bytes :
        /\ key = KeyOf(h, body) /\ Len(key) = KeyLen(h)
        /\ value = ValueOf(h, body) /\ Len(value) = ValueLen(h)
        /\ rest = Drop(body, KeyLen(h) + ValueLen(h))
        /\ key \o (value \o rest) = body
  <2>1. PICK k \in Nat, v \in Nat : k = KeyLen(h) /\ v = ValueLen(h) /\ k + v <= Len(body)
    BY <1>1
  <2>2. /\ Take(body, k) \in Bytes /\ Len(Take(body, k)) = k
        /\ Slice(body, k, v) \in Bytes /\ Len(Slice(body, k, v)) = v
        /\ Drop(body, k + v) \in Bytes
        /\ Take(body, k) \o (Slice(body, k, v) \o Drop(body, k + v)) = body
    <3>1. k + v <= Len(body)
      BY <2>1
    <3> QED BY <3>1, BodyParts
  <2> QED BY <2>1, <2>2 DEF KeyOf, ValueOf
<1>3. /\ OnWire(h[1], key, value) \in Bytes /\ key \o value \in Bytes
      /\ OnWire(h[1], key, value) = h \o (key \o value)
  <2>1. PICK cmd \in Byte : cmd = h[1]
    BY <1>1
  <2>2. /\ OnWire(cmd, key, value) \in Bytes /\ key \o value \in Bytes
        /\ OnWire(cmd, key, value) = HeaderOf(cmd, Len(key), Len(value)) \o (key \o value)
    BY OnWireBytes
  <2>3. HeaderOf(cmd, Len(key), Len(value)) = h
    BY <1>1, <1>2, <2>1
  <2> QED BY <2>1, <2>2, <2>3
<1>4. (h \o (key \o value)) \o rest = h \o ((key \o value) \o rest)
  <2>1. PICK m \in Bytes : m = key \o value
    BY <1>3
  <2>2. (h \o m) \o rest = h \o (m \o rest)
    <3>1. h \in Bytes
      BY <1>1
    <3> QED BY <3>1, BytesAssociative
  <2> QED BY <2>1, <2>2
<1>5. (key \o value) \o rest = key \o (value \o rest)
  BY BytesAssociative
<1> QED BY <1>2, <1>3, <1>4, <1>5

\* The bytes r of a response: the header h and the body b.
IsResponse(r, h, b, cmd, status, value) ==
  /\ r = h \o b
  /\ h[1] = cmd /\ KeyLen(h) = 0 /\ ValueLen(h) = Len(value)
  /\ Len(b) = 1 + Len(value) /\ b[1] = status /\ Slice(b, 1, Len(value)) = value

LEMMA ResponseOnWire ==
  ASSUME NEW cmd \in Byte, NEW status \in Byte, NEW value \in Bytes, Len(value) <= MaxValueLength
  PROVE  \E h \in Header, b \in Bytes :
           IsResponse(EncodeResponse(cmd, status, value).is, h, b, cmd, status, value)
<1>1. Len(value) \in Length /\ Len(value) \in Nat
  BY ConcatBytes, LengthFacts DEF Length
<1>2. PICK h \in Header : /\ h = HeaderOf(cmd, 0, Len(value))
                          /\ h[1] = cmd /\ KeyLen(h) = 0 /\ ValueLen(h) = Len(value)
  BY <1>1, LengthFacts, HeaderHasFields
<1>3. PICK s \in Bytes : s = <<status>> /\ Len(s) = 1 /\ s[1] = status
  BY OneByte
<1>4. PICK b \in Bytes : Joins(b, s, value)
  BY Joined
<1>5. Len(b) = 1 + Len(value) /\ b[1] = status
  <2>1. 1 \in 1 .. Len(s)
    BY <1>3
  <2>2. Len(b) = Len(s) + Len(value) /\ b[1] = s[1]
    BY <1>4, <2>1, JoinedBytes
  <2> QED BY <1>3, <2>2
<1>6. Slice(b, 1, Len(value)) = value
  <2>1. 0 \in Nat /\ 0 + Len(value) <= Len(value) /\ Len(s) + 0 = 1
    BY <1>1, <1>3
  <2>2. Slice(b, Len(s) + 0, Len(value)) = Slice(value, 0, Len(value))
    BY <1>1, <1>4, <2>1, JoinedSuffix
  <2> QED BY <2>1, <2>2, WholeSlice
<1>7. EncodeResponse(cmd, status, value).is = (h \o s) \o value
  <2>1. ~ (Len(value) > MaxValueLength)
    BY <1>1, LengthFacts
  <2> QED BY <1>2, <1>3, <2>1 DEF EncodeResponse, Ok, HeaderOf
<1>8. (h \o s) \o value = h \o b
  <2>1. h \in Bytes
    BY DEF Header
  <2>2. (h \o s) \o value = h \o (s \o value)
    BY <2>1, BytesAssociative
  <2> QED BY <1>4, <2>2 DEF Joins
<1> QED BY <1>2, <1>5, <1>6, <1>7, <1>8 DEF IsResponse

-----------------------------------------------------------------------------
(***************************************************************************)
(* The bytes of a sequence of frames.                                      *)
(***************************************************************************)

Frame == [Command : Byte, KeyLen : Length, ValueLen : Length, Key : Bytes, Value : Bytes]

WireOf(f) == OnWire(f.Command, f.Key, f.Value)

\* b[i] has the bytes of the first i frames.
IsEncoded(b, frames) ==
  /\ b \in [0 .. Len(frames) -> Bytes]
  /\ b[0] = <<>>
  /\ \A i \in 1 .. Len(frames) : b[i] = b[i - 1] \o WireOf(frames[i])

LEMMA EncodedIs ==
  ASSUME NEW frames \in Seq(Frame)
  PROVE  \E b : IsEncoded(b, frames) /\ Encoded(frames) = b[Len(frames)]
<1> DEFINE N == Len(frames)
           g == [p \in (1 .. N) \X Bytes |-> p[2] \o WireOf(frames[p[1]])]
           bytes == CHOOSE b : b = [i \in 0 .. N |->
                      IF i = 0 THEN <<>>
                      ELSE b[i - 1] \o OnWire(frames[i].Command, frames[i].Key, frames[i].Value)]
<1>1. N \in Nat
  BY LenProperties
<1>2. \A i \in 1 .. N : WireOf(frames[i]) \in Bytes
  <2>1. ASSUME NEW i \in 1 .. N PROVE WireOf(frames[i]) \in Bytes
    <3>1. frames[i] \in Frame
      BY ElementOfSeq
    <3>2. frames[i].Command \in Byte /\ frames[i].Key \in Bytes /\ frames[i].Value \in Bytes
      BY <3>1 DEF Frame
    <3> QED BY <3>2, OnWireBytes DEF WireOf
  <2> QED BY <2>1
<1>3. g \in [(1 .. N) \X Bytes -> Bytes]
  <2>1. ASSUME NEW p \in (1 .. N) \X Bytes PROVE p[2] \o WireOf(frames[p[1]]) \in Bytes
    BY <1>2, ConcatBytes
  <2> HIDE DEF N
  <2> QED BY <2>1
<1> HIDE DEF N
<1>4. PICK f : Recursive(f, N, Bytes, <<>>, g)
  <2>1. <<>> \in Bytes
    BY DEF Bytes
  <2> HIDE DEF g
  <2> QED BY <1>1, <1>3, <2>1, RecursiveFunction
<1>5. IsEncoded(f, frames)
  <2>1. ASSUME NEW i \in 1 .. N PROVE f[i] = f[i - 1] \o WireOf(frames[i])
    <3>1. i - 1 \in 0 .. N
      BY <1>1
    <3>2. f[i - 1] \in Bytes /\ f[i] = g[<<i, f[i - 1]>>]
      <4> HIDE DEF g
      <4> QED BY <1>4, <3>1 DEF Recursive
    <3>3. <<i, f[i - 1]>> \in (1 .. N) \X Bytes
      BY <3>2
    <3> QED BY <3>2, <3>3
  <2> HIDE DEF g
  <2> QED BY <1>4, <2>1 DEF Recursive, IsEncoded, N
<1> HIDE DEF g
<1>6. f = [i \in 0 .. N |->
             IF i = 0 THEN <<>>
             ELSE f[i - 1] \o OnWire(frames[i].Command, frames[i].Key, frames[i].Value)]
  <2>1. \A i \in 0 .. N : f[i] = IF i = 0 THEN <<>> ELSE f[i - 1] \o WireOf(frames[i])
    <3>1. f[0] = <<>> /\ \A i \in 1 .. N : f[i] = f[i - 1] \o WireOf(frames[i])
      BY <1>5 DEF IsEncoded, N
    <3>2. ASSUME NEW i \in 0 .. N
          PROVE  f[i] = IF i = 0 THEN <<>> ELSE f[i - 1] \o WireOf(frames[i])
      <4>1. CASE i = 0
        BY <3>1, <4>1
      <4>2. CASE i # 0
        <5>1. i \in 1 .. N
          BY <1>1, <4>2
        <5> QED BY <3>1, <4>2, <5>1
      <4> QED BY <4>1, <4>2
    <3> QED BY <3>2
  <2>2. f = [i \in 0 .. N |-> f[i]]
    BY <1>4 DEF Recursive
  <2> QED BY <2>1, <2>2 DEF WireOf
<1>7. bytes = [i \in 0 .. N |->
                 IF i = 0 THEN <<>>
                 ELSE bytes[i - 1] \o OnWire(frames[i].Command, frames[i].Key, frames[i].Value)]
  BY <1>6
<1>8. Encoded(frames) = bytes[N]
  BY DEF Encoded, N
<1> HIDE DEF bytes
<1> DEFINE S == {i \in 0 .. N : bytes[i] \in Bytes}
<1>9. bytes[0] = <<>> /\ \A i \in 1 .. N : bytes[i] = bytes[i - 1] \o WireOf(frames[i])
  BY <1>1, <1>7 DEF WireOf
<1>10. \A i \in 0 .. N : i \in S
  <2>1. 0 \in S
    <3>1. <<>> \in Bytes
      BY DEF Bytes
    <3>2. bytes[0] \in Bytes
      BY <1>9, <3>1
    <3> QED BY <1>1, <3>2
  <2>2. ASSUME NEW i \in 0 .. N - 1, i \in S PROVE i + 1 \in S
    <3>1. i + 1 \in 1 .. N /\ i + 1 \in 0 .. N /\ (i + 1) - 1 = i
      BY <1>1
    <3>2. bytes[i + 1] = bytes[i] \o WireOf(frames[i + 1])
      BY <1>9, <3>1
    <3>3. bytes[i] \in Bytes /\ WireOf(frames[i + 1]) \in Bytes
      BY <1>2, <2>2, <3>1
    <3> QED BY <3>1, <3>2, <3>3, ConcatBytes
  <2>3. Inductive(S, N)
    BY <2>1, <2>2 DEF Inductive
  <2> HIDE DEF S
  <2> QED BY <1>1, <2>3, Induction
<1>11. bytes \in [0 .. N -> Bytes]
  <2>1. bytes = [i \in 0 .. N |-> bytes[i]]
    BY <1>7
  <2> QED BY <1>10, <2>1
<1>12. IsEncoded(bytes, frames)
  BY <1>9, <1>11 DEF IsEncoded, N
<1> QED BY <1>8, <1>12 DEF N

LEMMA EncodedBytes ==
  ASSUME NEW frames \in Seq(Frame)
  PROVE  Encoded(frames) \in Bytes
<1>1. PICK b : IsEncoded(b, frames) /\ Encoded(frames) = b[Len(frames)]
  BY EncodedIs
<1>2. Len(frames) \in 0 .. Len(frames)
  BY LenProperties
<1> QED BY <1>1, <1>2 DEF IsEncoded

LEMMA EncodedEmpty == Encoded(<<>>) = <<>>
<1>1. <<>> \in Seq(Frame) /\ Len(<<>>) = 0
  BY EmptySeq
<1>2. PICK b : IsEncoded(b, <<>>) /\ Encoded(<<>>) = b[Len(<<>>)]
  BY <1>1, EncodedIs
<1> QED BY <1>1, <1>2 DEF IsEncoded

\* Another frame adds its bytes.
LEMMA EncodedAppend ==
  ASSUME NEW frames \in Seq(Frame), NEW f \in Frame
  PROVE  Encoded(Append(frames, f)) = Encoded(frames) \o WireOf(f)
<1>1. PICK more \in Seq(Frame) : /\ more = Append(frames, f)
                                 /\ Len(more) = Len(frames) + 1
                                 /\ \A i \in 1 .. Len(frames) : more[i] = frames[i]
                                 /\ more[Len(frames) + 1] = f
  BY AppendProperties
<1>2. PICK N \in Nat : N = Len(frames)
  BY LenProperties
<1>3. PICK b : IsEncoded(b, frames) /\ Encoded(frames) = b[N]
  BY <1>2, EncodedIs
<1>4. PICK c : IsEncoded(c, more) /\ Encoded(more) = c[N + 1]
  <2>1. Len(more) = N + 1
    BY <1>1, <1>2
  <2>2. PICK c : IsEncoded(c, more) /\ Encoded(more) = c[Len(more)]
    BY EncodedIs
  <2> QED BY <2>1, <2>2
<1>5. b[0] = <<>> /\ \A i \in 1 .. N : b[i] = b[i - 1] \o WireOf(frames[i])
  BY <1>2, <1>3 DEF IsEncoded
<1>6. c[0] = <<>> /\ \A i \in 1 .. N + 1 : c[i] = c[i - 1] \o WireOf(more[i])
  BY <1>1, <1>2, <1>4 DEF IsEncoded
<1> DEFINE S == {i \in 0 .. N : b[i] = c[i]}
<1>7. \A i \in 0 .. N : i \in S
  <2>1. 0 \in S
    BY <1>5, <1>6
  <2>2. ASSUME NEW i \in 0 .. N - 1, i \in S PROVE i + 1 \in S
    <3>1. /\ i + 1 \in 1 .. N /\ i + 1 \in 0 .. N /\ i + 1 \in 1 .. N + 1
          /\ (i + 1) - 1 = i /\ b[i] = c[i]
      BY <2>2
    <3>2. b[i + 1] = b[i] \o WireOf(frames[i + 1])
      BY <1>5, <3>1
    <3>3. c[i + 1] = c[i] \o WireOf(more[i + 1])
      BY <1>6, <3>1
    <3>4. more[i + 1] = frames[i + 1]
      BY <1>1, <1>2, <3>1
    <3> QED BY <3>1, <3>2, <3>3, <3>4
  <2>3. Inductive(S, N)
    BY <2>1, <2>2 DEF Inductive
  <2> HIDE DEF S
  <2> QED BY <2>3, Induction
<1>8. b[N] = c[N]
  BY <1>7
<1>9. c[N + 1] = c[N] \o WireOf(f)
  <2>1. N + 1 \in 1 .. N + 1 /\ (N + 1) - 1 = N /\ more[N + 1] = f
    BY <1>1, <1>2
  <2>2. c[N + 1] = c[(N + 1) - 1] \o WireOf(more[N + 1])
    BY <1>6, <2>1
  <2> QED BY <2>1, <2>2
<1> QED BY <1>1, <1>3, <1>4, <1>8, <1>9

-----------------------------------------------------------------------------
(***************************************************************************)
(* The types of the stream's variables.                                    *)
(***************************************************************************)

\* The requests the client sends: lengths within the limits.
Sendable == {r \in Request : Len(r.key) <= MaxKeyLength /\ Len(r.value) <= MaxValueLength}

RequestBytes(r) == OnWire(r.cmd, r.key, r.value)

ClientState ==
  {Idle, [at |-> "raw"]} \cup [at : {"header"}, request : Sendable]
    \cup [at : {"body"}, request : Sendable, valueLen : Length]

\* A response the handler can encode.
Reply == {a \in [status : Byte, value : Bytes] : Len(a.value) <= MaxValueLength}

Answered == {a \in [frame : Frame, status : Byte, value : Bytes] : Len(a.value) <= MaxValueLength}

Got == [request : Sendable, status : Byte, value : Bytes]

Types ==
  /\ toServer \in Bytes /\ toClient \in Bytes /\ sent \in Bytes /\ replied \in Bytes
  /\ header = <<>> \/ (header \in Header /\ frame = <<>>)
  /\ frame = <<>> \/ \E f \in Frame : frame = <<f>>
  /\ client \in ClientState
  /\ answered \in Seq(Answered)
  /\ got \in Seq(Got)
  /\ raw \in BOOLEAN
  /\ commands \in 0 .. MaxCommands

LEMMA TypesImplyTypeOK == Types => TypeOK
<1> SUFFICES ASSUME Types PROVE TypeOK
  OBVIOUS
<1>1. toServer \in Seq(Byte) /\ toClient \in Seq(Byte) /\ commands \in 0 .. MaxCommands
  BY DEF Types, Bytes
<1>2. header = <<>> \/ (Len(header) = FrameHeaderSize /\ frame = <<>>)
  BY DEF Types, Header
<1>3. Len(frame) <= 1
  <2>1. CASE frame = <<>>
    BY <2>1
  <2>2. CASE \E f \in Frame : frame = <<f>>
    <3>1. PICK f \in Frame : frame = <<f>>
      BY <2>2
    <3>2. Len(<<f>>) = 1
      OBVIOUS
    <3> QED BY <3>1, <3>2
  <2> QED BY <2>1, <2>2 DEF Types
<1>4. client.at \in {"idle", "header", "body", "raw"}
  BY DEF Types, ClientState, Idle
<1> QED BY <1>1, <1>2, <1>3, <1>4 DEF TypeOK

LEMMA TypesInit == Init => Types
<1> SUFFICES ASSUME Init PROVE Types
  OBVIOUS
<1>1. <<>> \in Bytes /\ <<>> \in Seq(Answered)
      /\ <<>> \in Seq(Got)
  BY EmptySeq DEF Bytes
<1>2. 0 \in 0 .. MaxCommands
  BY StreamAssumption
<1> QED BY <1>1, <1>2 DEF Init, Types, ClientState

LEMMA SendableFacts ==
  ASSUME NEW r \in Sendable
  PROVE  /\ r.cmd \in Byte /\ r.key \in Bytes /\ r.value \in Bytes
         /\ Len(r.key) \in Length /\ Len(r.value) \in Length
         /\ RequestBytes(r) \in Bytes
<1>1. r.cmd \in Byte /\ r.key \in Bytes /\ r.value \in Bytes
  BY StreamAssumption DEF Sendable, Bytes
<1>2. Len(r.key) \in Nat /\ Len(r.value) \in Nat
  BY <1>1, ConcatBytes
<1>3. Len(r.key) <= MaxKeyLength /\ Len(r.value) <= MaxValueLength
  BY DEF Sendable
<1>4. Len(r.key) \in Length /\ Len(r.value) \in Length
  BY <1>2, <1>3, LengthFacts DEF Length
<1> QED BY <1>1, <1>4, OnWireBytes DEF RequestBytes

\* A command either fails to encode its request or sends it.
LEMMA RequestStep ==
  ASSUME Types, NEW r \in Request, ClientRequests(r)
  PROVE  /\ client.at = "idle" /\ commands' \in 0 .. MaxCommands
         /\ UNCHANGED <<toClient, header, frame, replied, answered, got, raw>>
         /\ \/ UNCHANGED <<toServer, sent, client>>
            \/ /\ r \in Sendable
               /\ toServer' = toServer \o RequestBytes(r) /\ sent' = sent \o RequestBytes(r)
               /\ client' = [at |-> "header", request |-> r]
<1>1. client.at = "idle" /\ UNCHANGED <<toClient, header, frame, replied, answered, got, raw>>
  BY DEF ClientRequests, Command, serverVars
<1>2. commands' \in 0 .. MaxCommands
  <2>1. commands \in 0 .. MaxCommands /\ MaxCommands \in Nat
    BY StreamAssumption DEF Types
  <2>2. commands < MaxCommands /\ commands' = commands + 1
    BY DEF ClientRequests, Command
  <2> QED BY <2>1, <2>2
<1>3. CASE Len(r.key) > MaxKeyLength \/ Len(r.value) > MaxValueLength
  <2>1. EncodeRequest(r.cmd, r.key, r.value) = Error
    BY <1>3 DEF EncodeRequest
  <2>2. UNCHANGED <<toServer, sent, client>>
    BY <2>1 DEF ClientRequests
  <2> QED BY <1>1, <1>2, <2>2
<1>4. CASE ~ (Len(r.key) > MaxKeyLength \/ Len(r.value) > MaxValueLength)
  <2>1. EncodeRequest(r.cmd, r.key, r.value) = Ok(RequestBytes(r))
    BY <1>4 DEF EncodeRequest, RequestBytes
  <2>2. Ok(RequestBytes(r)) # Error /\ Ok(RequestBytes(r)).is = RequestBytes(r)
    <3>1. Ok(RequestBytes(r)).result = "ok" /\ Error.result = "error"
      BY DEF Ok, Error
    <3>2. Ok(RequestBytes(r)) # Error
      BY <3>1
    <3> QED BY <3>2 DEF Ok
  <2>3. r \in Sendable
    <3>1. r.key \in Bytes /\ r.value \in Bytes
      BY StreamAssumption DEF Bytes
    <3>2. Len(r.key) \in Nat /\ Len(r.value) \in Nat
      BY <3>1, ConcatBytes
    <3>3. MaxKeyLength \in Nat /\ MaxValueLength \in Nat
      BY LengthFacts
    <3>4. Len(r.key) <= MaxKeyLength /\ Len(r.value) <= MaxValueLength
      BY <1>4, <3>2, <3>3
    <3> QED BY <3>4 DEF Sendable
  <2>4. /\ toServer' = toServer \o RequestBytes(r) /\ sent' = sent \o RequestBytes(r)
        /\ client' = [at |-> "header", request |-> r]
    <3>1. EncodeRequest(r.cmd, r.key, r.value) # Error
      BY <2>1, <2>2
    <3>2. EncodeRequest(r.cmd, r.key, r.value).is = RequestBytes(r)
      BY <2>1, <2>2
    <3> QED BY <3>1, <3>2 DEF ClientRequests, Writes
  <2> QED BY <1>1, <1>2, <2>3, <2>4
<1> QED BY <1>3, <1>4

CutFrame(h, body) ==
  [Command |-> h[1], KeyLen |-> KeyLen(h), ValueLen |-> ValueLen(h),
   Key |-> KeyOf(h, body), Value |-> ValueOf(h, body)]

\* The frame the handler builds is the one the decoder would build.
LEMMA CutFrameIsFrame ==
  ASSUME NEW h \in Header, NEW body \in Bytes, KeyLen(h) + ValueLen(h) <= Len(body)
  PROVE  /\ CutFrame(h, body) \in Frame
         /\ CutFrame(h, body) = NewFrame(h[1], KeyOf(h, body), ValueOf(h, body))
<1>1. h[1] \in Byte /\ KeyLen(h) \in Length /\ ValueLen(h) \in Length
  BY HeaderIsItsFields
<1>2. /\ KeyOf(h, body) \in Bytes /\ Len(KeyOf(h, body)) = KeyLen(h)
      /\ ValueOf(h, body) \in Bytes /\ Len(ValueOf(h, body)) = ValueLen(h)
  BY CutOnWire
<1>3. \A n \in Length : Wrapped(n) = n
  <2>1. PICK p \in Nat \ {0} : p = Power[LenBytes]
    BY LengthFacts
  <2>2. ASSUME NEW n \in 0 .. p - 1 PROVE n % p = n
    OBVIOUS
  <2> QED BY <2>1, <2>2 DEF Length, Wrapped
<1>4. Wrapped(Len(KeyOf(h, body))) = KeyLen(h) /\ Wrapped(Len(ValueOf(h, body))) = ValueLen(h)
  BY <1>1, <1>2, <1>3
<1>5. CutFrame(h, body) = NewFrame(h[1], KeyOf(h, body), ValueOf(h, body))
  BY <1>4 DEF CutFrame, NewFrame
<1>6. CutFrame(h, body) \in Frame
  BY <1>1, <1>2 DEF CutFrame, Frame
<1> QED BY <1>5, <1>6

LEMMA HeaderNotEmpty ==
  ASSUME NEW h \in Header
  PROVE  h # <<>>
<1>1. Len(h) >= 3
  BY SizeFacts DEF Header
<1>2. Len(<<>>) = 0
  OBVIOUS
<1> QED BY <1>1, <1>2

LEMMA ReadsHeaderStep ==
  ASSUME Types, HandlerReadsHeader
  PROVE  /\ header = <<>> /\ frame = <<>> /\ FrameHeaderSize \in 0 .. Len(toServer)
         /\ header' \in Header /\ toServer' \in Bytes
         /\ header' = Take(toServer, FrameHeaderSize) /\ toServer' = Drop(toServer, FrameHeaderSize)
         /\ header' \o toServer' = toServer
         /\ UNCHANGED <<toClient, client, sent, got, raw, commands, frame, replied, answered>>
<1>1. /\ header = <<>> /\ frame = <<>>
      /\ header' = Take(toServer, FrameHeaderSize) /\ toServer' = Drop(toServer, FrameHeaderSize)
      /\ UNCHANGED <<toClient, client, sent, got, raw, commands, frame, replied, answered>>
      /\ Len(toServer) >= FrameHeaderSize
  BY DEF HandlerReadsHeader, clientVars
<1>2. toServer \in Bytes
  BY DEF Types
<1>3. FrameHeaderSize \in 0 .. Len(toServer)
  BY <1>1, <1>2, ConcatBytes, SizeFacts
<1>4. /\ Take(toServer, FrameHeaderSize) \in Bytes /\ Len(Take(toServer, FrameHeaderSize)) = FrameHeaderSize
      /\ Drop(toServer, FrameHeaderSize) \in Bytes
      /\ Take(toServer, FrameHeaderSize) \o Drop(toServer, FrameHeaderSize) = toServer
  BY <1>2, <1>3, TakeDropBytes
<1> QED BY <1>1, <1>3, <1>4 DEF Header

LEMMA ReadsDataStep ==
  ASSUME Types, HandlerReadsData
  PROVE  /\ header \in Header /\ frame = <<>> /\ KeyLen(header) + ValueLen(header) <= Len(toServer)
         /\ CutFrame(header, toServer) \in Frame
         /\ frame' = <<CutFrame(header, toServer)>> /\ header' = <<>>
         /\ toServer' = Drop(toServer, KeyLen(header) + ValueLen(header)) /\ toServer' \in Bytes
         /\ UNCHANGED <<toClient, client, sent, got, raw, commands, replied, answered>>
<1>1. header # <<>> /\ Len(toServer) >= KeyLen(header) + ValueLen(header) /\ header' = <<>>
      /\ frame' = <<CutFrame(header, toServer)>>
      /\ toServer' = Drop(toServer, KeyLen(header) + ValueLen(header))
      /\ UNCHANGED <<toClient, client, sent, got, raw, commands, replied, answered>>
  BY DEF HandlerReadsData, clientVars, CutFrame, KeyOf, ValueOf
<1>2. header \in Header /\ frame = <<>> /\ toServer \in Bytes
  BY <1>1 DEF Types
<1>3. KeyLen(header) + ValueLen(header) <= Len(toServer)
  <2>1. KeyLen(header) \in Nat /\ ValueLen(header) \in Nat
    BY <1>2, HeaderIsItsFields, LengthFacts
  <2>2. Len(toServer) \in Nat
    BY <1>2, ConcatBytes
  <2> QED BY <1>1, <2>1, <2>2
<1>4. CutFrame(header, toServer) \in Frame
  BY <1>2, <1>3, CutFrameIsFrame
<1>5. Drop(toServer, KeyLen(header) + ValueLen(header)) \in Bytes
  BY <1>2, <1>3, CutOnWire
<1> QED BY <1>1, <1>2, <1>3, <1>4, <1>5

ResponseTo(f, a) == EncodeResponse(f.Command, a.status, a.value).is

LEMMA ResponseBytes ==
  ASSUME NEW f \in Frame, NEW a \in Reply
  PROVE  ResponseTo(f, a) \in Bytes
<1>1. f.Command \in Byte /\ a.status \in Byte /\ a.value \in Bytes /\ Len(a.value) <= MaxValueLength
  BY DEF Frame, Reply
<1>2. PICK h \in Header, b \in Bytes :
        IsResponse(ResponseTo(f, a), h, b, f.Command, a.status, a.value)
  BY <1>1, ResponseOnWire DEF ResponseTo
<1>3. ResponseTo(f, a) = h \o b
  BY <1>2 DEF IsResponse
<1> QED BY <1>3, ConcatBytes DEF Header

LEMMA CodesAreBytes ==
  ASSUME NEW f
  PROVE  ValidateFrame(f) \in Byte
<1>1. ValidateFrame(f) \in {SUCCESS, ERROR_UNKNOWN_COMMAND, ERROR_INVALID_KEY, ERROR_INVALID_VALUE,
                            ERROR_FRAME_TOO_SHORT, ERROR_FRAME_MISMATCH}
  BY DEF ValidateFrame
<1>2. {SUCCESS, ERROR_UNKNOWN_COMMAND, ERROR_INVALID_KEY, ERROR_INVALID_VALUE,
       ERROR_FRAME_TOO_SHORT, ERROR_FRAME_MISMATCH} \subseteq Byte
  BY ProtocolAssumption DEF Byte, SUCCESS, ERROR_UNKNOWN_COMMAND, ERROR_INVALID_KEY,
     ERROR_INVALID_VALUE, ERROR_FRAME_TOO_SHORT, ERROR_FRAME_MISMATCH
<1> QED BY <1>1, <1>2

\* The frame is answered, with a response that can be encoded.
Answers(f, a) ==
  /\ frame = <<f>> /\ frame' = <<>>
  /\ toClient' = toClient \o ResponseTo(f, a) /\ replied' = replied \o ResponseTo(f, a)
  /\ answered' = Append(answered, [frame |-> f, status |-> a.status, value |-> a.value])
  /\ UNCHANGED <<toServer, client, sent, got, raw, commands, header>>

LEMMA HandleStep ==
  ASSUME Types, HandleRequest
  PROVE  \E f \in Frame, a \in Reply : Answers(f, a)
<1>1. PICK f \in Frame : frame = <<f>>
  BY DEF Types, HandleRequest
<1>2. frame[1] = f
  BY <1>1
<1> DEFINE replies == IF ValidateFrame(f) = SUCCESS THEN Answer
                      ELSE {[status |-> ValidateFrame(f), value |-> Message]}
<1>3. PICK a \in replies :
        /\ toClient' = toClient \o ResponseTo(f, a) /\ replied' = replied \o ResponseTo(f, a)
        /\ answered' = Append(answered, [frame |-> f, status |-> a.status, value |-> a.value])
  BY <1>2 DEF HandleRequest, ResponseTo
<1>4. replies \subseteq Reply
  <2>1. Answer \subseteq Reply
    BY StreamAssumption DEF Reply, Bytes
  <2>2. [status |-> ValidateFrame(f), value |-> Message] \in Reply
    <3>1. ValidateFrame(f) \in Byte /\ Message \in Bytes /\ Len(Message) <= MaxValueLength
      BY CodesAreBytes, StreamAssumption DEF Bytes
    <3> QED BY <3>1 DEF Reply
  <2> QED BY <2>1, <2>2
<1>5. frame' = <<>> /\ UNCHANGED <<toServer, client, sent, got, raw, commands, header>>
  BY DEF HandleRequest, clientVars
<1>6. Answers(f, a)
  <2> HIDE DEF replies
  <2> QED BY <1>1, <1>3, <1>5 DEF Answers
<1> QED BY <1>4, <1>6

LEMMA ClientReadsHeaderStep ==
  ASSUME Types, ClientReadsHeader
  PROVE  /\ client.at = "header" /\ FrameHeaderSize \in 0 .. Len(toClient)
         /\ client.request \in Sendable
         /\ Take(toClient, FrameHeaderSize) \in Header
         /\ client' = [at |-> "body", request |-> client.request,
                       valueLen |-> ValueLen(Take(toClient, FrameHeaderSize))]
         /\ toClient' = Drop(toClient, FrameHeaderSize) /\ toClient' \in Bytes
         /\ UNCHANGED <<toServer, header, frame, replied, answered, sent, got, raw, commands>>
<1>1. /\ client.at = "header" /\ Len(toClient) >= FrameHeaderSize
      /\ client' = [at |-> "body", request |-> client.request,
                    valueLen |-> ValueLen(Take(toClient, FrameHeaderSize))]
      /\ toClient' = Drop(toClient, FrameHeaderSize)
      /\ UNCHANGED <<toServer, header, frame, replied, answered, sent, got, raw, commands>>
  BY DEF ClientReadsHeader, serverVars
<1>2. toClient \in Bytes
  BY DEF Types
<1>3. FrameHeaderSize \in 0 .. Len(toClient)
  BY <1>1, <1>2, ConcatBytes, SizeFacts
<1>4. /\ Take(toClient, FrameHeaderSize) \in Bytes /\ Len(Take(toClient, FrameHeaderSize)) = FrameHeaderSize
      /\ Drop(toClient, FrameHeaderSize) \in Bytes
  BY <1>2, <1>3, TakeDropBytes
<1>5. client.request \in Sendable
  BY <1>1 DEF Types, ClientState, Idle
<1> QED BY <1>1, <1>3, <1>4, <1>5 DEF Header

LEMMA ClientReadsBodyStep ==
  ASSUME Types, ClientReadsBody
  PROVE  /\ client.at = "body" /\ client.valueLen \in Nat /\ 1 + client.valueLen \in 0 .. Len(toClient)
         /\ [request |-> client.request, status |-> toClient[1],
             value |-> Slice(toClient, 1, client.valueLen)] \in Got
         /\ got' = Append(got, [request |-> client.request, status |-> toClient[1],
                                value |-> Slice(toClient, 1, client.valueLen)])
         /\ toClient' = Drop(toClient, 1 + client.valueLen) /\ toClient' \in Bytes
         /\ client' = Idle
         /\ UNCHANGED <<toServer, header, frame, replied, answered, sent, raw, commands>>
<1>1. /\ client.at = "body" /\ Len(toClient) >= 1 + client.valueLen
      /\ got' = Append(got, [request |-> client.request, status |-> toClient[1],
                             value |-> Slice(toClient, 1, client.valueLen)])
      /\ toClient' = Drop(toClient, 1 + client.valueLen)
      /\ client' = Idle
      /\ UNCHANGED <<toServer, header, frame, replied, answered, sent, raw, commands>>
  BY DEF ClientReadsBody, serverVars
<1>2. toClient \in Bytes
  BY DEF Types
<1>3. client.request \in Sendable /\ client.valueLen \in Length
  BY <1>1 DEF Types, ClientState, Idle
<1>4. PICK n \in Nat : n = client.valueLen
  BY <1>3, LengthFacts
<1>5. Len(toClient) \in Nat /\ 1 + n <= Len(toClient)
  BY <1>1, <1>2, <1>4, ConcatBytes
<1>6. 1 + n \in 0 .. Len(toClient) /\ 1 \in 1 .. Len(toClient)
  BY <1>5
<1>7. toClient[1] \in Byte
  BY <1>2, <1>6, ElementOfSeq DEF Bytes
<1>8. Slice(toClient, 1, n) \in Bytes
  BY <1>2, <1>5, SliceFacts
<1>9. Drop(toClient, 1 + n) \in Bytes
  BY <1>2, <1>6, TakeDropBytes
<1>10. [request |-> client.request, status |-> toClient[1],
        value |-> Slice(toClient, 1, client.valueLen)] \in Got
  BY <1>3, <1>4, <1>7, <1>8 DEF Got
<1> QED BY <1>1, <1>4, <1>6, <1>9, <1>10

LEMMA RawStep ==
  ASSUME Types
  PROVE  /\ \A bytes \in Raw : RawWrites(bytes) =>
              /\ bytes \in Bytes /\ client.at = "idle" /\ commands' \in 0 .. MaxCommands
              /\ toServer' = toServer \o bytes /\ sent' = sent \o bytes
              /\ client' = [at |-> "raw"] /\ raw' = TRUE
              /\ UNCHANGED <<toClient, header, frame, replied, answered, got>>
         /\ RawReads =>
              /\ client.at = "raw" /\ toClient' \in Bytes /\ client' = Idle
              /\ UNCHANGED <<toServer, header, frame, replied, answered, sent, got, raw, commands>>
<1>1. ASSUME NEW bytes \in Raw, RawWrites(bytes)
      PROVE  /\ bytes \in Bytes /\ client.at = "idle" /\ commands' \in 0 .. MaxCommands
             /\ toServer' = toServer \o bytes /\ sent' = sent \o bytes
             /\ client' = [at |-> "raw"] /\ raw' = TRUE
             /\ UNCHANGED <<toClient, header, frame, replied, answered, got>>
  <2>1. /\ client.at = "idle" /\ commands < MaxCommands /\ commands' = commands + 1
        /\ toServer' = toServer \o bytes /\ sent' = sent \o bytes
        /\ client' = [at |-> "raw"] /\ raw' = TRUE
        /\ UNCHANGED <<toClient, header, frame, replied, answered, got>>
    BY <1>1 DEF RawWrites, Command, Writes, serverVars
  <2>2. commands' \in 0 .. MaxCommands
    <3>1. commands \in 0 .. MaxCommands /\ MaxCommands \in Nat
      BY StreamAssumption DEF Types
    <3> QED BY <2>1, <3>1
  <2>3. bytes \in Bytes
    BY StreamAssumption DEF Bytes
  <2> QED BY <2>1, <2>2, <2>3
<1>2. ASSUME RawReads
      PROVE  /\ client.at = "raw" /\ toClient' \in Bytes /\ client' = Idle
             /\ UNCHANGED <<toServer, header, frame, replied, answered, sent, got, raw, commands>>
  <2>1. PICK n \in 0 .. Len(toClient) : toClient' = Drop(toClient, n)
    BY <1>2 DEF RawReads
  <2>2. toClient' \in Bytes
    <3>1. toClient \in Bytes
      BY DEF Types
    <3>2. Drop(toClient, n) \in Bytes
      BY <3>1, TakeDropBytes
    <3> QED BY <2>1, <3>2
  <2> QED BY <1>2, <2>2 DEF RawReads, serverVars
<1> QED BY <1>1, <1>2

LEMMA TypesNext == Types /\ [Next]_vars => Types'
<1> SUFFICES ASSUME Types, [Next]_vars PROVE Types'
  OBVIOUS
<1>1. /\ toServer \in Bytes /\ toClient \in Bytes /\ sent \in Bytes /\ replied \in Bytes
      /\ answered \in Seq(Answered) /\ got \in Seq(Got)
  BY DEF Types
<1>2. ASSUME NEW r \in Request, ClientRequests(r) PROVE Types'
  <2>1. /\ commands' \in 0 .. MaxCommands
        /\ UNCHANGED <<toClient, header, frame, replied, answered, got, raw>>
        /\ \/ UNCHANGED <<toServer, sent, client>>
           \/ /\ r \in Sendable
              /\ toServer' = toServer \o RequestBytes(r) /\ sent' = sent \o RequestBytes(r)
              /\ client' = [at |-> "header", request |-> r]
    BY <1>2, RequestStep
  <2>2. toServer' \in Bytes /\ sent' \in Bytes /\ client' \in ClientState
    <3>1. CASE UNCHANGED <<toServer, sent, client>>
      BY <3>1 DEF Types
    <3>2. CASE /\ r \in Sendable
               /\ toServer' = toServer \o RequestBytes(r) /\ sent' = sent \o RequestBytes(r)
               /\ client' = [at |-> "header", request |-> r]
      <4>1. RequestBytes(r) \in Bytes
        BY <3>2, SendableFacts
      <4>2. toServer \o RequestBytes(r) \in Bytes /\ sent \o RequestBytes(r) \in Bytes
        BY <1>1, <4>1, ConcatBytes
      <4>3. client' \in ClientState
        BY <3>2 DEF ClientState
      <4> QED BY <3>2, <4>2, <4>3
    <3> QED BY <2>1, <3>1, <3>2
  <2> QED BY <2>1, <2>2 DEF Types
<1>3. CASE ClientReadsHeader
  <2>1. ValueLen(Take(toClient, FrameHeaderSize)) \in Length
    BY <1>3, ClientReadsHeaderStep, HeaderIsItsFields
  <2>2. client' \in ClientState
    BY <1>3, <2>1, ClientReadsHeaderStep DEF ClientState
  <2> QED BY <1>3, <2>2, ClientReadsHeaderStep DEF Types
<1>4. CASE ClientReadsBody
  <2>1. got' \in Seq(Got)
    <3>1. PICK g \in Got : got' = Append(got, g)
      BY <1>4, ClientReadsBodyStep
    <3> QED BY <1>1, <3>1, AppendProperties
  <2>2. client' \in ClientState
    BY <1>4, ClientReadsBodyStep DEF ClientState
  <2> QED BY <1>4, <2>1, <2>2, ClientReadsBodyStep DEF Types
<1>5. ASSUME NEW bytes \in Raw, RawWrites(bytes) PROVE Types'
  <2>1. toServer' \in Bytes /\ sent' \in Bytes
    BY <1>1, <1>5, RawStep, ConcatBytes
  <2>2. client' \in ClientState /\ raw' \in BOOLEAN
    BY <1>5, RawStep DEF ClientState
  <2> QED BY <1>5, <2>1, <2>2, RawStep DEF Types
<1>6. CASE RawReads
  <2>1. client' \in ClientState
    BY <1>6, RawStep DEF ClientState
  <2> QED BY <1>6, <2>1, RawStep DEF Types
<1>7. CASE HandlerReadsHeader
  BY <1>7, ReadsHeaderStep DEF Types
<1>8. CASE HandlerReadsData
  <2>1. \E f \in Frame : frame' = <<f>>
    BY <1>8, ReadsDataStep
  <2>2. /\ header' = <<>> /\ toServer' \in Bytes
        /\ UNCHANGED <<toClient, client, sent, got, raw, commands, replied, answered>>
    BY <1>8, ReadsDataStep
  <2>3. /\ toClient' \in Bytes /\ sent' \in Bytes /\ replied' \in Bytes
        /\ client' \in ClientState /\ answered' \in Seq(Answered) /\ got' \in Seq(Got)
        /\ raw' \in BOOLEAN /\ commands' \in 0 .. MaxCommands
    BY <2>2 DEF Types
  <2>4. header' = <<>> /\ toServer' \in Bytes
    BY <2>2
  <2> QED BY <2>1, <2>3, <2>4 DEF Types
<1>9. CASE HandleRequest
  <2>1. PICK f \in Frame, a \in Reply : Answers(f, a)
    BY <1>9, HandleStep
  <2>2. toClient' \in Bytes /\ replied' \in Bytes
    <3>1. ResponseTo(f, a) \in Bytes
      BY ResponseBytes
    <3>2. toClient \o ResponseTo(f, a) \in Bytes /\ replied \o ResponseTo(f, a) \in Bytes
      BY <1>1, <3>1, ConcatBytes
    <3> QED BY <2>1, <3>2 DEF Answers
  <2>3. [frame |-> f, status |-> a.status, value |-> a.value] \in Answered
    BY DEF Answered, Reply
  <2>4. answered' \in Seq(Answered)
    BY <1>1, <2>1, <2>3, AppendProperties DEF Answers
  <2>5. UNCHANGED <<toServer, client, sent, got, raw, commands, header>> /\ frame = <<f>> /\ frame' = <<>>
    BY <2>1 DEF Answers
  <2>6. header = <<>>
    <3>1. frame # <<>>
      BY <2>5
    <3> QED BY <3>1 DEF Types
  <2> QED BY <2>2, <2>4, <2>5, <2>6 DEF Types
<1>10. CASE UNCHANGED vars
  BY <1>10 DEF Types, vars
<1> QED BY <1>2, <1>3, <1>4, <1>5, <1>6, <1>7, <1>8, <1>9, <1>10 DEF Next, Client, Handler

\* TypeOK: the buffers of the connection (server.go:213-243, test_client.go:526-545) hold
\* bytes, the handler holds a header or a frame and never both.
THEOREM StreamTypesCorrect == Spec => []TypeOK
<1>1. Init => Types
  BY TypesInit
<1>2. Types /\ [Next]_vars => Types'
  BY TypesNext
<1> QED BY <1>1, <1>2, TypesImplyTypeOK, PTL DEF Spec

-----------------------------------------------------------------------------
(***************************************************************************)
(* No byte is lost or invented.                                            *)
(***************************************************************************)

AnsweredFrames == [i \in 1 .. Len(answered) |-> answered[i].frame]

AnsweredFramesOK ==
  /\ AnsweredFrames \in Seq(Frame) /\ Len(AnsweredFrames) = Len(answered)
  /\ \A i \in 1 .. Len(answered) : AnsweredFrames[i] = answered[i].frame

LEMMA AnsweredFramesType == Types => AnsweredFramesOK
<1> SUFFICES ASSUME Types PROVE AnsweredFramesOK
  OBVIOUS
<1>1. answered \in Seq(Answered) /\ Len(answered) \in Nat
  BY LenProperties DEF Types
<1>2. \A i \in 1 .. Len(answered) : answered[i].frame \in Frame
  BY <1>1, ElementOfSeq DEF Answered
<1>3. AnsweredFrames \in [1 .. Len(answered) -> Frame]
  BY <1>2 DEF AnsweredFrames
<1> QED BY <1>1, <1>3 DEF AnsweredFrames, AnsweredFramesOK

FramesBuiltOK ==
  /\ FramesBuilt \in Seq(Frame)
  /\ frame = <<>> => FramesBuilt = AnsweredFrames
  /\ \A f \in Frame : frame = <<f>> => FramesBuilt = Append(AnsweredFrames, f)

LEMMA FramesBuiltIs == Types => FramesBuiltOK
<1> SUFFICES ASSUME Types PROVE FramesBuiltOK
  OBVIOUS
<1>1. AnsweredFrames \in Seq(Frame)
  BY AnsweredFramesType DEF AnsweredFramesOK
<1>2. ASSUME frame = <<>> PROVE FramesBuilt = AnsweredFrames
  <2>1. AnsweredFrames \o <<>> = AnsweredFrames
    BY <1>1, ConcatEmptySeq
  <2> QED BY <1>2, <2>1 DEF FramesBuilt, AnsweredFrames
<1>3. ASSUME NEW f \in Frame, frame = <<f>> PROVE FramesBuilt = Append(AnsweredFrames, f)
  <2>1. Append(AnsweredFrames, f) = AnsweredFrames \o <<f>>
    BY <1>1, AppendIsConcat
  <2> QED BY <1>3, <2>1 DEF FramesBuilt, AnsweredFrames
<1>4. FramesBuilt \in Seq(Frame)
  <2>1. CASE frame = <<>>
    BY <1>1, <1>2, <2>1
  <2>2. CASE \E f \in Frame : frame = <<f>>
    <3>1. PICK f \in Frame : frame = <<f>>
      BY <2>2
    <3>2. Append(AnsweredFrames, f) \in Seq(Frame)
      BY <1>1, AppendProperties
    <3> QED BY <1>3, <3>1, <3>2
  <2> QED BY <2>1, <2>2 DEF Types
<1> QED BY <1>2, <1>3, <1>4 DEF FramesBuiltOK

\* Only HandlerReadsData adds a frame.
LEMMA FramesBuiltStep ==
  ASSUME Types, Types', [Next]_vars
  PROVE  \/ HandlerReadsData /\ FramesBuilt' = Append(FramesBuilt, CutFrame(header, toServer))
         \/ ~ HandlerReadsData /\ FramesBuilt' = FramesBuilt
<1>1. CASE HandlerReadsData
  <2>1. CutFrame(header, toServer) \in Frame /\ frame = <<>>
        /\ frame' = <<CutFrame(header, toServer)>> /\ answered' = answered
    BY <1>1, ReadsDataStep
  <2>2. FramesBuilt = AnsweredFrames
    BY <2>1, FramesBuiltIs DEF FramesBuiltOK
  <2>3. AnsweredFrames' = AnsweredFrames
    BY <2>1 DEF AnsweredFrames
  <2>4. FramesBuilt' = AnsweredFrames \o <<CutFrame(header, toServer)>>
    BY <2>1 DEF FramesBuilt, AnsweredFrames
  <2>5. AnsweredFrames \o <<CutFrame(header, toServer)>> = Append(AnsweredFrames, CutFrame(header, toServer))
    BY <2>1, AnsweredFramesType, AppendIsConcat DEF AnsweredFramesOK
  <2> QED BY <1>1, <2>2, <2>4, <2>5
<1>2. CASE HandleRequest
  <2>1. PICK f \in Frame, a \in Reply : Answers(f, a)
    BY <1>2, HandleStep
  <2>2. FramesBuilt = Append(AnsweredFrames, f)
    BY <2>1, FramesBuiltIs DEF Answers, FramesBuiltOK
  <2>3. PICK e \in Answered : e.frame = f /\ answered' = Append(answered, e)
    <3>1. [frame |-> f, status |-> a.status, value |-> a.value] \in Answered
      BY DEF Answered, Reply
    <3> QED BY <2>1, <3>1 DEF Answers
  <2>4. PICK s \in Seq(Answered) : s = answered
    BY DEF Types
  <2>5. PICK t \in Seq(Answered) : t = answered'
    BY DEF Types
  <2>6. /\ Len(s) \in Nat /\ Len(t) = Len(s) + 1 /\ t[Len(s) + 1] = e
        /\ \A i \in 1 .. Len(s) : t[i] = s[i]
    <3>1. t = Append(s, e)
      BY <2>3, <2>4, <2>5
    <3>2. Len(s) \in Nat
      BY LenProperties
    <3> QED BY <3>1, <3>2, AppendProperties
  <2>7. PICK u \in Seq(Frame) : /\ u = AnsweredFrames' /\ Len(u) = Len(t)
                                /\ \A i \in 1 .. Len(t) : u[i] = t[i].frame
    <3>1. /\ AnsweredFrames' \in Seq(Frame) /\ Len(AnsweredFrames') = Len(answered')
          /\ \A i \in 1 .. Len(answered') : AnsweredFrames'[i] = answered'[i].frame
      <4>1. AnsweredFramesOK'
        BY AnsweredFramesType, PTL
      <4> QED BY <4>1 DEF AnsweredFramesOK
    <3> QED BY <2>5, <3>1
  <2>8. PICK v \in Seq(Frame) : /\ v = AnsweredFrames /\ Len(v) = Len(s)
                                /\ \A i \in 1 .. Len(s) : v[i] = s[i].frame
    BY <2>4, AnsweredFramesType DEF AnsweredFramesOK
  <2>9. PICK w \in Seq(Frame) : /\ w = Append(v, f) /\ Len(w) = Len(v) + 1
                                /\ \A i \in 1 .. Len(v) : w[i] = v[i]
                                /\ w[Len(v) + 1] = f
    BY AppendProperties
  <2>10. Len(u) = Len(w)
    BY <2>6, <2>7, <2>8, <2>9
  <2>11. ASSUME NEW i \in 1 .. Len(u) PROVE u[i] = w[i]
    <3>1. CASE i = Len(s) + 1
      BY <2>3, <2>6, <2>7, <2>8, <2>9, <3>1
    <3>2. CASE i \in 1 .. Len(s)
      <4>1. u[i] = t[i].frame
        BY <2>7
      <4>2. t[i] = s[i]
        BY <2>6, <3>2
      <4>3. w[i] = v[i] /\ v[i] = s[i].frame
        BY <2>8, <2>9, <3>2
      <4> QED BY <4>1, <4>2, <4>3
    <3> QED BY <2>6, <2>7, <3>1, <3>2
  <2>12. u = w
    BY <2>10, <2>11, SeqEqual
  <2>13. FramesBuilt' = AnsweredFrames'
    <3>1. frame' = <<>>
      BY <2>1 DEF Answers
    <3>2. FramesBuiltOK'
      BY FramesBuiltIs, PTL
    <3> QED BY <3>1, <3>2 DEF FramesBuiltOK
  <2>14. ~ HandlerReadsData
    <3>1. frame # <<>>
      BY <2>1 DEF Answers
    <3> QED BY <3>1, ReadsDataStep
  <2> QED BY <2>2, <2>7, <2>8, <2>9, <2>12, <2>13, <2>14
<1>3. CASE ~ HandlerReadsData /\ ~ HandleRequest
  <2>1. answered' = answered /\ frame' = frame
    <3>1. ASSUME NEW r \in Request, ClientRequests(r) PROVE answered' = answered /\ frame' = frame
      BY <3>1 DEF ClientRequests, serverVars
    <3>2. ASSUME NEW bytes \in Raw, RawWrites(bytes) PROVE answered' = answered /\ frame' = frame
      BY <3>2 DEF RawWrites, serverVars
    <3>3. ASSUME ClientReadsHeader \/ ClientReadsBody \/ RawReads \/ HandlerReadsHeader
          PROVE  answered' = answered /\ frame' = frame
      BY <3>3 DEF ClientReadsHeader, ClientReadsBody, RawReads, HandlerReadsHeader, serverVars
    <3>4. ASSUME UNCHANGED vars PROVE answered' = answered /\ frame' = frame
      BY <3>4 DEF vars
    <3> QED BY <1>3, <3>1, <3>2, <3>3, <3>4 DEF Next, Client, Handler
  <2>2. FramesBuilt' = FramesBuilt
    BY <2>1 DEF FramesBuilt
  <2> QED BY <1>3, <2>2
<1> QED BY <1>1, <1>2, <1>3

LEMMA HeaderBytes == Types => header \in Bytes
<1>1. <<>> \in Bytes
  BY DEF Bytes
<1> QED BY <1>1 DEF Types, Header

\* What bytes the client has written since, if any.
LEMMA SentGrows ==
  ASSUME Types, [Next]_vars
  PROVE  \/ UNCHANGED <<sent, toServer, header>>
         \/ /\ \E x \in Bytes : sent' = sent \o x /\ toServer' = toServer \o x
            /\ header' = header
         \/ HandlerReadsHeader /\ sent' = sent
         \/ HandlerReadsData /\ sent' = sent
<1>1. ASSUME NEW r \in Request, ClientRequests(r)
      PROVE  \/ UNCHANGED <<sent, toServer, header>>
             \/ /\ \E x \in Bytes : sent' = sent \o x /\ toServer' = toServer \o x
                /\ header' = header
  <2>1. /\ header' = header
        /\ \/ UNCHANGED <<toServer, sent, client>>
           \/ /\ r \in Sendable
              /\ toServer' = toServer \o RequestBytes(r) /\ sent' = sent \o RequestBytes(r)
    BY <1>1, RequestStep
  <2> QED BY <2>1, SendableFacts
<1>2. ASSUME NEW bytes \in Raw, RawWrites(bytes)
      PROVE  /\ \E x \in Bytes : sent' = sent \o x /\ toServer' = toServer \o x
             /\ header' = header
  BY <1>2, RawStep
<1>3. CASE ClientReadsHeader \/ ClientReadsBody \/ RawReads
  BY <1>3 DEF ClientReadsHeader, ClientReadsBody, RawReads, serverVars
<1>4. CASE HandleRequest
  BY <1>4 DEF HandleRequest, clientVars
<1>5. CASE HandlerReadsHeader
  BY <1>5, ReadsHeaderStep
<1>6. CASE HandlerReadsData
  BY <1>6, ReadsDataStep
<1>7. CASE UNCHANGED vars
  BY <1>7 DEF vars
<1> QED BY <1>1, <1>2, <1>3, <1>4, <1>5, <1>6, <1>7 DEF Next, Client, Handler

LEMMA FramesBuiltInit == Init => FramesBuilt = <<>>
<1> SUFFICES ASSUME Init PROVE FramesBuilt = <<>>
  OBVIOUS
<1>1. Types /\ frame = <<>> /\ answered = <<>>
  BY TypesInit DEF Init
<1>2. FramesBuilt = AnsweredFrames
  BY <1>1, FramesBuiltIs DEF FramesBuiltOK
<1>3. AnsweredFrames \in Seq(Frame) /\ Len(AnsweredFrames) = 0
  <2>1. Len(answered) = 0
    BY <1>1
  <2> QED BY <1>1, <2>1, AnsweredFramesType DEF AnsweredFramesOK
<1>4. AnsweredFrames = <<>>
  BY <1>3, EmptySeq
<1> QED BY <1>2, <1>4

LEMMA BytesKeptInit == Init => BytesKept
<1> SUFFICES ASSUME Init PROVE BytesKept
  OBVIOUS
<1>1. Encoded(FramesBuilt) = <<>>
  BY FramesBuiltInit, EncodedEmpty
<1>2. header = <<>> /\ toServer = <<>> /\ sent = <<>>
  BY DEF Init
<1>3. (<<>> \o <<>>) \o <<>> = <<>>
  OBVIOUS
<1> QED BY <1>1, <1>2, <1>3 DEF BytesKept

LEMMA BytesKeptNext ==
  ASSUME Types, Types', BytesKept, [Next]_vars
  PROVE  BytesKept'
<1>1. /\ toServer \in Bytes /\ header \in Bytes /\ FramesBuilt \in Seq(Frame)
      /\ toServer' \in Bytes /\ header' \in Bytes
  <2>1. (header \in Bytes)'
    BY HeaderBytes, PTL
  <2> QED BY <2>1, HeaderBytes, FramesBuiltIs DEF Types, FramesBuiltOK
<1>2. PICK e \in Bytes : e = Encoded(FramesBuilt)
  BY <1>1, EncodedBytes
<1>3. (e \o header) \o toServer = sent /\ e \o header \in Bytes
  BY <1>1, <1>2, ConcatBytes DEF BytesKept
<1>4. CASE HandlerReadsData
  <2>1. PICK h \in Header : h = header /\ KeyLen(h) + ValueLen(h) <= Len(toServer)
    BY <1>4, ReadsDataStep
  <2>2. PICK f \in Frame : f = CutFrame(h, toServer)
    BY <1>4, <2>1, ReadsDataStep
  <2>3. FramesBuilt' = Append(FramesBuilt, f)
    BY <1>4, <2>1, <2>2, FramesBuiltStep
  <2>4. Encoded(FramesBuilt') = e \o WireOf(f)
    BY <1>1, <1>2, <2>3, EncodedAppend
  <2>5. /\ WireOf(f) \in Bytes
        /\ WireOf(f) \o toServer' = h \o toServer
    <3>1. WireOf(f) = OnWire(h[1], KeyOf(h, toServer), ValueOf(h, toServer))
      BY <2>2 DEF WireOf, CutFrame
    <3>2. toServer' = Drop(toServer, KeyLen(h) + ValueLen(h))
      BY <1>4, <2>1, ReadsDataStep
    <3>3. PICK b \in Bytes : b = toServer
      BY <1>1
    <3>4. /\ OnWire(h[1], KeyOf(h, b), ValueOf(h, b)) \in Bytes
          /\ OnWire(h[1], KeyOf(h, b), ValueOf(h, b)) \o Drop(b, KeyLen(h) + ValueLen(h)) = h \o b
      <4>1. KeyLen(h) + ValueLen(h) <= Len(b)
        BY <2>1, <3>3
      <4> QED BY <4>1, CutOnWire
    <3> QED BY <3>1, <3>2, <3>3, <3>4
  <2>6. header' = <<>> /\ sent' = sent
    BY <1>4, ReadsDataStep
  <2>7. PICK w \in Bytes : w = WireOf(f)
    BY <2>5
  <2>8. e \o w \in Bytes
    BY ConcatBytes
  <2>9. ((e \o w) \o <<>>) \o toServer' = e \o (w \o toServer')
    <3>1. (e \o w) \o <<>> = e \o w
      BY <2>8, ConcatEmptySeq DEF Bytes
    <3>2. (e \o w) \o toServer' = e \o (w \o toServer')
      BY <1>1, BytesAssociative
    <3> QED BY <3>1, <3>2
  <2>10. e \o (header \o toServer) = (e \o header) \o toServer
    BY <1>1, BytesAssociative
  <2> QED BY <1>3, <2>1, <2>4, <2>5, <2>6, <2>7, <2>9, <2>10 DEF BytesKept
<1>5. CASE ~ HandlerReadsData
  <2>1. Encoded(FramesBuilt') = e
    BY <1>2, <1>5, FramesBuiltStep
  <2>2. CASE UNCHANGED <<sent, toServer, header>>
    BY <1>3, <2>1, <2>2 DEF BytesKept
  <2>3. CASE /\ \E x \in Bytes : sent' = sent \o x /\ toServer' = toServer \o x
             /\ header' = header
    <3>1. PICK x \in Bytes : sent' = sent \o x /\ toServer' = toServer \o x
      BY <2>3
    <3>2. ((e \o header) \o toServer) \o x = (e \o header) \o (toServer \o x)
      BY <1>1, <1>3, BytesAssociative
    <3> QED BY <1>3, <2>1, <2>3, <3>1, <3>2 DEF BytesKept
  <2>4. CASE HandlerReadsHeader /\ sent' = sent
    <3>1. header = <<>> /\ header' \o toServer' = toServer
      BY <2>4, ReadsHeaderStep
    <3>2. (e \o header') \o toServer' = e \o (header' \o toServer')
      BY <1>1, BytesAssociative
    <3>3. e \o <<>> = e
      BY ConcatEmptySeq DEF Bytes
    <3> QED BY <1>3, <2>1, <2>4, <3>1, <3>2, <3>3 DEF BytesKept
  <2> QED BY <1>5, <2>2, <2>3, <2>4, SentGrows
<1> QED BY <1>4, <1>5

\* NoByteLostOrInvented: the frames the handler has built (server.go:213-243), encoded
\* again, and what it has not made a frame of yet, are the bytes that were sent.  The proof
\* shows BytesKept, which needs no limits: this code reads every frame whole.
THEOREM StreamKeepsItsBytes == Spec => []NoByteLostOrInvented
<1> DEFINE I == Types /\ BytesKept
<1>1. Init => I
  BY TypesInit, BytesKeptInit
<1>2. I /\ [Next]_vars => I'
  BY TypesNext, BytesKeptNext
<1>3. I => NoByteLostOrInvented
  BY DEF NoByteLostOrInvented
<1> HIDE DEF I
<1> QED BY <1>1, <1>2, <1>3, PTL DEF Spec

-----------------------------------------------------------------------------
(***************************************************************************)
(* The two parsers of requests agree.                                      *)
(***************************************************************************)

LEMMA OkIsNotError ==
  ASSUME NEW x
  PROVE  Ok(x) # Error /\ Ok(x) # Overrun
<1>1. Ok(x).result = "ok" /\ Error.result = "error" /\ Overrun.result = "overrun"
  BY DEF Ok, Error, Overrun
<1> QED BY <1>1

\* A stream begins with a header and a body.
LEMMA SplitAtHeader ==
  ASSUME NEW data \in Bytes, ~ (Len(data) < FrameHeaderSize)
  PROVE  \E h \in Header, body \in Bytes : Joins(data, h, body)
<1>1. FrameHeaderSize \in 0 .. Len(data)
  BY ConcatBytes, SizeFacts
<1>2. /\ Take(data, FrameHeaderSize) \in Header /\ Drop(data, FrameHeaderSize) \in Bytes
      /\ Take(data, FrameHeaderSize) \o Drop(data, FrameHeaderSize) = data
  BY <1>1, TakeDropBytes DEF Header
<1> QED BY <1>2 DEF Joins

\* Once the decoder has found a frame, later bytes change nothing.
LEMMA DecodedForGood ==
  ASSUME NEW data \in Bytes, NEW more \in Bytes, DecodeRequest(data) # Error
  PROVE  DecodeRequest(data \o more) = DecodeRequest(data)
<1>1. ~ (Len(data) < FrameHeaderSize)
  BY DecodeOfShort
<1>2. PICK h \in Header, body \in Bytes : Joins(data, h, body)
  BY <1>1, SplitAtHeader
<1>3. PICK longer \in Bytes : Joins(longer, body, more)
  BY Joined
<1>4. data \o more = h \o longer
  <2>1. h \in Bytes
    BY DEF Header
  <2>2. (h \o body) \o more = h \o (body \o more)
    BY <2>1, BytesAssociative
  <2> QED BY <1>2, <1>3, <2>2 DEF Joins
<1>5. PICK k \in Nat, v \in Nat : k = KeyLen(h) /\ v = ValueLen(h)
  BY HeaderIsItsFields, LengthFacts
<1>6. k + v <= Len(body) /\ Len(body) \in Nat /\ Len(longer) = Len(body) + Len(more) /\ Len(more) \in Nat
  <2>1. Len(body) \in Nat /\ Len(more) \in Nat /\ Len(longer) = Len(body) + Len(more)
    BY <1>3, JoinedBytes
  <2>2. ~ (Len(body) < k + v)
    BY <1>2, <1>5, DecodeRequestParts DEF Joins
  <2> QED BY <2>1, <2>2
<1>7. DecodeRequest(data) = Ok(NewFrame(h[1], KeyOf(h, body), ValueOf(h, body)))
  <2>1. ~ (Len(body) < KeyLen(h) + ValueLen(h))
    BY <1>5, <1>6
  <2> QED BY <1>2, <2>1, DecodeRequestParts DEF Joins
<1>8. DecodeRequest(data \o more) = Ok(NewFrame(h[1], KeyOf(h, longer), ValueOf(h, longer)))
  <2>1. ~ (Len(longer) < KeyLen(h) + ValueLen(h))
    BY <1>5, <1>6
  <2> QED BY <1>4, <2>1, DecodeRequestParts
<1>9. KeyOf(h, longer) = KeyOf(h, body)
  <2>1. 0 \in Nat /\ 0 + k <= Len(body) /\ k \in 0 .. Len(body) /\ k \in 0 .. Len(longer)
    BY <1>6
  <2>2. Slice(longer, 0, k) = Slice(body, 0, k)
    BY <1>3, <2>1, JoinedPrefix
  <2>3. Take(longer, k) = Slice(longer, 0, k) /\ Take(body, k) = Slice(body, 0, k)
    BY <2>1, TakeDropAreSlices
  <2> QED BY <1>5, <2>2, <2>3 DEF KeyOf
<1>10. ValueOf(h, longer) = ValueOf(h, body)
  <2>1. Slice(longer, k, v) = Slice(body, k, v)
    BY <1>3, <1>6, JoinedPrefix
  <2> QED BY <1>5, <2>1 DEF ValueOf
<1> QED BY <1>7, <1>8, <1>9, <1>10

\* The decoder finds the first frame of the handler.
FirstFrameDecoded == FramesBuilt # <<>> => DecodeRequest(sent) = Ok(FramesBuilt[1])

\* As long as there is no frame, the handler has nothing but a header and unread bytes.
LEMMA UnreadIsSent ==
  ASSUME Types, BytesKept, FramesBuilt = <<>>
  PROVE  sent = header \o toServer
<1>1. Encoded(FramesBuilt) = <<>>
  BY EncodedEmpty
<1>2. header \in Bytes
  BY HeaderBytes
<1>3. <<>> \o header = header
  BY <1>2, ConcatEmptySeq DEF Bytes
<1> QED BY <1>1, <1>3 DEF BytesKept

LEMMA FirstFrameDecodedNext ==
  ASSUME Types, Types', BytesKept, FirstFrameDecoded, [Next]_vars
  PROVE  FirstFrameDecoded'
<1>1. FramesBuilt \in Seq(Frame) /\ sent \in Bytes /\ toServer \in Bytes
  BY FramesBuiltIs DEF FramesBuiltOK, Types
<1>2. CASE HandlerReadsData
  <2>1. PICK h \in Header : h = header /\ KeyLen(h) + ValueLen(h) <= Len(toServer)
    BY <1>2, ReadsDataStep
  <2>2. PICK f \in Frame : f = CutFrame(h, toServer)
    BY <1>2, <2>1, ReadsDataStep
  <2>3. PICK s \in Seq(Frame) : s = FramesBuilt
    BY <1>1
  <2>4. FramesBuilt' = Append(s, f) /\ sent' = sent
    BY <1>2, <2>1, <2>2, <2>3, FramesBuiltStep, ReadsDataStep
  <2>5. CASE FramesBuilt = <<>>
    <3>1. sent = h \o toServer
      BY <2>1, <2>5, UnreadIsSent
    <3>2. DecodeRequest(h \o toServer) = Ok(NewFrame(h[1], KeyOf(h, toServer), ValueOf(h, toServer)))
      <4>1. ~ (Len(toServer) < KeyLen(h) + ValueLen(h))
        <5>1. KeyLen(h) \in Nat /\ ValueLen(h) \in Nat
          BY HeaderIsItsFields, LengthFacts
        <5>2. Len(toServer) \in Nat
          BY <1>1, ConcatBytes
        <5> QED BY <2>1, <5>1, <5>2
      <4> QED BY <1>1, <4>1, DecodeRequestParts
    <3>3. f = NewFrame(h[1], KeyOf(h, toServer), ValueOf(h, toServer))
      BY <1>1, <2>1, <2>2, CutFrameIsFrame
    <3>4. Append(s, f)[1] = f
      <4>1. Len(s) = 0
        BY <2>3, <2>5
      <4>2. Append(s, f)[Len(s) + 1] = f
        BY AppendProperties
      <4> QED BY <4>1, <4>2
    <3> QED BY <2>4, <3>1, <3>2, <3>3, <3>4 DEF FirstFrameDecoded
  <2>6. CASE FramesBuilt # <<>>
    <3>1. Append(s, f)[1] = s[1]
      <4>1. Len(s) \in Nat \ {0}
        BY <2>3, <2>6, EmptySeq
      <4>2. 1 \in 1 .. Len(s)
        BY <4>1
      <4> QED BY <4>2, AppendProperties
    <3> QED BY <2>3, <2>4, <2>6, <3>1 DEF FirstFrameDecoded
  <2> QED BY <2>5, <2>6
<1>3. CASE ~ HandlerReadsData
  <2>1. FramesBuilt' = FramesBuilt
    BY <1>3, FramesBuiltStep
  <2>2. CASE sent' = sent
    BY <2>1, <2>2 DEF FirstFrameDecoded
  <2>3. CASE \E x \in Bytes : sent' = sent \o x
    <3>1. PICK x \in Bytes : sent' = sent \o x
      BY <2>3
    <3>2. ASSUME FramesBuilt # <<>> PROVE DecodeRequest(sent \o x) = Ok(FramesBuilt[1])
      <4>1. DecodeRequest(sent) = Ok(FramesBuilt[1])
        BY <3>2 DEF FirstFrameDecoded
      <4>2. DecodeRequest(sent) # Error
        BY <4>1, OkIsNotError
      <4>3. DecodeRequest(sent \o x) = DecodeRequest(sent)
        BY <1>1, <4>2, DecodedForGood
      <4> QED BY <4>1, <4>3
    <3> QED BY <2>1, <3>1, <3>2 DEF FirstFrameDecoded
  <2> QED BY <2>2, <2>3, SentGrows
<1> QED BY <1>2, <1>3

LEMMA ParsersAgreeFollows ==
  ASSUME Types, BytesKept, FirstFrameDecoded
  PROVE  ParsersAgree
<1>1. toServer \in Bytes /\ Len(toServer) \in Nat
  BY ConcatBytes DEF Types
<1>2. ASSUME FramesBuilt = <<>>, HandlerWaits
      PROVE  DecodeRequest(sent) = Error
  <2>1. sent = header \o toServer
    BY <1>2, UnreadIsSent
  <2>2. CASE header = <<>>
    <3>1. sent = toServer
      <4>1. <<>> \o toServer = toServer
        BY <1>1, ConcatEmptySeq DEF Bytes
      <4> QED BY <2>1, <2>2, <4>1
    <3>2. Len(sent) < FrameHeaderSize
      BY <1>2, <2>2, <3>1 DEF HandlerWaits
    <3> QED BY <3>2, DecodeOfShort
  <2>3. CASE header \in Header
    <3>1. header # <<>>
      BY <2>3, HeaderNotEmpty
    <3>2. Len(toServer) < KeyLen(header) + ValueLen(header)
      BY <1>2, <3>1 DEF HandlerWaits
    <3>3. DecodeRequest(header \o toServer) = Error
      BY <1>1, <2>3, <3>2, DecodeRequestParts
    <3> QED BY <2>1, <3>3
  <2> QED BY <2>2, <2>3 DEF Types
<1> QED BY <1>2 DEF ParsersAgree, FirstFrameDecoded

\* ParsersAgree: the handler's parser (server.go:213-243), which reads a stream piece by
\* piece, and DecodeRequest (protocol.go:256-291), which is given all of it, find the same
\* first frame, and the decoder finds none where the handler still waits.
THEOREM RequestParsersAlwaysAgree == Spec => []ParsersAgree
<1> DEFINE I == Types /\ BytesKept /\ FirstFrameDecoded
<1>1. Init => I
  BY TypesInit, BytesKeptInit, FramesBuiltInit DEF FirstFrameDecoded
<1>2. I /\ [Next]_vars => I'
  BY TypesNext, BytesKeptNext, FirstFrameDecodedNext
<1>3. I => ParsersAgree
  BY ParsersAgreeFollows
<1> HIDE DEF I
<1> QED BY <1>1, <1>2, <1>3, PTL DEF Spec

-----------------------------------------------------------------------------
(***************************************************************************)
(* A command returns the response to its own request.                      *)
(***************************************************************************)

Quiet == toServer = <<>> /\ header = <<>> /\ frame = <<>>

\* The request r is on its way, or read, or a frame, and not answered.
Pending(r) ==
  /\ Len(answered) = Len(got) /\ toClient = <<>>
  /\ \/ frame = <<>> /\ header \o toServer = RequestBytes(r)
     \/ frame = <<FrameOf(r)>> /\ header = <<>> /\ toServer = <<>>

\* The server has answered r with the answer a, and has nothing else to do.
Done(r, a) ==
  /\ Quiet
  /\ Len(answered) = Len(got) + 1 /\ a = answered[Len(answered)]
  /\ a.frame = FrameOf(r)

\* The client has read the header of the answer a and no more.
BodyLeft(a) ==
  /\ client.valueLen = Len(a.value)
  /\ Len(toClient) = 1 + Len(a.value) /\ toClient[1] = a.status
  /\ Slice(toClient, 1, Len(a.value)) = a.value

Matches(a, g) == a.frame = FrameOf(g.request) /\ a.status = g.status /\ a.value = g.value

AllMatch == \A i \in 1 .. Len(got) : i <= Len(answered) /\ Matches(answered[i], got[i])

\* The inductive invariant: where the bytes of the one request or response are.
InStep ==
  /\ AllMatch
  /\ client.at # "raw"
  /\ client.at = "idle" => Quiet /\ toClient = <<>> /\ Len(answered) = Len(got)
  /\ client.at = "header" =>
       \/ Pending(client.request)
       \/ \E a \in Answered : Done(client.request, a) /\ toClient = ResponseTo(a.frame, a)
  /\ client.at = "body" => \E a \in Answered : Done(client.request, a) /\ BodyLeft(a)

LEMMA ClientAt ==
  ASSUME NEW r
  PROVE  /\ Idle.at = "idle" /\ [at |-> "header", request |-> r].at = "header"
         /\ [at |-> "header", request |-> r].request = r
BY DEF Idle

LEMMA InStepInit == Init => InStep
<1> SUFFICES ASSUME Init PROVE InStep
  OBVIOUS
<1>1. client.at = "idle" /\ Quiet /\ toClient = <<>> /\ Len(answered) = 0 /\ Len(got) = 0
  BY ClientAt DEF Init, Quiet
<1>2. AllMatch
  BY <1>1 DEF AllMatch
<1> QED BY <1>1, <1>2 DEF InStep

LEMMA InStepRequest ==
  ASSUME Types, InStep, NEW r \in Request, ClientRequests(r)
  PROVE  InStep'
<1>1. /\ client.at = "idle"
      /\ UNCHANGED <<toClient, header, frame, replied, answered, got, raw>>
      /\ \/ UNCHANGED <<toServer, sent, client>>
         \/ /\ r \in Sendable
            /\ toServer' = toServer \o RequestBytes(r)
            /\ client' = [at |-> "header", request |-> r]
  BY RequestStep
<1>2. AllMatch /\ Quiet /\ toClient = <<>> /\ Len(answered) = Len(got)
  BY <1>1 DEF InStep
<1>3. AllMatch'
  BY <1>1, <1>2 DEF AllMatch
<1>4. CASE UNCHANGED <<toServer, sent, client>>
  <2>1. (client.at)' = "idle" /\ Quiet' /\ toClient' = <<>> /\ Len(answered') = Len(got')
    BY <1>1, <1>2, <1>4 DEF Quiet
  <2> QED BY <1>3, <2>1 DEF InStep
<1>5. CASE /\ r \in Sendable
           /\ toServer' = toServer \o RequestBytes(r)
           /\ client' = [at |-> "header", request |-> r]
  <2>1. (client.at)' = "header" /\ (client.request)' = r
    BY <1>5, ClientAt
  <2>2. RequestBytes(r) \in Bytes
    BY <1>5, SendableFacts
  <2>3. <<>> \o (<<>> \o RequestBytes(r)) = RequestBytes(r)
    <3>1. <<>> \o RequestBytes(r) = RequestBytes(r)
      BY <2>2, ConcatEmptySeq DEF Bytes
    <3> QED BY <3>1
  <2>4. header' \o toServer' = RequestBytes(r)
    BY <1>1, <1>2, <1>5, <2>3 DEF Quiet
  <2>5. frame' = <<>> /\ toClient' = <<>> /\ Len(answered') = Len(got')
    BY <1>1, <1>2 DEF Quiet
  <2>6. Pending(r)'
    BY <2>4, <2>5 DEF Pending
  <2>7. Pending(client.request)'
    BY <2>1, <2>4, <2>5 DEF Pending
  <2> QED BY <1>3, <2>1, <2>7 DEF InStep
<1> QED BY <1>1, <1>4, <1>5

\* What the client takes off a response.
LEMMA ResponseCut ==
  ASSUME NEW a \in Answered
  PROVE  /\ ResponseTo(a.frame, a) \in Bytes
         /\ ValueLen(Take(ResponseTo(a.frame, a), FrameHeaderSize)) = Len(a.value)
         /\ \E b \in Bytes : /\ Drop(ResponseTo(a.frame, a), FrameHeaderSize) = b
                             /\ Len(b) = 1 + Len(a.value) /\ b[1] = a.status
                             /\ Slice(b, 1, Len(a.value)) = a.value
<1>1. /\ a.frame.Command \in Byte /\ a.status \in Byte /\ a.value \in Bytes
      /\ Len(a.value) <= MaxValueLength
  BY DEF Answered, Frame
<1>2. PICK h \in Header, b \in Bytes :
        IsResponse(ResponseTo(a.frame, a), h, b, a.frame.Command, a.status, a.value)
  BY <1>1, ResponseOnWire DEF ResponseTo
<1>3. h \in Bytes /\ Len(h) = FrameHeaderSize
  BY DEF Header
<1>4. Take(h \o b, FrameHeaderSize) = h /\ Drop(h \o b, FrameHeaderSize) = b /\ h \o b \in Bytes
  BY <1>3, TakeDropOfConcat, ConcatBytes
<1>5. /\ ResponseTo(a.frame, a) = h \o b /\ ValueLen(h) = Len(a.value)
      /\ Len(b) = 1 + Len(a.value) /\ b[1] = a.status /\ Slice(b, 1, Len(a.value)) = a.value
  BY <1>2 DEF IsResponse
<1> QED BY <1>4, <1>5

LEMMA InStepReadsHeader ==
  ASSUME Types, InStep, ClientReadsHeader
  PROVE  InStep'
<1>1. /\ client.at = "header" /\ FrameHeaderSize \in 0 .. Len(toClient)
      /\ client' = [at |-> "body", request |-> client.request,
                    valueLen |-> ValueLen(Take(toClient, FrameHeaderSize))]
      /\ toClient' = Drop(toClient, FrameHeaderSize)
      /\ UNCHANGED <<toServer, header, frame, replied, answered, sent, got, raw, commands>>
  BY ClientReadsHeaderStep
<1>2. (client.at)' = "body" /\ (client.request)' = client.request
      /\ (client.valueLen)' = ValueLen(Take(toClient, FrameHeaderSize))
  BY <1>1
<1>3. ~ Pending(client.request)
  <2>1. Len(toClient) # 0
    BY <1>1, SizeFacts
  <2> QED BY <2>1 DEF Pending
<1>4. PICK a \in Answered : Done(client.request, a) /\ toClient = ResponseTo(a.frame, a)
  BY <1>1, <1>3 DEF InStep
<1>5. Done(client.request, a)'
  BY <1>1, <1>2, <1>4 DEF Done, Quiet
<1>6. BodyLeft(a)'
  BY <1>1, <1>2, <1>4, ResponseCut DEF BodyLeft
<1>7. AllMatch'
  BY <1>1 DEF InStep, AllMatch
<1> QED BY <1>2, <1>5, <1>6, <1>7 DEF InStep

LEMMA InStepReadsBody ==
  ASSUME Types, InStep, ClientReadsBody
  PROVE  InStep'
<1> DEFINE g == [request |-> client.request, status |-> toClient[1],
                 value |-> Slice(toClient, 1, client.valueLen)]
<1>1. /\ client.at = "body" /\ 1 + client.valueLen \in 0 .. Len(toClient)
      /\ g \in Got /\ got' = Append(got, g)
      /\ toClient' = Drop(toClient, 1 + client.valueLen) /\ toClient' \in Bytes
      /\ client' = Idle
      /\ UNCHANGED <<toServer, header, frame, replied, answered, sent, raw, commands>>
  BY ClientReadsBodyStep
<1>2. PICK a \in Answered : Done(client.request, a) /\ BodyLeft(a)
  BY <1>1 DEF InStep
<1>3. Matches(a, g)
  BY <1>2 DEF Done, BodyLeft, Matches
<1>4. toClient' = <<>>
  <2>1. Len(toClient) = 1 + client.valueLen /\ toClient \in Bytes
    BY <1>2 DEF BodyLeft, Types
  <2>2. PICK n \in Nat : n = 1 + client.valueLen /\ n = Len(toClient)
    BY <1>1, <2>1, ConcatBytes
  <2>3. Len(Drop(toClient, n)) = 0
    <3>1. n \in 0 .. Len(toClient) /\ Len(toClient) - n = 0
      BY <2>2
    <3> QED BY <2>1, <3>1, TakeDropBytes
  <2>4. Len(toClient') = 0
    BY <1>1, <2>2, <2>3
  <2> QED BY <1>1, <2>4, EmptySeq DEF Bytes
<1>5. PICK s \in Seq(Got), e \in Got, t \in Seq(Got) :
        s = got /\ e = g /\ t = got' /\ t = Append(s, e)
  <2>1. Append(got, g) \in Seq(Got) /\ got \in Seq(Got)
    <3>1. got \in Seq(Got)
      BY DEF Types
    <3> HIDE DEF g
    <3> QED BY <1>1, <3>1, AppendProperties
  <2> HIDE DEF g
  <2> QED BY <1>1, <2>1
<1> HIDE DEF g
<1>6. /\ Len(s) \in Nat /\ Len(t) = Len(s) + 1 /\ t[Len(s) + 1] = e
      /\ \A i \in 1 .. Len(s) : t[i] = s[i]
  BY <1>5, LenProperties, AppendProperties
<1>7. Len(answered) = Len(s) + 1 /\ a = answered[Len(answered)] /\ Quiet
  BY <1>2, <1>5 DEF Done
<1>8. \A i \in 1 .. Len(s) : Matches(answered[i], s[i])
  BY <1>5 DEF InStep, AllMatch
<1>9. ASSUME NEW i \in 1 .. Len(t)
      PROVE  i <= Len(answered) /\ Matches(answered[i], t[i])
  <2>1. CASE i = Len(s) + 1
    BY <1>3, <1>5, <1>6, <1>7, <2>1
  <2>2. CASE i \in 1 .. Len(s)
    <3>1. t[i] = s[i]
      BY <1>6, <2>2
    <3> QED BY <1>6, <1>7, <1>8, <2>2, <3>1
  <2> QED BY <1>6, <2>1, <2>2
<1>10. AllMatch'
  <2>1. answered' = answered /\ got' = t
    BY <1>1, <1>5
  <2> QED BY <1>9, <2>1 DEF AllMatch, Matches, FrameOf
<1>11. (client.at)' = "idle" /\ Quiet' /\ Len(answered') = Len(got')
  <2>1. (client.at)' = "idle"
    BY <1>1, ClientAt
  <2>2. Quiet'
    BY <1>1, <1>7 DEF Quiet
  <2>3. Len(answered') = Len(got')
    BY <1>1, <1>5, <1>6, <1>7
  <2> QED BY <2>1, <2>2, <2>3
<1> QED BY <1>4, <1>10, <1>11 DEF InStep

\* Bytes to read, a header or a frame: the client's request is not answered yet.
LEMMA NotQuiet ==
  ASSUME Types, InStep, ~ Quiet
  PROVE  client.at = "header" /\ client.request \in Sendable /\ Pending(client.request)
<1>1. client.at # "raw" /\ client.at # "idle"
  BY DEF InStep
<1>2. client.at # "body"
  BY DEF InStep, Done
<1>3. client.at = "header" /\ client.request \in Sendable
  BY <1>1, <1>2 DEF Types, ClientState, Idle
<1>4. Pending(client.request)
  BY <1>3 DEF InStep, Done
<1> QED BY <1>3, <1>4

LEMMA InStepHandlerReadsHeader ==
  ASSUME Types, InStep, HandlerReadsHeader
  PROVE  InStep'
<1>1. /\ header = <<>> /\ frame = <<>> /\ FrameHeaderSize \in 0 .. Len(toServer)
      /\ header' \o toServer' = toServer
      /\ UNCHANGED <<toClient, client, got, frame, answered>>
  BY ReadsHeaderStep
<1>2. toServer # <<>>
  <2>1. Len(toServer) # 0
    BY <1>1, SizeFacts
  <2> QED BY <2>1
<1>3. client.at = "header" /\ Pending(client.request)
  BY <1>2, NotQuiet DEF Quiet
<1>4. <<>> \o toServer = toServer
  <2>1. toServer \in Bytes
    BY DEF Types
  <2> QED BY <2>1, ConcatEmptySeq DEF Bytes
<1>5. header' \o toServer' = RequestBytes(client.request)
  BY <1>1, <1>2, <1>3, <1>4 DEF Pending
<1>6. Len(answered) = Len(got) /\ toClient = <<>>
  BY <1>3 DEF Pending
<1>7. (client.at)' = "header" /\ Pending(client.request)'
  BY <1>1, <1>3, <1>5, <1>6 DEF Pending
<1>8. AllMatch'
  BY <1>1 DEF InStep, AllMatch
<1> QED BY <1>7, <1>8 DEF InStep

\* Two ways to cut the same bytes behind a header.
LEMMA SameCut ==
  ASSUME NEW h \in Header, NEW s \in Bytes, NEW g \in Header, NEW t \in Bytes, h \o s = g \o t
  PROVE  h = g /\ s = t
<1>1. h \in Bytes /\ Len(h) = FrameHeaderSize /\ g \in Bytes /\ Len(g) = FrameHeaderSize
  BY DEF Header
<1>2. Take(h \o s, FrameHeaderSize) = h /\ Drop(h \o s, FrameHeaderSize) = s
  <2>1. Take(h \o s, Len(h)) = h /\ Drop(h \o s, Len(h)) = s
    <3>1. h \in Bytes
      BY <1>1
    <3> QED BY <3>1, TakeDropOfConcat
  <2> QED BY <1>1, <2>1
<1>3. Take(g \o t, FrameHeaderSize) = g /\ Drop(g \o t, FrameHeaderSize) = t
  <2>1. Take(g \o t, Len(g)) = g /\ Drop(g \o t, Len(g)) = t
    <3>1. g \in Bytes
      BY <1>1
    <3> QED BY <3>1, TakeDropOfConcat
  <2> QED BY <1>1, <2>1
<1> QED BY <1>2, <1>3

LEMMA InStepHandlerReadsData ==
  ASSUME Types, InStep, HandlerReadsData
  PROVE  InStep'
<1>1. /\ header \in Header /\ frame = <<>> /\ KeyLen(header) + ValueLen(header) <= Len(toServer)
      /\ frame' = <<CutFrame(header, toServer)>> /\ header' = <<>>
      /\ toServer' = Drop(toServer, KeyLen(header) + ValueLen(header)) /\ toServer' \in Bytes
      /\ UNCHANGED <<toClient, client, got, answered>>
  BY ReadsDataStep
<1>2. header # <<>>
  BY <1>1, HeaderNotEmpty
<1>3. client.at = "header" /\ client.request \in Sendable /\ Pending(client.request)
  BY <1>2, NotQuiet DEF Quiet
<1>4. PICK r \in Sendable : r = client.request
  BY <1>3
<1>5. header \o toServer = RequestBytes(r)
  BY <1>2, <1>3, <1>4 DEF Pending
<1>6. r.cmd \in Byte /\ r.key \in Bytes /\ r.value \in Bytes /\ Len(r.key) \in Length /\ Len(r.value) \in Length
  BY SendableFacts
<1>7. PICK body \in Bytes : body = r.key \o r.value /\ Len(body) = Len(r.key) + Len(r.value)
  BY <1>6, OnWireBytes
<1>8. PICK h \in Header :
        /\ RequestBytes(r) = h \o body
        /\ h[1] = r.cmd /\ KeyLen(h) = Len(r.key) /\ ValueLen(h) = Len(r.value)
        /\ KeyOf(h, body) = r.key /\ ValueOf(h, body) = r.value
  <2>1. PICK cmd \in Byte, key \in Bytes, value \in Bytes :
          cmd = r.cmd /\ key = r.key /\ value = r.value
    BY <1>6
  <2>2. Len(key) \in Length /\ Len(value) \in Length
    BY <1>6, <2>1
  <2>3. PICK h \in Header :
          /\ OnWire(cmd, key, value) = h \o (key \o value)
          /\ h[1] = cmd /\ KeyLen(h) = Len(key) /\ ValueLen(h) = Len(value)
          /\ KeyOf(h, key \o value) = key /\ ValueOf(h, key \o value) = value
    BY <2>2, RequestOnWire
  <2> QED BY <1>7, <2>1, <2>3 DEF RequestBytes
<1>9. header = h /\ toServer = body
  <2>1. toServer \in Bytes
    BY DEF Types
  <2>2. PICK g \in Header, t \in Bytes : g = header /\ t = toServer
    BY <1>1, <2>1
  <2>3. g \o t = h \o body
    BY <1>5, <1>8, <2>2
  <2>4. g = h /\ t = body
    BY <2>3, SameCut
  <2> QED BY <2>2, <2>4
<1>10. Len(body) \in Nat /\ KeyLen(h) + ValueLen(h) = Len(body)
  BY <1>7, <1>8, ConcatBytes
<1>11. CutFrame(h, body) = FrameOf(r)
  <2>1. KeyLen(h) + ValueLen(h) <= Len(body)
    BY <1>10
  <2>2. CutFrame(h, body) = NewFrame(h[1], KeyOf(h, body), ValueOf(h, body))
    BY <2>1, CutFrameIsFrame
  <2> QED BY <1>8, <2>2 DEF FrameOf
<1>12. Drop(body, KeyLen(h) + ValueLen(h)) = <<>>
  <2>1. PICK n \in Nat : n = KeyLen(h) + ValueLen(h) /\ n = Len(body)
    BY <1>10
  <2>2. n \in 0 .. Len(body) /\ Len(body) - n = 0
    BY <2>1
  <2>3. Drop(body, n) \in Bytes /\ Len(Drop(body, n)) = 0
    BY <2>2, TakeDropBytes
  <2> QED BY <2>1, <2>3, EmptySeq DEF Bytes
<1>13. frame' = <<FrameOf(r)>> /\ header' = <<>> /\ toServer' = <<>>
  BY <1>1, <1>9, <1>11, <1>12
<1>14. Len(answered) = Len(got) /\ toClient = <<>>
  BY <1>3 DEF Pending
<1>15. (client.at)' = "header" /\ (client.request)' = r
  BY <1>1, <1>3, <1>4
<1>16. Pending(client.request)'
  BY <1>1, <1>13, <1>14, <1>15 DEF Pending, FrameOf
<1>17. AllMatch'
  BY <1>1 DEF InStep, AllMatch
<1> QED BY <1>15, <1>16, <1>17 DEF InStep

LEMMA InStepHandle ==
  ASSUME Types, InStep, HandleRequest
  PROVE  InStep'
<1>1. PICK f \in Frame, a \in Reply : Answers(f, a)
  BY HandleStep
<1> DEFINE e == [frame |-> f, status |-> a.status, value |-> a.value]
<1>2. /\ frame = <<f>> /\ frame' = <<>> /\ toClient' = toClient \o ResponseTo(f, a)
      /\ answered' = Append(answered, e)
      /\ UNCHANGED <<toServer, client, got, header>>
  BY <1>1 DEF Answers
<1>3. frame # <<>> /\ frame[1] = f
  BY <1>2
<1>4. client.at = "header" /\ Pending(client.request)
  BY <1>3, NotQuiet DEF Quiet
<1>5. /\ Len(answered) = Len(got) /\ toClient = <<>>
      /\ frame = <<FrameOf(client.request)>> /\ header = <<>> /\ toServer = <<>>
  BY <1>3, <1>4 DEF Pending
<1>6. f = FrameOf(client.request)
  <2>1. <<FrameOf(client.request)>>[1] = FrameOf(client.request)
    OBVIOUS
  <2> QED BY <1>3, <1>5, <2>1
<1>7. e \in Answered /\ e.frame = f /\ e.status = a.status /\ e.value = a.value
  BY DEF Answered, Reply
<1>8. PICK d \in Answered : d = e /\ d.frame = f /\ ResponseTo(d.frame, d) = ResponseTo(f, a)
  BY <1>7 DEF ResponseTo
<1> HIDE DEF e
<1>9. PICK s \in Seq(Answered), t \in Seq(Answered) :
        s = answered /\ t = answered' /\ t = Append(s, d)
  <2>1. answered \in Seq(Answered)
    BY DEF Types
  <2>2. Append(answered, d) \in Seq(Answered)
    BY <2>1, AppendProperties
  <2> QED BY <1>2, <1>8, <2>1, <2>2
<1>10. /\ Len(s) \in Nat /\ Len(t) = Len(s) + 1 /\ t[Len(s) + 1] = d
       /\ \A i \in 1 .. Len(s) : t[i] = s[i]
  BY <1>9, LenProperties, AppendProperties
<1>11. toClient' = ResponseTo(d.frame, d)
  <2>1. ResponseTo(f, a) \in Bytes
    BY ResponseBytes
  <2>2. <<>> \o ResponseTo(f, a) = ResponseTo(f, a)
    BY <2>1, ConcatEmptySeq DEF Bytes
  <2> QED BY <1>2, <1>5, <1>8, <2>2
<1>12. (client.at)' = "header" /\ (client.request)' = client.request
  BY <1>2, <1>4
<1>13. Done(client.request, d)'
  <2>1. Quiet'
    BY <1>2, <1>5 DEF Quiet
  <2>2. Len(answered') = Len(got') + 1 /\ d = answered'[Len(answered')]
    BY <1>2, <1>5, <1>9, <1>10
  <2>3. d.frame = FrameOf(client.request)'
    BY <1>6, <1>8, <1>12 DEF FrameOf
  <2> QED BY <2>1, <2>2, <2>3 DEF Done
<1>14. AllMatch'
  <2>1. \A i \in 1 .. Len(got) : i <= Len(s) /\ Matches(s[i], got[i])
    BY <1>9 DEF InStep, AllMatch
  <2>2. Len(got) = Len(s)
    BY <1>5, <1>9
  <2>3. \A i \in 1 .. Len(got) : i <= Len(t) /\ Matches(t[i], got[i])
    BY <1>10, <2>1, <2>2
  <2>4. answered' = t /\ got' = got
    BY <1>2, <1>9
  <2> QED BY <2>3, <2>4 DEF AllMatch, Matches, FrameOf
<1>15. (toClient = ResponseTo(d.frame, d))'
  BY <1>11 DEF ResponseTo
<1> QED BY <1>12, <1>13, <1>14, <1>15 DEF InStep

\* A raw command ends the correspondence for good.
InStepUnlessRaw == ~ raw => InStep

LEMMA InStepNext == Types /\ InStepUnlessRaw /\ [Next]_vars => InStepUnlessRaw'
<1> SUFFICES ASSUME Types, InStepUnlessRaw, [Next]_vars, ~ raw' PROVE InStep'
  BY DEF InStepUnlessRaw
<1>1. ASSUME NEW bytes \in Raw, RawWrites(bytes) PROVE FALSE
  BY <1>1, RawStep
<1>2. ~ raw
  <2>1. CASE UNCHANGED vars
    BY <2>1 DEF vars
  <2>2. ASSUME NEW r \in Request, ClientRequests(r) PROVE UNCHANGED raw
    BY <2>2 DEF ClientRequests
  <2> QED BY <1>1, <2>1, <2>2 DEF Next, Client, Handler, ClientReadsHeader, ClientReadsBody,
         RawReads, HandlerReadsHeader, HandlerReadsData, HandleRequest, clientVars
<1>3. InStep
  BY <1>2 DEF InStepUnlessRaw
<1>4. ASSUME NEW r \in Request, ClientRequests(r) PROVE InStep'
  BY <1>3, <1>4, InStepRequest
<1>5. CASE ClientReadsHeader
  BY <1>3, <1>5, InStepReadsHeader
<1>6. CASE ClientReadsBody
  BY <1>3, <1>6, InStepReadsBody
<1>7. ~ RawReads
  BY <1>3 DEF RawReads, InStep
<1>8. CASE HandlerReadsHeader
  BY <1>3, <1>8, InStepHandlerReadsHeader
<1>9. CASE HandlerReadsData
  BY <1>3, <1>9, InStepHandlerReadsData
<1>10. CASE HandleRequest
  BY <1>3, <1>10, InStepHandle
<1>11. CASE UNCHANGED vars
  BY <1>3, <1>11 DEF vars, InStep, AllMatch, Matches, FrameOf, Quiet, Pending, RequestBytes, Done,
     BodyLeft, ResponseTo
<1> QED BY <1>1, <1>4, <1>5, <1>6, <1>7, <1>8, <1>9, <1>10, <1>11 DEF Next, Client, Handler

LEMMA OwnFollows == InStepUnlessRaw => AnswersAreOwn
BY DEF InStepUnlessRaw, InStep, AllMatch, Matches, Quiet, AnswersAreOwn

\* AnswersAreOwn: sendTCPRequest (test_client.go:526-545) reads a response of the lengths
\* its header names, the handler (server.go:213-243) a request of those of its own header;
\* as long as only they use the connection, the i-th response a command returns is the
\* answer to the i-th request, and between two commands nothing is left in the stream.
THEOREM AnswersAlwaysOwn == Spec => []AnswersAreOwn
<1>1. Init => Types /\ InStepUnlessRaw
  BY TypesInit, InStepInit DEF InStepUnlessRaw
<1>2. Types /\ InStepUnlessRaw /\ [Next]_vars => (Types /\ InStepUnlessRaw)'
  BY TypesNext, InStepNext
<1> QED BY <1>1, <1>2, OwnFollows, PTL DEF Spec

-----------------------------------------------------------------------------
(***************************************************************************)
(* The first response of the stream and the beginnings of it.              *)
(***************************************************************************)

LEMMA TakeOfConcat ==
  ASSUME NEW s \in Bytes, NEW c \in Bytes, NEW m \in 0 .. Len(c)
  PROVE  Take(s \o c, Len(s) + m) = s \o Take(c, m)
<1>1. PICK a \in Bytes, d \in Bytes : a = Take(c, m) /\ Len(a) = m /\ c = a \o d
  <2>1. /\ Take(c, m) \in Bytes /\ Len(Take(c, m)) = m /\ Drop(c, m) \in Bytes
        /\ c = Take(c, m) \o Drop(c, m)
    BY TakeDropBytes
  <2> QED BY <2>1
<1>2. PICK u \in Bytes : u = s \o a /\ Len(u) = Len(s) + Len(a)
  BY ConcatBytes
<1>3. s \o c = u \o d
  <2>1. (s \o a) \o d = s \o (a \o d)
    BY BytesAssociative
  <2> QED BY <1>1, <1>2, <2>1
<1>4. Take(u \o d, Len(u)) = u
  BY TakeDropOfConcat
<1>5. Len(u) = Len(s) + m
  BY <1>1, <1>2
<1> QED BY <1>1, <1>2, <1>3, <1>4, <1>5

\* DecodeResponse finds a response whatever stands behind it.
LEMMA ResponseDecoded ==
  ASSUME NEW r \in Bytes, NEW h \in Header, NEW b \in Bytes,
         NEW cmd \in Byte, NEW status \in Byte, NEW value \in Bytes,
         IsResponse(r, h, b, cmd, status, value), NEW rest \in Bytes
  PROVE  /\ DecodeResponse(r \o rest).result = "ok"
         /\ DecodeResponse(r \o rest).is.Value = <<status>> \o value
<1>1. PICK n \in Nat : n = Len(value)
  BY ConcatBytes
<1>2. /\ r = h \o b /\ KeyLen(h) = 0 /\ ValueLen(h) = n
      /\ Len(b) = 1 + n /\ b[1] = status /\ Slice(b, 1, n) = value
  BY <1>1 DEF IsResponse
<1>3. PICK c \in Bytes : Joins(c, b, rest)
  BY Joined
<1>4. Len(c) \in Nat /\ Len(c) >= 1 + n /\ c[1] = status
  <2>1. Len(b) \in Nat /\ Len(rest) \in Nat /\ Len(c) = Len(b) + Len(rest)
    BY <1>3, JoinedBytes
  <2>2. 1 \in 1 .. Len(b)
    BY <1>2
  <2>3. c[1] = b[1]
    BY <1>3, <2>2, JoinedBytes
  <2> QED BY <1>2, <2>1, <2>3
<1>5. Slice(c, 1, n) = value
  <2>1. 1 \in Nat /\ 1 + n <= Len(b)
    BY <1>2
  <2>2. Slice(c, 1, n) = Slice(b, 1, n)
    BY <1>3, <2>1, JoinedPrefix
  <2> QED BY <1>2, <2>2
<1>6. r \o rest = h \o c
  <2>1. h \in Bytes
    BY DEF Header
  <2>2. (h \o b) \o rest = h \o (b \o rest)
    BY <2>1, BytesAssociative
  <2> QED BY <1>2, <1>3, <2>2 DEF Joins
<1>7. DecodeResponse(h \o c) =
        IF Len(c) < KeyLen(h) + ValueLen(h) THEN Error
        ELSE IF Len(c) < 1 + ValueLen(h) THEN Overrun
        ELSE Ok([Command |-> h[1], KeyLen |-> KeyLen(h), ValueLen |-> ValueLen(h), Key |-> <<>>,
                 Value |-> <<c[1]>> \o Slice(c, 1, ValueLen(h))])
  BY DecodeResponseParts
<1>8. ~ (Len(c) < KeyLen(h) + ValueLen(h)) /\ ~ (Len(c) < 1 + ValueLen(h))
  BY <1>2, <1>4
<1>9. DecodeResponse(h \o c) =
        Ok([Command |-> h[1], KeyLen |-> KeyLen(h), ValueLen |-> ValueLen(h), Key |-> <<>>,
            Value |-> <<status>> \o value])
  BY <1>2, <1>4, <1>5, <1>7, <1>8
<1> QED BY <1>6, <1>9 DEF Ok

\* Of what has arrived of a response DecodeResponse sees nothing, or runs past the end.
LEMMA ResponseCutShort ==
  ASSUME NEW r \in Bytes, NEW h \in Header, NEW b \in Bytes,
         NEW cmd \in Byte, NEW status \in Byte, NEW value \in Bytes,
         IsResponse(r, h, b, cmd, status, value), NEW rest \in Bytes,
         NEW n \in 0 .. Len(r) - 1
  PROVE  DecodeResponse(Take(r \o rest, n)) = IF n < Len(r) - 1 THEN Error ELSE Overrun
<1>1. PICK v \in Nat : v = Len(value)
  BY ConcatBytes
<1>2. r = h \o b /\ KeyLen(h) = 0 /\ ValueLen(h) = v /\ Len(b) = 1 + v
  BY <1>1 DEF IsResponse
<1>3. PICK s \in Nat : s = FrameHeaderSize /\ h \in Bytes /\ Len(h) = s
  BY SizeFacts DEF Header
<1>4. PICK u \in Bytes : u = r /\ Len(u) = s + 1 + v /\ n \in 0 .. s + v /\ Joins(u, h, b)
  <2>1. PICK u \in Bytes : Joins(u, h, b)
    BY <1>3, Joined
  <2>2. Len(u) = Len(h) + Len(b)
    BY <1>3, <2>1, JoinedBytes
  <2>3. u = r
    BY <1>2, <2>1 DEF Joins
  <2>4. Len(u) = s + 1 + v
    BY <1>2, <1>3, <2>2
  <2> QED BY <2>1, <2>3, <2>4
<1>5. CASE n < s
  <2>1. PICK w \in Bytes : w = u \o rest /\ Len(w) = Len(u) + Len(rest) /\ Len(rest) \in Nat
    BY ConcatBytes
  <2>2. n \in 0 .. Len(w)
    BY <1>4, <2>1
  <2>3. Len(Take(w, n)) = n
    BY <2>2, TakeDropBytes
  <2>4. Len(Take(w, n)) < FrameHeaderSize
    BY <1>3, <1>5, <2>3
  <2>5. DecodeResponse(Take(w, n)) = Error
    BY <2>4, DecodeOfShort
  <2>6. n < Len(r) - 1
    BY <1>4, <1>5
  <2> QED BY <1>4, <2>1, <2>5, <2>6
<1>6. CASE n >= s
  <2>1. PICK c \in Bytes : Joins(c, b, rest)
    BY Joined
  <2>2. PICK m \in 0 .. v : n = s + m /\ m \in 0 .. Len(c)
    <3>1. Len(rest) \in Nat /\ Len(c) = Len(b) + Len(rest)
      BY <2>1, JoinedBytes
    <3>2. n - s \in 0 .. v /\ n = s + (n - s) /\ n - s \in 0 .. Len(c)
      BY <1>2, <1>4, <1>6, <3>1
    <3> QED BY <3>2
  <2>3. r \o rest = h \o c
    <3>1. (h \o b) \o rest = h \o (b \o rest)
      BY <1>3, BytesAssociative
    <3> QED BY <1>2, <2>1, <3>1 DEF Joins
  <2>4. PICK t \in Bytes : t = Take(c, m) /\ Len(t) = m
    BY <2>2, TakeDropBytes
  <2>5. Take(h \o c, n) = h \o t
    <3>1. Take(h \o c, Len(h) + m) = h \o Take(c, m)
      BY <1>3, <2>2, TakeOfConcat
    <3> QED BY <1>3, <2>2, <2>4, <3>1
  <2>6. DecodeResponse(h \o t) =
          IF Len(t) < KeyLen(h) + ValueLen(h) THEN Error
          ELSE IF Len(t) < 1 + ValueLen(h) THEN Overrun
          ELSE Ok([Command |-> h[1], KeyLen |-> KeyLen(h), ValueLen |-> ValueLen(h), Key |-> <<>>,
                   Value |-> <<t[1]>> \o Slice(t, 1, ValueLen(h))])
    BY DecodeResponseParts
  <2>7. CASE m < v
    <3>1. Len(t) < KeyLen(h) + ValueLen(h) /\ n < Len(r) - 1
      BY <1>2, <1>4, <2>2, <2>4, <2>7
    <3> QED BY <2>3, <2>5, <2>6, <3>1
  <2>8. CASE m = v
    <3>1. /\ ~ (Len(t) < KeyLen(h) + ValueLen(h)) /\ Len(t) < 1 + ValueLen(h)
          /\ ~ (n < Len(r) - 1)
      BY <1>2, <1>4, <2>2, <2>4, <2>8
    <3> QED BY <2>3, <2>5, <2>6, <3>1
  <2> QED BY <2>2, <2>7, <2>8
<1> QED BY <1>3, <1>5, <1>6

\* The first response stands at the beginning of what the server has written.
FirstReply ==
  /\ answered = <<>> => replied = <<>>
  /\ answered # <<>> =>
       \E rest \in Bytes : Joins(replied, ResponseTo(answered[1].frame, answered[1]), rest)

LEMMA FirstReplyInit == Init => FirstReply
BY DEF Init, FirstReply

LEMMA AnsweredTypes ==
  ASSUME NEW a \in Answered
  PROVE  /\ a.frame \in Frame /\ a.frame.Command \in Byte /\ a.status \in Byte /\ a.value \in Bytes
         /\ Len(a.value) <= MaxValueLength /\ ResponseTo(a.frame, a) \in Bytes
<1>1. a.frame \in Frame /\ a.status \in Byte /\ a.value \in Bytes /\ Len(a.value) <= MaxValueLength
  BY DEF Answered
<1>2. a.frame.Command \in Byte
  BY <1>1 DEF Frame
<1> QED BY <1>1, <1>2, ResponseCut

LEMMA FirstReplyPrimed ==
  ASSUME NEW t \in Seq(Answered), t = answered', t # <<>>,
         \E rest \in Bytes : Joins(replied', ResponseTo(t[1].frame, t[1]), rest)
  PROVE  FirstReply'
<1>1. answered' # <<>>
  OBVIOUS
<1>2. \E rest \in Bytes : Joins(replied', ResponseTo(answered'[1].frame, answered'[1]), rest)
  OBVIOUS
<1>3. (\E rest \in Bytes : Joins(replied, ResponseTo(answered[1].frame, answered[1]), rest))'
  BY <1>2, Zenon DEF ResponseTo, Joins
<1> QED BY <1>1, <1>3 DEF FirstReply

LEMMA FirstReplyHandle ==
  ASSUME Types, FirstReply, HandleRequest
  PROVE  FirstReply'
<1>1. PICK f \in Frame, a \in Reply : Answers(f, a)
  BY HandleStep
<1>2. PICK d \in Answered : /\ d = [frame |-> f, status |-> a.status, value |-> a.value]
                            /\ ResponseTo(d.frame, d) = ResponseTo(f, a)
  <2>1. [frame |-> f, status |-> a.status, value |-> a.value] \in Answered
    BY DEF Answered, Reply
  <2> QED BY <2>1 DEF ResponseTo
<1>3. PICK p \in Bytes : p = ResponseTo(d.frame, d)
  BY AnsweredTypes
<1>4. replied \in Bytes /\ replied' = replied \o p
  BY <1>1, <1>2, <1>3 DEF Answers, Types
<1>5. PICK s \in Seq(Answered), t \in Seq(Answered) :
        s = answered /\ t = answered' /\ t = Append(s, d)
  <2>1. answered \in Seq(Answered)
    BY DEF Types
  <2>2. Append(answered, d) \in Seq(Answered)
    BY <2>1, AppendProperties
  <2> QED BY <1>1, <1>2, <2>1, <2>2 DEF Answers
<1>6. /\ Len(s) \in Nat /\ Len(t) = Len(s) + 1 /\ t[Len(s) + 1] = d
      /\ \A i \in 1 .. Len(s) : t[i] = s[i]
  BY <1>5, LenProperties, AppendProperties
<1>7. t # <<>>
  <2>1. Len(t) # 0
    BY <1>6
  <2> QED BY <2>1
<1>8. CASE s = <<>>
  <2>1. t[1] = d
    BY <1>6, <1>8
  <2>2. Joins(replied', p, <<>>)
    <3>1. replied = <<>>
      BY <1>5, <1>8 DEF FirstReply
    <3>2. <<>> \o p = p /\ p \o <<>> = p
      BY ConcatEmptySeq DEF Bytes
    <3> QED BY <1>4, <3>1, <3>2 DEF Joins
  <2>3. <<>> \in Bytes
    BY EmptySeq DEF Bytes
  <2>4. \E rest \in Bytes : Joins(replied', ResponseTo(t[1].frame, t[1]), rest)
    BY <1>3, <2>1, <2>2, <2>3
  <2> QED BY <1>5, <1>7, <2>4, FirstReplyPrimed
<1>9. CASE s # <<>>
  <2>1. t[1] = s[1] /\ s[1] \in Answered
    <3>1. Len(s) # 0
      BY <1>9, EmptySeq
    <3>2. 1 \in 1 .. Len(s)
      BY <1>6, <3>1
    <3> QED BY <1>6, <3>2, ElementOfSeq
  <2>2. PICK q \in Bytes : q = ResponseTo(s[1].frame, s[1])
    BY <2>1, AnsweredTypes
  <2>3. PICK rest \in Bytes : Joins(replied, q, rest)
    BY <1>5, <1>9, <2>2 DEF FirstReply
  <2>4. rest \o p \in Bytes
    BY ConcatBytes
  <2>5. Joins(replied', q, rest \o p)
    <3>1. (q \o rest) \o p = q \o (rest \o p)
      BY BytesAssociative
    <3> QED BY <1>4, <2>3, <3>1 DEF Joins
  <2>6. \E w \in Bytes : Joins(replied', ResponseTo(t[1].frame, t[1]), w)
    BY <2>1, <2>2, <2>4, <2>5
  <2> QED BY <1>5, <1>7, <2>6, FirstReplyPrimed
<1> QED BY <1>8, <1>9

LEMMA FirstReplyNext == Types /\ FirstReply /\ [Next]_vars => FirstReply'
<1> SUFFICES ASSUME Types, FirstReply, [Next]_vars PROVE FirstReply'
  OBVIOUS
<1>1. CASE HandleRequest
  BY <1>1, FirstReplyHandle
<1>2. CASE UNCHANGED <<replied, answered>>
  BY <1>2 DEF FirstReply, Joins, ResponseTo
<1>3. ASSUME NEW r \in Request, ClientRequests(r) PROVE UNCHANGED <<replied, answered>>
  BY <1>3 DEF ClientRequests, serverVars
<1>4. ASSUME NEW bytes \in Raw, RawWrites(bytes) PROVE UNCHANGED <<replied, answered>>
  BY <1>4 DEF RawWrites, serverVars
<1>5. HandleRequest \/ UNCHANGED <<replied, answered>>
  BY <1>3, <1>4 DEF Next, Client, Handler, ClientReadsHeader, ClientReadsBody, RawReads,
     HandlerReadsHeader, HandlerReadsData, serverVars, vars
<1> QED BY <1>1, <1>2, <1>5

LEMMA ResponseParsersAgreeFollows ==
  ASSUME Types, FirstReply, InStepUnlessRaw
  PROVE  ResponseParsersAgree
<1>1. ASSUME answered # <<>>
      PROVE  /\ DecodeResponse(replied).result = "ok"
             /\ DecodeResponse(replied).is.Value = <<answered[1].status>> \o answered[1].value
             /\ \A n \in 0 .. Len(FirstResponse) - 1 :
                  DecodeResponse(Take(replied, n)) =
                    IF n < Len(FirstResponse) - 1 THEN Error ELSE Overrun
  <2>1. PICK a \in Answered : a = answered[1]
    <3>1. answered \in Seq(Answered)
      BY DEF Types
    <3>2. 1 \in 1 .. Len(answered)
      BY <1>1, <3>1, EmptySeq, LenProperties
    <3> QED BY <3>1, <3>2, ElementOfSeq
  <2>2. PICK r \in Bytes : r = ResponseTo(a.frame, a) /\ r = FirstResponse
    BY <2>1, AnsweredTypes DEF FirstResponse, ResponseTo
  <2>3. PICK rest \in Bytes : Joins(replied, r, rest)
    BY <1>1, <2>1, <2>2 DEF FirstReply
  <2>4. PICK cmd \in Byte, status \in Byte, value \in Bytes :
          /\ cmd = a.frame.Command /\ status = a.status /\ value = a.value
          /\ Len(value) <= MaxValueLength
    BY AnsweredTypes
  <2>5. r = EncodeResponse(cmd, status, value).is
    BY <2>2, <2>4 DEF ResponseTo
  <2>6. PICK h \in Header, b \in Bytes : IsResponse(r, h, b, cmd, status, value)
    <3>1. Len(value) <= MaxValueLength
      BY <2>4
    <3>2. \E h \in Header, b \in Bytes :
            IsResponse(EncodeResponse(cmd, status, value).is, h, b, cmd, status, value)
      BY <3>1, ResponseOnWire
    <3> QED BY <2>5, <3>2
  <2>7. DecodeResponse(r \o rest).result = "ok" /\ DecodeResponse(r \o rest).is.Value = <<status>> \o value
    BY <2>6, ResponseDecoded
  <2>8. \A n \in 0 .. Len(r) - 1 :
          DecodeResponse(Take(r \o rest, n)) = IF n < Len(r) - 1 THEN Error ELSE Overrun
    BY <2>6, ResponseCutShort
  <2>9. replied = r \o rest
    BY <2>3 DEF Joins
  <2> QED BY <2>1, <2>2, <2>4, <2>7, <2>8, <2>9
<1>2. ASSUME ~ raw, got # <<>>
      PROVE  /\ answered # <<>>
             /\ answered[1].status = got[1].status /\ answered[1].value = got[1].value
  <2>1. 1 \in 1 .. Len(got)
    BY <1>2, EmptySeq, LenProperties DEF Types
  <2>2. 1 <= Len(answered) /\ Matches(answered[1], got[1])
    BY <1>2, <2>1 DEF InStepUnlessRaw, InStep, AllMatch
  <2>3. answered # <<>>
    <3>1. Len(<<>>) = 0
      OBVIOUS
    <3> QED BY <2>2, <3>1
  <2> QED BY <2>2, <2>3 DEF Matches
<1> QED BY <1>1, <1>2 DEF ResponseParsersAgree

\* ResponseParsersAgree: DecodeResponse (protocol.go:337-377) finds in all the server has
\* written the response that sendTCPRequest (test_client.go:526-545) returned first, and
\* nothing in what has arrived of it, unless just its last byte is missing: then its length
\* test, which leaves the status byte out, lets it read past the end.
THEOREM ResponseParsersAlwaysAgree == Spec => []ResponseParsersAgree
<1> DEFINE I == Types /\ InStepUnlessRaw /\ FirstReply
<1>1. Init => I
  BY TypesInit, InStepInit, FirstReplyInit DEF InStepUnlessRaw
<1>2. I /\ [Next]_vars => I'
  BY TypesNext, InStepNext, FirstReplyNext
<1>3. I => ResponseParsersAgree
  BY ResponseParsersAgreeFollows
<1> HIDE DEF I
<1> QED BY <1>1, <1>2, <1>3, PTL DEF Spec

-----------------------------------------------------------------------------
(***************************************************************************)
(* The codec, whatever the bytes.                                          *)
(***************************************************************************)

\* EncodeRequest and DecodeRequest (protocol.go:211-291): a request within the limits
\* decodes to the frame it was made of, whatever bytes stand behind it.
THEOREM RequestRoundTrip ==
  ASSUME NEW cmd \in Byte, NEW key \in Bytes, NEW value \in Bytes,
         Len(key) <= MaxKeyLength, Len(value) <= MaxValueLength, NEW rest \in Bytes
  PROVE  /\ EncodeRequest(cmd, key, value).result = "ok"
         /\ DecodeRequest(EncodeRequest(cmd, key, value).is \o rest) = Ok(NewFrame(cmd, key, value))
<1>1. Len(key) \in Length /\ Len(value) \in Length /\ Len(key) \in Nat /\ Len(value) \in Nat
  <2>1. Len(key) \in Nat /\ Len(value) \in Nat
    BY ConcatBytes
  <2>2. \A n \in Nat : n <= MaxKeyLength \/ n <= MaxValueLength => n \in Length
    BY LengthFacts DEF Length
  <2> QED BY <2>1, <2>2
<1>2. EncodeRequest(cmd, key, value) = Ok(OnWire(cmd, key, value))
  <2>1. ~ (Len(key) > MaxKeyLength) /\ ~ (Len(value) > MaxValueLength)
    BY <1>1, LengthFacts
  <2> QED BY <2>1 DEF EncodeRequest
<1>3. PICK body \in Bytes : body = key \o value /\ Len(body) = Len(key) + Len(value)
  BY OnWireBytes
<1>4. PICK h \in Header :
        /\ OnWire(cmd, key, value) = h \o body
        /\ h[1] = cmd /\ KeyLen(h) = Len(key) /\ ValueLen(h) = Len(value)
        /\ KeyOf(h, body) = key /\ ValueOf(h, body) = value
  <2>1. Len(key) \in Length /\ Len(value) \in Length
    BY <1>1
  <2>2. \E h \in Header :
          /\ OnWire(cmd, key, value) = h \o (key \o value)
          /\ h[1] = cmd /\ KeyLen(h) = Len(key) /\ ValueLen(h) = Len(value)
          /\ KeyOf(h, key \o value) = key /\ ValueOf(h, key \o value) = value
    BY <2>1, RequestOnWire
  <2> QED BY <1>3, <2>2
<1>5. KeyLen(h) + ValueLen(h) <= Len(body)
  BY <1>1, <1>3, <1>4
<1>6. DecodeRequest(h \o body) = Ok(NewFrame(cmd, key, value))
  <2>1. DecodeRequest(h \o body) =
          IF Len(body) < KeyLen(h) + ValueLen(h) THEN Error
          ELSE Ok(NewFrame(h[1], KeyOf(h, body), ValueOf(h, body)))
    BY DecodeRequestParts
  <2>2. ~ (Len(body) < KeyLen(h) + ValueLen(h))
    BY <1>1, <1>3, <1>4
  <2> QED BY <1>4, <2>1, <2>2
<1>7. DecodeRequest((h \o body) \o rest) = Ok(NewFrame(cmd, key, value))
  <2>1. PICK s \in Bytes : s = h \o body /\ DecodeRequest(s) = Ok(NewFrame(cmd, key, value))
    <3>1. h \in Bytes
      BY DEF Header
    <3> QED BY <1>6, <3>1, ConcatBytes
  <2>2. DecodeRequest(s) # Error
    BY <2>1, OkIsNotError
  <2>3. DecodeRequest(s \o rest) = DecodeRequest(s)
    BY <2>2, DecodedForGood
  <2> QED BY <2>1, <2>3
<1> QED BY <1>2, <1>4, <1>7 DEF Ok

\* EncodeResponse and DecodeResponse (protocol.go:294-377): the same of a response, whose
\* status is decoded as the first byte of the value.
THEOREM ResponseRoundTrip ==
  ASSUME NEW cmd \in Byte, NEW status \in Byte, NEW value \in Bytes,
         Len(value) <= MaxValueLength, NEW rest \in Bytes
  PROVE  /\ DecodeResponse(EncodeResponse(cmd, status, value).is \o rest).result = "ok"
         /\ DecodeResponse(EncodeResponse(cmd, status, value).is \o rest).is.Value
              = <<status>> \o value
<1>1. PICK h \in Header, b \in Bytes :
        IsResponse(EncodeResponse(cmd, status, value).is, h, b, cmd, status, value)
  BY ResponseOnWire
<1>2. PICK r \in Bytes : r = EncodeResponse(cmd, status, value).is
  <2>1. h \o b \in Bytes
    BY ConcatBytes DEF Header
  <2> QED BY <1>1, <2>1 DEF IsResponse
<1>3. IsResponse(r, h, b, cmd, status, value)
  BY <1>1, <1>2
<1>4. /\ DecodeResponse(r \o rest).result = "ok"
      /\ DecodeResponse(r \o rest).is.Value = <<status>> \o value
  BY <1>3, ResponseDecoded
<1> QED BY <1>2, <1>4

\* ValidateFrame (protocol.go:410-476), on what the handler reads of a client's request: as
\* long as the largest frame has a size that four bytes can hold, no length check of it can
\* fail; a request is refused for an unknown command or for want of a key and nothing else.
THEOREM SentRequestsAreValid ==
  ASSUME FrameHeaderSize + MaxKeyLength + MaxValueLength \in Length,
         NEW r \in Sendable
  PROVE  ValidateFrame(FrameOf(r)) =
           IF r.cmd \notin {CMD_GET, CMD_SET, CMD_DELETE, CMD_INFO} THEN ERROR_UNKNOWN_COMMAND
           ELSE IF r.cmd # CMD_INFO /\ r.key = <<>> THEN ERROR_INVALID_KEY
           ELSE SUCCESS
<1> DEFINE f == FrameOf(r)
<1>1. PICK k \in Nat, v \in Nat :
        /\ k = Len(r.key) /\ v = Len(r.value) /\ k \in Length /\ v \in Length
        /\ k <= MaxKeyLength /\ v <= MaxValueLength /\ r.key \in Bytes
  BY SendableFacts, LengthFacts DEF Sendable
<1>2. PICK p \in Nat \ {0} : p = Power[LenBytes]
  BY LengthFacts
<1>3. \A n \in Length : Wrapped(n) = n
  <2>1. ASSUME NEW n \in 0 .. p - 1 PROVE n % p = n
    OBVIOUS
  <2> QED BY <1>2, <2>1 DEF Length, Wrapped
<1>4. /\ f.Command = r.cmd /\ f.KeyLen = k /\ f.ValueLen = v
      /\ f.Key = r.key /\ f.Value = r.value
  BY <1>1, <1>3 DEF FrameOf, NewFrame
<1>5. FrameHeaderSize \in Nat /\ MaxKeyLength \in Nat /\ MaxValueLength \in Nat
  BY SizeFacts, LengthFacts
<1>6. FrameSize(f) = FrameHeaderSize + k + v
  <2>1. FrameHeaderSize + MaxKeyLength + MaxValueLength <= p - 1
    BY <1>2 DEF Length
  <2>2. FrameHeaderSize + k + v \in 0 .. p - 1
    <3>1. k <= MaxKeyLength /\ v <= MaxValueLength
      BY <1>1
    <3>2. PICK s \in Nat, mk \in Nat, mv \in Nat :
            s = FrameHeaderSize /\ mk = MaxKeyLength /\ mv = MaxValueLength
      BY <1>5
    <3>3. s + mk + mv <= p - 1 /\ k <= mk /\ v <= mv
      BY <2>1, <3>1, <3>2
    <3>4. s + k + v \in 0 .. p - 1
      BY <3>3
    <3> QED BY <3>2, <3>4
  <2>3. FrameHeaderSize + k + v \in Length
    BY <1>2, <2>2 DEF Length
  <2> HIDE DEF f
  <2> QED BY <1>3, <1>4, <2>3 DEF FrameSize
<1>7. /\ ~ (FrameSize(f) < FrameHeaderSize) /\ ~ (f.KeyLen > MaxKeyLength)
      /\ ~ (f.ValueLen > MaxValueLength)
      /\ ~ (Len(f.Key) # f.KeyLen \/ Len(f.Value) # f.ValueLen)
  <2> HIDE DEF f
  <2>1. Len(f.Key) = f.KeyLen /\ Len(f.Value) = f.ValueLen
    BY <1>1, <1>4
  <2>2. k <= MaxKeyLength /\ v <= MaxValueLength
    BY <1>1
  <2>3. ~ (FrameHeaderSize + k + v < FrameHeaderSize)
    BY <1>5
  <2>4. ~ (k > MaxKeyLength) /\ ~ (v > MaxValueLength)
    BY <1>5, <2>2
  <2> QED BY <1>4, <1>6, <2>1, <2>3, <2>4
<1>8. f.KeyLen = 0 <=> r.key = <<>>
  <2>1. k = 0 <=> r.key = <<>>
    BY <1>1, EmptySeq DEF Bytes
  <2> HIDE DEF f
  <2> QED BY <1>4, <2>1
<1> HIDE DEF f
<1>9. CASE r.cmd \notin {CMD_GET, CMD_SET, CMD_DELETE, CMD_INFO}
  <2>1. ValidateFrame(f) = ERROR_UNKNOWN_COMMAND
    BY <1>4, <1>9 DEF ValidateFrame
  <2> QED BY <1>9, <2>1 DEF f
<1>10. CASE /\ r.cmd \in {CMD_GET, CMD_SET, CMD_DELETE, CMD_INFO}
            /\ r.cmd # CMD_INFO /\ r.key = <<>>
  <2>1. ValidateFrame(f) = ERROR_INVALID_KEY
    BY <1>4, <1>7, <1>8, <1>10 DEF ValidateFrame
  <2> QED BY <1>10, <2>1 DEF f
<1>11. CASE /\ r.cmd \in {CMD_GET, CMD_SET, CMD_DELETE, CMD_INFO}
            /\ ~ (r.cmd # CMD_INFO /\ r.key = <<>>)
  <2>1. ValidateFrame(f) = SUCCESS
    BY <1>4, <1>7, <1>8, <1>11 DEF ValidateFrame
  <2> QED BY <1>11, <2>1 DEF f
<1> QED BY <1>9, <1>10, <1>11
=============================================================================
