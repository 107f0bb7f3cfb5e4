---------------------------- MODULE ExpiryProofs ----------------------------
(***************************************************************************)
(* Proofs about Expiry, for every number of digits and every base: the     *)
(* text of a time says which second it lies in and gives the time back, so *)
(* access ends within the second it should, dates never end early, and the *)
(* pages are exact.                                                        *)
(***************************************************************************)
EXTENDS Expiry, FiniteSetTheorems, WellFoundedInduction, SequenceTheorems, TLAPS

-----------------------------------------------------------------------------
(* Induction.  The library's induction theorem takes an operator; this one *)
(* takes a set, and rests on strict inclusion of finite sets being         *)
(* well-founded.                                                           *)

Below(n) == {i \in Nat : i < n}

LEMMA BelowIsFinite ==
    ASSUME NEW n \in Nat
    PROVE  IsFiniteSet(Below(n))
  <1>1. Below(n) = 0 .. n - 1
    BY DEF Below
  <1>2. QED
    BY <1>1, FS_Interval

LEMMA LeastNumber ==
    ASSUME NEW T \in SUBSET Nat, T # {}
    PROVE  \E x \in T : \A y \in T : x <= y
  <1> DEFINE Smaller == StrictSubsetOrdering(Nat)
             Sets == {Below(n) : n \in T}
  <1>1. IsWellFoundedOn(Smaller, FiniteSubsetsOf(Nat))
    BY FS_StrictSubsetOrderingWellFounded
  <1>2. \A m, n \in Nat : m < n => <<Below(m), Below(n)>> \in Smaller
    BY DEF StrictSubsetOrdering, Below
  <1>3. Sets \subseteq FiniteSubsetsOf(Nat) /\ Sets # {}
    BY BelowIsFinite DEF FiniteSubsetsOf, Below
  <1>4. PICK b \in Sets : \A c \in Sets : <<c, b>> \notin Smaller
    <2> HIDE DEF Smaller, Sets
    <2>1. QED
      BY <1>1, <1>3, WFMin
  <1>5. PICK x \in T : b = Below(x)
    BY <1>4
  <1>6. \A y \in T : ~ (y < x)
    BY <1>2, <1>4, <1>5
  <1>7. QED
    BY <1>6

LEMMA Induction ==
    ASSUME NEW n \in Nat, NEW S, 0 \in S,
           \A i \in 1 .. n : i - 1 \in S => i \in S
    PROVE  0 .. n \subseteq S
  <1>1. SUFFICES ASSUME (0 .. n) \ S # {} PROVE FALSE
    OBVIOUS
  <1>2. PICK x \in (0 .. n) \ S : \A y \in (0 .. n) \ S : x <= y
    <2>1. (0 .. n) \ S \in SUBSET Nat
      OBVIOUS
    <2>2. QED
      BY <1>1, <2>1, LeastNumber
  <1>3. x \in 1 .. n /\ x - 1 \in S
    BY <1>2
  <1>4. QED
    BY <1>2, <1>3

LEMMA MaxOfBounded ==
    ASSUME NEW n \in Nat, NEW S \in SUBSET (0 .. n), S # {}
    PROVE  Max(S) \in S /\ \A y \in S : y <= Max(S)
  <1> DEFINE T == {n - x : x \in S}
  <1>1. T \in SUBSET Nat /\ T # {}
    <2>1. PICK x : x \in S
      OBVIOUS
    <2>2. n - x \in T
      BY <2>1
    <2>3. QED
      BY <2>2
  <1>2. PICK t \in T : \A y \in T : t <= y
    BY <1>1, LeastNumber
  <1>3. PICK x \in S : t = n - x
    BY <1>2
  <1>4. \A y \in S : n - x <= n - y
    BY <1>2, <1>3
  <1>5. \A y \in S : x >= y
    BY <1>4
  <1>6. QED
    BY <1>5 DEF Max

-----------------------------------------------------------------------------
(* Division.                                                               *)

LEMMA Division ==
    ASSUME NEW a \in Int, NEW b \in Nat \ {0}
    PROVE  /\ a \div b \in Int /\ a % b \in 0 .. b - 1
           /\ a = b * (a \div b) + (a % b)
  OBVIOUS

LEMMA AtLeast ==
    ASSUME NEW a \in Int, NEW b \in Nat \ {0}, NEW q \in Int
    PROVE  q <= a \div b <=> q * b <= a
  <1> DEFINE d == a \div b
             r == a % b
  <1>1. d \in Int /\ r \in 0 .. b - 1 /\ a = b * d + r
    BY Division
  <1> HIDE DEF d, r
  <1>2. ASSUME q <= d PROVE q * b <= a
    <2>1. d - q \in Nat
      BY <1>1, <1>2
    <2>2. b * (d - q) \in Nat
      BY <2>1
    <2>3. b * (d - q) = b * d - q * b
      BY <1>1
    <2>4. QED
      BY <1>1, <2>2, <2>3
  <1>3. ASSUME ~ (q <= d) PROVE ~ (q * b <= a)
    <2>1. q - d - 1 \in Nat
      BY <1>1, <1>3
    <2>2. b * (q - d - 1) \in Nat
      BY <2>1
    <2>3. b * (q - d - 1) = q * b - b * d - b
      BY <1>1
    <2>4. QED
      BY <1>1, <2>2, <2>3
  <1>4. QED
    BY <1>2, <1>3 DEF d

LEMMA DivideTwice ==
    ASSUME NEW f \in Int, NEW a \in Nat \ {0}, NEW b \in Nat \ {0}
    PROVE  (f \div a) \div b = f \div (b * a)
  <1> DEFINE x == (f \div a) \div b
             y == f \div (b * a)
  <1>1. b * a \in Nat \ {0} /\ f \div a \in Int
    BY Division
  <1>2. x \in Int /\ y \in Int
    BY <1>1, Division
  <1>3. ASSUME NEW q \in Int PROVE q <= x <=> q <= y
    <2>1. q <= x <=> q * b <= f \div a
      BY <1>1, AtLeast
    <2>2. q * b <= f \div a <=> (q * b) * a <= f
      BY AtLeast
    <2>3. q <= y <=> q * (b * a) <= f
      BY <1>1, AtLeast
    <2>4. (q * b) * a = q * (b * a)
      OBVIOUS
    <2>5. QED
      BY <2>1, <2>2, <2>3, <2>4
  <1> HIDE DEF x, y
  <1>4. x = y
    BY <1>2, <1>3
  <1>5. QED
    BY <1>4 DEF x, y

-----------------------------------------------------------------------------
(* Powers.                                                                 *)

PowersUpTo(k) ==
    {g \in [0 .. Digits -> Nat] :
        g[0] = 1 /\ \A n \in 1 .. Digits : n <= k => g[n] = Base * g[n - 1]}

LEMMA PowersExist == PowersUpTo(Digits) # {}
  <1> USE DigitsAssumption
  <1> DEFINE S == {k \in 0 .. Digits : PowersUpTo(k) # {}}
  <1>1. 0 \in S
    <2>1. [n \in 0 .. Digits |-> 1] \in PowersUpTo(0)
      BY DEF PowersUpTo
    <2>2. QED
      BY <2>1
  <1>2. ASSUME NEW k \in 1 .. Digits, k - 1 \in S PROVE k \in S
    <2>1. PICK g : g \in PowersUpTo(k - 1)
      BY <1>2
    <2>2. g \in [0 .. Digits -> Nat] /\ g[0] = 1
      BY <2>1 DEF PowersUpTo
    <2> DEFINE h == [g EXCEPT ![k] = Base * g[k - 1]]
    <2>3. Base * g[k - 1] \in Nat
      <3>1. g[k - 1] \in Nat /\ Base \in Nat
        BY <2>2
      <3>2. QED
        BY <3>1
    <2>4. h \in [0 .. Digits -> Nat] /\ h[0] = 1
      BY <2>2, <2>3
    <2>5. ASSUME NEW n \in 1 .. Digits, n <= k PROVE h[n] = Base * h[n - 1]
      <3>1. CASE n = k
        BY <2>2, <3>1
      <3>2. CASE n # k
        <4>1. n <= k - 1 /\ h[n] = g[n] /\ h[n - 1] = g[n - 1]
          BY <2>2, <2>5, <3>2
        <4>2. QED
          BY <2>1, <4>1 DEF PowersUpTo
      <3>3. QED
        BY <3>1, <3>2
    <2>6. h \in PowersUpTo(k)
      <3> HIDE DEF h
      <3>1. QED
        BY <2>4, <2>5 DEF PowersUpTo
    <2>7. QED
      BY <2>6
  <1>3. Digits \in S
    <2> HIDE DEF S
    <2>1. 0 .. Digits \subseteq S
      BY <1>1, <1>2, Induction
    <2>2. QED
      BY <2>1
  <1>4. QED
    BY <1>3

LEMMA PowIs == Pow = [n \in 0 .. Digits |-> IF n = 0 THEN 1 ELSE Base * Pow[n - 1]]
  <1>1. PICK g : g \in PowersUpTo(Digits)
    BY PowersExist
  <1> DEFINE G == [n \in 0 .. Digits |-> IF n = 0 THEN 1 ELSE Base * g[n - 1]]
  <1>2. g \in [0 .. Digits -> Nat] /\ g[0] = 1
    BY <1>1 DEF PowersUpTo
  <1>3. ASSUME NEW n \in 0 .. Digits PROVE g[n] = G[n]
    <2>1. CASE n = 0
      BY <1>2, <2>1
    <2>2. CASE n # 0
      <3>1. n \in 1 .. Digits /\ n <= Digits
        BY <2>2, DigitsAssumption
      <3>2. QED
        BY <1>1, <3>1 DEF PowersUpTo
    <2>3. QED
      BY <2>1, <2>2
  <1>4. g = [n \in 0 .. Digits |-> g[n]] /\ G = [n \in 0 .. Digits |-> G[n]]
    BY <1>2
  <1>5. g = G
    <2> HIDE DEF G
    <2>1. QED
      BY <1>3, <1>4
  <1>6. \E f : f = [n \in 0 .. Digits |-> IF n = 0 THEN 1 ELSE Base * f[n - 1]]
    BY <1>5
  <1>7. QED
    BY <1>6, Zenon DEF Pow

LEMMA PowStep ==
    /\ Pow[0] = 1
    /\ \A n \in 1 .. Digits : Pow[n] = Base * Pow[n - 1]
  <1> DEFINE G(n) == IF n = 0 THEN 1 ELSE Base * Pow[n - 1]
  <1>1. Pow = [n \in 0 .. Digits |-> G(n)]
    BY PowIs
  <1>2. \A n \in 0 .. Digits : Pow[n] = G(n)
    <2> HIDE DEF G
    <2>1. QED
      BY <1>1
  <1>3. QED
    BY <1>2, DigitsAssumption

LEMMA PowPositive ==
    ASSUME NEW n \in 0 .. Digits
    PROVE  Pow[n] \in Nat \ {0}
  <1> DEFINE S == {k \in 0 .. Digits : Pow[k] \in Nat \ {0}}
  <1>1. 0 \in S
    BY PowStep, DigitsAssumption
  <1>2. ASSUME NEW k \in 1 .. Digits, k - 1 \in S PROVE k \in S
    <2>1. Pow[k] = Base * Pow[k - 1] /\ Pow[k - 1] \in Nat \ {0}
      BY <1>2, PowStep
    <2>2. Base * Pow[k - 1] \in Nat \ {0}
      BY <2>1, DigitsAssumption
    <2>3. QED
      BY <2>1, <2>2
  <1>3. 0 .. Digits \subseteq S
    <2> HIDE DEF S
    <2>1. QED
      BY <1>1, <1>2, Induction, DigitsAssumption
  <1>4. QED
    BY <1>3

LEMMA TickPositive == Tick \in Nat \ {0}
  BY PowPositive, DigitsAssumption DEF Tick

-----------------------------------------------------------------------------
(* Digits.                                                                 *)

(* The number that the first i digits of a fraction are. *)
Leading(f, i) == f \div Pow[Digits - i]

LEMMA LeadingDigits ==
    ASSUME NEW f \in 0 .. Tick - 1
    PROVE  /\ Leading(f, 0) = 0 /\ Leading(f, Digits) = f
           /\ \A i \in 0 .. Digits : Leading(f, i) \in Int
           /\ \A i \in 1 .. Digits :
                 /\ DigitAt(f, i) \in 0 .. Base - 1
                 /\ Leading(f, i) = Base * Leading(f, i - 1) + DigitAt(f, i)
  <1> USE DigitsAssumption
  <1>1. f \in Int /\ Tick \in Nat \ {0}
    BY TickPositive
  <1>2. Leading(f, 0) = 0
    <2>1. 0 <= f \div Tick /\ ~ (1 <= f \div Tick) /\ f \div Tick \in Int
      BY <1>1, AtLeast, Division
    <2>2. QED
      BY <2>1 DEF Leading, Tick
  <1>3. Leading(f, Digits) = f
    <2>1. Pow[Digits - Digits] = 1
      BY PowStep
    <2>2. QED
      BY <1>1, <2>1 DEF Leading
  <1>4. ASSUME NEW i \in 0 .. Digits PROVE Leading(f, i) \in Int
    <2>1. Pow[Digits - i] \in Nat \ {0}
      BY PowPositive
    <2>2. QED
      BY <1>1, <2>1, Division DEF Leading
  <1>5. ASSUME NEW i \in 1 .. Digits
        PROVE  /\ DigitAt(f, i) \in 0 .. Base - 1
               /\ Leading(f, i) = Base * Leading(f, i - 1) + DigitAt(f, i)
    <2> DEFINE p == Pow[Digits - i]
    <2>1. p \in Nat \ {0} /\ Pow[Digits - (i - 1)] = Base * p
      <3>1. Digits - i \in 0 .. Digits /\ Digits - (i - 1) \in 1 .. Digits
            /\ (Digits - (i - 1)) - 1 = Digits - i
        OBVIOUS
      <3>2. QED
        BY <3>1, PowStep, PowPositive
    <2>2. (f \div p) \div Base = Leading(f, i - 1)
      BY <1>1, <2>1, DivideTwice DEF Leading
    <2>3. f \div p = Leading(f, i) /\ Leading(f, i) \in Int
      BY <1>4 DEF Leading
    <2>4. DigitAt(f, i) = Leading(f, i) % Base
      BY DEF DigitAt, Leading
    <2>5. QED
      BY <2>2, <2>3, <2>4, Division
  <1>6. QED
    BY <1>2, <1>3, <1>4, <1>5

(* A fraction is kept up to its last digit that counts. *)
LEMMA KeptIs ==
    ASSUME NEW f \in 0 .. Tick - 1
    PROVE  /\ Kept(f) \in 0 .. Digits
           /\ \A i \in 1 .. Digits : i > Kept(f) => DigitAt(f, i) = 0
           /\ f # 0 => Kept(f) # 0 /\ DigitAt(f, Kept(f)) # 0
  <1> USE DigitsAssumption
  <1> DEFINE S == {0} \cup {i \in 1 .. Digits : DigitAt(f, i) # 0}
  <1>1. Kept(f) \in S /\ \A i \in S : i <= Kept(f)
    <2>1. Kept(f) = Max(S) /\ S \in SUBSET (0 .. Digits) /\ S # {}
      BY DEF Kept
    <2> HIDE DEF S
    <2>2. QED
      BY <2>1, MaxOfBounded
  <1>2. Kept(f) \in 0 .. Digits
    BY <1>1
  <1>3. ASSUME NEW i \in 1 .. Digits, i > Kept(f) PROVE DigitAt(f, i) = 0
    BY <1>1, <1>2, <1>3
  <1>4. ASSUME Kept(f) = 0 PROVE f = 0
    <2> DEFINE Zeros == {i \in 0 .. Digits : Leading(f, i) = 0}
    <2>1. 0 \in Zeros
      BY LeadingDigits
    <2>2. ASSUME NEW i \in 1 .. Digits, i - 1 \in Zeros PROVE i \in Zeros
      <3>1. DigitAt(f, i) = 0 /\ Leading(f, i - 1) = 0
        BY <1>3, <1>4, <2>2
      <3>2. Leading(f, i) = Base * 0 + 0
        BY <3>1, LeadingDigits
      <3>3. QED
        BY <3>2
    <2>3. 0 .. Digits \subseteq Zeros
      <3> HIDE DEF Zeros
      <3>1. QED
        BY <2>1, <2>2, Induction
    <2>4. Leading(f, Digits) = 0
      BY <2>3
    <2>5. QED
      BY <2>4, LeadingDigits
  <1>5. QED
    BY <1>1, <1>2, <1>3, <1>4

LEMMA Framed ==
    ASSUME NEW S, NEW a \in S, NEW z \in S, NEW s \in Seq(S), NEW t,
           t = <<a>> \o s \o <<z>>
    PROVE  /\ t \in Seq(S) /\ Len(t) = Len(s) + 2
           /\ t[1] = a /\ t[Len(s) + 2] = z
           /\ \A i \in 1 .. Len(s) : t[i + 1] = s[i]
  <1>1. /\ <<a>> \in Seq(S) /\ Len(<<a>>) = 1 /\ <<a>>[1] = a
        /\ <<z>> \in Seq(S) /\ Len(<<z>>) = 1 /\ <<z>>[1] = z
    OBVIOUS
  <1>2. PICK x, y : x = <<a>> /\ y = <<z>>
    OBVIOUS
  <1>3. x \o s \in Seq(S) /\ Len(x \o s) = Len(s) + 1 /\ Len(s) \in Nat
    BY <1>1, <1>2
  <1>4. \A i \in 1 .. Len(s) + 1 :
           (x \o s)[i] = IF i <= 1 THEN x[i] ELSE s[i - 1]
    BY <1>1, <1>2
  <1>5. PICK b : b = x \o s
    OBVIOUS
  <1>6. /\ b \o y \in Seq(S) /\ Len(b \o y) = Len(s) + 2
        /\ \A i \in 1 .. Len(s) + 2 :
              (b \o y)[i] = IF i <= Len(s) + 1 THEN b[i] ELSE y[i - (Len(s) + 1)]
    BY <1>1, <1>2, <1>3, <1>5
  <1>7. t = b \o y
    BY <1>2, <1>5
  <1>8. t[1] = a /\ t[Len(s) + 2] = z
    BY <1>1, <1>2, <1>3, <1>4, <1>5, <1>6, <1>7
  <1>9. ASSUME NEW i \in 1 .. Len(s) PROVE t[i + 1] = s[i]
    <2>1. i + 1 \in 1 .. Len(s) + 1 /\ i + 1 \in 1 .. Len(s) + 2 /\ ~ (i + 1 <= 1)
          /\ (i + 1) - 1 = i
      BY <1>3
    <2>2. PICK j \in 1 .. Len(s) + 1 : j = i + 1
      BY <2>1
    <2>3. (b \o y)[j] = b[j]
      BY <1>3, <1>6
    <2>4. b[j] = s[i]
      BY <1>3, <1>4, <1>5, <2>1, <2>2
    <2>5. QED
      BY <1>7, <2>2, <2>3, <2>4, Zenon
  <1>10. QED
    BY <1>6, <1>7, <1>8, <1>9

(* What is written of a fraction. *)
LEMMA TextIs ==
    ASSUME NEW f \in 0 .. Tick - 1
    PROVE  /\ Text(f) \in Seq(Char)
           /\ Len(Text(f)) = IF f = 0 THEN 1 ELSE Kept(f) + 2
           /\ Text(f)[Len(Text(f))] = Zed
           /\ f # 0 => Text(f)[1] = Dot
           /\ f # 0 => \A i \in 1 .. Kept(f) : Text(f)[i + 1] = Digit(DigitAt(f, i))
  <1> USE DigitsAssumption
  <1>1. Dot \in Char /\ Zed \in Char /\ \A d \in 0 .. Base - 1 : Digit(d) \in Char
    BY DEF Dot, Zed, Digit, Char
  <1>2. CASE f = 0
    BY <1>1, <1>2 DEF Text
  <1>3. CASE f # 0
    <2>1. PICK k : k = Kept(f) /\ k \in 0 .. Digits
      BY KeptIs
    <2>2. \A i \in 1 .. k : Digit(DigitAt(f, i)) \in Char
      BY <1>1, <2>1, LeadingDigits
    <2>3. PICK s : s = [i \in 1 .. k |-> Digit(DigitAt(f, i))]
      OBVIOUS
    <2>4. /\ s \in Seq(Char) /\ Len(s) = k
          /\ \A i \in 1 .. k : s[i] = Digit(DigitAt(f, i))
      BY <2>1, <2>2, <2>3
    <2>5. Text(f) = <<Dot>> \o s \o <<Zed>>
      BY <1>3, <2>1, <2>3 DEF Text
    <2>6. /\ Text(f) \in Seq(Char) /\ Len(Text(f)) = k + 2
          /\ Text(f)[1] = Dot /\ Text(f)[k + 2] = Zed
          /\ \A i \in 1 .. k : Text(f)[i + 1] = s[i]
      BY <1>1, <2>4, <2>5, Framed
    <2>7. QED
      BY <1>3, <2>1, <2>4, <2>6
  <1>4. QED
    BY <1>2, <1>3

-----------------------------------------------------------------------------
(* Texts of times.                                                         *)

LEMMA SecondAndFraction ==
    ASSUME NEW t \in Nat
    PROVE  /\ Second(t) \in Nat /\ Fraction(t) \in 0 .. Tick - 1
           /\ t = Second(t) * Tick + Fraction(t)
  <1>1. 0 <= t \div Tick /\ t \div Tick \in Int
    BY TickPositive, AtLeast, Division
  <1>2. Fraction(t) \in 0 .. Tick - 1 /\ t = Tick * (t \div Tick) + Fraction(t)
    BY TickPositive, Division DEF Fraction
  <1>3. QED
    BY <1>1, <1>2, TickPositive DEF Second

LEMMA FormatIsText ==
    ASSUME NEW t \in Nat
    PROVE  IsText(FormatTime(t)) /\ FormatTime(t) \in Row
  <1>1. PICK f \in 0 .. Tick - 1 : f = Fraction(t)
    BY SecondAndFraction
  <1>2. PICK tail : tail = Text(f)
    OBVIOUS
  <1>3. PICK far \in BOOLEAN : far <=> Second(t) >= FarSec
    <2>1. CASE Second(t) >= FarSec
      BY <2>1
    <2>2. CASE ~ (Second(t) >= FarSec)
      BY <2>2
    <2>3. QED
      BY <2>1, <2>2
  <1>4. FormatTime(t) = [far |-> far, sec |-> Second(t), tail |-> tail]
    BY <1>1, <1>2, <1>3 DEF FormatTime
  <1>5. FormatTime(t) \in Row
    BY <1>2, <1>4, TextIs, SecondAndFraction DEF Row
  <1>6. \/ tail = <<Zed>>
        \/ /\ Len(tail) \in 3 .. Digits + 2
           /\ tail[1] = Dot /\ tail[Len(tail) - 1] # Digit(0) /\ tail[Len(tail)] = Zed
    <2>1. CASE f = 0
      BY <1>2, <2>1 DEF Text
    <2>2. CASE f # 0
      <3>1. PICK k \in 1 .. Digits : k = Kept(f)
        BY <2>2, KeptIs, DigitsAssumption
      <3>2. /\ Len(tail) = k + 2 /\ tail[k + 2] = Zed /\ tail[1] = Dot
            /\ tail[k + 1] = Digit(DigitAt(f, k))
        BY <1>2, <2>2, <3>1, TextIs
      <3>3. DigitAt(f, k) # 0 /\ DigitAt(f, k) \in Int
        BY <2>2, <3>1, KeptIs, LeadingDigits, DigitsAssumption
      <3>4. Len(tail) - 1 = k + 1 /\ Len(tail) \in 3 .. Digits + 2
        BY <3>2, DigitsAssumption
      <3>5. QED
        BY <3>2, <3>3, <3>4 DEF Digit
    <2>3. QED
      BY <2>1, <2>2
  <1>7. QED
    BY <1>4, <1>5, <1>6 DEF IsText

(* Reading a fraction's text gives the fraction. *)
LEMMA ValueIs ==
    ASSUME NEW f \in 0 .. Tick - 1
    PROVE  Value(Text(f)) = f
  <1> USE DigitsAssumption
  <1>1. PICK tail : tail = Text(f)
    OBVIOUS
  <1> DEFINE n == Len(tail) - 2
             D(i) == IF i <= n THEN tail[i + 1] - 1 ELSE 0
             V(v) == [i \in 0 .. Digits |->
                        IF i = 0 THEN 0 ELSE v[i - 1] * Base + D(i)]
             lead == [i \in 0 .. Digits |-> Leading(f, i)]
             read == CHOOSE v : v = V(v)
  <1>2. ASSUME NEW i \in 1 .. Digits PROVE D(i) = DigitAt(f, i)
    <2>1. DigitAt(f, i) \in Int
      BY LeadingDigits
    <2>2. CASE f = 0
      <3>1. n = -1 /\ ~ (i <= n)
        <4>1. Len(tail) = 1
          BY <1>1, <2>2, TextIs
        <4>2. QED
          BY <4>1
      <3>2. PICK p \in Nat \ {0} : p = Pow[Digits - i]
        BY PowPositive
      <3>3. 0 <= f \div p /\ ~ (1 <= f \div p) /\ f \div p \in Int
        BY <2>2, AtLeast, Division
      <3>4. DigitAt(f, i) = 0
        BY <3>2, <3>3 DEF DigitAt
      <3>5. QED
        <4> HIDE DEF n
        <4>1. QED
          BY <3>1, <3>4
    <2>3. CASE f # 0
      <3>1. PICK k \in 1 .. Digits : k = Kept(f) /\ n = k
        BY <1>1, <2>3, KeptIs, TextIs
      <3>2. ASSUME i <= k PROVE tail[i + 1] = 1 + DigitAt(f, i)
        BY <1>1, <2>3, <3>1, <3>2, TextIs DEF Digit
      <3>3. ASSUME ~ (i <= k) PROVE DigitAt(f, i) = 0
        BY <3>1, <3>3, KeptIs
      <3>4. QED
        BY <2>1, <3>1, <3>2, <3>3
    <2>4. QED
      BY <2>2, <2>3
  <1>3. lead = V(lead)
    <2>1. ASSUME NEW i \in 0 .. Digits PROVE lead[i] = V(lead)[i]
      <3>1. CASE i = 0
        BY <3>1, LeadingDigits
      <3>2. CASE i # 0
        <4>1. i \in 1 .. Digits /\ lead[i - 1] = Leading(f, i - 1)
          BY <3>2
        <4>2. Leading(f, i) = Leading(f, i - 1) * Base + DigitAt(f, i)
          BY <4>1, LeadingDigits
        <4>3. QED
          BY <1>2, <3>2, <4>1, <4>2
      <3>3. QED
        BY <3>1, <3>2
    <2>2. V(lead) = [i \in 0 .. Digits |-> V(lead)[i]]
      OBVIOUS
    <2>3. lead = [i \in 0 .. Digits |-> lead[i]]
      OBVIOUS
    <2> HIDE DEF lead, V
    <2>4. QED
      BY <2>1, <2>2, <2>3
  <1>4. read = V(read)
    <2> HIDE DEF lead, V
    <2>1. QED
      BY <1>3
  <1>5. Value(tail) = read[Digits]
    BY DEF Value
  <1>6. \A i \in 0 .. Digits :
           read[i] = IF i = 0 THEN 0 ELSE read[i - 1] * Base + D(i)
    <2> HIDE DEF read, D
    <2>1. QED
      BY <1>4
  <1> HIDE DEF read, D, V
  <1> DEFINE S == {i \in 0 .. Digits : read[i] = Leading(f, i)}
  <1>7. 0 \in S
    BY <1>6, LeadingDigits
  <1>8. ASSUME NEW i \in 1 .. Digits, i - 1 \in S PROVE i \in S
    <2>1. read[i] = read[i - 1] * Base + D(i)
      BY <1>6
    <2>2. Leading(f, i) = Base * Leading(f, i - 1) + DigitAt(f, i)
          /\ Leading(f, i - 1) \in Int
      BY LeadingDigits
    <2>3. QED
      BY <1>2, <1>8, <2>1, <2>2
  <1>9. 0 .. Digits \subseteq S
    <2> HIDE DEF S
    <2>1. QED
      BY <1>7, <1>8, Induction
  <1>10. QED
    BY <1>1, <1>5, <1>9, LeadingDigits

-----------------------------------------------------------------------------
(* A row is the text of the very instant at which what was said ends.      *)

EndOf(said) == IF said.by = "date" THEN EndOfDay(said.at) ELSE said.at

Exact(said, row) ==
    /\ said \in Said \cup {NoRow, Never}
    /\ said \in {NoRow, Never} => row = said
    /\ said \in Said => EndOf(said) \in Nat /\ row = FormatTime(EndOf(said))

IInv ==
    /\ clock \in Clock
    /\ Exact(until, expires)
    /\ Exact(lasts, session) /\ lasts # Never

LEMMA TimesAreNumbers ==
    /\ Clock \subseteq Nat /\ Time \subseteq Nat
    /\ \A d \in Int : EndOfDay(d) \in Int
    /\ \A said \in Said : EndOf(said) \in Int
  <1>1. FarSec * Tick \in Nat /\ (FarSec + Day) * Tick \in Nat
    BY TickPositive, CalendarAssumption
  <1>2. ASSUME NEW d \in Int PROVE EndOfDay(d) \in Int
    <2>1. (d + 1) * Day + Midnight \in Int
      BY CalendarAssumption
    <2>2. QED
      BY <2>1, TickPositive DEF EndOfDay
  <1>3. ASSUME NEW said \in Said PROVE EndOf(said) \in Int
    BY <1>2 DEF EndOf, Said
  <1>4. QED
    BY <1>1, <1>2, <1>3 DEF Clock, Time

LEMMA SaidIsNoMark == NoRow \notin Said /\ Never \notin Said /\ NoRow # Never
  BY MarksAssumption

LEMMA SaidIs ==
    ASSUME NEW by \in {"date", "time"}, NEW at \in Int
    PROVE  [by |-> by, at |-> at] \in Said
  BY DEF Said

LEMMA GrantedIsExact ==
    ASSUME NEW said \in Said, EndOf(said) \in Nat
    PROVE  Exact(said, FormatTime(EndOf(said)))
  BY SaidIsNoMark DEF Exact

LEMMA ExpiryInit == Init => IInv
  BY SaidIsNoMark DEF Init, IInv, Exact

LEMMA ExpiryStep == IInv /\ [Next]_vars => IInv'
  <1> SUFFICES ASSUME IInv, [Next]_vars PROVE IInv'
    OBVIOUS
  <1>1. CASE GrantByDate
    <2>1. PICK d \in 0 .. FarSec \div Day :
             /\ EndOfDay(d) \in Time
             /\ Grant(FormatTime(EndOfDay(d)), [by |-> "date", at |-> d])
      BY <1>1 DEF GrantByDate
    <2>2. PICK said \in Said : said = [by |-> "date", at |-> d]
      <3>1. [by |-> "date", at |-> d] \in Said
        BY SaidIs
      <3>2. QED
        BY <3>1, Zenon
    <2>3. EndOf(said) = EndOfDay(d) /\ EndOf(said) \in Nat
      BY <2>1, <2>2, TimesAreNumbers DEF EndOf
    <2>4. Exact(said, FormatTime(EndOfDay(d)))
      BY <2>3, GrantedIsExact
    <2>5. QED
      BY <2>1, <2>2, <2>4 DEF IInv, Grant, Exact, Said
  <1>2. CASE GrantByTime
    <2>1. PICK t \in Time : Grant(FormatTime(t), [by |-> "time", at |-> t])
      BY <1>2 DEF GrantByTime
    <2>2. t \in Nat
      BY TimesAreNumbers
    <2>3. PICK said \in Said : said = [by |-> "time", at |-> t]
      <3>1. [by |-> "time", at |-> t] \in Said
        BY <2>2, SaidIs
      <3>2. QED
        BY <3>1, Zenon
    <2>4. EndOf(said) = t
      BY <2>3 DEF EndOf
    <2>5. Exact(said, FormatTime(t))
      BY <2>2, <2>4, GrantedIsExact
    <2>6. QED
      BY <2>1, <2>3, <2>5 DEF IInv, Grant, Exact, Said
  <1>3. CASE GrantForEver
    BY <1>3, SaidIsNoMark DEF GrantForEver, Grant, IInv, Exact
  <1>4. CASE Revoke
    BY <1>4, SaidIsNoMark DEF Revoke, Grant, IInv, Exact
  <1>5. CASE Login
    <2>1. PICK t \in Nat : t = clock + TTL
      BY TimesAreNumbers, TTLAssumption DEF IInv
    <2>2. PICK said \in Said : said = [by |-> "time", at |-> t]
      <3>1. [by |-> "time", at |-> t] \in Said
        BY <2>1, SaidIs
      <3>2. QED
        BY <3>1, Zenon
    <2>3. EndOf(said) = t
      BY <2>2 DEF EndOf
    <2>4. Exact(said, FormatTime(t)) /\ said # Never
      BY <2>1, <2>3, GrantedIsExact, SaidIsNoMark
    <2>5. QED
      BY <1>5, <2>1, <2>2, <2>4 DEF Login, IInv, Exact
  <1>6. CASE Advance
    BY <1>6 DEF Advance, IInv, Exact
  <1>7. CASE UNCHANGED vars
    BY <1>7 DEF vars, IInv, Exact
  <1>8. QED
    BY <1>1, <1>2, <1>3, <1>4, <1>5, <1>6, <1>7 DEF Next

(* The types, and that a stored text is one RFC3339Nano writes: a fraction *)
(* of at most Digits digits that does not end in a zero.                   *)
THEOREM TypeCorrect == Spec => []TypeOK
  <1>1. IInv => TypeOK
    <2> SUFFICES ASSUME IInv PROVE TypeOK
      OBVIOUS
    <2>1. ASSUME NEW said, NEW row, Exact(said, row)
          PROVE  /\ row \in {NoRow, Never} \/ IsText(row)
                 /\ said \in Said => row \notin {NoRow, Never}
                 /\ said \notin Said => row = said
      BY <2>1, FormatIsText, MarksAssumption DEF Exact
    <2>2. QED
      BY <2>1, SaidIsNoMark DEF IInv, Exact, TypeOK
  <1>2. QED
    BY <1>1, ExpiryInit, ExpiryStep, PTL DEF Spec

-----------------------------------------------------------------------------
(* What was said and what is stored end in the same second.                *)

LEMMA SecondAtLeast ==
    ASSUME NEW t \in Int, NEW m \in Int
    PROVE  Second(t) \in Int /\ (m <= Second(t) <=> m * Tick <= t)
  BY TickPositive, Division, AtLeast DEF Second

LEMMA LocalDayEnds ==
    ASSUME NEW t \in Int, NEW d \in Int
    PROVE  LocalDay(t) <= d <=> t < EndOfDay(d)
  <1>1. PICK s \in Int : s = Second(t)
    BY SecondAtLeast
  <1>2. PICK m \in Int : m = (d + 1) * Day + Midnight
    BY CalendarAssumption
  <1>3. LocalDay(t) \in Int /\ LocalDay(t) = (s - Midnight) \div Day
    BY <1>1, CalendarAssumption, Division DEF LocalDay
  <1>4. d + 1 <= LocalDay(t) <=> (d + 1) * Day <= s - Midnight
    BY <1>3, CalendarAssumption, AtLeast
  <1>5. (d + 1) * Day <= s - Midnight <=> m <= s
    <2>1. (d + 1) * Day \in Int
      BY CalendarAssumption
    <2>2. QED
      BY <1>2, <2>1, CalendarAssumption
  <1>6. m <= s <=> m * Tick <= t
    BY <1>1, SecondAtLeast
  <1>7. EndOfDay(d) = m * Tick /\ m * Tick \in Int
    BY <1>2, TickPositive DEF EndOfDay
  <1>8. LocalDay(t) <= d <=> ~ (d + 1 <= LocalDay(t))
    BY <1>3
  <1>9. t < EndOfDay(d) <=> ~ (m * Tick <= t)
    BY <1>7
  <1>10. QED
    BY <1>4, <1>5, <1>6, <1>8, <1>9

LEMMA LastsUntilTheEnd ==
    ASSUME NEW said \in Said, NEW t \in Int
    PROVE  Lasts(said, t) <=> t < EndOf(said)
  <1>1. said # NoRow /\ said # Never
    BY SaidIsNoMark
  <1>2. said.at \in Int
    BY DEF Said
  <1>3. QED
    BY <1>1, <1>2, LocalDayEnds DEF Lasts, EndOf

LEMMA HoldableEnds ==
    ASSUME NEW said \in Said, Holdable(said)
    PROVE  Second(EndOf(said)) < FarSec
  <1>1. PICK e \in Int : e = EndOf(said)
    BY TimesAreNumbers
  <1>2. FarSec * Tick \in Int /\ FarSec \in Int
    BY TickPositive, CalendarAssumption
  <1>3. ~ (FarSec * Tick - 1 < e)
    BY <1>1, <1>2, LastsUntilTheEnd, SaidIsNoMark DEF Holdable
  <1>4. ~ (FarSec * Tick <= e)
    BY <1>2, <1>3
  <1>5. QED
    BY <1>1, <1>2, <1>4, SecondAtLeast

LEMMA ClockIsHoldable ==
    ASSUME clock \in Clock
    PROVE  clock \in Nat /\ Second(clock) < FarSec
  <1>1. FarSec * Tick \in Int /\ FarSec \in Int /\ clock \in Nat
    BY TickPositive, CalendarAssumption, TimesAreNumbers
  <1>2. ~ (FarSec * Tick <= clock)
    BY <1>1 DEF Clock
  <1>3. QED
    BY <1>1, <1>2, SecondAtLeast

(* Texts compare as the seconds do where those differ. *)
LEMMA SecondsDecide ==
    ASSUME NEW s \in Nat, NEW t \in Nat, Second(s) < FarSec, Second(t) < FarSec
    PROVE  /\ Second(s) > Second(t) => After(FormatTime(s), FormatTime(t))
           /\ Second(s) < Second(t) => ~ After(FormatTime(s), FormatTime(t))
  <1>1. PICK m \in Int, n \in Int : m = Second(s) /\ n = Second(t)
    BY SecondAtLeast
  <1>2. /\ FormatTime(s).far = FormatTime(t).far
        /\ FormatTime(s).sec = m /\ FormatTime(t).sec = n
    BY <1>1, CalendarAssumption DEF FormatTime
  <1>3. QED
    BY <1>1, <1>2 DEF After

LEMMA MisledWithinTheSecond ==
    ASSUME clock \in Clock, NEW said \in Said, Holdable(said),
           NEW row, Exact(said, row)
    PROVE  (After(row, FormatTime(clock)) <=> Lasts(said, clock)) \/ EndsNow(said)
  <1>1. PICK e \in Nat : e = EndOf(said) /\ row = FormatTime(e)
    BY DEF Exact
  <1>2. PICK m \in Int, n \in Int : m = Second(e) /\ n = Second(clock)
    BY <1>1, ClockIsHoldable, SecondAtLeast
  <1>3. clock \in Nat /\ m < FarSec /\ n < FarSec
    BY <1>1, <1>2, ClockIsHoldable, HoldableEnds
  <1>4. Lasts(said, clock) <=> clock < e
    BY <1>1, <1>3, LastsUntilTheEnd
  <1>5. CASE n < m
    <2>1. After(row, FormatTime(clock))
      BY <1>1, <1>2, <1>3, <1>5, SecondsDecide
    <2>2. m * Tick <= e /\ ~ (m * Tick <= clock) /\ m * Tick \in Int
      BY <1>2, <1>3, <1>5, SecondAtLeast, TickPositive
    <2>3. clock < e
      BY <1>3, <2>2
    <2>4. QED
      BY <1>4, <2>1, <2>3
  <1>6. CASE m < n
    <2>1. ~ After(row, FormatTime(clock))
      BY <1>1, <1>2, <1>3, <1>6, SecondsDecide
    <2>2. n * Tick <= clock /\ ~ (n * Tick <= e) /\ n * Tick \in Int
      BY <1>2, <1>3, <1>6, SecondAtLeast, TickPositive
    <2>3. ~ (clock < e)
      BY <1>3, <2>2
    <2>4. QED
      BY <1>4, <2>1, <2>3
  <1>7. CASE m = n
    <2>1. PICK first \in Int : first = n * Tick
      BY TickPositive
    <2>2. first <= e /\ ~ (first + Tick <= e)
      <3>1. (n + 1) * Tick = first + Tick
        BY <2>1, TickPositive
      <3>2. n <= Second(e) /\ ~ (n + 1 <= Second(e))
        BY <1>2, <1>7
      <3>3. QED
        BY <2>1, <3>1, <3>2, SecondAtLeast
    <2>3. first - 1 < e /\ ~ (first + Tick - 1 < e)
      BY <2>2, TickPositive
    <2>4. Lasts(said, first - 1) /\ ~ Lasts(said, first + Tick - 1)
      BY <1>1, <2>3, LastsUntilTheEnd, TickPositive
    <2>5. QED
      BY <1>2, <2>1, <2>4 DEF EndsNow
  <1>8. QED
    BY <1>2, <1>5, <1>6, <1>7

(* Access and sessions end in the second they should, whatever fraction of *)
(* it the text ends with: HasAccess and UserBySession compare texts.       *)
THEOREM EndsWithinTheSecond == Spec => []WithinTheSecond
  <1>1. IInv => WithinTheSecond
    <2> SUFFICES ASSUME IInv PROVE WithinTheSecond
      OBVIOUS
    <2>1. ASSUME NEW said \in Said, NEW row, Exact(said, row)
          PROVE  row \notin {NoRow, Never}
      BY <2>1, FormatIsText, MarksAssumption DEF Exact
    <2>2. ASSUME Holdable(until) PROVE (HasAccess <=> Lasts(until, clock)) \/ EndsNow(until)
      <3>1. CASE until \in Said
        BY <2>1, <2>2, <3>1, MisledWithinTheSecond DEF IInv, HasAccess
      <3>2. CASE until \in {NoRow, Never}
        BY <3>2, SaidIsNoMark DEF IInv, Exact, HasAccess, Lasts
      <3>3. QED
        BY <3>1, <3>2 DEF IInv, Exact
    <2>3. ASSUME Holdable(lasts) PROVE (LoggedIn <=> Lasts(lasts, clock)) \/ EndsNow(lasts)
      <3>1. CASE lasts \in Said
        BY <2>1, <2>3, <3>1, MisledWithinTheSecond DEF IInv, LoggedIn
      <3>2. CASE lasts = NoRow
        BY <3>2, SaidIsNoMark DEF IInv, Exact, LoggedIn, Lasts
      <3>3. QED
        BY <3>1, <3>2 DEF IInv, Exact
    <2>4. QED
      BY <2>2, <2>3 DEF WithinTheSecond
  <1>2. QED
    BY <1>1, ExpiryInit, ExpiryStep, PTL DEF Spec

(* Who has access until a date has it to the last instant of that day in   *)
(* the server's zone (parseExpiry): a midnight begins a second, so that    *)
(* the texts' order agrees with the times'.                                *)
THEOREM DatesLastTheDay == Spec => []DatesNeverEndEarly
  <1>1. IInv => DatesNeverEndEarly
    <2> SUFFICES ASSUME IInv, until \in Said, until.by = "date",
                        Holdable(until), Lasts(until, clock)
                 PROVE  HasAccess
      BY DEF DatesNeverEndEarly
    <2>1. PICK e \in Nat : e = EndOf(until) /\ expires = FormatTime(e)
      BY DEF IInv, Exact
    <2>2. PICK m \in Int : e = m * Tick
      <3>1. until.at \in Int
        BY DEF Said
      <3>2. (until.at + 1) * Day + Midnight \in Int
        BY <3>1, CalendarAssumption
      <3>3. QED
        BY <2>1, <3>2 DEF EndOf, EndOfDay
    <2>3. clock \in Nat /\ Second(clock) < FarSec /\ Second(e) < FarSec
      BY <2>1, ClockIsHoldable, HoldableEnds DEF IInv
    <2>4. clock < e
      BY <2>1, <2>3, LastsUntilTheEnd
    <2>5. m <= Second(e) /\ ~ (m <= Second(clock)) /\ Second(e) \in Int /\ Second(clock) \in Int
      BY <2>2, <2>3, <2>4, SecondAtLeast
    <2>6. After(expires, FormatTime(clock))
      BY <2>1, <2>3, <2>5, SecondsDecide
    <2>7. expires \notin {NoRow, Never}
      BY <2>1, FormatIsText, MarksAssumption
    <2>8. QED
      BY <2>6, <2>7 DEF HasAccess
  <1>2. QED
    BY <1>1, ExpiryInit, ExpiryStep, PTL DEF Spec

(* The pages compare times (scanEntitlement), and what parseTime reads is  *)
(* what formatTime was given.                                              *)
THEOREM PagesAreExact == Spec => []PageIsExact
  <1>1. IInv => PageIsExact
    <2> SUFFICES ASSUME IInv, Holdable(until) PROVE Active <=> Lasts(until, clock)
      BY DEF PageIsExact
    <2>1. CASE until \in Said
      <3>1. PICK e \in Nat : e = EndOf(until) /\ expires = FormatTime(e)
        BY <2>1 DEF IInv, Exact
      <3>2. ParseTime(expires) = e
        <4>1. PICK m \in Int : m = Second(e) /\ m < FarSec
          BY <2>1, <3>1, HoldableEnds, SecondAtLeast
        <4>2. /\ expires.far = (Second(e) >= FarSec)
              /\ expires.sec = Second(e) /\ expires.tail = Text(Fraction(e))
          BY <3>1, Zenon DEF FormatTime
        <4>3. ~ (Second(e) >= FarSec)
          BY <4>1, CalendarAssumption
        <4>4. ParseTime(expires) = m * Tick + Value(Text(Fraction(e)))
          BY <4>1, <4>2, <4>3, Zenon DEF ParseTime
        <4>5. Value(Text(Fraction(e))) = Fraction(e)
          BY SecondAndFraction, ValueIs
        <4>6. QED
          BY <4>1, <4>4, <4>5, SecondAndFraction
      <3>3. expires \notin {NoRow, Never}
        BY <3>1, FormatIsText, MarksAssumption
      <3>4. clock \in Nat /\ (Lasts(until, clock) <=> clock < e)
        BY <2>1, <3>1, ClockIsHoldable, LastsUntilTheEnd DEF IInv
      <3>5. QED
        BY <3>2, <3>3, <3>4 DEF Active
    <2>2. CASE until \in {NoRow, Never}
      BY <2>2, SaidIsNoMark DEF IInv, Exact, Active, Lasts
    <2>3. QED
      BY <2>1, <2>2 DEF IInv, Exact
  <1>2. QED
    BY <1>1, ExpiryInit, ExpiryStep, PTL DEF Spec
=============================================================================
