-------------------------- MODULE FrameStreamProofs --------------------------
(***************************************************************************)
(* What holds of the frame codec and of read_buffer_ for every width of a  *)
(* byte and of the length fields, every limit and every cut of the stream: *)
(* what createFrame writes is what parseHeader and decodePayload read, the *)
(* frames handled are those sent, and read_buffer_ stays small.            *)
(***************************************************************************)
EXTENDS FrameStream, SequenceTheorems, WellFoundedInduction, TLAPS

(* Induction and recursion.  The library's theorems take an operator; these *)
(* take a set and a function, which the provers can instantiate.            *)

\* Induction on a set of numbers.
LEMMA Induct ==
    ASSUME NEW S \in SUBSET Nat, 0 \in S, \A n \in S : n + 1 \in S
    PROVE  S = Nat
<1> DEFINE R == OpToRel(<, Nat)
           T == Nat \ S
<1> SUFFICES ASSUME T # {} PROVE FALSE
  OBVIOUS
<1>1. \A x, y \in Nat : y < x => <<y, x>> \in R
  BY DEF OpToRel
<1>2. IsWellFoundedOn(R, Nat)
  BY NatLessThanWellFounded
<1> HIDE DEF R
<1>3. PICK x \in T : \A y \in T : ~(<<y, x>> \in R)
  <2>1. T \subseteq Nat
    OBVIOUS
  <2> HIDE DEF T
  <2> QED
    BY <1>2, <2>1, WFMin
<1>4. x \in Nat /\ x # 0 /\ \A y \in Nat : y < x => y \in S
  BY <1>1, <1>3
<1>5. x - 1 \in S
  BY <1>4
<1> QED
  BY <1>3, <1>4, <1>5

\* A function on the numbers up to n that starts with e and follows step.
Follows(g, n, V, e, step) ==
    /\ g \in [0..n -> V] /\ g[0] = e
    /\ \A i \in 0..n - 1 : g[i + 1] = step[<<i, g[i]>>]

\* Recursion over the numbers up to n, for a step given as a function.
LEMMA Recursion ==
    ASSUME NEW V, NEW e \in V, NEW step \in [Nat \X V -> V]
    PROVE  \A n \in Nat : \E g : Follows(g, n, V, e, step)
<1> DEFINE S == {n \in Nat : \E g : Follows(g, n, V, e, step)}
<1>1. 0 \in S
  <2> DEFINE g == [i \in 0..0 |-> e]
  <2>1. Follows(g, 0, V, e, step)
    BY DEF Follows
  <2> QED
    BY <2>1
<1>2. ASSUME NEW n \in S PROVE n + 1 \in S
  <2>1. PICK g : Follows(g, n, V, e, step)
    OBVIOUS
  <2> DEFINE h == [i \in 0..n + 1 |-> IF i = n + 1 THEN step[<<n, g[n]>>] ELSE g[i]]
  <2>2. n \in Nat /\ g[n] \in V
    BY <2>1 DEF Follows
  <2>3. step[<<n, g[n]>>] \in V
    BY <2>2
  <2>4. h \in [0..n + 1 -> V] /\ h[0] = e
    BY <2>1, <2>2, <2>3 DEF Follows
  <2>5. ASSUME NEW i \in 0..n PROVE h[i + 1] = step[<<i, h[i]>>]
    <3>1. CASE i = n
      <4> HIDE DEF h
      <4>1. h[n + 1] = step[<<n, g[n]>>] /\ h[n] = g[n]
        BY <2>2 DEF h
      <4> QED
        BY <3>1, <4>1
    <3>2. CASE i # n
      <4>1. i \in 0..n - 1 /\ h[i] = g[i] /\ h[i + 1] = g[i + 1]
        BY <2>2, <3>2
      <4> QED
        BY <2>1, <4>1 DEF Follows
    <3> QED
      BY <3>1, <3>2
  <2>6. (n + 1) - 1 = n
    BY <2>2
  <2> HIDE DEF h
  <2>7. Follows(h, n + 1, V, e, step)
    BY <2>4, <2>5, <2>6 DEF Follows
  <2> QED
    BY <2>2, <2>7
<1>3. S = Nat
  <2> HIDE DEF S
  <2>1. S \in SUBSET Nat
    BY DEF S
  <2> QED
    BY <1>1, <1>2, <2>1, Induct
<1> QED
  BY <1>3

\* Two such functions agree as far as both go.
LEMMA FollowsOnce ==
    ASSUME NEW V, NEW e, NEW step, NEW m \in Nat, NEW n \in Nat, m <= n,
           NEW g, Follows(g, m, V, e, step), NEW h, Follows(h, n, V, e, step)
    PROVE  \A i \in 0..m : g[i] = h[i]
<1> DEFINE S == {i \in Nat : i <= m => g[i] = h[i]}
<1>1. 0 \in S
  BY DEF Follows
<1>2. ASSUME NEW i \in S PROVE i + 1 \in S
  <2>1. i \in Nat /\ i + 1 \in Nat
    OBVIOUS
  <2>2. ASSUME i + 1 <= m PROVE g[i + 1] = h[i + 1]
    <3>1. i \in 0..m - 1 /\ i \in 0..n - 1 /\ g[i] = h[i]
      BY <2>1, <2>2
    <3> QED
      BY <3>1 DEF Follows
  <2> QED
    BY <2>1, <2>2
<1>3. S = Nat
  <2> HIDE DEF S
  <2>1. S \in SUBSET Nat
    BY DEF S
  <2> QED
    BY <1>1, <1>2, <2>1, Induct
<1> QED
  BY <1>3
\* A function on all numbers that starts with e and follows step.
FollowsOn(f, V, e, step) ==
    /\ f \in [Nat -> V] /\ f[0] = e
    /\ \A n \in Nat : f[n + 1] = step[<<n, f[n]>>]

\* Recursion over all numbers.
LEMMA Recursive ==
    ASSUME NEW V, NEW e \in V, NEW step \in [Nat \X V -> V]
    PROVE  \E f : FollowsOn(f, V, e, step)
<1> DEFINE Up(n) == CHOOSE g : Follows(g, n, V, e, step)
           f == [n \in Nat |-> Up(n)[n]]
<1>1. ASSUME NEW n \in Nat PROVE Follows(Up(n), n, V, e, step)
  BY Recursion
<1> HIDE DEF Up
<1>2. f \in [Nat -> V]
  BY <1>1 DEF Follows
<1>3. f[0] = e
  BY <1>1 DEF Follows
<1>4. ASSUME NEW n \in Nat PROVE f[n + 1] = step[<<n, f[n]>>]
  <2>1. Follows(Up(n), n, V, e, step) /\ Follows(Up(n + 1), n + 1, V, e, step)
    BY <1>1
  <2>2. Up(n)[n] = Up(n + 1)[n]
    <3>1. n <= n + 1 /\ n + 1 \in Nat
      OBVIOUS
    <3>2. \A i \in 0..n : Up(n)[i] = Up(n + 1)[i]
      BY <2>1, <3>1, FollowsOnce
    <3> QED
      BY <3>2
  <2>3. Up(n + 1)[n + 1] = step[<<n, Up(n + 1)[n]>>]
    BY <2>1 DEF Follows
  <2>4. f[n] = Up(n)[n] /\ f[n + 1] = Up(n + 1)[n + 1]
    OBVIOUS
  <2> QED
    BY <2>2, <2>3, <2>4
<1> HIDE DEF f
<1>5. FollowsOn(f, V, e, step)
  BY <1>2, <1>3, <1>4 DEF FollowsOn
<1> QED
  BY <1>5

\* Power is Base to the n.
LEMMA Powers ==
    /\ Power[0] = 1
    /\ \A n \in Nat : Power[n] \in Nat \ {0} /\ Power[n + 1] = Base * Power[n]
<1> DEFINE step == [p \in Nat \X Nat |-> Base * p[2]]
           Def(f) == [n \in Nat |-> IF n = 0 THEN 1 ELSE Base * f[n - 1]]
<1>1. Base \in Nat \ {0}
  BY FrameAssumption DEF FrameAssumption
<1>2. PICK f : FollowsOn(f, Nat, 1, step)
  <2>1. step \in [Nat \X Nat -> Nat]
    BY <1>1
  <2> HIDE DEF step
  <2> QED
    BY <2>1, Recursive
<1>3. ASSUME NEW n \in Nat \ {0} PROVE f[n] = Base * f[n - 1]
  <2>1. n - 1 \in Nat /\ (n - 1) + 1 = n
    OBVIOUS
  <2>2. f[n] = step[<<n - 1, f[n - 1]>>] /\ f[n - 1] \in Nat
    BY <1>2, <2>1 DEF FollowsOn
  <2> QED
    BY <2>1, <2>2
<1> HIDE DEF step
<1>4. f = Def(f)
  BY <1>2, <1>3 DEF FollowsOn
<1>5. Power = Def(Power)
  BY <1>4 DEF Power
<1> HIDE DEF Def
<1>6. Power[0] = 1 /\ \A n \in Nat : Power[n + 1] = Base * Power[n]
  <2>1. Power[0] = Def(Power)[0] /\ \A n \in Nat : Power[n + 1] = Def(Power)[n + 1]
    BY <1>5
  <2>2. Def(Power)[0] = 1
    BY DEF Def
  <2>3. ASSUME NEW n \in Nat PROVE Def(Power)[n + 1] = Base * Power[n]
    <3>1. n + 1 \in Nat /\ n + 1 # 0 /\ (n + 1) - 1 = n
      OBVIOUS
    <3>2. Def(Power)[n + 1] = Base * Power[(n + 1) - 1]
      BY <3>1 DEF Def
    <3> QED
      BY <3>1, <3>2
  <2> HIDE DEF Def
  <2> QED
    BY <2>1, <2>2, <2>3
<1>7. Power[0] = 1 /\ \A n \in Nat : Power[n] \in Nat \ {0}
  <2> DEFINE S == {n \in Nat : Power[n] \in Nat \ {0}}
  <2>1. 0 \in S
    BY <1>6
  <2>2. ASSUME NEW n \in S PROVE n + 1 \in S
    <3>1. n \in Nat /\ Power[n] \in Nat \ {0} /\ Power[n + 1] = Base * Power[n]
      BY <1>6
    <3>2. \A a \in Nat \ {0}, b \in Nat \ {0} : a * b \in Nat \ {0}
      OBVIOUS
    <3> QED
      BY <1>1, <3>1, <3>2
  <2> HIDE DEF S
  <2>3. S \in SUBSET Nat
    BY DEF S
  <2>4. S = Nat
    BY <2>1, <2>2, <2>3, Induct
  <2> QED
    BY <2>4, <1>6 DEF S
<1> QED
  BY <1>6, <1>7

\* Number adds up the bytes from the first to the last.
LEMMA Numbers ==
    ASSUME NEW bytes \in Seq(Byte)
    PROVE  \E value : /\ value[0] = 0
                      /\ \A i \in 1..Len(bytes) : value[i] = value[i - 1] * Base + bytes[i]
                      /\ Number(bytes) = value[Len(bytes)]
<1> DEFINE n == Len(bytes)
           Def(v) == [i \in 0..n |-> IF i = 0 THEN 0 ELSE v[i - 1] * Base + bytes[i]]
           step == [p \in Nat \X Nat |-> IF p[1] < n THEN p[2] * Base + bytes[p[1] + 1] ELSE 0]
           value == CHOOSE v : v = Def(v)
<1>1. Base \in Nat \ {0} /\ n \in Nat
  BY FrameAssumption DEF FrameAssumption
<1>2. \A i \in 1..n : bytes[i] \in Nat
  BY <1>1 DEF Byte
<1>3. step \in [Nat \X Nat -> Nat]
  <2>1. ASSUME NEW p \in Nat \X Nat PROVE step[p] \in Nat
    <3>1. p[1] \in Nat /\ p[2] \in Nat /\ p[2] * Base \in Nat
      BY <1>1
    <3>2. p[1] < n => bytes[p[1] + 1] \in Nat
      BY <1>1, <1>2, <3>1
    <3> QED
      BY <3>1, <3>2
  <2> QED
    BY <2>1
<1>4. PICK g : Follows(g, n, Nat, 0, step)
  <2> HIDE DEF step, n
  <2> QED
    BY <1>1, <1>3, Recursion
<1>5. g = Def(g)
  <2>1. g \in [0..n -> Nat] /\ g[0] = 0
    BY <1>4 DEF Follows
  <2>2. ASSUME NEW i \in 1..n PROVE g[i] = g[i - 1] * Base + bytes[i]
    <3>1. i - 1 \in 0..n - 1 /\ (i - 1) + 1 = i /\ i - 1 \in Nat /\ i - 1 < n
      BY <1>1
    <3>2. g[i - 1] \in Nat
      BY <2>1, <3>1, <1>1
    <3>3. g[i] = step[<<i - 1, g[i - 1]>>]
      BY <1>4, <3>1 DEF Follows
    <3> QED
      BY <3>1, <3>2, <3>3
  <2> HIDE DEF step
  <2> QED
    BY <2>1, <2>2, <1>1
<1>6. value = Def(value)
  <2> HIDE DEF Def
  <2> QED
    BY <1>5
<1>7. Number(bytes) = value[n]
  BY DEF Number
<1>8. /\ Def(value)[0] = 0
      /\ \A i \in 1..n : Def(value)[i] = value[i - 1] * Base + bytes[i]
  <2> HIDE DEF value
  <2>1. Def(value)[0] = 0
    BY <1>1
  <2>2. ASSUME NEW i \in 1..n PROVE Def(value)[i] = value[i - 1] * Base + bytes[i]
    BY <1>1
  <2> HIDE DEF Def
  <2> QED
    BY <2>1, <2>2
<1> HIDE DEF Def, value
<1>9. value[0] = 0 /\ \A i \in 1..n : value[i] = value[i - 1] * Base + bytes[i]
  BY <1>6, <1>8
<1> QED
  BY <1>7, <1>9

\* The last digit, and the number without it.
LEMMA Division ==
    ASSUME NEW n \in Nat, NEW p \in Nat \ {0}, NEW b \in Nat \ {0}
    PROVE  n \div p = (n \div (b * p)) * b + ((n \div p) % b)
<1>1. n \div p \in Nat
  OBVIOUS
<1>2. n \div (b * p) = (n \div p) \div b
  <2>1. n \div (p * b) = (n \div p) \div b
    BY SMT
  <2>2. p * b = b * p
    OBVIOUS
  <2> QED
    BY <2>1, <2>2
<1>3. \A d \in Nat : d = (d \div b) * b + (d % b)
  BY SMT
<1> QED
  BY <1>1, <1>2, <1>3

\* A length that fits k bytes is read back from the k bytes written for it.
THEOREM ReadsBack ==
    ASSUME NEW n \in Nat, NEW k \in Nat, n < Power[k]
    PROVE  /\ Digits(n, k) \in Seq(Byte) /\ Len(Digits(n, k)) = k
           /\ Number(Digits(n, k)) = n
<1> DEFINE digits == Digits(n, k)
<1>1. Base \in Nat \ {0}
  BY FrameAssumption DEF FrameAssumption
<1>2. \A i \in 1..k : k - i \in Nat /\ Power[k - i] \in Nat \ {0}
  BY Powers
<1>3. \A i \in 1..k : digits[i] \in Byte
  <2>1. ASSUME NEW i \in 1..k PROVE (n \div Power[k - i]) % Base \in Byte
    <3>1. \A a \in Nat, b \in Nat \ {0} : a \div b \in Nat
      BY SMT
    <3>2. \A a \in Nat, b \in Nat \ {0} : a % b \in 0..b - 1
      BY SMT
    <3>3. n \div Power[k - i] \in Nat
      BY <1>2, <3>1
    <3> QED
      BY <1>1, <3>2, <3>3 DEF Byte
  <2> QED
    BY <2>1 DEF Digits
<1>4. digits \in Seq(Byte) /\ Len(digits) = k
  <2>1. digits = [i \in 1..k |-> digits[i]]
    BY DEF Digits
  <2> HIDE DEF digits
  <2> QED
    BY <1>3, <2>1
<1>5. PICK value : /\ value[0] = 0
                   /\ \A i \in 1..k : value[i] = value[i - 1] * Base + digits[i]
                   /\ Number(digits) = value[k]
  <2> HIDE DEF digits
  <2> QED
    BY <1>4, Numbers
<1> DEFINE S == {i \in Nat : i <= k => value[i] = n \div Power[k - i]}
<1>6. 0 \in S
  <2>1. \A p \in Nat \ {0} : n < p => n \div p = 0
    BY SMT
  <2>2. n \div Power[k] = 0
    BY <2>1, Powers
  <2>3. k - 0 = k
    OBVIOUS
  <2> QED
    BY <1>5, <2>2, <2>3
<1>7. ASSUME NEW i \in S PROVE i + 1 \in S
  <2> SUFFICES ASSUME i + 1 <= k PROVE value[i + 1] = n \div Power[k - (i + 1)]
    OBVIOUS
  <2> DEFINE q == k - (i + 1)
  <2>1. i \in Nat /\ i + 1 \in 1..k /\ (i + 1) - 1 = i /\ q \in Nat /\ q + 1 = k - i
    OBVIOUS
  <2>2. value[i] = n \div Power[q + 1]
    BY <2>1
  <2>3. digits[i + 1] = (n \div Power[q]) % Base
    BY <2>1 DEF Digits
  <2>4. value[i + 1] = value[i] * Base + digits[i + 1]
    BY <1>5, <2>1
  <2> HIDE DEF q, digits
  <2>5. Power[q] \in Nat \ {0} /\ Power[q + 1] = Base * Power[q]
    BY <2>1, Powers
  <2>6. n \div Power[q] = (n \div (Base * Power[q])) * Base + ((n \div Power[q]) % Base)
    BY <1>1, <2>5, Division
  <2>7. value[i + 1] = n \div Power[q]
    BY <2>2, <2>3, <2>4, <2>5, <2>6
  <2> QED
    BY <2>7 DEF q
<1>8. S = Nat
  <2> HIDE DEF S
  <2>1. S \in SUBSET Nat
    BY DEF S
  <2> QED
    BY <1>6, <1>7, <2>1, Induct
<1>9. Number(digits) = n
  <2>1. k - k = 0 /\ n \div 1 = n
    OBVIOUS
  <2>2. value[k] = n \div Power[0]
    BY <1>8, <2>1
  <2> QED
    BY <1>5, <2>1, <2>2, Powers
<1> QED
  BY <1>4, <1>9

-----------------------------------------------------------------------------
(* Bytes, and lengths written in bytes.                                    *)

\* The sizes that follow from the constants.
LEMMA Sizes ==
    /\ Flag \in Nat /\ Small \in Nat /\ MaxHeader \in Nat /\ ShortMax \in Int
    /\ Short \in Nat \ {0} /\ Wide \in Nat \ {0} /\ KeyLen \in Nat \ {0} /\ MaxFrame \in Nat
    /\ Short < Wide
<1>1. ShortMax \in Int
  BY Powers, FrameAssumption DEF ShortMax, FrameAssumption
<1>2. Flag \in Nat /\ Flag >= 16
  BY FrameAssumption DEF FrameAssumption, Flag
<1> QED
  BY <1>1, <1>2, FrameAssumption DEF FrameAssumption, Small, MaxHeader

\* The flag is the upper half of a byte; an opcode fits the four bits below it.
LEMMA Flags ==
    /\ Flag \in Nat /\ Flag >= 16 /\ Small = Flag - 3 /\ Byte = 0..2 * Flag - 1
    /\ \A o \in Opcodes : /\ o \in Nat /\ Flag + o \in Byte
                          /\ (Flag + o) % 16 = o /\ Flag + o >= Flag
    /\ \A c \in 0..Flag - 1 : c \in Byte /\ Flag + c \in Byte
<1>1. PICK m \in Nat : Base = 32 * m
  <2>1. Base \in Nat /\ Base % 32 = 0
    BY FrameAssumption DEF FrameAssumption
  <2>2. Base = 32 * (Base \div 32) /\ Base \div 32 \in Nat
    BY <2>1
  <2> QED
    BY <2>2
<1>2. m # 0
  BY <1>1, FrameAssumption DEF FrameAssumption
<1>3. Flag = 16 * m /\ Flag \in Nat /\ Flag >= 16 /\ Base = 2 * Flag
  BY <1>1, <1>2 DEF Flag
<1>4. ASSUME NEW o \in Opcodes
      PROVE  o \in Nat /\ Flag + o \in Byte /\ (Flag + o) % 16 = o /\ Flag + o >= Flag
  <2>1. o \in 0..15
    BY DEF Opcodes, Opcode
  <2> QED
    BY <1>1, <1>2, <1>3, <2>1 DEF Byte
<1>5. ASSUME NEW c \in 0..Flag - 1 PROVE c \in Byte /\ Flag + c \in Byte
  BY <1>3 DEF Byte
<1> QED
  BY <1>3, <1>4, <1>5 DEF Small, Byte

\* The second byte: the bits below the flag, and whether it is set.
LEMMA FlagBits ==
    ASSUME NEW c \in 0..Flag - 1, NEW b, b \in {c, Flag + c}
    PROVE  b % Flag = c /\ (b >= Flag <=> b = Flag + c)
<1>1. c \in Nat /\ c < Flag /\ Flag \in Nat \ {0}
  BY Flags
<1>2. \A x \in Nat, y \in Nat \ {0} : x < y => x % y = x /\ (y + x) % y = x
  BY SMT
<1> QED
  BY <1>1, <1>2

\* A length is written in a form that fits it.
LEMMA Lengths ==
    ASSUME NEW n \in Nat, n < Power[Wide]
    PROVE  LET code == LengthCode(n)
               extra == ExtraBytes(code)
           IN  /\ code \in 0..Flag - 1 /\ extra \in Nat
               /\ extra = 0 => code = n
               /\ n < Power[extra] \/ extra = 0
               /\ extra = (IF n < Small + 1 THEN 0 ELSE IF n > ShortMax THEN Wide ELSE Short)
<1>1. Small \in Nat /\ Small + 2 < Flag /\ Flag \in Nat
  BY Flags
<1>2. ShortMax \in Int /\ (n <= ShortMax => n < Power[Short])
  BY Sizes, Powers DEF ShortMax
<1>3. CASE n <= Small
  BY <1>1, <1>3 DEF LengthCode, ExtraBytes
<1>4. CASE n > Small /\ n <= ShortMax
  BY <1>1, <1>2, <1>4, Sizes DEF LengthCode, ExtraBytes
<1>5. CASE n > Small /\ n > ShortMax
  <2>1. LengthCode(n) = Small + 2 /\ ExtraBytes(Small + 2) = Wide
    BY <1>1, <1>2, <1>5 DEF LengthCode, ExtraBytes
  <2> QED
    BY <1>1, <1>2, <1>5, <2>1, Sizes
<1> QED
  BY <1>1, <1>2, <1>3, <1>4, <1>5

\* The elements of a concatenation.
LEMMA Concat ==
    ASSUME NEW A, NEW s \in Seq(A), NEW t \in Seq(A)
    PROVE  /\ s \o t \in Seq(A) /\ Len(s \o t) = Len(s) + Len(t)
           /\ \A i \in 1..Len(s) : (s \o t)[i] = s[i]
           /\ \A i \in 1..Len(t) : (s \o t)[Len(s) + i] = t[i]
OBVIOUS

\* Masking keeps bytes bytes.
LEMMA MaskedBytes ==
    ASSUME NEW payload \in Seq(Byte), NEW key \in Seq(Byte), Len(key) = KeyLen
    PROVE  Masked(payload, key) \in Seq(Byte) /\ Len(Masked(payload, key)) = Len(payload)
<1> DEFINE n == Len(payload)
           k(i) == key[((i - 1) % KeyLen) + 1]
<1>1. ASSUME NEW i \in 1..n PROVE Xor(payload[i], k(i)) \in Byte
  <2>1. n \in Nat /\ i \in Nat /\ i - 1 \in Nat
    OBVIOUS
  <2>2. (i - 1) % KeyLen \in 0..(KeyLen - 1)
    BY <2>1, Sizes
  <2>3. ((i - 1) % KeyLen) + 1 \in 1..Len(key)
    BY <2>2, Sizes
  <2>4. k(i) \in Byte /\ payload[i] \in Byte
    BY <2>3, <2>1
  <2> QED
    BY <2>4, FrameAssumption DEF FrameAssumption
<1>2. Masked(payload, key) = [i \in 1..n |-> Xor(payload[i], k(i))]
  BY DEF Masked
<1> QED
  BY <1>1, <1>2

\* decodePayload undoes the masking of createFrame, whatever ^ may be that is
\* its own inverse (frame.cpp:118, 131-146).
THEOREM UnmaskingRestores ==
    ASSUME NEW payload \in Seq(Byte), NEW key \in Seq(Byte), Len(key) = KeyLen
    PROVE  DecodePayload([masked |-> TRUE, masking_key |-> key], Masked(payload, key)) = payload
<1> DEFINE n == Len(payload)
           k(i) == key[((i - 1) % KeyLen) + 1]
           masked == Masked(payload, key)
<1>1. n \in Nat /\ payload = [i \in 1..n |-> payload[i]]
  OBVIOUS
<1>2. ASSUME NEW i \in 1..n
      PROVE  /\ k(i) \in Byte /\ payload[i] \in Byte
             /\ Xor(Xor(payload[i], k(i)), k(i)) = payload[i]
  <2>1. (i - 1) % KeyLen \in 0..(KeyLen - 1)
    BY <1>1, Sizes
  <2>2. ((i - 1) % KeyLen) + 1 \in 1..Len(key)
    BY <2>1, Sizes
  <2>3. k(i) \in Byte /\ payload[i] \in Byte
    BY <2>2, <1>1
  <2> QED
    BY <2>3, FrameAssumption DEF FrameAssumption
<1>3. masked = [i \in 1..n |-> Xor(payload[i], k(i))]
  BY DEF Masked
<1>4. Len(masked) = n
  BY <1>1, <1>3
<1>5. Masked(masked, key) = [i \in 1..n |-> Xor(masked[i], k(i))]
  BY <1>4 DEF Masked
<1>6. \A i \in 1..n : Xor(masked[i], k(i)) = payload[i]
  BY <1>2, <1>3
<1>7. Masked(masked, key) = [i \in 1..n |-> payload[i]]
  BY <1>5, <1>6
<1> QED
  BY <1>7, <1>1 DEF DecodePayload

\* The same for sequences over two sets.
LEMMA ConcatUnion ==
    ASSUME NEW A, NEW B, NEW s \in Seq(A), NEW t \in Seq(B)
    PROVE  s \o t \in Seq(A \cup B) /\ Len(s \o t) = Len(s) + Len(t)
<1>1. s \in Seq(A \cup B) /\ t \in Seq(A \cup B)
  OBVIOUS
<1> QED
  BY <1>1

\* The length field takes the bytes that headerSize counts.
LEMMA LengthField ==
    ASSUME NEW n \in Nat
    PROVE  ExtraBytes(LengthCode(n)) = (IF n < Small + 1 THEN 0
                                        ELSE IF n > ShortMax THEN Wide ELSE Short)
BY Sizes DEF ExtraBytes, LengthCode

\* A frame is as long as headerSize says, for every length of the payload and
\* with or without a mask (frame.cpp:62-124).
THEOREM HeaderSizeAgrees ==
    ASSUME NEW opcode \in Nat, NEW payload \in Seq(Byte), NEW masked \in BOOLEAN,
           NEW key \in Seq(Byte), Len(key) = KeyLen
    PROVE  Len(CreateFrame(opcode, payload, masked, key)) =
               HeaderSize([masked |-> masked, payload_length |-> Len(payload)]) + Len(payload)
<1> DEFINE n == Len(payload)
           extra == ExtraBytes(LengthCode(n))
           first == <<Flag + opcode, (IF masked THEN Flag ELSE 0) + LengthCode(n)>>
           length == Digits(n, extra)
           mixed == Masked(payload, key)
           body == IF masked THEN key \o mixed ELSE payload
           mask == IF masked THEN KeyLen ELSE 0
           L == {length[i] : i \in 1..extra}
           M == {mixed[i] : i \in 1..n}
           F == Nat \cup {first[2]}
<1>1. n \in Nat
  OBVIOUS
<1>2. extra \in Nat
  BY <1>1, LengthField, Sizes
<1>3. length \in Seq(L) /\ Len(length) = extra
  BY <1>2 DEF Digits
<1>4. mixed \in Seq(M) /\ Len(mixed) = n
  BY <1>1 DEF Masked
<1>5. first \in Seq(F) /\ Len(first) = 2
  BY Sizes
<1> HIDE DEF length, first, mixed, L, M, F, extra
<1>6. body \in Seq(Byte \cup M) /\ Len(body) = n + mask
  <2>1. key \o mixed \in Seq(Byte \cup M) /\ Len(key \o mixed) = KeyLen + n
    BY <1>4, ConcatUnion
  <2>2. payload \in Seq(Byte \cup M)
    OBVIOUS
  <2> QED
    BY <2>1, <2>2, <1>1, Sizes
<1> HIDE DEF body
<1> DEFINE head == first \o length
<1>7. head \in Seq(F \cup L) /\ Len(head) = 2 + extra
  <2>1. first \in Seq(F) /\ length \in Seq(L)
    BY <1>3, <1>5
  <2>2. head \in Seq(F \cup L) /\ Len(head) = Len(first) + Len(length)
    BY <2>1, ConcatUnion
  <2> QED
    BY <2>2, <1>3, <1>5
<1> HIDE DEF head
<1>8. Len(head \o body) = 2 + extra + Len(body)
  <2>1. body \in Seq(Byte \cup M) /\ head \in Seq(F \cup L)
    BY <1>6, <1>7
  <2>2. Len(head \o body) = Len(head) + Len(body)
    BY <2>1, ConcatUnion
  <2> QED
    BY <2>2, <1>7
<1>9. CreateFrame(opcode, payload, masked, key) = head \o body
  BY DEF CreateFrame, first, length, body, mixed, extra, head
<1> DEFINE header == [masked |-> masked, payload_length |-> n]
<1>10. HeaderSize(header) = 2 + extra + mask
  <2>1. header.masked = masked /\ header.payload_length = n
    OBVIOUS
  <2>2. HeaderSize(header) = 2 + (IF n < Small + 1 THEN 0 ELSE IF n > ShortMax THEN Wide ELSE Short)
                               + (IF masked THEN KeyLen ELSE 0)
    BY <2>1 DEF HeaderSize
  <2> QED
    BY <2>2, <1>1, LengthField DEF extra
<1> HIDE DEF header
<1>11. Len(CreateFrame(opcode, payload, masked, key)) = HeaderSize(header) + n
  <2>1. Len(body) = n + mask
    BY <1>6
  <2>2. Len(CreateFrame(opcode, payload, masked, key)) = 2 + extra + Len(body)
    BY <1>8, <1>9
  <2>3. mask \in Nat
    BY Sizes
  <2> HIDE DEF mask
  <2> QED
    BY <2>1, <2>2, <2>3, <1>1, <1>2, <1>10
<1> QED
  BY <1>11 DEF header

-----------------------------------------------------------------------------
(* The codec.                                                              *)

\* What createFrame writes, byte by byte (frame.cpp:76-124).
LEMMA Layout ==
    ASSUME NEW opcode \in Opcodes, NEW payload \in Seq(Byte), Len(payload) < Power[Wide],
           NEW masked \in BOOLEAN, NEW key \in Seq(Byte), Len(key) = KeyLen
    PROVE  LET n     == Len(payload)
               code  == LengthCode(n)
               extra == ExtraBytes(code)
               mask  == IF masked THEN KeyLen ELSE 0
               body  == IF masked THEN Masked(payload, key) ELSE payload
               frame == CreateFrame(opcode, payload, masked, key)
           IN  /\ frame \in Seq(Byte) /\ Len(frame) = 2 + extra + mask + n
               /\ frame[1] = Flag + opcode
               /\ frame[2] = (IF masked THEN Flag ELSE 0) + code
               /\ \A i \in 1..extra : frame[2 + i] = Digits(n, extra)[i]
               /\ masked => \A i \in 1..KeyLen : frame[2 + extra + i] = key[i]
               /\ \A i \in 1..n : frame[2 + extra + mask + i] = body[i]
<1> DEFINE n == Len(payload)
           code == LengthCode(n)
           extra == ExtraBytes(code)
           mask == IF masked THEN KeyLen ELSE 0
           body == IF masked THEN Masked(payload, key) ELSE payload
           frame == CreateFrame(opcode, payload, masked, key)
           first == <<Flag + opcode, (IF masked THEN Flag ELSE 0) + code>>
           length == Digits(n, extra)
           head == first \o length
           tail == IF masked THEN key \o body ELSE body
<1>1. n \in Nat /\ n < Power[Wide]
  OBVIOUS
<1>2. code \in 0..Flag - 1 /\ extra \in Nat /\ (n < Power[extra] \/ extra = 0)
  BY <1>1, Lengths
<1>3. frame = head \o tail
  BY DEF CreateFrame
<1>4. length \in Seq(Byte) /\ Len(length) = extra
  <2>1. CASE extra = 0
    BY <2>1 DEF Digits
  <2>2. CASE n < Power[extra]
    BY <1>1, <1>2, <2>2, ReadsBack
  <2> QED
    BY <1>2, <2>1, <2>2
<1>5. /\ first \in Seq(Byte) /\ Len(first) = 2
      /\ first[1] = Flag + opcode /\ first[2] = (IF masked THEN Flag ELSE 0) + code
  <2>1. Flag + opcode \in Byte /\ code \in Byte /\ Flag + code \in Byte
    BY <1>2, Flags
  <2>2. (IF masked THEN Flag ELSE 0) + code \in Byte
    <3>1. CASE masked
      BY <2>1, <3>1
    <3>2. CASE ~masked
      BY <1>2, <2>1, <3>2
    <3> QED
      BY <3>1, <3>2
  <2> QED
    BY <2>1, <2>2
<1>6. body \in Seq(Byte) /\ Len(body) = n
  BY MaskedBytes
<1> HIDE DEF n, code, extra, first, length, body, frame
<1>7. /\ head \in Seq(Byte) /\ Len(head) = 2 + extra
      /\ head[1] = first[1] /\ head[2] = first[2]
      /\ \A i \in 1..extra : head[2 + i] = length[i]
  <2>1. /\ head \in Seq(Byte) /\ Len(head) = 2 + extra
        /\ \A i \in 1..2 : head[i] = first[i]
        /\ \A i \in 1..extra : head[2 + i] = length[i]
    <3>1. /\ head \in Seq(Byte) /\ Len(head) = Len(first) + Len(length)
          /\ \A i \in 1..Len(first) : head[i] = first[i]
          /\ \A i \in 1..Len(length) : head[Len(first) + i] = length[i]
      <4>1. first \in Seq(Byte) /\ length \in Seq(Byte)
        BY <1>4, <1>5
      <4> QED
        BY <4>1, Concat
    <3> HIDE DEF head
    <3> QED
      BY <1>4, <1>5, <3>1
  <2>2. 1 \in 1..2 /\ 2 \in 1..2
    OBVIOUS
  <2> HIDE DEF head
  <2> QED
    BY <2>1, <2>2
<1>8. /\ tail \in Seq(Byte) /\ Len(tail) = mask + n
      /\ masked => \A i \in 1..KeyLen : tail[i] = key[i]
      /\ \A i \in 1..n : tail[mask + i] = body[i]
  <2>1. CASE masked
    <3>1. /\ key \o body \in Seq(Byte) /\ Len(key \o body) = KeyLen + n
          /\ \A i \in 1..KeyLen : (key \o body)[i] = key[i]
          /\ \A i \in 1..n : (key \o body)[KeyLen + i] = body[i]
      BY <1>6, Concat
    <3> QED
      BY <2>1, <3>1
  <2>2. CASE ~masked
    BY <1>1, <1>6, <2>2
  <2> QED
    BY <2>1, <2>2
<1>9. mask \in Nat
  BY Sizes
<1> HIDE DEF head, tail, mask
<1>10. /\ frame \in Seq(Byte) /\ Len(frame) = (2 + extra) + (mask + n)
       /\ \A i \in 1..2 + extra : frame[i] = head[i]
       /\ \A i \in 1..mask + n : frame[(2 + extra) + i] = tail[i]
  <2>1. /\ frame \in Seq(Byte) /\ Len(frame) = Len(head) + Len(tail)
        /\ \A i \in 1..Len(head) : frame[i] = head[i]
        /\ \A i \in 1..Len(tail) : frame[Len(head) + i] = tail[i]
    <3>1. head \in Seq(Byte) /\ tail \in Seq(Byte)
      BY <1>7, <1>8
    <3> QED
      BY <1>3, <3>1, Concat
  <2> QED
    BY <1>7, <1>8, <2>1
<1>11. frame[1] = Flag + opcode /\ frame[2] = (IF masked THEN Flag ELSE 0) + code
  BY <1>2, <1>5, <1>7, <1>10
<1>12. \A i \in 1..extra : frame[2 + i] = length[i]
  <2>1. \A i \in 1..extra : 2 + i \in 1..2 + extra
    BY <1>2
  <2> QED
    BY <1>7, <1>10, <2>1
<1>13. ASSUME masked PROVE \A i \in 1..KeyLen : frame[2 + extra + i] = key[i]
  <2>1. mask = KeyLen
    BY <1>13 DEF mask
  <2>2. \A i \in 1..KeyLen : i \in 1..mask + n /\ frame[(2 + extra) + i] = tail[i]
    BY <1>1, <1>10, <2>1, Sizes
  <2> QED
    BY <1>8, <1>13, <2>2
<1>14. \A i \in 1..n : frame[2 + extra + mask + i] = body[i]
  <2>1. ASSUME NEW i \in 1..n PROVE frame[2 + extra + mask + i] = body[i]
    <3>1. mask + i \in 1..mask + n /\ 2 + extra + mask + i = (2 + extra) + (mask + i)
      BY <1>1, <1>2, <1>9
    <3>2. frame[(2 + extra) + (mask + i)] = tail[mask + i] /\ tail[mask + i] = body[i]
      BY <1>8, <1>10, <3>1
    <3> QED
      BY <3>1, <3>2
  <2> QED
    BY <2>1
<1>15. Len(frame) = 2 + extra + mask + n
  BY <1>1, <1>2, <1>9, <1>10
<1> QED
  BY <1>10, <1>11, <1>12, <1>13, <1>14, <1>15 DEF n, code, extra, mask, body, frame, length

\* parseHeader on what has arrived of a frame, and perhaps of those behind it:
\* it rejects no frame but one above the limit, waits for no more than the frame,
\* and reads the fields that createFrame wrote (frame.cpp:7-60).
LEMMA HeaderRead ==
    ASSUME NEW opcode \in Opcodes, NEW payload \in Seq(Byte), Len(payload) < Power[Wide],
           NEW masked \in BOOLEAN, NEW key \in Seq(Byte), Len(key) = KeyLen,
           NEW data \in Seq(Byte), NEW frame,
           frame = CreateFrame(opcode, payload, masked, key),
           \A i \in 1..Len(data) : i <= Len(frame) => data[i] = frame[i]
    PROVE  LET h == ParseHeader(data)
           IN  /\ h.result = "throw" => Len(payload) > MaxFrame
               /\ h.result = "wait" => Len(data) < Len(frame)
               /\ h.result = "ok" => /\ h.opcode = opcode /\ h.masked = masked
                                     /\ h.payload_length = Len(payload)
                                     /\ masked => h.masking_key = key
<1> DEFINE n == Len(payload)
           code == LengthCode(n)
           extra == ExtraBytes(code)
           mask == IF masked THEN KeyLen ELSE 0
           h == ParseHeader(data)
           start == 2 + extra
           field == SubSeq(data, 3, start)
           length == IF start = 2 THEN code ELSE Number(field)
           sees == SubSeq(data, start + 1, start + KeyLen)
           Right(r) == /\ r.result = "throw" => n > MaxFrame
                       /\ r.result = "wait" => Len(data) < Len(frame)
                       /\ r.result = "ok" => /\ r.opcode = opcode /\ r.masked = masked
                                             /\ r.payload_length = n
                                             /\ masked => r.masking_key = key
<1> SUFFICES Right(h)
  OBVIOUS
<1>1. n \in Nat /\ n < Power[Wide] /\ KeyLen \in Nat \ {0} /\ mask \in Nat
  BY Sizes
<1>2. /\ code \in 0..Flag - 1 /\ extra \in Nat /\ (extra = 0 => code = n)
      /\ n < Power[extra] \/ extra = 0
  BY <1>1, Lengths
<1>3. /\ frame \in Seq(Byte) /\ Len(frame) = start + mask + n
      /\ frame[1] = Flag + opcode
      /\ frame[2] = (IF masked THEN Flag ELSE 0) + code
      /\ \A i \in 1..extra : frame[2 + i] = Digits(n, extra)[i]
      /\ masked => \A i \in 1..KeyLen : frame[start + i] = key[i]
  BY Layout
<1> HIDE DEF code, extra, mask
<1>4. CASE Len(data) < 2
  <2>1. h = [result |-> "wait"]
    BY <1>4 DEF ParseHeader
  <2> QED
    BY <1>1, <1>2, <1>3, <1>4, <2>1
<1>5. CASE Len(data) >= 2
  <2>1. data[1] = Flag + opcode /\ data[2] = (IF masked THEN Flag ELSE 0) + code
    BY <1>1, <1>2, <1>3, <1>5
  <2>2. data[2] % Flag = code /\ (data[2] >= Flag <=> masked)
    <3>1. 0 + code = code /\ Flag \in Nat \ {0} /\ code # Flag + code
      BY <1>2, Flags
    <3>2. data[2] \in {code, Flag + code} /\ (masked <=> data[2] = Flag + code)
      BY <2>1, <3>1
    <3> QED
      BY <1>2, <3>2, FlagBits
  <2>3. data[1] % 16 = opcode
    BY <2>1, Flags
  <2>4. ASSUME Len(data) >= start PROVE length = n
    <3>1. CASE extra = 0
      BY <1>2, <3>1
    <3>2. CASE extra # 0
      <4>1. field \in Seq(Byte) /\ Len(field) = extra
        BY <1>2, <2>4
      <4>2. \A i \in 1..extra : field[i] = data[2 + i]
        BY <1>2, <2>4
      <4>3. \A i \in 1..extra : data[2 + i] = frame[2 + i]
        BY <1>1, <1>2, <1>3, <2>4
      <4>4. Digits(n, extra) \in Seq(Byte) /\ Len(Digits(n, extra)) = extra
            /\ Number(Digits(n, extra)) = n
        BY <1>1, <1>2, <3>2, ReadsBack
      <4> HIDE DEF field
      <4>5. \A i \in 1..extra : field[i] = Digits(n, extra)[i]
        BY <1>3, <4>2, <4>3
      <4>6. \A s, r \in Seq(Byte) :
                Len(s) = Len(r) /\ (\A i \in 1..Len(s) : s[i] = r[i]) => s = r
        OBVIOUS
      <4>7. field = Digits(n, extra)
        BY <4>1, <4>4, <4>5, <4>6
      <4>8. length = Number(field)
        <5>1. start # 2
          BY <1>2, <3>2
        <5> QED
          BY <5>1
      <4> QED
        BY <4>4, <4>7, <4>8
    <3> QED
      BY <3>1, <3>2
  <2>5. ASSUME masked, Len(data) >= start + KeyLen PROVE sees = key
    <3>1. sees \in Seq(Byte) /\ Len(sees) = KeyLen
      BY <1>1, <1>2, <2>5
    <3>2. \A i \in 1..KeyLen : sees[i] = data[start + i]
      BY <1>1, <1>2, <2>5
    <3>3. mask = KeyLen
      BY <2>5 DEF mask
    <3>4. \A i \in 1..KeyLen : data[start + i] = frame[start + i]
      <4>1. ASSUME NEW i \in 1..KeyLen PROVE data[start + i] = frame[start + i]
        <5>1. start + i \in 1..Len(data)
          BY <1>1, <1>2, <2>5
        <5>2. start + i <= Len(frame)
          BY <1>1, <1>2, <1>3, <3>3
        <5> QED
          BY <5>1, <5>2
      <4> QED
        BY <4>1
    <3> HIDE DEF sees
    <3>5. \A i \in 1..KeyLen : sees[i] = key[i]
      BY <1>3, <2>5, <3>2, <3>4
    <3>6. sees = key
      BY <3>1, <3>5
    <3> QED
      BY <3>6
  <2>6. h = IF Len(data) < 2 \/ Len(data) < start THEN [result |-> "wait"]
            ELSE IF OverLimit(length) THEN [result |-> "throw"]
            ELSE IF masked /\ Len(data) < start + KeyLen THEN [result |-> "wait"]
            ELSE [result |-> "ok", fin |-> data[1] >= Flag, opcode |-> opcode,
                  masked |-> masked, payload_length |-> length,
                  masking_key |-> IF masked THEN sees ELSE << >>]
    <3>1. (data[2] >= Flag) = masked
      BY <2>2
    <3> QED
      BY <2>2, <2>3, <3>1, Zenon DEF ParseHeader, extra
  <2> HIDE DEF h, length, sees, n
  <2>7. CASE Len(data) < start
    <3>1. h.result = "wait"
      BY <2>6, <2>7
    <3> QED
      BY <1>1, <1>2, <1>3, <2>7, <3>1
  <2>8. CASE Len(data) >= start /\ n > MaxFrame
    <3>1. OverLimit(length) /\ start \in Nat
      BY <1>1, <1>2, <2>4, <2>8, Sizes DEF OverLimit
    <3>2. h.result = "throw"
      BY <1>5, <2>6, <2>8, <3>1
    <3> QED
      BY <2>8, <3>2 DEF n
  <2>9. CASE Len(data) >= start /\ ~(n > MaxFrame)
    <3>1. ~OverLimit(length) /\ start \in Nat /\ length = n
      BY <1>1, <1>2, <2>4, <2>9, Sizes DEF OverLimit
    <3>2. CASE masked /\ Len(data) < start + KeyLen
      <4>1. h.result = "wait" /\ mask = KeyLen
        BY <1>5, <2>6, <2>9, <3>1, <3>2 DEF mask
      <4> QED
        BY <1>1, <1>3, <3>1, <3>2, <4>1
    <3>3. CASE ~(masked /\ Len(data) < start + KeyLen)
      <4>1. h = [result |-> "ok", fin |-> data[1] >= Flag, opcode |-> opcode,
                 masked |-> masked, payload_length |-> length,
                 masking_key |-> IF masked THEN sees ELSE << >>]
        BY <1>5, <2>6, <2>9, <3>1, <3>3
      <4>2. masked => sees = key
        BY <1>1, <2>5, <3>1, <3>3
      <4> QED
        BY <3>1, <4>1, <4>2 DEF n
    <3> QED
      BY <3>2, <3>3
  <2> QED
    BY <1>1, <1>2, <2>7, <2>8, <2>9
<1> QED
  BY <1>4, <1>5

\* A frame that has arrived whole: headerSize tells where it ends, and decodePayload
\* gives back its payload (frame.cpp:62-74, 126-140).
LEMMA FrameRead ==
    ASSUME NEW opcode \in Opcodes, NEW payload \in Seq(Byte), Len(payload) < Power[Wide],
           NEW masked \in BOOLEAN, NEW key \in Seq(Byte), Len(key) = KeyLen,
           NEW data \in Seq(Byte), NEW frame,
           frame = CreateFrame(opcode, payload, masked, key),
           \A i \in 1..Len(data) : i <= Len(frame) => data[i] = frame[i],
           ParseHeader(data).result = "ok"
    PROVE  LET h == ParseHeader(data)
           IN  /\ HeaderSize(h) + h.payload_length = Len(frame)
               /\ Len(data) >= Len(frame) =>
                      DecodePayload(h, SubSeq(data, HeaderSize(h) + 1, Len(frame))) = payload
<1> DEFINE n == Len(payload)
           extra == ExtraBytes(LengthCode(n))
           mask == IF masked THEN KeyLen ELSE 0
           body == IF masked THEN Masked(payload, key) ELSE payload
           h == ParseHeader(data)
           size == 2 + extra + mask
           arrived == SubSeq(data, size + 1, Len(frame))
<1>1. n \in Nat /\ n < Power[Wide] /\ mask \in Nat
  BY Sizes
<1>2. /\ extra \in Nat
      /\ extra = (IF n < Small + 1 THEN 0 ELSE IF n > ShortMax THEN Wide ELSE Short)
  BY <1>1, Lengths
<1>3. /\ frame \in Seq(Byte) /\ Len(frame) = size + n
      /\ \A i \in 1..n : frame[size + i] = body[i]
  BY Layout
<1>4. h.masked = masked /\ h.payload_length = n /\ (masked => h.masking_key = key)
  BY HeaderRead
<1>5. body \in Seq(Byte) /\ Len(body) = n
  BY MaskedBytes
<1>6. DecodePayload(h, body) = payload
  <2>1. CASE masked
    <3>1. Masked(Masked(payload, key), key) = payload
      BY UnmaskingRestores DEF DecodePayload
    <3> QED
      BY <1>4, <2>1, <3>1 DEF DecodePayload
  <2>2. CASE ~masked
    BY <1>4, <2>2 DEF DecodePayload
  <2> QED
    BY <2>1, <2>2
<1>7. HeaderSize(h) = size
  <2> HIDE DEF h, n
  <2>1. HeaderSize(h) = 2 + (IF n < Small + 1 THEN 0 ELSE IF n > ShortMax THEN Wide ELSE Short)
                          + (IF masked THEN KeyLen ELSE 0)
    BY <1>4 DEF HeaderSize
  <2> QED
    BY <1>2, <2>1
<1>8. ASSUME Len(data) >= Len(frame) PROVE arrived = body
  <2> HIDE DEF body, n, extra, mask
  <2>1. size \in Nat /\ Len(data) \in Nat /\ size + n <= Len(data)
    BY <1>1, <1>2, <1>3, <1>8
  <2> HIDE DEF size
  <2>2. arrived \in Seq(Byte) /\ Len(arrived) = n
    BY <1>1, <1>3, <2>1
  <2>3. ASSUME NEW i \in 1..n PROVE arrived[i] = body[i]
    <3>1. arrived[i] = data[size + i]
      BY <1>1, <1>3, <2>1
    <3>2. size + i \in 1..Len(data) /\ size + i <= Len(frame)
      BY <1>1, <1>3, <2>1
    <3>3. data[size + i] = frame[size + i] /\ frame[size + i] = body[i]
      BY <1>3, <3>2
    <3> QED
      BY <3>1, <3>3
  <2> HIDE DEF arrived
  <2> QED
    BY <1>5, <2>2, <2>3
<1> HIDE DEF h, n, size, body, arrived
<1> QED
  BY <1>3, <1>4, <1>6, <1>7, <1>8 DEF h, arrived

\* A frame of the peer is a sequence of at least two bytes.
LEMMA FrameBytes ==
    ASSUME NEW f \in Frames
    PROVE  Bytes(f) \in Seq(Byte) /\ Len(Bytes(f)) >= 2
<1> DEFINE n == Len(f.payload)
           extra == ExtraBytes(LengthCode(n))
           mask == IF f.masked THEN KeyLen ELSE 0
<1>1. /\ f.opcode \in Opcodes /\ f.masked \in BOOLEAN
      /\ f.payload \in Seq(Byte) /\ n < Power[Wide]
      /\ f.key \in Seq(Byte) /\ Len(f.key) = KeyLen
  BY StreamAssumption DEF StreamAssumption
<1>2. Bytes(f) \in Seq(Byte) /\ Len(Bytes(f)) = 2 + extra + mask + n
  BY <1>1, Layout DEF Bytes
<1>3. n \in Nat /\ extra \in Nat /\ mask \in Nat
  BY <1>1, Lengths, Sizes
<1> HIDE DEF n, extra, mask
<1> QED
  BY <1>2, <1>3

-----------------------------------------------------------------------------
(* read_buffer_ stays small.                                               *)

\* What BufferBounded needs to be inductive: bytes, and an expected size that
\* parseHeader has let pass.
BufferInv ==
    /\ wire \in Seq(Byte) /\ buffer \in Seq(Byte)
    /\ expected \in 0..MaxFrame
    /\ BufferBounded

\* parseHeader waits for less than a header, and lets no length above the limit pass.
LEMMA HeaderBounds ==
    ASSUME NEW data \in Seq(Byte)
    PROVE  LET h == ParseHeader(data)
           IN /\ h.result = "wait" => Len(data) < MaxHeader
              /\ h.result = "ok" => /\ h.payload_length \in 0..MaxFrame
                                   /\ HeaderSize(h) \in 2..MaxHeader
<1> DEFINE code == data[2] % Flag
           start == 2 + ExtraBytes(code)
           length == IF start = 2 THEN code ELSE Number(SubSeq(data, 3, start))
           h == ParseHeader(data)
<1>1. start \in 2..2 + Wide
  <2>1. ExtraBytes(code) \in {0, Short, Wide}
    BY DEF ExtraBytes
  <2> QED
    BY <2>1, Sizes
<1>2. h.result = "wait" => Len(data) < MaxHeader
  <2>1. h.result = "wait" => Len(data) < 2 \/ Len(data) < start \/ Len(data) < start + KeyLen
    BY DEF ParseHeader
  <2> QED
    BY <2>1, <1>1, Sizes DEF MaxHeader
<1>3. h.result = "ok" => h.payload_length = length /\ length \in 0..MaxFrame
  BY DEF ParseHeader, OverLimit
<1>4. ASSUME h.result = "ok" PROVE HeaderSize(h) \in 2..MaxHeader
  <2>1. ShortMax \in Int
    BY Sizes, FrameAssumption DEF ShortMax, FrameAssumption
  <2>2. h.payload_length \in Nat
    BY <1>3, <1>4, Sizes
  <2> HIDE DEF h
  <2> QED
    BY <2>1, <2>2, Sizes DEF HeaderSize, MaxHeader
<1> QED
  BY <1>2, <1>3, <1>4

\* One read asks for no more than the limit on a frame (websocket_connection.cpp:25-28).
LEMMA ReadSizeBounded ==
    ASSUME expected \in 0..MaxFrame PROVE ReadSize \in Nat /\ ReadSize <= MaxFrame
BY Sizes, StreamAssumption DEF ReadSize, StreamAssumption

\* The buffer starts empty.
LEMMA BufferInit == Init => BufferInv
BY Sizes DEF Init, BufferInv, BufferBounded, MaxHeader

\* Every step keeps the buffer within its bounds.
LEMMA BufferStep == BufferInv /\ [Next]_vars => BufferInv'
<1> SUFFICES ASSUME BufferInv, [Next]_vars PROVE BufferInv'
  OBVIOUS
<1> USE DEF BufferInv, BufferBounded
<1>1. CASE \E f \in Frames : PeerSends(f)
  <2>1. PICK f \in Frames : PeerSends(f)
    BY <1>1
  <2>2. Bytes(f) \in Seq(Byte)
    BY FrameBytes
  <2> QED
    BY <2>1, <2>2 DEF PeerSends
<1>2. CASE \E n \in 1..ReadSize : n <= Len(wire) /\ Receive(n)
  <2>1. PICK n \in 1..ReadSize : n <= Len(wire) /\ Receive(n)
    BY <1>2
  <2>2. n \in Nat /\ 1 <= n /\ n <= MaxFrame
    BY ReadSizeBounded, <2>1, Sizes
  <2>3. SubSeq(wire, 1, n) \in Seq(Byte) /\ Len(SubSeq(wire, 1, n)) = n
    BY <2>1, <2>2
  <2>4. SubSeq(wire, n + 1, Len(wire)) \in Seq(Byte)
    BY <2>1, <2>2
  <2>5. buffer' \in Seq(Byte) /\ Len(buffer') = Len(buffer) + n
    BY <2>1, <2>2, <2>3, Concat DEF Receive
  <2> QED
    BY <2>1, <2>2, <2>4, <2>5, Sizes DEF Receive
<1>3. CASE WaitForMore
  <2>1. Header.result = "wait" \/ Header.result = "ok"
    BY <1>3 DEF WaitForMore, Header, ParseHeader
  <2>2. Len(buffer) < MaxHeader + MaxFrame
    <3>1. CASE Header.result = "wait"
      BY <3>1, HeaderBounds, Sizes DEF Header
    <3>2. CASE Header.result = "ok"
      <4>1. Len(buffer) < FrameSize \/ ~(Len(buffer) >= FrameSize)
        BY <1>3, <3>2 DEF WaitForMore, Whole
      <4>2. HeaderSize(Header) \in 2..MaxHeader /\ Header.payload_length \in 0..MaxFrame
        BY <3>2, HeaderBounds DEF Header
      <4> QED
        BY <4>1, <4>2, Sizes DEF FrameSize
    <3> QED
      BY <2>1, <3>1, <3>2
  <2>3. expected' \in 0..MaxFrame
    BY <1>3, HeaderBounds DEF WaitForMore, Header
  <2> QED
    BY <1>3, <2>2, <2>3, Sizes DEF WaitForMore
<1>4. CASE HandleFrame
  <2>1. HeaderSize(Header) \in 2..MaxHeader /\ Header.payload_length \in 0..MaxFrame
    BY <1>4, HeaderBounds DEF HandleFrame, Whole, Header
  <2>2. FrameSize \in Nat /\ FrameSize <= Len(buffer)
    BY <1>4, <2>1, Sizes DEF HandleFrame, Whole, FrameSize
  <2>3. SubSeq(buffer, FrameSize + 1, Len(buffer)) \in Seq(Byte)
        /\ Len(SubSeq(buffer, FrameSize + 1, Len(buffer))) <= Len(buffer)
    BY <2>2
  <2> QED
    BY <1>4, <2>3, Sizes DEF HandleFrame, Opcode
<1>5. CASE Reject
  BY <1>5 DEF Reject
<1>6. CASE ReceiveClosed
  BY <1>6 DEF ReceiveClosed
<1>7. CASE CloseElsewhere
  BY <1>7 DEF CloseElsewhere
<1>8. CASE UNCHANGED vars
  BY <1>8 DEF vars
<1> QED
  BY <1>1, <1>2, <1>3, <1>4, <1>5, <1>6, <1>7, <1>8 DEF Next, Quiet

\* Whatever the peer sends and however it is cut, read_buffer_ stays below one
\* largest frame when a read is posted, and below two ever.
THEOREM BufferStaysBounded == Spec => []BufferBounded
<1>1. BufferInv => BufferBounded
  BY DEF BufferInv
<1> QED
  BY <1>1, BufferInit, BufferStep, PTL DEF Spec

-----------------------------------------------------------------------------
(* Bytes of the stream and frames of the peer.                             *)

\* What was not handled of the stream: what was read and what was not.
Rest == buffer \o wire

\* Where each frame that was sent and not handled ends in the rest.
Cut(off) ==
    /\ off \in [Count..Len(sent) -> Nat]
    /\ off[Count] = 0 /\ off[Len(sent)] = Len(Rest)
    /\ \A i, j \in Count..Len(sent) : i <= j => off[i] <= off[j]
    /\ \A i \in Count + 1..Len(sent) :
           /\ off[i] = off[i - 1] + Len(Bytes(sent[i]))
           /\ \A j \in 1..Len(Bytes(sent[i])) : Rest[off[i - 1] + j] = Bytes(sent[i])[j]

\* The types of the data path.
StreamTypes ==
    /\ sent \in Seq(Frames) /\ handled \in Seq({Meaning(f) : f \in Frames})
    /\ wire \in Seq(Byte) /\ buffer \in Seq(Byte)

\* A Close frame that was handled has closed the connection.
CloseIsHeard == \A i \in 1..Count : sent[i].opcode = Opcode.Close => isClosed

\* The inductive invariant: the bytes that are left are the frames that are left.
StreamInv ==
    /\ StreamTypes
    /\ FramesInOrder /\ NothingWithheld /\ RefusedForAReason
    /\ CloseIsHeard
    /\ \E off : Cut(off)

\* The buffer begins with the first frame that is left, as far as it has arrived.
LEMMA Front ==
    ASSUME StreamTypes, NEW off, Cut(off), Count < Len(sent)
    PROVE  LET frame == Bytes(sent[Count + 1])
           IN  /\ \A i \in 1..Len(buffer) : i <= Len(frame) => buffer[i] = frame[i]
               /\ Len(frame) = off[Count + 1] /\ Len(frame) <= Len(Rest)
<1> DEFINE frame == Bytes(sent[Count + 1])
           c == Count
<1>1. c \in Nat /\ Len(sent) \in Nat /\ c + 1 \in c + 1..Len(sent) /\ (c + 1) - 1 = c
      /\ c + 1 \in c..Len(sent) /\ Len(sent) \in c..Len(sent)
  BY DEF StreamTypes, Count
<1>2. sent[c + 1] \in Frames
  BY <1>1 DEF StreamTypes
<1>3. frame \in Seq(Byte) /\ Len(frame) \in Nat
  BY <1>2, FrameBytes
<1> HIDE DEF frame
<1>4. off[c + 1] = off[c] + Len(frame) /\ off[c] = 0 /\ off[c + 1] <= off[Len(sent)]
  BY <1>1 DEF Cut, frame
<1>5. \A j \in 1..Len(frame) : Rest[0 + j] = frame[j]
  BY <1>1, <1>4 DEF Cut, frame
<1>6. \A i \in 1..Len(buffer) : Rest[i] = buffer[i]
  BY Concat DEF Rest, StreamTypes
<1>7. ASSUME NEW i \in 1..Len(buffer), i <= Len(frame) PROVE buffer[i] = frame[i]
  <2>1. i \in 1..Len(frame) /\ 0 + i = i
    BY <1>3, <1>7
  <2> QED
    BY <1>5, <1>6, <2>1
<1>8. Len(frame) = off[c + 1] /\ Len(frame) <= Len(Rest)
  BY <1>1, <1>3, <1>4 DEF Cut
<1> QED
  BY <1>7, <1>8 DEF frame

\* When all frames were handled, no byte is left.
LEMMA NothingLeft ==
    ASSUME StreamTypes, NEW off, Cut(off), Count = Len(sent)
    PROVE  buffer = << >> /\ wire = << >>
<1>1. Len(Rest) = 0
  BY DEF Cut
<1>2. Len(Rest) = Len(buffer) + Len(wire)
  BY Concat DEF Rest, StreamTypes
<1>3. Len(buffer) \in Nat /\ Len(wire) \in Nat
  BY DEF StreamTypes
<1>4. Len(buffer) = 0 /\ Len(wire) = 0
  <2>1. \A a, b \in Nat : a + b = 0 => a = 0 /\ b = 0
    OBVIOUS
  <2>2. Len(buffer) + Len(wire) = 0
    BY <1>1, <1>2
  <2> QED
    BY <1>3, <2>1, <2>2
<1> QED
  BY <1>4, EmptySeq DEF StreamTypes

\* processData sees the first frame that is left, and nothing else.
LEMMA SeesTheFrame ==
    ASSUME StreamTypes, NEW off, Cut(off), Count <= Len(sent)
    PROVE  LET f == sent[Count + 1]
           IN  /\ Header.result = "throw" => Count < Len(sent) /\ Oversized(f)
               /\ Header.result = "wait" /\ Count < Len(sent) => Len(buffer) < Len(Bytes(f))
               /\ Header.result = "ok" =>
                      /\ Count < Len(sent) /\ Header.opcode = f.opcode
                      /\ FrameSize = Len(Bytes(f)) /\ ~Oversized(f)
                      /\ Whole => DecodePayload(Header, SubSeq(buffer, HeaderSize(Header) + 1,
                                                               FrameSize)) = f.payload
<1>1. CASE Count = Len(sent)
  <2>1. buffer = << >>
    BY <1>1, NothingLeft
  <2>2. Header = [result |-> "wait"]
    BY <2>1 DEF Header, ParseHeader
  <2> QED
    BY <1>1, <2>2 DEF StreamTypes, Count
<1>2. CASE Count < Len(sent)
  <2> DEFINE f == sent[Count + 1]
             frame == Bytes(f)
  <2>1. f \in Frames
    BY <1>2 DEF StreamTypes, Count
  <2>2. \A i \in 1..Len(buffer) : i <= Len(frame) => buffer[i] = frame[i]
    BY <1>2, Front
  <2> HIDE DEF f
  <2>3. /\ f.opcode \in Opcodes /\ f.masked \in BOOLEAN
        /\ f.payload \in Seq(Byte) /\ Len(f.payload) < Power[Wide]
        /\ f.key \in Seq(Byte) /\ Len(f.key) = KeyLen
    BY <2>1, StreamAssumption DEF StreamAssumption
  <2>4. frame = CreateFrame(f.opcode, f.payload, f.masked, f.key)
    BY DEF Bytes
  <2> HIDE DEF frame
  <2>5. buffer \in Seq(Byte)
    BY DEF StreamTypes
  <2>6. /\ Header.result = "throw" => Oversized(f)
        /\ Header.result = "wait" => Len(buffer) < Len(frame)
        /\ Header.result = "ok" =>
               Header.opcode = f.opcode /\ Header.payload_length = Len(f.payload)
    BY <2>2, <2>3, <2>4, <2>5, HeaderRead DEF Header, Oversized
  <2>7. ASSUME Header.result = "ok"
        PROVE  /\ FrameSize = Len(frame) /\ ~Oversized(f)
               /\ Whole => DecodePayload(Header, SubSeq(buffer, HeaderSize(Header) + 1,
                                                        FrameSize)) = f.payload
    <3>1. /\ HeaderSize(Header) + Header.payload_length = Len(frame)
          /\ Len(buffer) >= Len(frame) =>
                 DecodePayload(Header, SubSeq(buffer, HeaderSize(Header) + 1, Len(frame)))
                     = f.payload
      BY <2>2, <2>3, <2>4, <2>5, <2>7, FrameRead DEF Header
    <3>2. FrameSize = Len(frame)
      BY <3>1 DEF FrameSize
    <3>3. ~Oversized(f)
      <4>1. Len(f.payload) \in 0..MaxFrame
        BY <2>5, <2>6, <2>7, HeaderBounds DEF Header
      <4> QED
        BY <4>1, Sizes DEF Oversized
    <3> QED
      BY <3>1, <3>2, <3>3 DEF Whole
  <2> QED
    BY <1>2, <2>6, <2>7 DEF f, frame
<1> QED
  BY <1>1, <1>2 DEF StreamTypes, Count

\* A frame that is sent is cut off at the end.
LEMMA CutSends ==
    ASSUME StreamTypes, FramesInOrder, NEW off, Cut(off), NEW f \in Frames, PeerSends(f)
    PROVE  \E to : Cut(to)'
<1> DEFINE c == Count
           n == Len(sent)
           frame == Bytes(f)
<1> PICK to : to = [i \in c..n + 1 |-> IF i = n + 1 THEN off[n] + Len(frame) ELSE off[i]]
  OBVIOUS
<1>1. c \in Nat /\ n \in Nat /\ c <= n
  BY DEF StreamTypes, Count, FramesInOrder
<1>2. /\ sent' \in Seq(Frames) /\ Len(sent') = n + 1 /\ sent'[n + 1] = f
      /\ \A i \in 1..n : sent'[i] = sent[i]
      /\ Count' = c
  BY DEF StreamTypes, PeerSends, Count
<1>3. frame \in Seq(Byte) /\ Len(frame) \in Nat
  BY FrameBytes
<1>4. Rest \in Seq(Byte) /\ Len(Rest) \in Nat /\ Rest' = Rest \o frame
  <2>1. Rest' = buffer \o (wire \o frame)
    BY DEF PeerSends, Rest
  <2>2. buffer \o (wire \o frame) = (buffer \o wire) \o frame
    BY <1>3 DEF StreamTypes
  <2> QED
    BY <2>1, <2>2, Concat DEF Rest, StreamTypes
<1> HIDE DEF frame, n
<1>5. /\ Len(Rest') = Len(Rest) + Len(frame)
      /\ \A i \in 1..Len(Rest) : Rest'[i] = Rest[i]
      /\ \A i \in 1..Len(frame) : Rest'[Len(Rest) + i] = frame[i]
  BY <1>3, <1>4, Concat
<1>6. /\ off \in [c..n -> Nat] /\ off[c] = 0 /\ off[n] = Len(Rest)
      /\ \A i, j \in c..n : i <= j => off[i] <= off[j]
  BY DEF Cut, n
<1>7. /\ to \in [c..n + 1 -> Nat] /\ to[c] = 0 /\ to[n + 1] = Len(Rest')
      /\ \A i \in c..n : to[i] = off[i]
  BY <1>1, <1>3, <1>5, <1>6
<1> HIDE DEF c
<1>8. ASSUME NEW i \in c..n + 1, NEW j \in c..n + 1, i <= j PROVE to[i] <= to[j]
  <2>1. CASE j \in c..n
    BY <1>1, <1>6, <1>7, <1>8, <2>1
  <2>2. CASE j = n + 1 /\ i = n + 1
    BY <1>1, <1>7, <2>2
  <2>3. CASE j = n + 1 /\ i \in c..n
    <3>1. to[i] = off[i] /\ off[i] <= off[n] /\ off[i] \in Nat
      BY <1>1, <1>6, <1>7, <2>3
    <3> QED
      BY <1>3, <1>4, <1>5, <1>6, <1>7, <2>3, <3>1
  <2> QED
    BY <1>1, <1>8, <2>1, <2>2, <2>3
<1>9. ASSUME NEW i \in c + 1..n
      PROVE  LET bytes == Bytes(sent'[i])
             IN  /\ to[i] = to[i - 1] + Len(bytes)
                 /\ \A j \in 1..Len(bytes) : Rest'[to[i - 1] + j] = bytes[j]
  <2> DEFINE bytes == Bytes(sent[i])
  <2>1. i \in 1..n /\ i \in c..n /\ i - 1 \in c..n /\ sent'[i] = sent[i]
    BY <1>1, <1>2
  <2>2. /\ to[i] = off[i] /\ to[i - 1] = off[i - 1] /\ off[i] = off[i - 1] + Len(bytes)
        /\ \A j \in 1..Len(bytes) : Rest[off[i - 1] + j] = bytes[j]
    BY <1>7, <2>1 DEF Cut, c, n
  <2>3. sent[i] \in Frames
    BY <2>1 DEF StreamTypes, n
  <2>4. bytes \in Seq(Byte) /\ Len(bytes) \in Nat
    BY <2>3, FrameBytes
  <2> HIDE DEF bytes
  <2>5. off[i] <= Len(Rest) /\ off[i - 1] \in Nat
    BY <1>1, <1>6, <2>1
  <2>6. ASSUME NEW j \in 1..Len(bytes) PROVE Rest'[off[i - 1] + j] = bytes[j]
    <3>1. off[i - 1] + j \in 1..Len(Rest)
      BY <1>4, <2>2, <2>4, <2>5
    <3> QED
      BY <1>5, <2>2, <3>1
  <2> QED
    BY <2>1, <2>2, <2>6 DEF bytes
<1>10. LET bytes == Bytes(sent'[n + 1])
       IN  /\ to[n + 1] = to[(n + 1) - 1] + Len(bytes)
           /\ \A j \in 1..Len(bytes) : Rest'[to[(n + 1) - 1] + j] = bytes[j]
  <2>1. (n + 1) - 1 = n /\ n \in c..n /\ Bytes(sent'[n + 1]) = frame
    BY <1>1, <1>2 DEF frame
  <2>2. to[n] = Len(Rest) /\ to[n + 1] = Len(Rest) + Len(frame)
    BY <1>5, <1>6, <1>7, <2>1
  <2> QED
    BY <1>5, <2>1, <2>2
<1>11. \A i \in c + 1..n + 1 : i \in c + 1..n \/ i = n + 1
  BY <1>1
<1>12. Cut(to)'
  <2>1. Count' = c /\ Len(sent') = n + 1
    BY <1>2
  <2>2. to \in [Count'..Len(sent') -> Nat] /\ to[Count'] = 0 /\ to[Len(sent')] = Len(Rest')
    BY <1>7, <2>1
  <2>3. \A i, j \in Count'..Len(sent') : i <= j => to[i] <= to[j]
    BY <1>8, <2>1
  <2>4. \A i \in Count' + 1..Len(sent') :
            /\ to[i] = to[i - 1] + Len(Bytes(sent'[i]))
            /\ \A j \in 1..Len(Bytes(sent'[i])) : Rest'[to[i - 1] + j] = Bytes(sent'[i])[j]
    BY <1>9, <1>10, <1>11, <2>1
  <2> QED
    BY <2>2, <2>3, <2>4 DEF Cut, Bytes
<1> QED
  BY <1>12

\* A read moves bytes from the wire to the buffer: the rest is what it was.
LEMMA CutReceives ==
    ASSUME StreamTypes, NEW off, Cut(off), NEW n \in Nat, n <= Len(wire), Receive(n)
    PROVE  Cut(off)'
<1>1. Rest' = Rest
  <2>1. SubSeq(wire, 1, n) \in Seq(Byte) /\ SubSeq(wire, n + 1, Len(wire)) \in Seq(Byte)
        /\ wire = SubSeq(wire, 1, n) \o SubSeq(wire, n + 1, Len(wire))
    <3> DEFINE l == Len(wire)
               x == SubSeq(wire, 1, n)
               y == SubSeq(wire, n + 1, l)
    <3>1. /\ wire \in Seq(Byte) /\ l \in Nat
          /\ 1 \in 1..l + 1 /\ n \in 1 - 1..l /\ l \in n..l
      BY DEF StreamTypes
    <3>2. x \in Seq(Byte) /\ y \in Seq(Byte)
      BY <3>1
    <3>3. x \o y = SubSeq(wire, 1, l)
      BY <3>1, ConcatAdjacentSubSeq
    <3>4. SubSeq(wire, 1, l) = wire
      BY <3>1, SubSeqFull
    <3> QED
      BY <3>2, <3>3, <3>4
  <2> DEFINE x == SubSeq(wire, 1, n)
             y == SubSeq(wire, n + 1, Len(wire))
  <2>2. Rest' = (buffer \o x) \o y
    BY DEF Receive, Rest
  <2>3. x \in Seq(Byte) /\ y \in Seq(Byte) /\ wire = x \o y
    BY <2>1
  <2> HIDE DEF x, y
  <2>4. (buffer \o x) \o y = buffer \o (x \o y)
    BY <2>3 DEF StreamTypes
  <2> QED
    BY <2>2, <2>3, <2>4 DEF Rest
<1> QED
  BY <1>1 DEF Cut, Receive, Count, Bytes

\* What handleFrame leaves is cut behind the frame it took.
LEMMA CutHandles ==
    ASSUME StreamTypes, NEW off, Cut(off), Count < Len(sent), Whole, HandleFrame,
           FrameSize = Len(Bytes(sent[Count + 1])), Count' = Count + 1
    PROVE  \E to : Cut(to)'
<1> DEFINE c == Count
           n == Len(sent)
           size == FrameSize
<1> PICK to : to = [i \in c + 1..n |-> off[i] - size]
  OBVIOUS
<1>1. c \in Nat /\ n \in Nat /\ c < n
  BY DEF StreamTypes, Count
<1>2. /\ off \in [c..n -> Nat] /\ off[c] = 0 /\ off[n] = Len(Rest)
      /\ \A i, j \in c..n : i <= j => off[i] <= off[j]
  BY DEF Cut
<1>3. off[c + 1] = size /\ size \in Nat
  <2>1. off[c + 1] = Len(Bytes(sent[c + 1]))
    BY Front
  <2> QED
    BY <1>1, <1>2, <2>1
<1>4. size <= Len(buffer)
  BY DEF Whole
<1> HIDE DEF size
<1>5. /\ Rest \in Seq(Byte) /\ Rest' \in Seq(Byte) /\ Len(Rest') = Len(Rest) - size
      /\ \A i \in 1..Len(Rest') : Rest'[i] = Rest[size + i]
  <2> DEFINE left == SubSeq(buffer, size + 1, Len(buffer))
  <2>1. /\ left \in Seq(Byte) /\ Len(left) = Len(buffer) - size
        /\ \A i \in 1..Len(left) : left[i] = buffer[size + i]
    BY <1>3, <1>4 DEF StreamTypes
  <2>2. Rest' = left \o wire
    BY DEF HandleFrame, Rest, size
  <2>3. buffer \in Seq(Byte) /\ wire \in Seq(Byte) /\ Len(buffer) \in Nat /\ Len(wire) \in Nat
    BY DEF StreamTypes
  <2> HIDE DEF left
  <2>4. /\ Rest' \in Seq(Byte) /\ Len(Rest') = Len(left) + Len(wire)
        /\ \A i \in 1..Len(left) : Rest'[i] = left[i]
        /\ \A i \in 1..Len(wire) : Rest'[Len(left) + i] = wire[i]
    <3>1. left \in Seq(Byte) /\ wire \in Seq(Byte)
      BY <2>1, <2>3
    <3> QED
      BY <2>2, <3>1, Concat
  <2>5. /\ Rest \in Seq(Byte) /\ Len(Rest) = Len(buffer) + Len(wire)
        /\ \A i \in 1..Len(buffer) : Rest[i] = buffer[i]
        /\ \A i \in 1..Len(wire) : Rest[Len(buffer) + i] = wire[i]
    BY <2>3, Concat DEF Rest
  <2>6. ASSUME NEW i \in 1..Len(Rest') PROVE Rest'[i] = Rest[size + i]
    <3>1. CASE i \in 1..Len(left)
      <4>1. size + i \in 1..Len(buffer)
        BY <1>3, <1>4, <2>1, <2>3, <3>1
      <4> QED
        BY <2>1, <2>4, <2>5, <3>1, <4>1
    <3>2. CASE i \notin 1..Len(left)
      <4> DEFINE k == i - Len(left)
      <4>1. k \in 1..Len(wire) /\ i = Len(left) + k /\ size + i = Len(buffer) + k
        BY <1>3, <1>4, <2>1, <2>3, <2>4, <3>2
      <4> QED
        BY <2>4, <2>5, <4>1
    <3> QED
      BY <3>1, <3>2
  <2> QED
    BY <1>3, <1>4, <2>1, <2>3, <2>4, <2>5, <2>6
<1>6. /\ to \in [c + 1..n -> Nat] /\ to[c + 1] = 0 /\ to[n] = Len(Rest')
      /\ \A i, j \in c + 1..n : i <= j => to[i] <= to[j]
  <2>1. \A i \in c + 1..n : off[i] \in Nat /\ size <= off[i]
    BY <1>1, <1>2, <1>3
  <2>2. c + 1 \in c + 1..n /\ n \in c + 1..n /\ n \in c..n
    BY <1>1
  <2>3. to \in [c + 1..n -> Nat] /\ \A i \in c + 1..n : to[i] = off[i] - size
    BY <1>3, <2>1
  <2>4. to[c + 1] = 0 /\ to[n] = Len(Rest')
    BY <1>2, <1>3, <1>5, <2>2, <2>3
  <2>5. ASSUME NEW i \in c + 1..n, NEW j \in c + 1..n, i <= j PROVE to[i] <= to[j]
    <3>1. off[i] <= off[j]
      BY <1>1, <1>2, <2>5
    <3> QED
      BY <1>3, <2>1, <2>3, <3>1
  <2> QED
    BY <2>3, <2>4, <2>5
<1>7. ASSUME NEW i \in (c + 1) + 1..n
      PROVE  LET bytes == Bytes(sent[i])
             IN  /\ to[i] = to[i - 1] + Len(bytes)
                 /\ \A j \in 1..Len(bytes) : Rest'[to[i - 1] + j] = bytes[j]
  <2> DEFINE bytes == Bytes(sent[i])
  <2>1. i \in c + 1..n /\ i - 1 \in c + 1..n /\ i - 1 \in c..n /\ i \in c..n /\ i \in 1..n
    BY <1>1
  <2>2. sent[i] \in Frames
    BY <2>1 DEF StreamTypes
  <2>3. bytes \in Seq(Byte) /\ Len(bytes) \in Nat
    BY <2>2, FrameBytes
  <2>4. /\ off[i] = off[i - 1] + Len(bytes)
        /\ \A j \in 1..Len(bytes) : Rest[off[i - 1] + j] = bytes[j]
    BY <2>1 DEF Cut
  <2>5. to[i] = off[i] - size /\ to[i - 1] = off[i - 1] - size
    BY <2>1
  <2>6. /\ off[i] \in Nat /\ off[i - 1] \in Nat /\ size <= off[i - 1] /\ off[i] <= Len(Rest)
    <3>1. n \in c..n /\ c + 1 \in c..n /\ i <= n /\ c + 1 <= i - 1
      BY <1>1
    <3>2. off[i] \in Nat /\ off[i - 1] \in Nat
      BY <1>2, <2>1
    <3>3. off[c + 1] <= off[i - 1] /\ off[i] <= off[n]
      BY <1>2, <2>1, <3>1
    <3> QED
      BY <1>2, <1>3, <3>2, <3>3
  <2> HIDE DEF bytes
  <2>7. ASSUME NEW j \in 1..Len(bytes) PROVE Rest'[to[i - 1] + j] = bytes[j]
    <3>1. off[i - 1] + j <= Len(Rest) /\ j \in Nat /\ 1 <= j /\ Len(Rest) \in Nat
      BY <1>5, <2>3, <2>4, <2>6
    <3>2. /\ to[i - 1] + j \in 1..Len(Rest')
          /\ size + (to[i - 1] + j) = off[i - 1] + j
      <4>1. to[i - 1] + j = (off[i - 1] + j) - size /\ off[i - 1] + j \in Nat
        <5>1. \A a, b, k \in Nat : (a - b) + k = (a + k) - b /\ a + k \in Nat
          OBVIOUS
        <5>2. off[i - 1] \in Nat /\ size \in Nat /\ j \in Nat
          BY <1>3, <2>6, <3>1
        <5>3. to[i - 1] = off[i - 1] - size
          BY <2>5
        <5> HIDE DEF c, n
        <5> QED
          BY <5>1, <5>2, <5>3
      <4>2. Len(Rest') = Len(Rest) - size
        BY <1>5
      <4>3. \A a, b, k, l \in Nat : b <= a /\ 1 <= k /\ a + k <= l => (a + k) - b \in 1..l - b
        OBVIOUS
      <4>4. (off[i - 1] + j) - size \in 1..Len(Rest) - size
        BY <1>3, <2>6, <3>1, <4>3
      <4>5. size + ((off[i - 1] + j) - size) = off[i - 1] + j
        BY <1>3, <4>1
      <4> QED
        BY <4>1, <4>2, <4>4, <4>5
    <3> QED
      BY <1>5, <2>4, <3>2
  <2>8. to[i] = to[i - 1] + Len(bytes)
    BY <1>3, <2>3, <2>4, <2>5, <2>6
  <2> QED
    BY <2>7, <2>8 DEF bytes
<1>8. sent' = sent /\ Count' = c + 1
  BY DEF HandleFrame
<1> HIDE DEF c
<1>9. Cut(to)'
  <2>1. Count' = c + 1 /\ Len(sent') = n
    BY <1>8
  <2>2. to \in [Count'..Len(sent') -> Nat] /\ to[Count'] = 0 /\ to[Len(sent')] = Len(Rest')
    BY <1>6, <2>1
  <2>3. \A i, j \in Count'..Len(sent') : i <= j => to[i] <= to[j]
    BY <1>6, <2>1
  <2>4. \A i \in Count' + 1..Len(sent') :
            /\ to[i] = to[i - 1] + Len(Bytes(sent'[i]))
            /\ \A j \in 1..Len(Bytes(sent'[i])) : Rest'[to[i - 1] + j] = Bytes(sent'[i])[j]
    <3>1. \A i \in (c + 1) + 1..n :
              /\ to[i] = to[i - 1] + Len(Bytes(sent[i]))
              /\ \A j \in 1..Len(Bytes(sent[i])) : Rest'[to[i - 1] + j] = Bytes(sent[i])[j]
      BY <1>7
    <3>2. ASSUME NEW i \in Count' + 1..Len(sent')
          PROVE  /\ to[i] = to[i - 1] + Len(Bytes(sent'[i]))
                 /\ \A j \in 1..Len(Bytes(sent'[i])) :
                        Rest'[to[i - 1] + j] = Bytes(sent'[i])[j]
      <4>1. i \in (c + 1) + 1..n /\ sent'[i] = sent[i]
        BY <1>8, <2>1
      <4> QED
        BY <3>1, <4>1
    <3> QED
      BY <3>2
  <2> QED
    BY <2>2, <2>3, <2>4 DEF Cut, Bytes
<1> QED
  BY <1>9

\* Nothing was sent and nothing is left.
LEMMA StreamInit == Init => StreamInv
<1> SUFFICES ASSUME Init PROVE StreamInv
  OBVIOUS
<1>1. /\ sent = << >> /\ wire = << >> /\ buffer = << >> /\ handled = << >> /\ at = "read"
      /\ Len(sent) = 0 /\ Count = 0
  BY DEF Init, Count
<1> DEFINE off == [i \in 0..0 |-> 0]
<1>2. Rest = << >> /\ Len(Rest) = 0
  BY <1>1 DEF Rest
<1>3. off \in [0..0 -> Nat] /\ off[0] = 0
  OBVIOUS
<1> HIDE DEF off
<1>4. Cut(off)
  BY <1>1, <1>2, <1>3 DEF Cut
<1> QED
  BY <1>1, <1>4 DEF StreamInv, StreamTypes, FramesInOrder, NothingWithheld, RefusedForAReason,
                    CloseIsHeard

\* Every step keeps what is left of the stream cut into what is left of the frames.
LEMMA StreamStep == StreamInv /\ BufferInv /\ [Next]_vars => StreamInv'
<1> SUFFICES ASSUME StreamInv, BufferInv, [Next]_vars PROVE StreamInv'
  OBVIOUS
<1>1. /\ StreamTypes /\ FramesInOrder /\ NothingWithheld /\ RefusedForAReason /\ CloseIsHeard
      /\ Count \in Nat /\ Len(sent) \in Nat /\ Count <= Len(sent)
  BY DEF StreamInv, StreamTypes, Count, FramesInOrder
<1>2. PICK off : Cut(off)
  BY DEF StreamInv
<1>3. CASE \E f \in Frames : PeerSends(f)
  <2>1. PICK f \in Frames : PeerSends(f)
    BY <1>3
  <2>2. \E to : Cut(to)'
    BY <1>1, <1>2, <2>1, CutSends
  <2>3. /\ sent' \in Seq(Frames) /\ Len(sent') = Len(sent) + 1
        /\ \A i \in 1..Len(sent) : sent'[i] = sent[i]
        /\ sent'[Len(sent) + 1] = f
    BY <1>1, <2>1 DEF PeerSends, StreamTypes
  <2>4. Count' = Count /\ UNCHANGED <<buffer, handled, at>>
    BY <2>1 DEF PeerSends, Count
  <2>5. StreamTypes'
    <3>1. wire' \in Seq(Byte)
      BY <1>1, <2>1, FrameBytes DEF PeerSends, StreamTypes
    <3> QED
      BY <1>1, <2>3, <2>4, <3>1 DEF StreamTypes
  <2>6. FramesInOrder'
    <3>1. \A i \in 1..Count : i \in 1..Len(sent) /\ handled[i] = Meaning(sent[i])
      BY <1>1 DEF FramesInOrder
    <3>2. \A i \in 1..Count : handled'[i] = Meaning(sent'[i])
      BY <2>3, <2>4, <3>1
    <3> QED
      BY <1>1, <2>3, <2>4, <3>2 DEF FramesInOrder, Meaning
  <2>7. NothingWithheld'
    <3> SUFFICES ASSUME at = "read" PROVE Len(buffer) < Len(Bytes(sent'[Count + 1]))
      BY <2>4 DEF NothingWithheld, Bytes
    <3>1. CASE Count < Len(sent)
      BY <1>1, <2>3, <3>1 DEF NothingWithheld
    <3>2. CASE Count = Len(sent)
      <4>1. Len(buffer) = 0
        BY <1>1, <1>2, <3>2, NothingLeft
      <4> QED
        BY <2>3, <3>2, <4>1, FrameBytes
    <3> QED
      BY <1>1, <3>1, <3>2
  <2>8. RefusedForAReason' /\ CloseIsHeard'
    <3>1. /\ UNCHANGED <<at, isClosed>>
          /\ \A i \in 1..Len(sent) : Oversized(sent[i])' = Oversized(sent[i])
      BY <2>1, <2>3 DEF PeerSends, Oversized
    <3>2. 1..Count \subseteq 1..Len(sent) /\ (Count < Len(sent) => Count + 1 \in 1..Len(sent))
      BY <1>1
    <3>3. (at = "refused" => Count < Len(sent) /\ Oversized(sent[Count + 1]))'
      <4>1. Oversized(sent[Count + 1])' = Oversized(sent'[Count + 1])
        BY <2>4 DEF Oversized
      <4> QED
        BY <1>1, <2>3, <2>4, <3>1, <3>2, <4>1 DEF RefusedForAReason, Oversized
    <3>4. /\ \A i \in 1..Count : ~Oversized(sent[i])'
          /\ \A i \in 1..Count : sent'[i].opcode = sent[i].opcode
      BY <1>1, <2>3, <3>1, <3>2 DEF RefusedForAReason
    <3> QED
      BY <1>1, <2>4, <3>1, <3>3, <3>4 DEF RefusedForAReason, CloseIsHeard, Oversized
  <2> QED
    BY <2>2, <2>5, <2>6, <2>7, <2>8 DEF StreamInv
<1>4. CASE \E n \in 1..ReadSize : n <= Len(wire) /\ Receive(n)
  <2>1. PICK n \in 1..ReadSize : n <= Len(wire) /\ Receive(n)
    BY <1>4
  <2>2. n \in Nat
    BY <2>1, ReadSizeBounded DEF BufferInv
  <2>3. Cut(off)'
    BY <1>1, <1>2, <2>1, <2>2, CutReceives
  <2>4. wire' \in Seq(Byte) /\ buffer' \in Seq(Byte)
    <3>1. SubSeq(wire, 1, n) \in Seq(Byte) /\ SubSeq(wire, n + 1, Len(wire)) \in Seq(Byte)
      BY <1>1, <2>1, <2>2 DEF StreamTypes
    <3> QED
      BY <1>1, <2>1, <3>1, Concat DEF Receive, StreamTypes
  <2>5. at' = "parse" /\ UNCHANGED <<sent, handled, isClosed>>
    BY <2>1 DEF Receive
  <2>6. NothingWithheld' /\ RefusedForAReason' /\ CloseIsHeard'
    BY <1>1, <2>5 DEF NothingWithheld, RefusedForAReason, CloseIsHeard, Oversized, Count
  <2> QED
    BY <1>1, <2>3, <2>4, <2>5, <2>6 DEF StreamInv, StreamTypes, FramesInOrder, Count, Meaning
<1>5. ASSUME UNCHANGED <<sent, wire, buffer, handled>> PROVE StreamTypes' /\ FramesInOrder' /\ Cut(off)'
  BY <1>1, <1>2, <1>5 DEF StreamTypes, FramesInOrder, Cut, Count, Meaning, Rest, Bytes
<1>6. CASE WaitForMore
  <2>1. /\ at' = (IF isClosed THEN "closed" ELSE "read")
        /\ UNCHANGED <<sent, wire, buffer, handled, isClosed>>
        /\ Header.result # "throw" /\ ~Whole
    BY <1>6 DEF WaitForMore
  <2>2. Header.result = "wait" \/ Header.result = "ok"
    BY <2>1 DEF Header, ParseHeader
  <2>3. ASSUME Count < Len(sent) PROVE Len(buffer) < Len(Bytes(sent[Count + 1]))
    <3>1. CASE Header.result = "wait"
      BY <1>1, <1>2, <2>3, <3>1, SeesTheFrame
    <3>2. CASE Header.result = "ok"
      <4>1. FrameSize = Len(Bytes(sent[Count + 1])) /\ ~(Len(buffer) >= FrameSize)
        BY <1>1, <1>2, <2>1, <3>2, SeesTheFrame DEF Whole
      <4>2. Len(Bytes(sent[Count + 1])) \in Nat /\ Len(buffer) \in Nat
        BY <1>1, <2>3, FrameBytes DEF StreamTypes
      <4> QED
        BY <4>1, <4>2
    <3> QED
      BY <2>2, <3>1, <3>2
  <2>4. NothingWithheld'
    BY <2>1, <2>3 DEF NothingWithheld, Count, Bytes
  <2>5. RefusedForAReason' /\ CloseIsHeard'
    BY <1>1, <2>1 DEF RefusedForAReason, CloseIsHeard, Oversized, Count
  <2> QED
    BY <1>5, <2>1, <2>4, <2>5 DEF StreamInv
<1>7. CASE HandleFrame
  <2> DEFINE f == sent[Count + 1]
             new == FirstFrame
  <2>1. /\ Whole /\ Header.result = "ok" /\ UNCHANGED <<sent, wire, expected>>
        /\ buffer' = SubSeq(buffer, FrameSize + 1, Len(buffer))
        /\ handled' = Append(handled, new)
        /\ isClosed' = (isClosed \/ Header.opcode = Opcode.Close)
        /\ at' = "parse"
    BY <1>7 DEF HandleFrame, Whole
  <2>2. /\ Count < Len(sent) /\ Header.opcode = f.opcode /\ FrameSize = Len(Bytes(f))
        /\ new = Meaning(f) /\ ~Oversized(f)
    BY <1>1, <1>2, <2>1, SeesTheFrame DEF Meaning, FirstFrame
  <2>3. f \in Frames
    BY <1>1, <2>2 DEF StreamTypes
  <2> HIDE DEF new, f
  <2>4. /\ handled' \in Seq({Meaning(g) : g \in Frames})
        /\ Count' = Count + 1 /\ handled'[Count + 1] = new
        /\ \A i \in 1..Count : handled'[i] = handled[i]
    BY <1>1, <2>1, <2>2, <2>3 DEF StreamTypes, Count
  <2>5. \E to : Cut(to)'
    BY <1>1, <1>2, <1>7, <2>1, <2>2, <2>4, CutHandles DEF f
  <2>6. buffer' \in Seq(Byte)
    <3>1. FrameSize \in Nat
      BY <2>2, <2>3, FrameBytes
    <3> QED
      BY <1>1, <2>1, <3>1 DEF StreamTypes
  <2>7. FramesInOrder'
    <3>1. \A i \in 1..Count + 1 : handled'[i] = Meaning(sent[i])
      BY <1>1, <2>2, <2>4 DEF FramesInOrder, f
    <3>2. Count' <= Len(sent') /\ sent' = sent
      BY <1>1, <2>1, <2>2, <2>4
    <3>3. \A i \in 1..Count' : handled'[i] = Meaning(sent'[i])
      BY <2>4, <3>1, <3>2
    <3> QED
      BY <3>2, <3>3 DEF FramesInOrder, Meaning
  <2>8. RefusedForAReason' /\ CloseIsHeard'
    <3>1. \A i \in 1..Count' : i \in 1..Count \/ i = Count + 1
      BY <1>1, <2>4
    <3>2. ASSUME NEW i \in 1..Count'
          PROVE  ~Oversized(sent[i]) /\ (sent[i].opcode = Opcode.Close => isClosed')
      <4>1. CASE i \in 1..Count
        BY <1>1, <2>1, <4>1 DEF RefusedForAReason, CloseIsHeard
      <4>2. CASE i = Count + 1
        BY <2>1, <2>2, <4>2 DEF f
      <4> QED
        BY <3>1, <4>1, <4>2
    <3> QED
      BY <2>1, <3>2 DEF RefusedForAReason, CloseIsHeard, Oversized
  <2>9. NothingWithheld'
    BY <2>1 DEF NothingWithheld
  <2>10. StreamTypes'
    BY <1>1, <2>1, <2>4, <2>6 DEF StreamTypes
  <2> QED
    BY <2>5, <2>7, <2>8, <2>9, <2>10 DEF StreamInv
<1>8. CASE Reject
  <2>1. /\ at' = "refused" /\ isClosed' /\ UNCHANGED <<sent, wire, buffer, handled>>
        /\ Header.result = "throw"
    BY <1>8 DEF Reject
  <2>2. Count < Len(sent) /\ Oversized(sent[Count + 1])
    BY <1>1, <1>2, <2>1, SeesTheFrame
  <2>3. NothingWithheld' /\ RefusedForAReason' /\ CloseIsHeard'
    BY <1>1, <2>1, <2>2 DEF NothingWithheld, RefusedForAReason, CloseIsHeard, Count, Oversized
  <2> QED
    BY <1>5, <2>1, <2>3 DEF StreamInv
<1>9. CASE ReceiveClosed
  <2>1. at' = "closed" /\ UNCHANGED <<sent, wire, buffer, handled, isClosed>>
    BY <1>9 DEF ReceiveClosed
  <2>2. NothingWithheld' /\ RefusedForAReason' /\ CloseIsHeard'
    BY <1>1, <2>1 DEF NothingWithheld, RefusedForAReason, CloseIsHeard, Count, Oversized
  <2> QED
    BY <1>5, <2>1, <2>2 DEF StreamInv
<1>10. CASE CloseElsewhere \/ UNCHANGED vars
  <2>1. UNCHANGED <<sent, wire, buffer, handled, at>> /\ (isClosed => isClosed')
    BY <1>10 DEF CloseElsewhere, vars
  <2>2. NothingWithheld' /\ RefusedForAReason' /\ CloseIsHeard'
    BY <1>1, <2>1 DEF NothingWithheld, RefusedForAReason, CloseIsHeard, Count, Oversized, Bytes
  <2> QED
    BY <1>5, <2>1, <2>2 DEF StreamInv
<1> QED
  BY <1>3, <1>4, <1>6, <1>7, <1>8, <1>9, <1>10 DEF Next, Quiet

\* The data path always has its types, and the bytes not handled are cut into the
\* frames not handled.
THEOREM StreamInvariant == Spec => [](BufferInv /\ StreamInv)
<1>1. Init => BufferInv /\ StreamInv
  BY BufferInit, StreamInit
<1>2. BufferInv /\ StreamInv /\ [Next]_vars => (BufferInv /\ StreamInv)'
  BY BufferStep, StreamStep
<1> QED
  BY <1>1, <1>2, PTL DEF Spec

\* However TCP cuts the stream, the frames handled are those sent, in order and with
\* the payload the peer meant, for every width of a byte and of the length fields.
THEOREM FramesComeInOrder == Spec => []FramesInOrder
<1>1. StreamInv => FramesInOrder
  BY DEF StreamInv
<1> QED
  BY <1>1, StreamInvariant, PTL

\* No read is posted while a whole frame is in read_buffer_.
THEOREM NothingIsWithheld == Spec => []NothingWithheld
<1>1. StreamInv => NothingWithheld
  BY DEF StreamInv
<1> QED
  BY <1>1, StreamInvariant, PTL

\* Of all that a peer may send, processData refuses the frames above the limit and no
\* other, however TCP cuts them, and no read is pending behind a Close frame.
THEOREM RefusedWithAReason == Spec => []RefusedForAReason
<1>1. StreamInv => RefusedForAReason
  BY DEF StreamInv
<1> QED
  BY <1>1, StreamInvariant, PTL
=============================================================================
