------------------------------ MODULE KernelProofs ----------------------------
(***************************************************************************)
(* The x4 kernels.  A group of four lanes in the vectors computes what the *)
(* scalar code computes for each lane, for words of every size, whatever   *)
(* the lanes start with and however many steps a call makes.  The rows     *)
(* that the scalar and the x4 kernels absorb are those of the padded       *)
(* messages, for messages of all lengths and every way a row is loaded.    *)
(***************************************************************************)
EXTENDS LaneGroupX4, MessageAbsorb, ArithLemmas, SequenceTheorems

-----------------------------------------------------------------------------
(* The vector instructions of MixVector compute the word operations of     *)
(* Words, for words of every size.                                         *)

LEMMA Powers ==
  /\ M \in Nat \ {0} /\ B \in Nat \ {0} /\ M = B * B
  /\ Bits \in Nat \ {0} /\ 2 * Bits <= B /\ B <= M
  /\ \A r \in 0 .. 2 * Bits : Pow(r) \in Nat \ {0}
  /\ \A r \in 0 .. Bits : Pow(r) * Pow(Bits - r) = M
  /\ M = 2 * Pow(Bits-1) /\ Pow(Bits-1) \in Nat \ {0}
  /\ Bits = 2 * Half /\ Half \in Nat \ {0}
<1>1. Bits \in Nat \ {0} /\ Bits = 2 * Half /\ Half \in Nat \ {0} /\ 2 * Bits <= B
  BY SizeLaw
<1>2. \A r \in 0 .. 2 * Bits : Pow(r) \in Nat \ {0}
  BY PowLaw
<1>3. M \in Nat \ {0} /\ B \in Nat \ {0} /\ Pow(Bits-1) \in Nat \ {0}
  BY <1>1, <1>2 DEF M, B
<1>4. \A r \in 0 .. Bits : Pow(r) * Pow(Bits - r) = M
  <2>1. TAKE r \in 0 .. Bits
  <2>2. Bits - r \in 0 .. Bits /\ r + (Bits - r) = Bits
    BY <1>1
  <2>3. Pow(r + (Bits - r)) = Pow(r) * Pow(Bits - r)
    BY <2>2, PowLaw
  <2> QED BY <2>2, <2>3 DEF M
<1>5. M = B * B
  <2>1. Half \in 0 .. Bits /\ Bits - Half = Half
    BY <1>1
  <2> QED BY <2>1, <1>4 DEF B
<1>6. M = 2 * Pow(Bits-1)
  BY <1>1, <1>4, PowLaw
<1>7. B <= M
  BY <1>3, <1>5
<1> QED BY <1>1, <1>2, <1>3, <1>4, <1>5, <1>6, <1>7

LEMMA WordCount == M \in Nat \ {0} /\ M >= 4
<1>1. B \in Nat /\ B >= 2 /\ M = B * B
  BY SizeLaw, Powers
<1> DEFINE k == B - 2
<1>2. k \in Nat /\ B = 2 + k
  BY <1>1
<1> HIDE DEF k
<1>3. B * B = 4 + 4 * k + k * k /\ k * k \in Nat
  BY <1>2
<1> QED BY <1>1, <1>2, <1>3

LEMMA WordType ==
  /\ \A x \in Word : x \in Nat
  /\ \A x, y \in Word : Add(x, y) \in Word /\ Mul(x, y) \in Word /\ Xor(x, y) \in Word
  /\ 1 \in Word /\ 0 \in Word /\ 2 \in Word
<1>1. \A x, y \in Word : Add(x, y) \in Word /\ Mul(x, y) \in Word
  <2>1. TAKE x, y \in Word
  <2>2. x \in Nat /\ y \in Nat
    BY WordCount DEF Word
  <2>3. x + y \in Nat /\ x * y \in Nat
    BY <2>2
  <2>4. (x + y) % M \in 0 .. M-1 /\ (x * y) % M \in 0 .. M-1
    BY <2>3, WordCount, DivMod
  <2> QED BY <2>4 DEF Add, Mul, Word
<1>2. \A x, y \in Word : Xor(x, y) \in Word
  BY XorLaw
<1>3. 1 \in Word /\ 0 \in Word /\ 2 \in Word /\ \A x \in Word : x \in Nat
  BY WordCount DEF Word
<1> QED BY <1>1, <1>2, <1>3

(* And with low ones is a remainder.                                       *)
LEMMA AndLow ==
  ASSUME NEW x \in Word, NEW r \in 0 .. Bits
  PROVE  And(x, Pow(r) - 1) = x % Pow(r)
<1>1. Xor(x, Pow(r) - 1) = x + Pow(r) - 1 - 2 * (x % Pow(r))
  BY XorLaw
<1>2. x \in Nat /\ Pow(r) \in Nat \ {0} /\ x % Pow(r) \in Nat
  <2>1. x \in Nat /\ Pow(r) \in Nat \ {0}
    BY Powers, WordType
  <2> QED BY <2>1, DivMod
<1> DEFINE k == x % Pow(r)
<1>3. (x + (Pow(r) - 1)) - Xor(x, Pow(r) - 1) = 2 * k
  BY <1>1, <1>2
<1>4. (2 * k) \div 2 = k
  BY <1>2
<1> QED BY <1>3, <1>4 DEF And

(* Or with 1 sets the lowest bit.                                          *)
LEMMA OrOne ==
  ASSUME NEW x \in Word
  PROVE  Or(x, 1) = x + 1 - (x % 2)
<1>1. Xor(x, Pow(1) - 1) = x + Pow(1) - 1 - 2 * (x % Pow(1))
  BY XorLaw, Powers
<1>2. Xor(x, 1) = x + 1 - 2 * (x % 2)
  BY <1>1, PowLaw
<1>3. x \in Nat
  BY WordType
<1>4. x + 1 + Xor(x, 1) = 2 * (x + 1 - (x % 2))
  BY <1>2, <1>3
<1> QED BY <1>3, <1>4 DEF Or

(* Or of words that share no bit is their sum.                             *)
LEMMA OrDisjoint ==
  ASSUME NEW r \in 0 .. Bits, NEW x \in Word, NEW y \in 0 .. Pow(r) - 1, x % Pow(r) = 0
  PROVE  Or(x, y) = x + y /\ (y \in Word => x + y \in Word)
<1>1. Xor(x, y) = x + y
  BY XorLaw
<1>2. x \in Nat /\ y \in Nat
  BY WordType, Powers
<1>3. x + y + Xor(x, y) = 2 * (x + y)
  BY <1>1, <1>2
<1>4. (2 * (x + y)) \div 2 = x + y
  BY <1>2
<1> QED BY <1>1, <1>3, <1>4, WordType DEF Or

-----------------------------------------------------------------------------
(* Shifts.                                                                 *)

(* The parts of a word that a shift by r keeps and drops.                  *)
LEMMA Parts ==
  ASSUME NEW r \in 0 .. Bits, NEW x \in Word
  PROVE  /\ Pow(r) \in Nat \ {0} /\ Pow(Bits - r) \in Nat \ {0}
         /\ M = Pow(Bits - r) * Pow(r)
         /\ x \div Pow(Bits - r) \in 0 .. Pow(r) - 1
         /\ x % Pow(Bits - r) \in 0 .. Pow(Bits - r) - 1
         /\ x = Pow(Bits - r) * (x \div Pow(Bits - r)) + (x % Pow(Bits - r))
<1> DEFINE P == Pow(r)
           Q == Pow(Bits - r)
<1>1. P \in Nat \ {0} /\ Q \in Nat \ {0} /\ M = Q * P
  <2>1. Bits - r \in 0 .. Bits /\ r \in 0 .. 2 * Bits /\ Bits - r \in 0 .. 2 * Bits
    BY Powers
  <2>2. P \in Nat \ {0} /\ Q \in Nat \ {0} /\ P * Q = M
    BY <2>1, Powers
  <2> QED BY <2>2
<1>2. x \in Nat /\ x \in 0 .. Q * P - 1
  BY <1>1, WordType DEF Word
<1> HIDE DEF P, Q
<1>3. x \div Q \in 0 .. P - 1
  BY <1>1, <1>2, QuotBound
<1>4. x % Q \in 0 .. Q-1 /\ x = Q * (x \div Q) + (x % Q)
  BY <1>1, <1>2, DivMod
<1> QED BY <1>1, <1>3, <1>4 DEF P, Q

(* A shift to the left with the low bits filled.                           *)
LEMMA Filled ==
  ASSUME NEW r \in 0 .. Bits, NEW x \in Word, NEW y \in 0 .. Pow(r) - 1
  PROVE  /\ Or(Slli(x, r), y) = (x % Pow(Bits - r)) * Pow(r) + y
         /\ (x % Pow(Bits - r)) * Pow(r) + y \in Word
<1> DEFINE P == Pow(r)
           Q == Pow(Bits - r)
           s == (x % Q) * P
<1>1. P \in Nat \ {0} /\ Q \in Nat \ {0} /\ M = Q * P /\ x \in Nat
  BY Parts, WordType
<1>2. Slli(x, r) = s /\ s % P = 0 /\ s \in Nat /\ \A z \in 0 .. P-1 : s + z \in 0 .. M-1
  <2> HIDE DEF P, Q
  <2>1. (x * P) % (Q * P) = (x % Q) * P
    BY <1>1, ShiftLeft
  <2>2. s % P = 0 /\ s \in Nat /\ \A z \in 0 .. P-1 : s + z \in 0 .. Q * P - 1
    BY <1>1, ShiftLeft
  <2>3. Slli(x, r) = (x * P) % (Q * P)
    BY <1>1 DEF Slli, P
  <2> QED BY <1>1, <2>1, <2>2, <2>3
<1>3. s \in Word /\ s + y \in Word
  <2>1. 0 \in 0 .. P-1
    BY <1>1
  <2>2. s + 0 \in 0 .. M-1 /\ s + y \in 0 .. M-1
    BY <1>2, <2>1
  <2> QED BY <1>2, <2>2 DEF Word
<1>4. Or(s, y) = s + y
  <2>1. s % Pow(r) = 0
    BY <1>2
  <2> HIDE DEF s, P, Q
  <2> QED BY <1>3, <2>1, OrDisjoint
<1> QED BY <1>2, <1>3, <1>4

(* rotl64_imm is rotate_left.                                              *)
LEMMA RotlImmIsRotl ==
  ASSUME NEW x \in Word, NEW r \in 1 .. Bits-1
  PROVE  RotlImm(x, r) = Rotl(x, r) /\ Rotl(x, r) \in Word
<1>1. r \in 0 .. Bits /\ Bits \in Nat \ {0} /\ r % Bits = r
  BY Powers
<1>2. x \div Pow(Bits - r) \in 0 .. Pow(r) - 1
  BY <1>1, Parts
<1>3. RotlImm(x, r) = (x % Pow(Bits - r)) * Pow(r) + (x \div Pow(Bits - r))
  BY <1>1, <1>2, Filled DEF RotlImm, Srli
<1>4. (x % Pow(Bits - r)) * Pow(r) + (x \div Pow(Bits - r)) \in Word
  BY <1>1, <1>2, Filled
<1> QED BY <1>1, <1>3, <1>4 DEF Rotl

(* Bits minus a distance.                                                  *)
LEMMA Complement ==
  ASSUME NEW r \in 0 .. Bits
  PROVE  Sub(Bits, r) = Bits - r
<1>1. Bits \in Nat /\ Bits - r \in Nat /\ M \in Nat \ {0} /\ Bits < M /\ r \in Nat
  BY Powers, SizeLaw
<1>2. Bits + (M - r) = M * 1 + (Bits - r) /\ Bits - r \in 0 .. M-1
  BY <1>1
<1>3. (M * 1 + (Bits - r)) % M = Bits - r
  BY <1>1, <1>2, QuotRem
<1> QED BY <1>2, <1>3 DEF Sub

(* rotl64_var_bounded is rotate_left for the distances it is bounded to.   *)
LEMMA RotlVarIsRotl ==
  ASSUME NEW x \in Word, NEW r \in 1 .. Bits-1
  PROVE  RotlVarBounded(x, r) = Rotl(x, r) /\ Rotl(x, r) \in Word
<1>1. r \in 0 .. Bits /\ r < Bits /\ Bits - r < Bits
  BY Powers
<1>2. Sub(Bits, r) = Bits - r
  BY <1>1, Complement
<1>3. RotlVarBounded(x, r) = RotlImm(x, r)
  BY <1>1, <1>2 DEF RotlVarBounded, RotlImm, Sllv, Srlv
<1> QED BY <1>3, RotlImmIsRotl

-----------------------------------------------------------------------------
(* Products by halves.                                                     *)

LEMMA Halves ==
  ASSUME NEW x \in Word
  PROVE  /\ Srli(x, Half) \in 0 .. B-1 /\ x % B \in 0 .. B-1
         /\ x = B * Srli(x, Half) + (x % B)
         /\ Srli(x, Half) % B = Srli(x, Half) /\ (x % B) % B = x % B
         /\ Srli(x, Half) \in Word /\ x % B \in Word
<1>1. Half \in 0 .. Bits /\ Bits - Half = Half /\ B \in Nat \ {0} /\ B <= M /\ M \in Nat
  BY Powers
<1>2. x \div B \in 0 .. B-1 /\ x % B \in 0 .. B-1 /\ x = B * (x \div B) + (x % B)
  BY <1>1, Parts DEF B
<1>3. \A y \in 0 .. B-1 : y % B = y /\ y \in Word
  BY <1>1 DEF Word
<1> QED BY <1>2, <1>3 DEF Srli, B

(* The product of half words, low * low + cross * B, is that of the words. *)
LEMMA ProductByHalves ==
  ASSUME NEW xh \in Nat, NEW xl \in Nat, NEW yh \in Nat, NEW yl \in Nat,
         NEW cross \in Nat, cross % M = (xh * yl + xl * yh) % M
  PROVE  Add(xl * yl, Slli(cross % M, Half)) = Mul(B * xh + xl, B * yh + yl)
<1> DEFINE c == xh * yl + xl * yh
           low == xl * yl
           hh == xh * yh
<1>1. B \in Nat \ {0} /\ M = B * B /\ M \in Nat \ {0}
  BY Powers
<1>2. c \in Nat /\ low \in Nat /\ hh \in Nat /\ c * B \in Nat /\ cross % M = c % M
  BY <1>1
<1>3. Slli(cross % M, Half) = (c * B) % M
  <2>1. ((c % M) * B) % M = (c * B) % M
    <3>1. c \in Nat /\ B \in Nat /\ M \in Nat \ {0}
      BY <1>1, <1>2
    <3> HIDE DEF c
    <3> QED BY <3>1, ModMul
  <2> QED BY <2>1, <1>2 DEF Slli, B
<1>4. Add(low, (c * B) % M) = (c * B + low) % M
  <2>1. (((c * B) % M) + low) % M = (c * B + low) % M
    <3> HIDE DEF c, low
    <3> QED BY <1>1, <1>2, ModAdd
  <2>2. (c * B) % M \in Nat
    <3> DEFINE d == c * B
    <3>1. d \in Nat /\ M \in Nat \ {0}
      BY <1>1, <1>2
    <3>2. d % M \in Nat
      <4> HIDE DEF d
      <4>1. d % M \in 0 .. M-1
        BY <3>1, DivMod
      <4> QED BY <4>1, <3>1
    <3> QED BY <3>2
  <2>3. low + ((c * B) % M) = ((c * B) % M) + low
    BY <1>2, <2>2
  <2> QED BY <2>1, <2>3 DEF Add
<1>5. (B * xh + xl) * (B * yh + yl) = M * hh + (c * B + low)
  BY <1>1
<1>6. (M * hh + (c * B + low)) % M = (c * B + low) % M
  <2>1. c * B + low \in Nat
    BY <1>2
  <2> HIDE DEF c, low, hh
  <2> QED BY <1>1, <1>2, <2>1, ModShift, ZenonT(60)
<1> QED BY <1>3, <1>4, <1>5, <1>6 DEF Mul

(* mul_u64x4_const is wrapping_mul.                                        *)
LEMMA MulConstIsMul ==
  ASSUME NEW x \in Word, NEW c \in Word
  PROVE  MulConst(x, c) = Mul(x, c)
<1> DEFINE xh == Srli(x, Half)
           xl == x % B
           ch == Srli(c, Half)
           cl == c % B
           cross == xh * cl + xl * ch
<1>1. /\ xh \in 0 .. B-1 /\ xl \in 0 .. B-1 /\ x = B * xh + xl
      /\ ch \in 0 .. B-1 /\ cl \in 0 .. B-1 /\ c = B * ch + cl
      /\ xh % B = xh /\ xl % B = xl /\ ch % B = ch /\ cl % B = cl
  BY Halves
<1>2. /\ MulLow(Srli(x, Half), c % B) = xh * cl
      /\ MulLow(x, Srli(c, Half)) = xl * ch
      /\ MulLow(x, c % B) = xl * cl
  BY <1>1 DEF MulLow
<1>3. xh \in Nat /\ xl \in Nat /\ ch \in Nat /\ cl \in Nat /\ cross \in Nat
  <2>1. B \in Nat
    BY Powers
  <2>2. xh \in Nat /\ xl \in Nat /\ ch \in Nat /\ cl \in Nat
    BY <1>1, <2>1
  <2> QED BY <2>2
<1>4. Add(xl * cl, Slli(cross % M, Half)) = Mul(B * xh + xl, B * ch + cl)
  <2> HIDE DEF xh, xl, ch, cl
  <2> QED BY <1>3, ProductByHalves
<1> QED BY <1>1, <1>2, <1>4 DEF MulConst, Add

(* mul_x_or_one is x.wrapping_mul(x | 1).                                  *)
LEMMA MulXOrOneIsMul ==
  ASSUME NEW x \in Word
  PROVE  MulXOrOne(x) = Mul(x, Or(x, 1))
<1> DEFINE h == Srli(x, Half)
           l == x % B
           low == l * h
           cross == low + low
           sq == Add(MulLow(x, x), Slli(Add(MulLow(x, h), MulLow(x, h)), Half))
<1>1. h \in 0 .. B-1 /\ l \in 0 .. B-1 /\ x = B * h + l /\ h % B = h /\ l % B = l
  BY Halves
<1>2. h \in Nat /\ l \in Nat /\ low \in Nat /\ x \in Nat /\ x * x \in Nat
  <2>1. h \in Nat /\ l \in Nat /\ x \in Nat
    BY <1>1, Powers, WordType
  <2> HIDE DEF h, l
  <2> QED BY <2>1
<1>3. sq = Mul(x, x)
  <2>1. MulLow(x, x) = l * l /\ MulLow(x, h) = low
    BY <1>1 DEF MulLow
  <2>2. cross \in Nat /\ cross = h * l + l * h
    BY <1>2
  <2>3. Add(l * l, Slli(cross % M, Half)) = Mul(B * h + l, B * h + l)
    <3>1. cross % M = (h * l + l * h) % M
      BY <2>2
    <3>2. h \in Nat /\ l \in Nat /\ cross \in Nat
      BY <1>2, <2>2
    <3> HIDE DEF h, l, cross
    <3> QED BY <3>1, <3>2, ProductByHalves
  <2>4. Add(MulLow(x, h), MulLow(x, h)) = cross % M
    BY <2>1 DEF Add
  <2>5. sq = Add(l * l, Slli(cross % M, Half))
    BY <2>1, <2>4
  <2> HIDE DEF h, l, cross, sq
  <2> QED BY <1>1, <2>3, <2>5
<1>4. M \in Nat \ {0} /\ M >= 4
  BY WordCount
<1>5. And(x, 1) = x % 2 /\ And(x, 0) = 0 /\ And(x, M - 1) = x /\ x % 2 \in 0 .. 1
  <2>1. 0 \in 0 .. Bits /\ 1 \in 0 .. Bits /\ Bits \in 0 .. Bits
    BY Powers
  <2>2. And(x, Pow(1) - 1) = x % 2 /\ And(x, Pow(0) - 1) = x % 1 /\ And(x, Pow(Bits) - 1) = x % M
    BY <2>1, AndLow, PowLaw DEF M
  <2>3. x % 1 = 0 /\ x % M = x
    BY <1>2, <1>4 DEF Word
  <2>4. Pow(1) - 1 = 1 /\ Pow(0) - 1 = 0
    BY PowLaw
  <2> QED BY <1>2, <2>2, <2>3, <2>4 DEF M
<1>6. Mul(x, x) \in Word
  BY WordType
<1>7. CASE x % 2 = 1
  <2>1. Sub(And(x, 1), 1) = 0
    <3>1. 1 + (M - 1) = M * 1 + 0 /\ (M * 1 + 0) % M = 0
      BY <1>4, QuotRem
    <3> QED BY <3>1, <1>5, <1>7 DEF Sub
  <2>2. MulXOrOne(x) = Add(Mul(x, x), 0)
    BY <1>3, <1>5, <2>1 DEF MulXOrOne
  <2>3. Add(Mul(x, x), 0) = Mul(x, x)
    BY <1>4, <1>6 DEF Add, Word
  <2>4. Or(x, 1) = x
    BY <1>2, <1>7, OrOne
  <2> QED BY <2>2, <2>3, <2>4
<1>8. CASE x % 2 = 0
  <2>1. Sub(And(x, 1), 1) = M - 1
    <3>1. 0 + (M - 1) = M - 1 /\ (M - 1) % M = M - 1
      BY <1>4
    <3> QED BY <3>1, <1>5, <1>8 DEF Sub
  <2>2. MulXOrOne(x) = Add(Mul(x, x), x)
    BY <1>3, <1>5, <2>1 DEF MulXOrOne
  <2>3. (((x * x) % M) + x) % M = (x * x + x) % M
    BY <1>2, <1>4, ModAdd
  <2>4. Or(x, 1) = x + 1
    BY <1>2, <1>8, OrOne
  <2>5. x * (x + 1) = x * x + x
    BY <1>2
  <2> QED BY <2>2, <2>3, <2>4, <2>5 DEF Add, Mul
<1> QED BY <1>5, <1>7, <1>8

-----------------------------------------------------------------------------
(* Double words: vectors hold the halves of what the scalar code computes. *)

Halved(x) == Wide(Hi(x), Lo(x))

LEMMA DoubleParts ==
  ASSUME NEW x \in Double
  PROVE  Hi(x) \in Word /\ Lo(x) \in Word /\ x = M * Hi(x) + Lo(x) /\ x \in Nat
<1>1. M \in Nat \ {0}
  BY Powers
<1>2. x \in 0 .. M * M - 1 /\ x \in Nat
  <2>1. M * M \in Nat
    BY <1>1
  <2> QED BY <2>1 DEF Double
<1>3. x \div M \in 0 .. M-1
  <2> HIDE DEF M
  <2> QED BY <1>1, <1>2, QuotBound
<1>4. x % M \in 0 .. M-1 /\ x = M * (x \div M) + (x % M)
  <2> HIDE DEF M
  <2> QED BY <1>1, <1>2, DivMod
<1> QED BY <1>2, <1>3, <1>4 DEF Hi, Lo, Word

LEMMA JoinParts ==
  ASSUME NEW h \in Word, NEW l \in Word
  PROVE  /\ Join(h, l) \in Double /\ Hi(Join(h, l)) = h /\ Lo(Join(h, l)) = l
         /\ Halved(Join(h, l)) = Wide(h, l)
<1>1. M \in Nat \ {0} /\ h \in 0 .. M-1 /\ l \in 0 .. M-1 /\ h \in Nat
  BY Powers, WordType DEF Word
<1>2. h * M + l \in 0 .. M * M - 1
  <2> HIDE DEF M
  <2> QED BY <1>1, ProductBound
<1>3. h * M + l = M * h + l
  BY <1>1
<1>4. (M * h + l) % M = l /\ (M * h + l) \div M = h
  <2> HIDE DEF M
  <2> QED BY <1>1, QuotRem
<1> QED BY <1>2, <1>3, <1>4 DEF Join, Hi, Lo, Double, Halved

(* The halves tell a double word from its sum: carry into the upper word.  *)
LEMMA SumParts ==
  ASSUME NEW x \in Double, NEW y \in Double, NEW c \in 0 .. 1, NEW l \in Word,
         Lo(x) + Lo(y) = c * M + l
  PROVE  DAdd(x, y) = Join((Hi(x) + Hi(y) + c) % M, l)
<1> DEFINE t == Hi(x) + Hi(y) + c
           k == t \div M
           u == t % M
<1>1. /\ M \in Nat \ {0} /\ Hi(x) \in Nat /\ Hi(y) \in Nat /\ Lo(x) \in Nat /\ Lo(y) \in Nat
      /\ l \in 0 .. M-1 /\ c \in Nat
  BY Powers, DoubleParts, WordType DEF Word
<1>2. t \in Nat
  BY <1>1
<1>3. k \in Nat /\ u \in 0 .. M-1 /\ t = M * k + u
  <2> HIDE DEF t, M
  <2> QED BY <1>1, <1>2, DivMod
<1>4. x = M * Hi(x) + Lo(x) /\ y = M * Hi(y) + Lo(y)
  BY DoubleParts
<1> HIDE DEF k, u
<1>5. x + y = M * t + l
  BY <1>1, <1>4
<1> HIDE DEF t
<1>6. M * t + l = (M * M) * k + (u * M + l)
  BY <1>1, <1>2, <1>3
<1>7. u * M + l \in 0 .. M * M - 1
  <2> HIDE DEF M
  <2> QED BY <1>1, <1>3, ProductBound
<1>8. ((M * M) * k + (u * M + l)) % (M * M) = u * M + l
  <2> DEFINE mm == M * M
             r == u * M + l
  <2>1. mm \in Nat \ {0}
    BY <1>1
  <2>2. r \in 0 .. mm - 1
    BY <1>7
  <2>3. (mm * k + r) % mm = r
    <3> HIDE DEF mm, r
    <3> QED BY <2>1, <2>2, <1>3, QuotRem
  <2> QED BY <2>3
<1> QED BY <1>5, <1>6, <1>8 DEF DAdd, Join, t, u

(* With the top bit changed, the signed comparison compares the words.     *)
LEMMA Compared ==
  ASSUME NEW x \in Word, NEW y \in Word
  PROVE  CmpGt(Xor(x, Pow(Bits-1)), Xor(y, Pow(Bits-1))) = IF x > y THEN M - 1 ELSE 0
<1> DEFINE S == Pow(Bits-1)
<1>1. S \in Nat \ {0} /\ M = 2 * S
  BY Powers
<1>2. \A z \in Word : z \in Nat /\ Signed(Xor(z, S)) = z - S
  <2>1. TAKE z \in Word
  <2>2. z \in Nat /\ z < M
    BY <1>1, WordType DEF Word
  <2>3. Xor(z, S) = (z + S) % M
    BY XorLaw
  <2> HIDE DEF M, S
  <2>4. CASE z < S
    <3>1. (z + S) % M = z + S
      BY <1>1, <2>2, <2>4
    <3> QED BY <1>1, <2>2, <2>3, <2>4, <3>1 DEF Signed, S
  <2>5. CASE z >= S
    <3> DEFINE d == z - S
    <3>1. z + S = M * 1 + d /\ d \in 0 .. M-1
      BY <1>1, <2>2, <2>5
    <3>2. (M * 1 + d) % M = d
      <4>1. M \in Nat \ {0} /\ 1 \in Nat
        BY <1>1
      <4> HIDE DEF d
      <4> QED BY <4>1, <3>1, QuotRem
    <3>3. z - S < S
      BY <1>1, <2>2
    <3>4. Xor(z, S) = z - S
      BY <2>3, <3>1, <3>2
    <3> QED BY <3>3, <3>4, <2>2 DEF Signed, S
  <2> QED BY <1>1, <2>2, <2>4, <2>5
<1> HIDE DEF S
<1>3. CmpGt(Xor(x, S), Xor(y, S)) = IF x - S > y - S THEN M - 1 ELSE 0
  BY <1>2 DEF CmpGt
<1> QED BY <1>1, <1>2, <1>3 DEF S

(* add_u128 is wrapping_add.                                               *)
LEMMA AddWideIsDAdd ==
  ASSUME NEW x \in Double, NEW y \in Double
  PROVE  AddWide(Halved(x), Halved(y)) = Halved(DAdd(x, y)) /\ DAdd(x, y) \in Double
<1> DEFINE xl == Lo(x)
           yl == Lo(y)
           xh == Hi(x)
           yh == Hi(y)
           lo == Add(xl, yl)
           c  == IF xl > lo THEN 1 ELSE 0
           hi == (xh + yh + c) % M
           mask == CmpGt(Xor(xl, Pow(Bits-1)), Xor(lo, Pow(Bits-1)))
<1>1. xl \in Word /\ yl \in Word /\ xh \in Word /\ yh \in Word /\ lo \in Word
  BY DoubleParts, WordType
<1>2. xl \in Nat /\ yl \in Nat /\ xh \in Nat /\ yh \in Nat /\ lo \in Nat
  BY <1>1, WordType
<1>3. M \in Nat \ {0} /\ xl < M /\ yl < M
  BY <1>1, Powers DEF Word
<1>4. xl + yl = c * M + lo
  <2> HIDE DEF M
  <2>1. CASE xl + yl < M
    <3>1. lo = xl + yl
      BY <1>2, <1>3, <2>1 DEF Add
    <3> QED BY <3>1, <1>2, <1>3
  <2>2. CASE xl + yl >= M
    <3>1. xl + yl = M * 1 + (xl + yl - M) /\ xl + yl - M \in 0 .. M-1
      BY <1>2, <1>3, <2>2
    <3>2. (M * 1 + (xl + yl - M)) % M = xl + yl - M
      BY <1>3, <3>1, QuotRem
    <3>3. lo = xl + yl - M
      BY <3>1, <3>2 DEF Add
    <3> QED BY <3>3, <1>2, <1>3
  <2> QED BY <1>2, <1>3, <2>1, <2>2
<1>5. DAdd(x, y) = Join(hi, lo)
  <2>1. c \in 0 .. 1
    OBVIOUS
  <2>2. Lo(x) + Lo(y) = c * M + lo
    BY <1>4
  <2> HIDE DEF c, lo
  <2> QED BY <1>1, <2>1, <2>2, SumParts
<1>6. And(mask, 1) = c
  <2>1. mask = IF xl > lo THEN M - 1 ELSE 0
    <3> HIDE DEF xl, lo
    <3> QED BY <1>1, Compared
  <2>2. mask \in Word /\ And(mask, Pow(1) - 1) = mask % Pow(1)
    <3>1. 1 \in 0 .. Bits
      BY Powers
    <3>2. M - 1 \in Word /\ 0 \in Word
      BY <1>3 DEF Word
    <3>3. mask \in Word
      <4> HIDE DEF mask
      <4> QED BY <2>1, <3>2
    <3> HIDE DEF mask
    <3> QED BY <3>1, <3>3, AndLow
  <2>3. And(mask, 1) = mask % 2
    BY <2>2, PowLaw
  <2>4. (M - 1) % 2 = 1 /\ 0 % 2 = 0
    BY Powers
  <2> HIDE DEF xl, lo, mask
  <2> QED BY <2>1, <2>3, <2>4
<1>7. Add(Add(xh, yh), c) = hi
  <2>1. c \in Nat /\ xh + yh \in Nat
    BY <1>2
  <2> HIDE DEF xh, yh, c, M
  <2> QED BY <1>3, <2>1, ModAdd DEF Add
<1>8. AddWide(Halved(x), Halved(y)) = Wide(Add(Add(xh, yh), And(mask, 1)), lo)
  BY DEF AddWide, Halved, Wide
<1>9. hi \in Word
  <2>1. xh + yh + c \in Nat
    BY <1>2
  <2> DEFINE t == xh + yh + c
  <2>2. t \in Nat /\ M \in Nat \ {0}
    BY <2>1, <1>3
  <2>3. t % M \in 0 .. M-1
    <3> HIDE DEF t, M
    <3> QED BY <2>2, DivMod
  <2> QED BY <2>3 DEF Word
<1> HIDE DEF hi, lo
<1>10. Join(hi, lo) \in Double /\ Halved(Join(hi, lo)) = Wide(hi, lo)
  BY <1>1, <1>9, JoinParts
<1> HIDE DEF c, mask
<1> QED BY <1>5, <1>6, <1>7, <1>8, <1>10

LEMMA XorWideIsDXor ==
  ASSUME NEW x \in Double, NEW y \in Double
  PROVE  XorWide(Halved(x), Halved(y)) = Halved(DXor(x, y)) /\ DXor(x, y) \in Double
<1>1. Xor(Hi(x), Hi(y)) \in Word /\ Xor(Lo(x), Lo(y)) \in Word
  BY DoubleParts, WordType
<1>2. XorWide(Halved(x), Halved(y)) = Wide(Xor(Hi(x), Hi(y)), Xor(Lo(x), Lo(y)))
  BY DEF XorWide, Halved, Wide
<1> QED BY <1>1, <1>2, JoinParts DEF DXor

(* A word shifted to the left with the upper bits of another behind it.    *)
Carried(u, v, n) == (u % Pow(Bits - n)) * Pow(n) + (v \div Pow(Bits - n))

LEMMA CarriedWord ==
  ASSUME NEW u \in Word, NEW v \in Word, NEW n \in 0 .. Bits-1
  PROVE  /\ Or(Sllv(u, n), Srlv(v, Bits - n)) = Carried(u, v, n)
         /\ Or(Slli(u, n), Srli(v, Bits - n)) = Carried(u, v, n)
         /\ Carried(u, v, n) \in Word
<1>1. n \in 0 .. Bits /\ n < Bits /\ Bits - n \in 1 .. Bits /\ Bits \in Nat /\ n \in Nat
  BY Powers
<1>2. v \div Pow(Bits - n) \in 0 .. Pow(n) - 1
  BY <1>1, Parts
<1>3. Or(Slli(u, n), Srli(v, Bits - n)) = Carried(u, v, n) /\ Carried(u, v, n) \in Word
  BY <1>1, <1>2, Filled DEF Carried, Srli
<1>4. Srlv(v, Bits - n) = Srli(v, Bits - n)
  <2>1. CASE n = 0
    <3>1. v \div M = 0
      BY Powers DEF Word
    <3>2. Bits - n = Bits
      BY <1>1, <2>1
    <3> QED BY <3>1, <3>2 DEF Srlv, Srli, M
  <2>2. CASE n # 0
    <3>1. Bits - n < Bits
      BY <1>1, <2>2
    <3> QED BY <3>1 DEF Srlv
  <2> QED BY <2>1, <2>2
<1> QED BY <1>1, <1>3, <1>4 DEF Sllv

(* rotate_left of a double word, by its halves.                            *)
LEMMA RotatedParts ==
  ASSUME NEW x \in Double, NEW n \in 0 .. Bits-1
  PROVE  /\ DRotl(x, n) = Join(Carried(Hi(x), Lo(x), n), Carried(Lo(x), Hi(x), n))
         /\ DRotl(x, Bits + n) = Join(Carried(Lo(x), Hi(x), n), Carried(Hi(x), Lo(x), n))
<1> DEFINE P == Pow(n)
           Q == Pow(Bits - n)
           h == Hi(x)
           l == Lo(x)
           hq == h \div Q
           hr == h % Q
           lq == l \div Q
           lr == l % Q
<1>1. n \in 0 .. Bits /\ h \in Word /\ l \in Word
  BY Powers, DoubleParts
<1>2. P \in Nat \ {0} /\ Q \in Nat \ {0} /\ M = Q * P /\ M \in Nat \ {0}
  BY <1>1, Parts, Powers
<1>3. h = Q * hq + hr /\ hr \in 0 .. Q-1 /\ hq \in 0 .. P-1
  BY <1>1, Parts
<1>4. l = Q * lq + lr /\ lr \in 0 .. Q-1 /\ lq \in 0 .. P-1
  BY <1>1, Parts
<1>5. hq \in Nat /\ hr \in Nat /\ lq \in Nat /\ lr \in Nat /\ h \in Nat /\ l \in Nat
  BY <1>1, <1>2, <1>3, <1>4, WordType
<1>6. x = M * h + l /\ l \in 0 .. M-1
  BY <1>1, DoubleParts DEF Word
<1>7. /\ Pow(2 * Bits - n) = M * Q /\ Pow(Bits + n) = M * P
      /\ n % (2 * Bits) = n /\ (Bits + n) % (2 * Bits) = Bits + n
      /\ 2 * Bits - (Bits + n) = Bits - n
  <2>1. Bits \in Nat \ {0} /\ n \in Nat /\ n < Bits
    BY Powers
  <2>2. Bits \in 0 .. Bits /\ Bits - n \in 0 .. Bits /\ 2 * Bits - n = Bits + (Bits - n)
    BY <2>1
  <2>3. Pow(Bits + (Bits - n)) = Pow(Bits) * Pow(Bits - n) /\ Pow(Bits + n) = Pow(Bits) * Pow(n)
    BY <1>1, <2>2, PowLaw
  <2> QED BY <2>1, <2>2, <2>3 DEF M
<1>8. Carried(h, l, n) = hr * P + lq /\ Carried(l, h, n) = lr * P + hq
  BY DEF Carried
<1>9. DRotl(x, n) = Join(hr * P + lq, lr * P + hq)
  <2> HIDE DEF P, Q, h, l, hq, hr, lq, lr, M
  <2>1. x = (M * Q) * hq + (hr * M + l)
    BY <1>2, <1>3, <1>5, <1>6
  <2>2. hr * M + l \in 0 .. Q * M - 1
    BY <1>2, <1>3, <1>6, ProductBound
  <2> DEFINE mq == M * Q
             rest == hr * M + l
  <2>3. mq \in Nat \ {0} /\ rest \in 0 .. mq - 1
    BY <1>2, <2>2
  <2>4. (mq * hq + rest) % mq = rest /\ (mq * hq + rest) \div mq = hq
    <3> HIDE DEF mq, rest
    <3> QED BY <1>5, <2>3, QuotRem
  <2>5. x % mq = rest /\ x \div mq = hq
    BY <2>1, <2>4
  <2>6. DRotl(x, n) = rest * P + hq
    BY <1>7, <2>5 DEF DRotl, P
  <2>7. rest * P + hq = (hr * P + lq) * M + (lr * P + hq)
    BY <1>2, <1>4, <1>5
  <2> QED BY <2>6, <2>7 DEF Join
<1>10. DRotl(x, Bits + n) = Join(lr * P + hq, hr * P + lq)
  <2> HIDE DEF P, Q, h, l, hq, hr, lq, lr, M
  <2> DEFINE top == P * h + lq
  <2>1. x = Q * top + lr
    BY <1>2, <1>4, <1>5, <1>6
  <2>2. top \in Nat
    BY <1>2, <1>5
  <2>3. (Q * top + lr) % Q = lr /\ (Q * top + lr) \div Q = top
    <3> HIDE DEF top
    <3> QED BY <1>2, <1>4, <2>2, QuotRem
  <2>4. DRotl(x, Bits + n) = lr * (M * P) + top
    BY <1>7, <2>1, <2>3 DEF DRotl, Q
  <2>5. lr * (M * P) + top = (lr * P + hq) * M + (hr * P + lq)
    BY <1>2, <1>3, <1>5
  <2> QED BY <2>4, <2>5 DEF Join
<1> QED BY <1>8, <1>9, <1>10

(* rotl_u128_17 and its like are rotate_left.                              *)
LEMMA RotlWideIsDRotl ==
  ASSUME NEW x \in Double, NEW d \in Distances
  PROVE  /\ RotlWide(Halved(x), d) = Halved(DRotl(x, Amount(d)))
         /\ DRotl(x, Amount(d)) \in Double
<1> DEFINE r == Amount(d)
<1>1. r \in 0 .. Bits-1
  BY AmountLaw, Powers
<1>2. Hi(x) \in Word /\ Lo(x) \in Word
  BY DoubleParts
<1> HIDE DEF r
<1>3. /\ Or(Slli(Hi(x), r), Srli(Lo(x), Bits - r)) = Carried(Hi(x), Lo(x), r)
      /\ Or(Slli(Lo(x), r), Srli(Hi(x), Bits - r)) = Carried(Lo(x), Hi(x), r)
      /\ Carried(Hi(x), Lo(x), r) \in Word /\ Carried(Lo(x), Hi(x), r) \in Word
  BY <1>1, <1>2, CarriedWord
<1>4. RotlWide(Halved(x), d) = Wide(Carried(Hi(x), Lo(x), r), Carried(Lo(x), Hi(x), r))
  BY <1>3 DEF RotlWide, Halved, Wide, r
<1>5. DRotl(x, r) = Join(Carried(Hi(x), Lo(x), r), Carried(Lo(x), Hi(x), r))
  BY <1>1, RotatedParts
<1> QED BY <1>3, <1>4, <1>5, JoinParts DEF r

(* Small distances are words, and not negative ones.                       *)
LEMMA SmallNumbers ==
  /\ \A r \in 0 .. 2 * Bits - 1 : r \in Word /\ Signed(r) = r
  /\ Bits - 1 \in 0 .. 2 * Bits - 1
<1>1. Bits \in Nat \ {0} /\ 2 * Bits <= B /\ B \in Nat /\ M = B * B /\ M = 2 * Pow(Bits-1) /\ B <= M
      /\ Pow(Bits-1) \in Nat
  BY Powers
<1>2. B <= Pow(Bits-1)
  <2>1. 2 <= B
    BY <1>1
  <2>2. 2 * B <= B * B
    <3> DEFINE k == B - 2
    <3>1. k \in Nat /\ B = k + 2
      BY <1>1, <2>1
    <3> HIDE DEF k
    <3>2. B * B = 2 * B + k * B /\ k * B \in Nat
      BY <1>1, <3>1
    <3> QED BY <1>1, <3>2
  <2> QED BY <1>1, <2>2
<1> QED BY <1>1, <1>2 DEF Signed, Word

(* rotl_u128_var is rotate_left for the distances of a double word.        *)
LEMMA RotlWideVarIsDRotl ==
  ASSUME NEW x \in Double, NEW r \in 1 .. 2 * Bits - 1
  PROVE  /\ RotlWideVar(Halved(x), r) = Halved(DRotl(x, r))
         /\ DRotl(x, r) \in Double
<1> DEFINE n == r % Bits
           up == Carried(Hi(x), Lo(x), n)
           down == Carried(Lo(x), Hi(x), n)
           mask == CmpGt(r, Bits - 1)
<1>1. Bits \in Nat \ {0} /\ r \in 0 .. 2 * Bits - 1 /\ r \in Nat /\ M \in Nat /\ M >= 4
  BY Powers, WordCount
<1>2. n \in 0 .. Bits-1 /\ n \in 0 .. Bits
  <2>1. n \in 0 .. Bits-1
    BY <1>1, DivMod
  <2> QED BY <2>1, <1>1
<1>3. And(r, Bits - 1) = n
  <2>1. KeyBits \in 0 .. Bits /\ Pow(KeyBits) = Bits
    BY SizeLaw
  <2>2. r \in Word
    BY <1>1, SmallNumbers
  <2>3. And(r, Pow(KeyBits) - 1) = r % Pow(KeyBits)
    BY <2>1, <2>2, AndLow
  <2> QED BY <2>1, <2>3
<1>4. Sub(Bits, n) = Bits - n
  <2> HIDE DEF n
  <2> QED BY <1>2, Complement
<1>5. Hi(x) \in Word /\ Lo(x) \in Word
  BY DoubleParts
<1>6. /\ Or(Sllv(Hi(x), n), Srlv(Lo(x), Bits - n)) = up
      /\ Or(Sllv(Lo(x), n), Srlv(Hi(x), Bits - n)) = down
      /\ up \in Word /\ down \in Word
  <2> HIDE DEF n
  <2> QED BY <1>2, <1>5, CarriedWord
<1>7. mask = IF r < Bits THEN 0 ELSE M - 1
  <2>1. Signed(r) = r /\ Signed(Bits - 1) = Bits - 1
    BY <1>1, SmallNumbers
  <2> QED BY <2>1, <1>1 DEF CmpGt
<1>8. RotlWideVar(Halved(x), r) = Wide(Blend(up, down, mask), Blend(down, up, mask))
  <2> HIDE DEF n, up, down, mask
  <2>1. CmpGt(r, Bits - 1) = mask
    BY DEF mask
  <2> QED BY <1>3, <1>4, <1>6, <2>1 DEF RotlWideVar, Halved, Wide
<1>9. CASE r < Bits
  <2>1. n = r
    BY <1>1, <1>9
  <2>2. DRotl(x, n) = Join(up, down)
    <3> HIDE DEF n
    <3> QED BY <1>2, RotatedParts DEF up, down
  <2>3. Wide(Blend(up, down, mask), Blend(down, up, mask)) = Wide(up, down)
    BY <1>7, <1>9 DEF Blend
  <2>4. Join(up, down) \in Double /\ Halved(Join(up, down)) = Wide(up, down)
    <3> HIDE DEF up, down
    <3> QED BY <1>6, JoinParts
  <2> QED BY <1>8, <2>1, <2>2, <2>3, <2>4
<1>10. CASE r >= Bits
  <2>1. Bits + n = r
    <3>1. r = Bits * 1 + (r - Bits) /\ r - Bits \in 0 .. Bits-1
      BY <1>1, <1>10
    <3> DEFINE e == r - Bits
    <3>2. (Bits * 1 + e) % Bits = e
      <4>1. e \in 0 .. Bits-1 /\ 1 \in Nat
        BY <3>1
      <4> HIDE DEF e
      <4> QED BY <1>1, <4>1, QuotRem
    <3> QED BY <1>1, <3>1, <3>2
  <2>2. DRotl(x, Bits + n) = Join(down, up)
    <3> HIDE DEF n
    <3> QED BY <1>2, RotatedParts DEF up, down
  <2>3. Wide(Blend(up, down, mask), Blend(down, up, mask)) = Wide(down, up)
    <3>1. mask # 0
      <4> HIDE DEF mask
      <4> QED BY <1>1, <1>7, <1>10
    <3> HIDE DEF mask
    <3> QED BY <3>1 DEF Blend
  <2>4. Join(down, up) \in Double /\ Halved(Join(down, up)) = Wide(down, up)
    <3> HIDE DEF up, down
    <3> QED BY <1>6, JoinParts
  <2> QED BY <1>8, <2>1, <2>2, <2>3, <2>4
<1> QED BY <1>1, <1>9, <1>10

-----------------------------------------------------------------------------
(* The mixing functions of MixVector compute those of MixScalar, and the   *)
(* distances they rotate by are in range, for words of every size.         *)

Quads == [a : Word, b : Word, c : Word, d : Word]

LEMMA VRotIsRotlBy ==
  ASSUME NEW x \in Word, NEW d \in Distances
  PROVE  VRot(x, d) = RotlBy(x, d) /\ RotlBy(x, d) \in Word
<1>1. Amount(d) \in 1 .. Bits-1
  BY AmountLaw
<1> QED BY <1>1, RotlImmIsRotl DEF VRot, RotlBy

LEMMA Factors == Phi \in Word /\ Phi17 \in Word /\ Phi23 \in Word
<1>1. 17 \in Distances /\ 23 \in Distances
  BY DEF Distances
<1> QED BY <1>1, FactorLaw, VRotIsRotlBy DEF Phi17, Phi23

LEMMA QuadType ==
  ASSUME NEW a \in Word, NEW b \in Word, NEW c \in Word, NEW d \in Word
  PROVE  Quad(a, b, c, d) \in Quads
BY DEF Quad, Quads

-----------------------------------------------------------------------------
(* IDM, stage by stage.                                                    *)

LEMMA IdmAddSame ==
  ASSUME NEW q \in Quads PROVE VIdmAdd(q) = IdmAdd(q) /\ IdmAdd(q) \in Quads
<1> DEFINE a == Add(q.a, q.b)
           c == Add(q.c, q.d)
<1>1. q.a \in Word /\ q.b \in Word /\ q.c \in Word /\ q.d \in Word
  BY DEF Quads
<1>2. a \in Word /\ c \in Word
  BY <1>1, WordType
<1> HIDE DEF a, c
<1>3. 11 \in Distances /\ 19 \in Distances
  BY DEF Distances
<1>4. VRot(a, 11) = RotlBy(a, 11) /\ VRot(c, 19) = RotlBy(c, 19)
  BY <1>2, <1>3, VRotIsRotlBy
<1>5. Xor(q.b, RotlBy(a, 11)) \in Word /\ Xor(q.d, RotlBy(c, 19)) \in Word
  BY <1>1, <1>2, <1>3, VRotIsRotlBy, WordType
<1> QED BY <1>2, <1>4, <1>5, QuadType DEF VIdmAdd, IdmAdd, a, c

LEMMA IdmPhiSame ==
  ASSUME NEW q \in Quads PROVE VIdmPhi(q) = IdmPhi(q) /\ IdmPhi(q) \in Quads
<1> DEFINE a == Add(q.a, Phi)
           c == Add(q.c, Phi23)
<1>1. q.a \in Word /\ q.b \in Word /\ q.c \in Word /\ q.d \in Word
  BY DEF Quads
<1>2. a \in Word /\ c \in Word
  BY <1>1, Factors, WordType
<1> HIDE DEF a, c
<1>3. 37 \in Distances /\ 43 \in Distances
  BY DEF Distances
<1>4. VRot(c, 37) = RotlBy(c, 37) /\ VRot(q.b, 43) = RotlBy(q.b, 43)
  BY <1>1, <1>2, <1>3, VRotIsRotlBy
<1>5. Xor(a, RotlBy(c, 37)) \in Word /\ Xor(q.d, RotlBy(q.b, 43)) \in Word
  BY <1>1, <1>2, <1>3, VRotIsRotlBy, WordType
<1> QED BY <1>1, <1>2, <1>4, <1>5, QuadType DEF VIdmPhi, IdmPhi, a, c

LEMMA IdmCrossSame ==
  ASSUME NEW q \in Quads PROVE VIdmCross(q) = IdmCross(q) /\ IdmCross(q) \in Quads
<1> DEFINE b == Add(q.b, q.a)
           d == Add(q.d, q.c)
<1>1. q.a \in Word /\ q.b \in Word /\ q.c \in Word /\ q.d \in Word
  BY DEF Quads
<1>2. b \in Word /\ d \in Word
  BY <1>1, WordType
<1> HIDE DEF b, d
<1>3. 31 \in Distances /\ 47 \in Distances
  BY DEF Distances
<1>4. VRot(b, 31) = RotlBy(b, 31) /\ VRot(d, 47) = RotlBy(d, 47)
  BY <1>2, <1>3, VRotIsRotlBy
<1>5. Xor(q.a, RotlBy(b, 31)) \in Word /\ Xor(q.c, RotlBy(d, 47)) \in Word
  BY <1>1, <1>2, <1>3, VRotIsRotlBy, WordType
<1> QED BY <1>2, <1>4, <1>5, QuadType DEF VIdmCross, IdmCross, b, d

LEMMA IdmMulSame ==
  ASSUME NEW q \in Quads PROVE VIdmMul(q) = IdmMul(q) /\ IdmMul(q) \in Quads
<1> DEFINE x == Xor(q.a, q.c)
           m == Mul(x, Phi)
<1>1. q.a \in Word /\ q.b \in Word /\ q.c \in Word /\ q.d \in Word
  BY DEF Quads
<1>2. x \in Word /\ m \in Word
  BY <1>1, Factors, WordType
<1>3. 33 \in Distances
  BY DEF Distances
<1> HIDE DEF x
<1>4. MulConst(x, Phi) = m
  BY <1>2, Factors, MulConstIsMul
<1> HIDE DEF m
<1>5. VRot(m, 33) = RotlBy(m, 33)
  BY <1>2, <1>3, VRotIsRotlBy
<1>6. Xor(q.b, m) \in Word /\ Xor(q.d, RotlBy(m, 33)) \in Word
  BY <1>1, <1>2, <1>3, VRotIsRotlBy, WordType
<1> QED BY <1>1, <1>4, <1>5, <1>6, QuadType DEF VIdmMul, IdmMul, x, m

LEMMA IdmFoldSame ==
  ASSUME NEW q \in Quads PROVE VIdmFold(q) = IdmFold(q) /\ IdmFold(q) \in Quads
<1> DEFINE x  == Xor(q.a, q.c)
           x0 == Xor(x, Rotl(x, Half))
           x1 == Xor(q.b, q.d)
           m0 == Mul(x0, Phi)
           m1 == Mul(x1, Phi17)
<1>1. q.a \in Word /\ q.b \in Word /\ q.c \in Word /\ q.d \in Word
  BY DEF Quads
<1>2. x \in Word /\ x1 \in Word
  BY <1>1, WordType
<1>3. RotlImm(x, Half) = Rotl(x, Half) /\ Rotl(x, Half) \in Word
  <2>1. Half \in 1 .. Bits-1
    BY Powers
  <2> HIDE DEF x
  <2> QED BY <1>2, <2>1, RotlImmIsRotl
<1> HIDE DEF x
<1>4. x0 \in Word
  BY <1>2, <1>3, WordType
<1> HIDE DEF x0, x1
<1>5. /\ MulConst(x0, Phi) = m0 /\ MulConst(x1, Phi17) = m1
      /\ m0 \in Word /\ m1 \in Word
  BY <1>2, <1>4, Factors, MulConstIsMul, WordType
<1> HIDE DEF m0, m1
<1>6. 23 \in Distances /\ 41 \in Distances
  BY DEF Distances
<1>7. VRot(m0, 23) = RotlBy(m0, 23) /\ VRot(m1, 41) = RotlBy(m1, 41)
  BY <1>5, <1>6, VRotIsRotlBy
<1>8. /\ Xor(q.a, m0) \in Word /\ Xor(q.b, m1) \in Word
      /\ Xor(q.c, RotlBy(m0, 23)) \in Word /\ Xor(q.d, RotlBy(m1, 41)) \in Word
  BY <1>1, <1>5, <1>6, VRotIsRotlBy, WordType
<1> QED BY <1>3, <1>5, <1>7, <1>8, QuadType DEF VIdmFold, IdmFold, x, x0, x1, m0, m1

LEMMA IdmLinkSame ==
  ASSUME NEW q \in Quads PROVE VIdmLink(q) = IdmLink(q) /\ IdmLink(q) \in Quads
<1> DEFINE a == Add(q.a, q.b)
           d == Xor(q.d, RotlBy(a, 33))
           e == Xor(q.c, d)
<1>1. q.a \in Word /\ q.b \in Word /\ q.c \in Word /\ q.d \in Word
  BY DEF Quads
<1>2. 33 \in Distances /\ 21 \in Distances
  BY DEF Distances
<1>3. a \in Word
  BY <1>1, WordType
<1> HIDE DEF a
<1>4. VRot(a, 33) = RotlBy(a, 33) /\ d \in Word
  BY <1>1, <1>2, <1>3, VRotIsRotlBy, WordType
<1> HIDE DEF d
<1>5. e \in Word
  BY <1>1, <1>4, WordType
<1> HIDE DEF e
<1>6. VRot(e, 21) = RotlBy(e, 21) /\ Xor(q.b, RotlBy(e, 21)) \in Word
  BY <1>1, <1>2, <1>5, VRotIsRotlBy, WordType
<1> QED BY <1>1, <1>3, <1>4, <1>6, QuadType DEF VIdmLink, IdmLink, a, d, e

LEMMA IdmSpreadSame ==
  ASSUME NEW q \in Quads PROVE VIdmSpread(q) = IdmSpread(q) /\ IdmSpread(q) \in Quads
<1> DEFINE a == Add(q.a, q.d)
           c == Add(q.c, q.b)
<1>1. q.a \in Word /\ q.b \in Word /\ q.c \in Word /\ q.d \in Word
  BY DEF Quads
<1>2. a \in Word /\ c \in Word
  BY <1>1, WordType
<1> HIDE DEF a, c
<1>3. 23 \in Distances /\ 41 \in Distances
  BY DEF Distances
<1>4. VRot(c, 23) = RotlBy(c, 23) /\ VRot(a, 41) = RotlBy(a, 41)
  BY <1>2, <1>3, VRotIsRotlBy
<1>5. Xor(q.b, RotlBy(c, 23)) \in Word /\ Xor(q.d, RotlBy(a, 41)) \in Word
  BY <1>1, <1>2, <1>3, VRotIsRotlBy, WordType
<1> QED BY <1>2, <1>4, <1>5, QuadType DEF VIdmSpread, IdmSpread, a, c

LEMMA IdmCloseSame ==
  ASSUME NEW q \in Quads PROVE VIdmClose(q) = IdmClose(q) /\ IdmClose(q) \in Quads
<1> DEFINE b == Add(q.b, q.a)
           d == Add(q.d, q.c)
<1>1. q.a \in Word /\ q.b \in Word /\ q.c \in Word /\ q.d \in Word
  BY DEF Quads
<1>2. b \in Word /\ d \in Word
  BY <1>1, WordType
<1> HIDE DEF b, d
<1>3. 17 \in Distances /\ 31 \in Distances
  BY DEF Distances
<1>4. VRot(b, 17) = RotlBy(b, 17) /\ VRot(d, 31) = RotlBy(d, 31)
  BY <1>2, <1>3, VRotIsRotlBy
<1>5. Xor(q.a, RotlBy(b, 17)) \in Word /\ Xor(q.c, RotlBy(d, 31)) \in Word
  BY <1>1, <1>2, <1>3, VRotIsRotlBy, WordType
<1> QED BY <1>2, <1>4, <1>5, QuadType DEF VIdmClose, IdmClose, b, d

(* idm_core computes idm_scalar_ref (src/core_avx2.rs, src/core.rs), for   *)
(* the four words of a state.                                              *)
THEOREM IdmAgrees ==
  ASSUME NEW q \in Quads
  PROVE  VIdm(q) = IdmQuad(q) /\ IdmQuad(q) \in Quads
<1> DEFINE q1 == IdmAdd(q)
           q2 == IdmPhi(q1)
           q3 == IdmCross(q2)
           q4 == IdmMul(q3)
           q5 == IdmFold(q4)
           q6 == IdmLink(q5)
           q7 == IdmSpread(q6)
           q8 == IdmClose(q7)
<1>1. VIdmAdd(q) = q1 /\ q1 \in Quads
  BY IdmAddSame
<1> HIDE DEF q1
<1>2. VIdmPhi(q1) = q2 /\ q2 \in Quads
  BY <1>1, IdmPhiSame
<1> HIDE DEF q2
<1>3. VIdmCross(q2) = q3 /\ q3 \in Quads
  BY <1>2, IdmCrossSame
<1> HIDE DEF q3
<1>4. VIdmMul(q3) = q4 /\ q4 \in Quads
  BY <1>3, IdmMulSame
<1> HIDE DEF q4
<1>5. VIdmFold(q4) = q5 /\ q5 \in Quads
  BY <1>4, IdmFoldSame
<1> HIDE DEF q5
<1>6. VIdmLink(q5) = q6 /\ q6 \in Quads
  BY <1>5, IdmLinkSame
<1> HIDE DEF q6
<1>7. VIdmSpread(q6) = q7 /\ q7 \in Quads
  BY <1>6, IdmSpreadSame
<1> HIDE DEF q7
<1>8. VIdmClose(q7) = q8 /\ q8 \in Quads
  BY <1>7, IdmCloseSame
<1>9. VIdm(q) = q8
  BY <1>1, <1>2, <1>3, <1>4, <1>5, <1>6, <1>7, <1>8 DEF VIdm
<1>10. IdmQuad(q) = q8
  BY DEF IdmQuad, q1, q2, q3, q4, q5, q6, q7
<1> QED BY <1>8, <1>9, <1>10

-----------------------------------------------------------------------------
(* ERD.                                                                    *)

Pairs == Word \X Word

LEMMA LowOfXor ==
  ASSUME NEW x \in Double, NEW y \in Double
  PROVE  Lo(DXor(x, y)) = Xor(Lo(x), Lo(y)) /\ DXor(x, y) \in Double
<1>1. Xor(Hi(x), Hi(y)) \in Word /\ Xor(Lo(x), Lo(y)) \in Word
  BY DoubleParts, WordType
<1> QED BY <1>1, JoinParts DEF DXor

LEMMA WordIsDouble ==
  ASSUME NEW x \in Word
  PROVE  x \in Double /\ Lo(x) = x
<1>1. M \in Nat \ {0} /\ x \in Nat /\ x < M
  BY Powers, WordType DEF Word
<1>2. M <= M * M
  <2> HIDE DEF M
  <2> QED BY <1>1
<1> QED BY <1>1, <1>2 DEF Double, Lo

(* t ^ (t >> 64) ^ (t <<< d), cut to the low word.                         *)
LEMMA FoldedLow ==
  ASSUME NEW t \in Double, NEW d \in Distances
  PROVE  /\ XorWide(Halved(t), XorWide(Swapped(Halved(t)), RotlWide(Halved(t), d))).lo
              = Lo(DXor(t, DXor(Hi(t), DRotl(t, Amount(d)))))
         /\ Lo(DXor(t, DXor(Hi(t), DRotl(t, Amount(d))))) \in Word
<1> DEFINE r == DRotl(t, Amount(d))
           x == DXor(Hi(t), r)
<1>1. RotlWide(Halved(t), d) = Halved(r) /\ r \in Double
  BY RotlWideIsDRotl
<1>2. Hi(t) \in Word /\ Lo(t) \in Word /\ Hi(t) \in Double /\ Lo(Hi(t)) = Hi(t)
  BY DoubleParts, WordIsDouble
<1> HIDE DEF r
<1>3. x \in Double /\ Lo(x) = Xor(Hi(t), Lo(r))
  BY <1>1, <1>2, LowOfXor
<1> HIDE DEF x
<1>4. Lo(DXor(t, x)) = Xor(Lo(t), Lo(x)) /\ Lo(x) \in Word
  BY <1>3, LowOfXor, DoubleParts
<1>5. XorWide(Halved(t), XorWide(Swapped(Halved(t)), Halved(r))).lo
        = Xor(Lo(t), Xor(Hi(t), Lo(r)))
  BY DEF XorWide, Swapped, Halved, Wide
<1>6. Xor(Lo(t), Lo(x)) \in Word
  BY <1>2, <1>4, WordType
<1> QED BY <1>1, <1>3, <1>4, <1>5, <1>6 DEF x, r

LEMMA ErdBaseSame ==
  ASSUME NEW s0 \in Double, NEW s1 \in Double
  PROVE  /\ VErdBase(Halved(s0), Halved(s1)) = ErdBase(s0, s1)
         /\ ErdBase(s0, s1) \in Pairs
<1> DEFINE t0 == DAdd(s0, s1)
           r  == DRotl(s1, Amount(42))
           t1 == DXor(s0, r)
<1>1. AddWide(Halved(s0), Halved(s1)) = Halved(t0) /\ t0 \in Double
  BY AddWideIsDAdd
<1>2. 42 \in Distances /\ 37 \in Distances /\ 43 \in Distances
  BY DEF Distances
<1>3. RotlWide(Halved(s1), 42) = Halved(r) /\ r \in Double
  BY <1>2, RotlWideIsDRotl
<1> HIDE DEF r
<1>4. XorWide(Halved(s0), Halved(r)) = Halved(t1) /\ t1 \in Double
  BY <1>3, XorWideIsDXor
<1> HIDE DEF t0, t1
<1> DEFINE v0 == Lo(DXor(t0, DXor(Hi(t0), DRotl(t0, Amount(37)))))
           v1 == Lo(DXor(t1, DXor(Hi(t1), DRotl(t1, Amount(43)))))
<1>5. /\ XorWide(Halved(t0), XorWide(Swapped(Halved(t0)), RotlWide(Halved(t0), 37))).lo = v0
      /\ v0 \in Word
  BY <1>1, <1>2, FoldedLow
<1>6. /\ XorWide(Halved(t1), XorWide(Swapped(Halved(t1)), RotlWide(Halved(t1), 43))).lo = v1
      /\ v1 \in Word
  BY <1>4, <1>2, FoldedLow
<1> HIDE DEF v0, v1
<1>7. VErdBase(Halved(s0), Halved(s1)) = <<v0, v1>>
  BY <1>1, <1>3, <1>4, <1>5, <1>6 DEF VErdBase
<1>8. ErdBase(s0, s1) = <<v0, v1>>
  BY DEF ErdBase, t0, t1, r, v0, v1
<1> QED BY <1>5, <1>6, <1>7, <1>8 DEF Pairs

LEMMA ErdStagesSame ==
  ASSUME NEW v \in Pairs
  PROVE  VErdStages(v) = ErdStages(v) /\ ErdStages(v) \in Pairs
<1> DEFINE x0 == Add(v[1], RotlBy(v[2], 31))
           x1 == Xor(v[2], RotlBy(x0, 27))
           y0 == Add(x0, RotlBy(x1, 17))
           y1 == Xor(x1, RotlBy(y0, 29))
<1>1. v[1] \in Word /\ v[2] \in Word
  BY DEF Pairs
<1>2. 31 \in Distances /\ 27 \in Distances /\ 17 \in Distances /\ 29 \in Distances
  BY DEF Distances
<1>3. VRot(v[2], 31) = RotlBy(v[2], 31) /\ x0 \in Word
  BY <1>1, <1>2, VRotIsRotlBy, WordType
<1> HIDE DEF x0
<1>4. VRot(x0, 27) = RotlBy(x0, 27) /\ x1 \in Word
  BY <1>1, <1>2, <1>3, VRotIsRotlBy, WordType
<1> HIDE DEF x1
<1>5. VRot(x1, 17) = RotlBy(x1, 17) /\ y0 \in Word
  BY <1>2, <1>3, <1>4, VRotIsRotlBy, WordType
<1> HIDE DEF y0
<1>6. VRot(y0, 29) = RotlBy(y0, 29) /\ y1 \in Word
  BY <1>2, <1>4, <1>5, VRotIsRotlBy, WordType
<1> HIDE DEF y1
<1>7. VErdStages(v) = <<y0, y1>>
  BY <1>3, <1>4, <1>5, <1>6 DEF VErdStages, x0, x1, y0, y1
<1>8. ErdStages(v) = <<y0, y1>>
  BY DEF ErdStages, x0, x1, y0, y1
<1> QED BY <1>5, <1>6, <1>7, <1>8 DEF Pairs

(* The distances a variable rotation within a word may have.               *)
OddDistances == {k \in 1 .. Bits-1 : k % 2 = 1}

(* The top bits of a word with the lowest one set: odd, and below 64.      *)
LEMMA KeyRange ==
  ASSUME NEW m \in Word
  PROVE  Or(m \div Pow(Bits - KeyBits), 1) \in OddDistances
<1> DEFINE y == m \div Pow(Bits - KeyBits)
<1>1. KeyBits \in 0 .. Bits /\ Pow(KeyBits) = Bits
  BY SizeLaw
<1>2. y \in 0 .. Bits - 1
  BY <1>1, Parts
<1>3. Bits = 2 * Half /\ Half \in Nat \ {0}
  BY Powers
<1>4. y \in Word
  BY <1>2, <1>3, SmallNumbers
<1> HIDE DEF y
<1>5. Or(y, 1) = y + 1 - (y % 2)
  BY <1>4, OrOne
<1>6. y + 1 - (y % 2) \in 1 .. Bits-1 /\ (y + 1 - (y % 2)) % 2 = 1
  BY <1>2, <1>3
<1> QED BY <1>5, <1>6 DEF OddDistances, y

LEMMA KeySame ==
  ASSUME NEW v \in Word, NEW r \in Word
  PROVE  VKey(v, r) = Key(v, r) /\ Key(v, r) \in OddDistances
<1> DEFINE x == Xor(v, r)
           f == Xor(x, x \div Pow(Half))
           m == Mul(f, Or(f, 1))
<1>1. x \in Word
  BY WordType
<1> HIDE DEF x
<1>2. Srli(x, Half) = x \div Pow(Half) /\ x \div Pow(Half) \in Word
  BY <1>1, Halves DEF Srli
<1>3. f \in Word
  BY <1>1, <1>2, WordType
<1> HIDE DEF f
<1>4. MulXOrOne(f) = m
  BY <1>3, MulXOrOneIsMul
<1>5. m \in Word
  <2>1. f \in Nat /\ Or(f, 1) \in Nat /\ M \in Nat \ {0}
    <3>1. f \in Nat /\ Or(f, 1) = f + 1 - (f % 2) /\ M \in Nat \ {0}
      BY <1>3, WordType, OrOne, Powers
    <3> QED BY <3>1
  <2> DEFINE p == f * Or(f, 1)
  <2>2. p \in Nat
    BY <2>1
  <2>3. p % M \in 0 .. M-1
    <3> HIDE DEF p
    <3> QED BY <2>1, <2>2, DivMod
  <2> QED BY <2>3 DEF Mul, Word
<1> HIDE DEF m
<1>6. Or(m \div Pow(Bits - KeyBits), 1) \in OddDistances
  BY <1>5, KeyRange
<1>7. VKey(v, r) = Or(m \div Pow(Bits - KeyBits), 1)
  BY <1>2, <1>4 DEF VKey, Srli, f, x
<1>8. Key(v, r) = Or(m \div Pow(Bits - KeyBits), 1)
  BY DEF Key, m, f, x
<1> QED BY <1>6, <1>7, <1>8

(* lane_key_schedule: both keys are odd and below the width of a word.     *)
LEMMA ErdKeysSame ==
  ASSUME NEW v \in Pairs
  PROVE  VErdKeys(v) = ErdKeys(v) /\ ErdKeys(v) \in OddDistances \X OddDistances
<1>1. v[1] \in Word /\ v[2] \in Word
  BY DEF Pairs
<1>2. 11 \in Distances /\ 13 \in Distances
  BY DEF Distances
<1>3. /\ VRot(v[2], 11) = RotlBy(v[2], 11) /\ RotlBy(v[2], 11) \in Word
      /\ VRot(v[1], 13) = RotlBy(v[1], 13) /\ RotlBy(v[1], 13) \in Word
  BY <1>1, <1>2, VRotIsRotlBy
<1>4. /\ VKey(v[1], RotlBy(v[2], 11)) = Key(v[1], RotlBy(v[2], 11))
      /\ Key(v[1], RotlBy(v[2], 11)) \in OddDistances
      /\ VKey(v[2], RotlBy(v[1], 13)) = Key(v[2], RotlBy(v[1], 13))
      /\ Key(v[2], RotlBy(v[1], 13)) \in OddDistances
  BY <1>1, <1>3, KeySame
<1> QED BY <1>3, <1>4 DEF VErdKeys, ErdKeys

(* A word shifted to the right is a word.                                  *)
LEMMA ShiftedRight ==
  ASSUME NEW x \in Word, NEW d \in Distances
  PROVE  Srli(x, Amount(d)) = x \div Pow(Amount(d)) /\ x \div Pow(Amount(d)) \in Word
<1> DEFINE r == Bits - Amount(d)
<1>1. r \in 0 .. Bits /\ Amount(d) = Bits - r /\ r \in 0 .. 2 * Bits
  BY AmountLaw, Powers
<1> HIDE DEF r
<1>2. x \div Pow(Bits - r) \in 0 .. Pow(r) - 1 /\ Pow(r) \in Nat \ {0}
  BY <1>1, Parts
<1>3. Pow(r) <= M
  <2>1. M = Pow(Bits - r) * Pow(r) /\ Pow(Bits - r) \in Nat \ {0}
    BY <1>1, Parts
  <2> DEFINE p == Pow(r)
             q == Pow(Bits - r)
  <2>2. p \in Nat \ {0} /\ q \in Nat \ {0} /\ M = q * p
    BY <1>2, <2>1
  <2>3. p <= q * p
    <3> HIDE DEF p, q
    <3> QED BY <2>2
  <2> QED BY <2>2, <2>3
<1>4. M \in Nat
  BY Powers
<1> HIDE DEF M
<1> QED BY <1>1, <1>2, <1>3, <1>4 DEF Srli, Word

LEMMA ErdMixSame ==
  ASSUME NEW v \in Pairs, NEW k \in OddDistances \X OddDistances
  PROVE  VErdMix(v, k) = ErdMix(v, k) /\ ErdMix(v, k) \in Pairs
<1> DEFINE w0 == v[2] \div Pow(Amount(7))
           v0 == Add(v[1], Xor(Rotl(v[2], k[1]), w0))
           w1 == v0 \div Pow(Amount(7))
           v1 == Xor(v[2], Xor(w1, Rotl(v0, k[2])))
<1>1. v[1] \in Word /\ v[2] \in Word /\ k[1] \in 1 .. Bits-1 /\ k[2] \in 1 .. Bits-1
  BY DEF Pairs, OddDistances
<1>2. 7 \in Distances
  BY DEF Distances
<1>3. Srli(v[2], Amount(7)) = w0 /\ w0 \in Word
  BY <1>1, <1>2, ShiftedRight
<1>4. RotlVarBounded(v[2], k[1]) = Rotl(v[2], k[1]) /\ Rotl(v[2], k[1]) \in Word
  BY <1>1, RotlVarIsRotl
<1> HIDE DEF w0
<1>5. v0 \in Word
  BY <1>1, <1>3, <1>4, WordType
<1> HIDE DEF v0
<1>6. Srli(v0, Amount(7)) = w1 /\ w1 \in Word
  BY <1>5, <1>2, ShiftedRight
<1>7. RotlVarBounded(v0, k[2]) = Rotl(v0, k[2]) /\ Rotl(v0, k[2]) \in Word
  BY <1>1, <1>5, RotlVarIsRotl
<1> HIDE DEF w1
<1>8. v1 \in Word
  BY <1>1, <1>6, <1>7, WordType
<1>9. Xor(RotlVarBounded(v0, k[2]), Srli(v0, Amount(7))) = Xor(w1, Rotl(v0, k[2]))
  <2>1. Xor(Rotl(v0, k[2]), w1) = Xor(w1, Rotl(v0, k[2]))
    BY <1>6, <1>7, XorLaw
  <2> QED BY <2>1, <1>6, <1>7
<1> QED BY <1>3, <1>4, <1>5, <1>8, <1>9 DEF VErdMix, ErdMix, v0, w0, w1, Pairs

LEMMA ErdFinishSame ==
  ASSUME NEW v \in Pairs
  PROVE  VErdFinish(v) = ErdFinish(v) /\ ErdFinish(v) \in Pairs
<1> DEFINE v0 == Add(v[1], RotlBy(v[2], 17))
           w0 == v0 \div Pow(Amount(29))
<1>1. v[1] \in Word /\ v[2] \in Word
  BY DEF Pairs
<1>2. 17 \in Distances /\ 29 \in Distances /\ 40 \in Distances
  BY DEF Distances
<1>3. VRot(v[2], 17) = RotlBy(v[2], 17) /\ v0 \in Word
  BY <1>1, <1>2, VRotIsRotlBy, WordType
<1> HIDE DEF v0
<1>4. VRot(v0, 40) = RotlBy(v0, 40) /\ RotlBy(v0, 40) \in Word
  BY <1>2, <1>3, VRotIsRotlBy
<1>5. Srli(v0, Amount(29)) = w0 /\ w0 \in Word
  BY <1>2, <1>3, ShiftedRight
<1> HIDE DEF w0
<1>6. Xor(v0, w0) \in Word /\ Xor(v[2], RotlBy(v0, 40)) \in Word
  BY <1>1, <1>3, <1>4, <1>5, WordType
<1> QED BY <1>3, <1>4, <1>5, <1>6 DEF VErdFinish, ErdFinish, v0, w0, Pairs

(* The high word of a word times a small factor, by halves, in numbers.    *)
LEMMA HighByHalves ==
  ASSUME NEW b \in Nat \ {0}, NEW h \in 0 .. b-1, NEW l \in 0 .. b-1, NEW n \in 1 .. b-1
  PROVE  /\ (l * n) \div b \in 0 .. n-1
         /\ h * n + ((l * n) \div b) \in 0 .. b * n - 1
         /\ (h * n + ((l * n) \div b)) \div b \in 0 .. n-1
         /\ ((b * h + l) * n) \div (b * b) = (h * n + ((l * n) \div b)) \div b
<1> DEFINE ln == l * n
           carry == ln \div b
           low == ln % b
           e == h * n + carry
           q == e \div b
           rest == e % b
           bb == b * b
           tail == b * rest + low
<1>1. n \in Nat \ {0} /\ h \in Nat /\ l \in Nat /\ b \in Nat \ {0} /\ bb \in Nat \ {0}
  OBVIOUS
<1>2. ln \in Nat /\ ln \in 0 .. b * n - 1
  <2>1. l * n + 0 \in 0 .. b * n - 1
    <3>1. 0 \in 0 .. n-1
      BY <1>1
    <3> QED BY <1>1, <3>1, ProductBound
  <2> QED BY <2>1, <1>1
<1> HIDE DEF ln
<1>3. carry \in 0 .. n-1
  BY <1>1, <1>2, QuotBound
<1>4. low \in 0 .. b-1 /\ ln = b * carry + low
  BY <1>1, <1>2, DivMod
<1> HIDE DEF carry, low
<1>5. e \in 0 .. b * n - 1
  BY <1>1, <1>3, ProductBound
<1> HIDE DEF e
<1>6. q \in 0 .. n-1 /\ e \in Nat
  <2>1. e \in Nat
    BY <1>5, <1>1
  <2> QED BY <2>1, <1>1, <1>5, QuotBound
<1>7. rest \in 0 .. b-1 /\ e = b * q + rest
  BY <1>1, <1>6, DivMod
<1> HIDE DEF q, rest
<1>8. tail \in 0 .. bb - 1
  <2>1. rest * b + low \in 0 .. b * b - 1
    BY <1>1, <1>4, <1>7, ProductBound
  <2>2. rest * b + low = tail
    BY <1>1, <1>4, <1>7
  <2> QED BY <2>1, <2>2
<1>9. (b * h + l) * n = bb * q + tail
  <2>1. q \in Nat /\ rest \in Nat /\ carry \in Nat /\ low \in Nat
    BY <1>1, <1>3, <1>4, <1>6, <1>7
  <2>2. (b * h + l) * n = b * (h * n) + ln
    BY <1>1 DEF ln
  <2>3. b * (h * n) + ln = b * e + low
    BY <1>1, <1>4, <2>1 DEF e
  <2>4. b * e + low = bb * q + tail
    BY <1>1, <1>7, <2>1
  <2> QED BY <2>2, <2>3, <2>4
<1>10. (bb * q + tail) \div bb = q
  <2>1. q \in Nat
    BY <1>1, <1>6
  <2> HIDE DEF bb, tail
  <2> QED BY <1>1, <1>8, <2>1, QuotRem
<1> QED BY <1>3, <1>5, <1>6, <1>9, <1>10 DEF q, e, carry, ln

LEMMA ProjectSame ==
  ASSUME NEW v \in Word, NEW span \in 1 .. 2 * Bits - 1
  PROVE  VProject(v, span) = Project(v, span) /\ Project(v, span) \in 1 .. 2 * Bits - 1
<1> DEFINE h == Srli(v, Half)
           l == v % B
           carry == (l * span) \div B
           e == h * span + carry
           q == e \div B
<1>1. B \in Nat \ {0} /\ M = B * B /\ M \in Nat /\ Bits \in Nat \ {0} /\ 2 * Bits <= B /\ B <= M
  BY Powers
<1>2. h \in 0 .. B-1 /\ l \in 0 .. B-1 /\ v = B * h + l /\ h % B = h /\ l % B = l
  BY Halves
<1>3. span \in 1 .. B-1 /\ span \in Nat /\ span % B = span
  BY <1>1
<1>4. carry \in 0 .. span-1 /\ e \in 0 .. B * span - 1 /\ q \in 0 .. span-1
  <2> HIDE DEF h, l
  <2> QED BY <1>1, <1>2, <1>3, HighByHalves
<1>5. (v * span) \div M = q
  <2>1. ((B * h + l) * span) \div (B * B) = q
    <3> HIDE DEF h, l
    <3> QED BY <1>1, <1>2, <1>3, HighByHalves
  <2> HIDE DEF h, l, q
  <2> QED BY <1>1, <1>2, <2>1
<1>6. And(v, B - 1) = l
  <2>1. Half \in 0 .. Bits
    BY Powers
  <2> QED BY <2>1, AndLow DEF B
<1>7. MulLow(l, span) = l * span /\ MulLow(Srli(v, Half), span) = h * span
  <2> HIDE DEF h, l
  <2>1. Srli(v, Half) = h
    BY DEF h
  <2> QED BY <1>2, <1>3, <2>1 DEF MulLow
<1> HIDE DEF h, l
<1>8. Srli(MulLow(And(v, B - 1), span), Half) = carry
  BY <1>6, <1>7 DEF Srli, B
<1> HIDE DEF carry
<1>9. Add(h * span, carry) = e
  <2>1. B * span <= M /\ B * span \in Nat
    <3>1. B * span <= B * B
      BY <1>1, <1>3
    <3> QED BY <1>1, <1>3, <3>1
  <2>2. e \in 0 .. M-1
    <3> HIDE DEF e
    <3> QED BY <1>1, <1>4, <2>1
  <2> HIDE DEF M
  <2>3. e % M = e
    <3> HIDE DEF e
    <3> QED BY <1>1, <2>2
  <2> QED BY <2>3 DEF Add
<1>10. Srli(e, Half) = q
  BY DEF Srli, B
<1> HIDE DEF e, q
<1>11. Add(q, 1) = q + 1
  <2>1. q + 1 \in 0 .. M-1
    BY <1>1, <1>3, <1>4
  <2> QED BY <1>1, <2>1 DEF Add
<1>12. VProject(v, span) = Add(q, 1)
  BY <1>7, <1>8, <1>9, <1>10 DEF VProject
<1>13. q + 1 \in 1 .. 2 * Bits - 1
  BY <1>1, <1>3, <1>4
<1> QED BY <1>5, <1>11, <1>12, <1>13 DEF Project

Turns == (1 .. 2 * Bits - 1) \X (1 .. 2 * Bits - 1)

(* What a state is rotated by: the keys that mix the working words are odd *)
(* and below 64 and the rotations are by 1 to 127, which the instructions  *)
(* rely on, and the vectors choose as the scalar code does.                *)
THEOREM ErdAgrees ==
  ASSUME NEW s0 \in Double, NEW s1 \in Double
  PROVE  /\ VErdKeys(VErdStages(VErdBase(Halved(s0), Halved(s1)))) \in OddDistances \X OddDistances
         /\ VErd(Halved(s0), Halved(s1)) = Erd(s0, s1)
         /\ Erd(s0, s1) \in Turns
<1> DEFINE b == ErdBase(s0, s1)
           v == ErdStages(b)
           k == ErdKeys(v)
           w == ErdMix(v, k)
           u == ErdFinish(w)
<1>1. VErdBase(Halved(s0), Halved(s1)) = b /\ b \in Pairs
  BY ErdBaseSame
<1> HIDE DEF b
<1>2. VErdStages(b) = v /\ v \in Pairs
  BY <1>1, ErdStagesSame
<1> HIDE DEF v
<1>3. VErdKeys(v) = k /\ k \in OddDistances \X OddDistances
  BY <1>2, ErdKeysSame
<1> HIDE DEF k
<1>4. VErdMix(v, k) = w /\ w \in Pairs
  BY <1>2, <1>3, ErdMixSame
<1> HIDE DEF w
<1>5. VErdFinish(w) = u /\ u \in Pairs
  BY <1>4, ErdFinishSame
<1> HIDE DEF u
<1>6. u[1] \in Word /\ u[2] \in Word
  BY <1>5 DEF Pairs
<1>7. /\ VProject(u[1], Span0) = Project(u[1], Span0)
      /\ Project(u[1], Span0) \in 1 .. 2 * Bits - 1
      /\ VProject(u[2], Span1) = Project(u[2], Span1)
      /\ Project(u[2], Span1) \in 1 .. 2 * Bits - 1
  BY <1>6, FactorLaw, ProjectSame
<1>8. VErdRotations(u) = ErdRotations(u) /\ ErdRotations(u) \in Turns
  BY <1>7 DEF VErdRotations, ErdRotations, Turns
<1>9. VErd(Halved(s0), Halved(s1)) = VErdRotations(u)
  BY <1>1, <1>2, <1>3, <1>4, <1>5 DEF VErd
<1>10. Erd(s0, s1) = ErdRotations(u)
  BY DEF Erd, b, v, k, w, u
<1> QED BY <1>1, <1>2, <1>3, <1>8, <1>9, <1>10

-----------------------------------------------------------------------------
(* A step.                                                                 *)

LEMMA PerturbedSame ==
  ASSUME NEW s \in Double \X Double, NEW rc \in Word
  PROVE  LET rc128 == Join(RotlBy(rc, 17), rc)
         IN  /\ Perturbed(Halved(s[1]), Halved(s[2]), rc)
                  = <<Halved(DXor(s[1], rc128)), Halved(DXor(s[2], DRotl(rc128, Amount(17))))>>
             /\ DXor(s[1], rc128) \in Double
             /\ DXor(s[2], DRotl(rc128, Amount(17))) \in Double
<1> DEFINE c == Join(RotlBy(rc, 17), rc)
           r == DRotl(c, Amount(17))
<1>1. 17 \in Distances /\ s[1] \in Double /\ s[2] \in Double
  BY DEF Distances
<1>2. VRot(rc, 17) = RotlBy(rc, 17) /\ RotlBy(rc, 17) \in Word
  BY <1>1, VRotIsRotlBy
<1>3. c \in Double /\ Halved(c) = Wide(VRot(rc, 17), rc)
  BY <1>2, JoinParts
<1> HIDE DEF c
<1>4. RotlWide(Halved(c), 17) = Halved(r) /\ r \in Double
  BY <1>1, <1>3, RotlWideIsDRotl
<1> HIDE DEF r
<1>5. /\ XorWide(Halved(s[1]), Halved(c)) = Halved(DXor(s[1], c)) /\ DXor(s[1], c) \in Double
      /\ XorWide(Halved(s[2]), Halved(r)) = Halved(DXor(s[2], r)) /\ DXor(s[2], r) \in Double
  BY <1>1, <1>3, <1>4, XorWideIsDXor
<1>6. Perturbed(Halved(s[1]), Halved(s[2]), rc)
        = <<XorWide(Halved(s[1]), Halved(c)), XorWide(Halved(s[2]), Halved(r))>>
  BY <1>3, <1>4 DEF Perturbed
<1> QED BY <1>5, <1>6 DEF c, r

LEMMA ErdRoundSame ==
  ASSUME NEW s \in Double \X Double, NEW rc \in Word
  PROVE  /\ VErdRound(Halved(s[1]), Halved(s[2]), rc)
              = <<Halved(ErdRound(s, rc)[1]), Halved(ErdRound(s, rc)[2])>>
         /\ ErdRound(s, rc) \in Double \X Double
<1> DEFINE c == Join(RotlBy(rc, 17), rc)
           s0 == DXor(s[1], c)
           s1 == DXor(s[2], DRotl(c, Amount(17)))
           rot == Erd(s0, s1)
<1>1. /\ Perturbed(Halved(s[1]), Halved(s[2]), rc) = <<Halved(s0), Halved(s1)>>
      /\ s0 \in Double /\ s1 \in Double
  BY PerturbedSame
<1> HIDE DEF s0, s1
<1>2. VErd(Halved(s0), Halved(s1)) = rot /\ rot \in Turns
  BY <1>1, ErdAgrees
<1> HIDE DEF rot
<1>3. rot[1] \in 1 .. 2 * Bits - 1 /\ rot[2] \in 1 .. 2 * Bits - 1
  BY <1>2 DEF Turns
<1>4. /\ RotlWideVar(Halved(s0), rot[1]) = Halved(DRotl(s0, rot[1])) /\ DRotl(s0, rot[1]) \in Double
      /\ RotlWideVar(Halved(s1), rot[2]) = Halved(DRotl(s1, rot[2])) /\ DRotl(s1, rot[2]) \in Double
  BY <1>1, <1>3, RotlWideVarIsDRotl
<1>5. ErdRound(s, rc) = <<DRotl(s0, rot[1]), DRotl(s1, rot[2])>>
  BY DEF ErdRound, rot, s0, s1, c
<1>6. VErdRound(Halved(s[1]), Halved(s[2]), rc)
        = <<RotlWideVar(Halved(s0), rot[1]), RotlWideVar(Halved(s1), rot[2])>>
  BY <1>1, <1>2 DEF VErdRound
<1> QED BY <1>4, <1>5, <1>6

LEMMA IdmSame ==
  ASSUME NEW s \in Double \X Double
  PROVE  LET q == VIdm(Quad(Hi(s[1]), Lo(s[1]), Hi(s[2]), Lo(s[2])))
         IN  /\ Idm(s) \in Double \X Double
             /\ Wide(q.a, q.b) = Halved(Idm(s)[1]) /\ Wide(q.c, q.d) = Halved(Idm(s)[2])
<1> DEFINE i == Quad(Hi(s[1]), Lo(s[1]), Hi(s[2]), Lo(s[2]))
           q == IdmQuad(i)
<1>1. s[1] \in Double /\ s[2] \in Double
  OBVIOUS
<1>2. i \in Quads
  BY <1>1, DoubleParts, QuadType
<1> HIDE DEF i
<1>3. VIdm(i) = q /\ q \in Quads
  BY <1>2, IdmAgrees
<1> HIDE DEF q
<1>4. q.a \in Word /\ q.b \in Word /\ q.c \in Word /\ q.d \in Word
  BY <1>3 DEF Quads
<1>5. Idm(s) = <<Join(q.a, q.b), Join(q.c, q.d)>>
  BY DEF Idm, q, i
<1>6. /\ Join(q.a, q.b) \in Double /\ Halved(Join(q.a, q.b)) = Wide(q.a, q.b)
      /\ Join(q.c, q.d) \in Double /\ Halved(Join(q.c, q.d)) = Wide(q.c, q.d)
  BY <1>4, JoinParts
<1> QED BY <1>3, <1>5, <1>6 DEF i

(* step_x4_rc makes one step of stream_step with the constant it is given  *)
(* (src/core_avx2.rs, src/core.rs).                                        *)
THEOREM StepAgrees ==
  ASSUME NEW s \in Double \X Double, NEW rc \in Word
  PROVE  /\ StepRc(Halved(s[1]), Halved(s[2]), rc)
              = <<Halved(ErdRound(Idm(s), rc)[1]), Halved(ErdRound(Idm(s), rc)[2])>>
         /\ ErdRound(Idm(s), rc) \in Double \X Double
<1> DEFINE q == VIdm(Quad(Hi(s[1]), Lo(s[1]), Hi(s[2]), Lo(s[2])))
           t == Idm(s)
<1>1. t \in Double \X Double /\ Wide(q.a, q.b) = Halved(t[1]) /\ Wide(q.c, q.d) = Halved(t[2])
  BY IdmSame
<1>2. StepRc(Halved(s[1]), Halved(s[2]), rc) = VErdRound(Wide(q.a, q.b), Wide(q.c, q.d), rc)
  BY DEF StepRc, Halved, Wide
<1> HIDE DEF q, t
<1>3. /\ VErdRound(Halved(t[1]), Halved(t[2]), rc)
           = <<Halved(ErdRound(t, rc)[1]), Halved(ErdRound(t, rc)[2])>>
      /\ ErdRound(t, rc) \in Double \X Double
  BY <1>1, ErdRoundSame
<1> QED BY <1>1, <1>2, <1>3 DEF t

-----------------------------------------------------------------------------
(* The constant that is carried along.                                     *)

LEMMA ConstantWord ==
  ASSUME NEW step \in Word
  PROVE  RoundConstant(step) \in Word
BY FactorLaw, WordType DEF RoundConstant

LEMMA ConstantByParts ==
  ASSUME NEW step \in Word
  PROVE  MulConst(Add(step, 2), Phi) = RoundConstant(step)
<1>1. Add(step, 2) \in Word /\ Phi \in Word
  BY FactorLaw, WordType
<1>2. MulConst(Add(step, 2), Phi) = Mul(Add(step, 2), Phi)
  BY <1>1, MulConstIsMul
<1>3. Add(step, 2) * Phi = Phi * Add(step, 2)
  BY <1>1, WordType
<1> QED BY <1>2, <1>3 DEF RoundConstant, Mul

(* Adding PHI_64 leads to the constant of the next counter.                *)
LEMMA ConstantNext ==
  ASSUME NEW step \in Word
  PROVE  Add(RoundConstant(step), Phi) = RoundConstant(Add(step, 1))
<1>1. step \in Nat /\ Phi \in Nat /\ M \in Nat \ {0}
  BY FactorLaw, WordType, Powers
<1> HIDE DEF M
<1>2. ASSUME NEW x \in Nat PROVE (Phi * (x % M)) % M = (x * Phi) % M
  <2>1. ((x % M) * Phi) % M = (x * Phi) % M
    BY <1>1, ModMul
  <2>2. x % M \in Nat
    <3>1. x % M \in 0 .. M-1
      BY <1>1, DivMod
    <3> QED BY <3>1, <1>1
  <2>3. Phi * (x % M) = (x % M) * Phi
    BY <1>1, <2>2
  <2> QED BY <2>1, <2>3
<1>3. RoundConstant(step) = ((step + 2) * Phi) % M
  <2>1. step + 2 \in Nat
    BY <1>1
  <2> QED BY <1>2, <2>1 DEF RoundConstant, Mul, Add
<1>4. Add(RoundConstant(step), Phi) = ((step + 3) * Phi) % M
  <2> DEFINE y == (step + 2) * Phi
  <2>1. y \in Nat /\ y + Phi = (step + 3) * Phi
    BY <1>1
  <2>2. ((y % M) + Phi) % M = (y + Phi) % M
    <3> HIDE DEF y
    <3> QED BY <1>1, <2>1, ModAdd
  <2> QED BY <1>3, <2>1, <2>2 DEF Add
<1>5. RoundConstant(Add(step, 1)) = ((step + 3) * Phi) % M
  <2> DEFINE z == step + 1
  <2>1. z \in Nat /\ 2 \in Nat
    BY <1>1
  <2>2. ((z % M) + 2) % M = (z + 2) % M
    <3> HIDE DEF z
    <3> QED BY <1>1, <2>1, ModAdd
  <2>3. z + 2 = step + 3 /\ step + 3 \in Nat
    BY <1>1
  <2>4. (Phi * ((step + 3) % M)) % M = ((step + 3) * Phi) % M
    BY <1>2, <2>3
  <2> QED BY <2>2, <2>3, <2>4 DEF RoundConstant, Mul, Add
<1> QED BY <1>4, <1>5

-----------------------------------------------------------------------------
(* A group in the vectors and the four lanes it stands for.                *)

LEMMA Joined ==
  ASSUME NEW w \in WideWord
  PROVE  Join(w.hi, w.lo) \in Double /\ Halved(Join(w.hi, w.lo)) = w
<1>1. w.hi \in Word /\ w.lo \in Word /\ w = Wide(w.hi, w.lo)
  BY DEF WideWord, Wide
<1> QED BY <1>1, JoinParts

LEMMA HalvedType ==
  ASSUME NEW x \in Double
  PROVE  Halved(x) \in WideWord /\ Join(Halved(x).hi, Halved(x).lo) = x
<1>1. Hi(x) \in Word /\ Lo(x) \in Word /\ x = M * Hi(x) + Lo(x) /\ M \in Nat
  BY DoubleParts, Powers
<1>2. Hi(x) * M = M * Hi(x)
  BY <1>1, WordType
<1> QED BY <1>1, <1>2 DEF Halved, Wide, WideWord, Join

(* The transposition exchanges rows and columns.                           *)
LEMMA TransposedIs ==
  ASSUME NEW r
  PROVE  Transposed(r) = << <<r[1][1], r[2][1], r[3][1], r[4][1]>>,
                            <<r[1][2], r[2][2], r[3][2], r[4][2]>>,
                            <<r[1][3], r[2][3], r[3][3], r[4][3]>>,
                            <<r[1][4], r[2][4], r[3][4], r[4][4]>> >>
BY DEF Transposed, UnpackLo, UnpackHi, LowHalves, HighHalves

LEMMA LoadedIs ==
  ASSUME NEW ls
  PROVE  Loaded(ls) = [s0 |-> [i \in Lane |-> Halved(ls[i].s[1])],
                       s1 |-> [i \in Lane |-> Halved(ls[i].s[2])]]
<1> DEFINE r == [i \in Lane |->
                  <<Lo(ls[i].s[1]), Hi(ls[i].s[1]), Lo(ls[i].s[2]), Hi(ls[i].s[2])>>]
           w == Transposed(r)
<1>1. ASSUME NEW i \in Lane
      PROVE  /\ w[1][i] = Lo(ls[i].s[1]) /\ w[2][i] = Hi(ls[i].s[1])
             /\ w[3][i] = Lo(ls[i].s[2]) /\ w[4][i] = Hi(ls[i].s[2])
  <2> HIDE DEF r
  <2>1. /\ w[1] = <<r[1][1], r[2][1], r[3][1], r[4][1]>>
        /\ w[2] = <<r[1][2], r[2][2], r[3][2], r[4][2]>>
        /\ w[3] = <<r[1][3], r[2][3], r[3][3], r[4][3]>>
        /\ w[4] = <<r[1][4], r[2][4], r[3][4], r[4][4]>>
    BY TransposedIs
  <2> HIDE DEF w
  <2>2. i = 1 \/ i = 2 \/ i = 3 \/ i = 4
    BY DEF Lane
  <2>3. w[1][i] = r[i][1] /\ w[2][i] = r[i][2] /\ w[3][i] = r[i][3] /\ w[4][i] = r[i][4]
    BY <2>1, <2>2
  <2>4. r[i] = <<Lo(ls[i].s[1]), Hi(ls[i].s[1]), Lo(ls[i].s[2]), Hi(ls[i].s[2])>>
    BY DEF r
  <2> QED BY <2>3, <2>4
<1>2. Loaded(ls) = [s0 |-> [i \in Lane |-> Wide(w[2][i], w[1][i])],
                    s1 |-> [i \in Lane |-> Wide(w[4][i], w[3][i])]]
  BY DEF Loaded
<1> HIDE DEF w
<1> QED BY <1>1, <1>2 DEF Halved

LEMMA StoredIs ==
  ASSUME NEW s0, NEW s1
  PROVE  Stored(s0, s1) = [i \in Lane |-> <<s0[i].lo, s0[i].hi, s1[i].lo, s1[i].hi>>]
<1> DEFINE r == <<[i \in Lane |-> s0[i].lo], [i \in Lane |-> s0[i].hi],
                  [i \in Lane |-> s1[i].lo], [i \in Lane |-> s1[i].hi]>>
           b(i) == <<s0[i].lo, s0[i].hi, s1[i].lo, s1[i].hi>>
<1>1. Lane = 1 .. 4
  BY DEF Lane
<1>2. ASSUME NEW i \in Lane
      PROVE  <<r[1][i], r[2][i], r[3][i], r[4][i]>> = b(i)
  OBVIOUS
<1> HIDE DEF r
<1>3. Transposed(r) = << b(1), b(2), b(3), b(4) >>
  <2>1. /\ <<r[1][1], r[2][1], r[3][1], r[4][1]>> = b(1)
        /\ <<r[1][2], r[2][2], r[3][2], r[4][2]>> = b(2)
        /\ <<r[1][3], r[2][3], r[3][3], r[4][3]>> = b(3)
        /\ <<r[1][4], r[2][4], r[3][4], r[4][4]>> = b(4)
    BY <1>1, <1>2
  <2>2. Transposed(r) = << <<r[1][1], r[2][1], r[3][1], r[4][1]>>,
                           <<r[1][2], r[2][2], r[3][2], r[4][2]>>,
                           <<r[1][3], r[2][3], r[3][3], r[4][3]>>,
                           <<r[1][4], r[2][4], r[3][4], r[4][4]>> >>
    BY TransposedIs
  <2> QED BY <2>1, <2>2
<1> HIDE DEF b
<1>4. << b(1), b(2), b(3), b(4) >> = [i \in 1 .. 4 |-> b(i)]
  OBVIOUS
<1> QED BY <1>1, <1>3, <1>4 DEF Stored, r, b

-----------------------------------------------------------------------------
(* The counter after some steps.                                           *)

LEMMA CounterIs ==
  ASSUME NEW step \in Word, NEW n \in Nat
  PROVE  CounterAfter(step, n) = (step + n) % M /\ CounterAfter(step, n) \in Word
<1>1. step \in Nat /\ M \in Nat \ {0}
  BY WordType, Powers
<1> HIDE DEF M
<1>2. n % M \in Nat /\ ((n % M) + step) % M = (n + step) % M
  <2>1. n % M \in 0 .. M-1
    BY <1>1, DivMod
  <2>2. n % M \in Nat
    BY <1>1, <2>1
  <2>3. ((n % M) + step) % M = (n + step) % M
    BY <1>1, ModAdd
  <2> QED BY <2>2, <2>3
<1>3. (n % M) + step = step + (n % M) /\ n + step = step + n
  BY <1>1, <1>2
<1>4. (step + n) % M \in 0 .. M-1
  <2> DEFINE t == step + n
  <2>1. t \in Nat
    BY <1>1
  <2>2. t % M \in 0 .. M-1
    <3> HIDE DEF t
    <3> QED BY <1>1, <2>1, DivMod
  <2> QED BY <2>2
<1> QED BY <1>2, <1>3, <1>4 DEF CounterAfter, Add, Word

LEMMA CounterStart ==
  ASSUME NEW step \in Word
  PROVE  CounterAfter(step, 0) = step
<1>1. step \in Nat /\ step < M /\ M \in Nat \ {0}
  BY WordType, Powers DEF Word
<1>2. step + 0 = step /\ step % M = step
  BY <1>1
<1> QED BY <1>2, CounterIs

LEMMA CounterNext ==
  ASSUME NEW step \in Word, NEW n \in Nat
  PROVE  CounterAfter(step, n + 1) = Add(CounterAfter(step, n), 1)
<1> DEFINE t == step + n
<1>1. t \in Nat /\ M \in Nat \ {0} /\ 1 \in Nat
  BY WordType, Powers
<1>2. ((t % M) + 1) % M = (t + 1) % M
  <2> HIDE DEF t, M
  <2> QED BY <1>1, ModAdd
<1>3. CounterAfter(step, n) = t % M
  BY CounterIs
<1>4. CounterAfter(step, n + 1) = (t + 1) % M
  <2>1. n + 1 \in Nat /\ step + (n + 1) = t + 1
    BY WordType
  <2>2. CounterAfter(step, n + 1) = (step + (n + 1)) % M
    BY <2>1, CounterIs
  <2> QED BY <2>1, <2>2
<1> QED BY <1>2, <1>3, <1>4 DEF Add

-----------------------------------------------------------------------------
(* The lanes as they would be written back now.                            *)

GroupType == [Lane -> [s : Double \X Double, step : Word]]

LEMMA WrittenIs ==
  ASSUME NEW r, NEW n
  PROVE  WrittenBack(r, n) =
           [i \in Lane |-> [s    |-> <<Join(r.s0[i].hi, r.s0[i].lo), Join(r.s1[i].hi, r.s1[i].lo)>>,
                            step |-> CounterAfter(r.step[i], n)]]
<1> DEFINE w == Stored(r.s0, r.s1)
<1>1. \A i \in Lane : w[i] = <<r.s0[i].lo, r.s0[i].hi, r.s1[i].lo, r.s1[i].hi>>
  BY StoredIs
<1>2. WrittenBack(r, n) =
        [i \in Lane |-> [s    |-> <<Join(w[i][2], w[i][1]), Join(w[i][4], w[i][3])>>,
                         step |-> CounterAfter(r.step[i], n)]]
  BY DEF WrittenBack
<1> HIDE DEF w
<1>3. \A i \in Lane : /\ w[i][1] = r.s0[i].lo /\ w[i][2] = r.s0[i].hi
                      /\ w[i][3] = r.s1[i].lo /\ w[i][4] = r.s1[i].hi
  BY <1>1
<1> QED BY <1>2, <1>3

(* What a lane of the registers holds: a state and its counter.            *)
StateOf(r, i) == <<Join(r.s0[i].hi, r.s0[i].lo), Join(r.s1[i].hi, r.s1[i].lo)>>

LEMMA StateOfType ==
  ASSUME NEW r \in Registers, NEW i \in Lane
  PROVE  /\ StateOf(r, i) \in Double \X Double
         /\ r.s0[i] = Halved(StateOf(r, i)[1]) /\ r.s1[i] = Halved(StateOf(r, i)[2])
         /\ r.rc[i] \in Word /\ r.step[i] \in Word /\ r.done \in Nat /\ r.steps \in Nat
<1>1. r.s0[i] \in WideWord /\ r.s1[i] \in WideWord
  BY DEF Registers
<1>2. r.rc[i] \in Word /\ r.step[i] \in Word /\ r.done \in Nat /\ r.steps \in Nat
  BY DEF Registers
<1> QED BY <1>1, <1>2, Joined DEF StateOf

LEMMA WrittenType ==
  ASSUME NEW r \in Registers, NEW n \in Nat
  PROVE  /\ WrittenBack(r, n) = [i \in Lane |-> [s |-> StateOf(r, i), step |-> CounterAfter(r.step[i], n)]]
         /\ WrittenBack(r, n) \in GroupType
<1>1. WrittenBack(r, n) = [i \in Lane |-> [s |-> StateOf(r, i), step |-> CounterAfter(r.step[i], n)]]
  BY WrittenIs DEF StateOf
<1>2. \A i \in Lane : StateOf(r, i) \in Double \X Double /\ CounterAfter(r.step[i], n) \in Word
  BY StateOfType, CounterIs
<1> QED BY <1>1, <1>2 DEF GroupType

(* Loading and writing back at once changes nothing.                       *)
LEMMA LoadedType ==
  ASSUME NEW ls \in GroupType, NEW n \in Nat
  PROVE  LET v == Loaded(ls)
             r == [s0 |-> v.s0, s1 |-> v.s1, step |-> [i \in Lane |-> ls[i].step],
                   rc |-> [i \in Lane |-> FirstConstant(ls[i].step)], done |-> 0, steps |-> n]
         IN  /\ r \in Registers
             /\ WrittenBack(r, 0) = ls
             /\ \A i \in Lane : r.rc[i] = RoundConstant(CounterAfter(r.step[i], 0))
<1> DEFINE v == Loaded(ls)
           r == [s0 |-> v.s0, s1 |-> v.s1, step |-> [i \in Lane |-> ls[i].step],
                 rc |-> [i \in Lane |-> FirstConstant(ls[i].step)], done |-> 0, steps |-> n]
<1>1. \A i \in Lane : /\ ls[i] \in [s : Double \X Double, step : Word]
                      /\ ls[i].s \in Double \X Double /\ ls[i].s[1] \in Double /\ ls[i].s[2] \in Double
                      /\ ls[i].step \in Word
  BY DEF GroupType
<1>2. v.s0 = [i \in Lane |-> Halved(ls[i].s[1])] /\ v.s1 = [i \in Lane |-> Halved(ls[i].s[2])]
  BY LoadedIs
<1> HIDE DEF v
<1>3. \A i \in Lane : Halved(ls[i].s[1]) \in WideWord /\ Halved(ls[i].s[2]) \in WideWord
  BY <1>1, HalvedType
<1>4. \A i \in Lane : FirstConstant(ls[i].step) = RoundConstant(ls[i].step)
                      /\ RoundConstant(ls[i].step) \in Word
  BY <1>1, ConstantByParts, ConstantWord DEF FirstConstant
<1>5. r \in Registers
  BY <1>1, <1>2, <1>3, <1>4 DEF Registers
<1>6. \A i \in Lane : CounterAfter(ls[i].step, 0) = ls[i].step
  BY <1>1, CounterStart
<1>7. \A i \in Lane : r.rc[i] = RoundConstant(CounterAfter(r.step[i], 0))
  BY <1>4, <1>6
<1>8. WrittenBack(r, 0) = ls
  <2>1. WrittenBack(r, 0) = [i \in Lane |-> [s |-> StateOf(r, i), step |-> CounterAfter(r.step[i], 0)]]
    <3> HIDE DEF r
    <3> QED BY <1>5, WrittenType
  <2>2. ASSUME NEW i \in Lane PROVE StateOf(r, i) = ls[i].s /\ CounterAfter(r.step[i], 0) = ls[i].step
    <3>1. r.s0[i] = Halved(ls[i].s[1]) /\ r.s1[i] = Halved(ls[i].s[2]) /\ r.step[i] = ls[i].step
      BY <1>2
    <3>2. StateOf(r, i) = <<ls[i].s[1], ls[i].s[2]>>
      <4> HIDE DEF r
      <4> QED BY <1>1, <3>1, HalvedType DEF StateOf
    <3>3. <<ls[i].s[1], ls[i].s[2]>> = ls[i].s
      BY <1>1
    <3> QED BY <1>6, <3>1, <3>2, <3>3
  <2> HIDE DEF r
  <2>3. WrittenBack(r, 0) = [i \in Lane |-> [s |-> ls[i].s, step |-> ls[i].step]]
    BY <2>1, <2>2
  <2>4. \A i \in Lane : [s |-> ls[i].s, step |-> ls[i].step] = ls[i]
    BY <1>1
  <2>5. ls = [i \in Lane |-> ls[i]]
    BY DEF GroupType
  <2> QED BY <2>3, <2>4, <2>5
<1> QED BY <1>5, <1>7, <1>8 DEF v

(* One step of the vectors is a step of every lane.                        *)
After(r) == [i \in Lane |-> StepRc(r.s0[i], r.s1[i], r.rc[i])]

Advanced(r) ==
  [r EXCEPT !.s0 = [i \in Lane |-> After(r)[i][1]], !.s1 = [i \in Lane |-> After(r)[i][2]],
            !.done = @ + 1, !.rc = [i \in Lane |-> Add(r.rc[i], Phi)]]

LEMMA RegistersExcept ==
  ASSUME NEW r \in Registers, NEW p, NEW q, NEW d, NEW c
  PROVE  [r EXCEPT !.s0 = p, !.s1 = q, !.done = d, !.rc = c]
           = [s0 |-> p, s1 |-> q, step |-> r.step, rc |-> c, done |-> d, steps |-> r.steps]
<1> DEFINE Fields == {"s0", "s1", "step", "rc", "done", "steps"}
           a == [r EXCEPT !.s0 = p, !.s1 = q, !.done = d, !.rc = c]
           b == [s0 |-> p, s1 |-> q, step |-> r.step, rc |-> c, done |-> d, steps |-> r.steps]
<1>1. r = [f \in Fields |-> r[f]]
  BY DEF Registers
<1>2. a = [f \in Fields |-> a[f]]
  BY <1>1
<1>3. b = [f \in Fields |-> b[f]]
  OBVIOUS
<1>4. DOMAIN r = Fields
  BY <1>1
<1>5. \A f \in Fields : a[f] = b[f]
  <2>1. /\ a["s0"] = p /\ a["s1"] = q /\ a["step"] = r["step"]
        /\ a["rc"] = c /\ a["done"] = d /\ a["steps"] = r["steps"]
    BY <1>4
  <2>2. /\ b["s0"] = p /\ b["s1"] = q /\ b["step"] = r["step"]
        /\ b["rc"] = c /\ b["done"] = d /\ b["steps"] = r["steps"]
    OBVIOUS
  <2> HIDE DEF a, b
  <2> QED BY <2>1, <2>2
<1>6. [f \in Fields |-> a[f]] = [f \in Fields |-> b[f]]
  <2> HIDE DEF a, b, Fields
  <2> QED BY <1>5
<1>7. a = b
  <2> HIDE DEF a, b, Fields
  <2> QED BY <1>2, <1>3, <1>6
<1> QED BY <1>7

LEMMA AfterIs ==
  ASSUME NEW r \in Registers, NEW i \in Lane,
         r.rc[i] = RoundConstant(CounterAfter(r.step[i], r.done))
  PROVE  LET t == StreamStep(StateOf(r, i), CounterAfter(r.step[i], r.done))
         IN  /\ t \in Double \X Double
             /\ After(r)[i] = <<Halved(t[1]), Halved(t[2])>>
<1> DEFINE s == StateOf(r, i)
           t == ErdRound(Idm(s), r.rc[i])
<1>1. s \in Double \X Double /\ r.s0[i] = Halved(s[1]) /\ r.s1[i] = Halved(s[2]) /\ r.rc[i] \in Word
  BY StateOfType
<1> HIDE DEF s
<1>2. StepRc(Halved(s[1]), Halved(s[2]), r.rc[i]) = <<Halved(t[1]), Halved(t[2])>> /\ t \in Double \X Double
  BY <1>1, StepAgrees
<1>3. After(r)[i] = StepRc(r.s0[i], r.s1[i], r.rc[i])
  BY DEF After
<1>4. StreamStep(s, CounterAfter(r.step[i], r.done)) = t
  BY DEF StreamStep
<1> HIDE DEF t
<1> QED BY <1>1, <1>2, <1>3, <1>4 DEF s

LEMMA AdvancedType ==
  ASSUME NEW r \in Registers,
         \A i \in Lane : r.rc[i] = RoundConstant(CounterAfter(r.step[i], r.done))
  PROVE  /\ Advanced(r) \in Registers
         /\ \A i \in Lane :
              /\ Advanced(r).rc[i] = RoundConstant(CounterAfter(Advanced(r).step[i], Advanced(r).done))
              /\ StateOf(Advanced(r), i) = StreamStep(StateOf(r, i), CounterAfter(r.step[i], r.done))
              /\ CounterAfter(Advanced(r).step[i], Advanced(r).done)
                   = Add(CounterAfter(r.step[i], r.done), 1)
<1> DEFINE a == Advanced(r)
           S(i) == StreamStep(StateOf(r, i), CounterAfter(r.step[i], r.done))
<1>1. /\ a.s0 = [i \in Lane |-> After(r)[i][1]] /\ a.s1 = [i \in Lane |-> After(r)[i][2]]
      /\ a.done = r.done + 1 /\ a.rc = [i \in Lane |-> Add(r.rc[i], Phi)]
      /\ a.step = r.step /\ a.steps = r.steps
      /\ a = [s0 |-> a.s0, s1 |-> a.s1, step |-> a.step, rc |-> a.rc, done |-> a.done, steps |-> a.steps]
  <2> DEFINE p == [i \in Lane |-> After(r)[i][1]]
             q == [i \in Lane |-> After(r)[i][2]]
             c == [i \in Lane |-> Add(r.rc[i], Phi)]
             d == r.done + 1
  <2>1. a = [r EXCEPT !.s0 = p, !.s1 = q, !.done = d, !.rc = c]
    BY DEF Advanced
  <2> HIDE DEF p, q, c, d, a
  <2>2. a = [s0 |-> p, s1 |-> q, step |-> r.step, rc |-> c, done |-> d, steps |-> r.steps]
    BY <2>1, RegistersExcept
  <2> QED BY <2>2 DEF p, q, c, d
<1> HIDE DEF a
<1>2. ASSUME NEW i \in Lane
      PROVE  /\ S(i) \in Double \X Double
             /\ After(r)[i][1] = Halved(S(i)[1]) /\ After(r)[i][2] = Halved(S(i)[2])
             /\ a.s0[i] = Halved(S(i)[1]) /\ a.s1[i] = Halved(S(i)[2])
             /\ a.s0[i] \in WideWord /\ a.s1[i] \in WideWord
  <2>1. r.rc[i] = RoundConstant(CounterAfter(r.step[i], r.done))
    OBVIOUS
  <2>2. S(i) \in Double \X Double /\ After(r)[i] = <<Halved(S(i)[1]), Halved(S(i)[2])>>
    BY <2>1, AfterIs
  <2> HIDE DEF S
  <2>3. S(i)[1] \in Double /\ S(i)[2] \in Double
    BY <2>2
  <2>4. Halved(S(i)[1]) \in WideWord /\ Halved(S(i)[2]) \in WideWord
    BY <2>3, HalvedType
  <2>5. After(r)[i][1] = Halved(S(i)[1]) /\ After(r)[i][2] = Halved(S(i)[2])
    BY <2>2
  <2>6. a.s0[i] = After(r)[i][1] /\ a.s1[i] = After(r)[i][2]
    BY <1>1
  <2> QED BY <2>2, <2>4, <2>5, <2>6
<1>3. ASSUME NEW i \in Lane
      PROVE  /\ a.rc[i] = Add(r.rc[i], Phi) /\ a.rc[i] \in Word
             /\ CounterAfter(a.step[i], a.done) = Add(CounterAfter(r.step[i], r.done), 1)
             /\ a.rc[i] = RoundConstant(CounterAfter(a.step[i], a.done))
  <2>1. r.step[i] \in Word /\ r.done \in Nat /\ r.rc[i] \in Word
    BY StateOfType
  <2>2. a.rc[i] = Add(r.rc[i], Phi) /\ a.rc[i] \in Word
    BY <1>1, <2>1, FactorLaw, WordType
  <2>3. CounterAfter(a.step[i], a.done) = Add(CounterAfter(r.step[i], r.done), 1)
    BY <1>1, <2>1, CounterNext
  <2>4. CounterAfter(r.step[i], r.done) \in Word
    BY <2>1, CounterIs
  <2>5. Add(RoundConstant(CounterAfter(r.step[i], r.done)), Phi)
          = RoundConstant(Add(CounterAfter(r.step[i], r.done), 1))
    BY <2>4, ConstantNext
  <2> QED BY <2>2, <2>3, <2>5
<1>4. a \in Registers
  <2>1. a.done \in Nat /\ a.steps \in Nat /\ a.step \in [Lane -> Word]
    BY <1>1 DEF Registers
  <2>2. a.s0 \in [Lane -> WideWord] /\ a.s1 \in [Lane -> WideWord]
    BY <1>1, <1>2
  <2>3. a.rc \in [Lane -> Word]
    BY <1>1, <1>3
  <2> QED BY <1>1, <2>1, <2>2, <2>3 DEF Registers
<1>5. ASSUME NEW i \in Lane PROVE StateOf(a, i) = S(i)
  <2>1. /\ S(i) \in Double \X Double /\ a.s0[i] = Halved(S(i)[1]) /\ a.s1[i] = Halved(S(i)[2])
    BY <1>2
  <2> HIDE DEF S
  <2>2. S(i)[1] \in Double /\ S(i)[2] \in Double /\ S(i) = <<S(i)[1], S(i)[2]>>
    BY <2>1
  <2>3. StateOf(a, i) = <<S(i)[1], S(i)[2]>>
    BY <2>1, <2>2, HalvedType DEF StateOf
  <2> QED BY <2>2, <2>3
<1> QED BY <1>3, <1>4, <1>5 DEF a

-----------------------------------------------------------------------------
(* The invariant.                                                          *)

IInv == TypeOK /\ ConstantInStep

LEMMA Apart == \A r \in Registers : r # None
BY NoneApart

LEMMA InitInv == Init => IInv
<1> SUFFICES ASSUME Init PROVE IInv
  OBVIOUS
<1>1. lanes \in GroupType /\ regs = None /\ made = 0
  BY GroupsType DEF Init, Lane, GroupType
<1> QED BY <1>1 DEF IInv, TypeOK, ConstantInStep, GroupType

(* The registers after Load and after Iterate.                             *)
LEMMA LoadStep ==
  ASSUME IInv, NEW n \in StepCounts, Load(n)
  PROVE  /\ regs' \in Registers /\ regs'.done = 0 /\ WrittenBack(regs', 0) = lanes
         /\ lanes' = lanes /\ out' = out /\ regs = None /\ made' \in Nat
         /\ \A i \in Lane : regs'.rc[i] = RoundConstant(CounterAfter(regs'.step[i], regs'.done))
<1>1. n \in Nat /\ lanes \in GroupType /\ made \in Nat
  BY CountsType DEF IInv, TypeOK, GroupType
<1> DEFINE v == Loaded(lanes)
           r == [s0 |-> v.s0, s1 |-> v.s1, step |-> [i \in Lane |-> lanes[i].step],
                 rc |-> [i \in Lane |-> FirstConstant(lanes[i].step)], done |-> 0, steps |-> n]
<1>2. r \in Registers /\ WrittenBack(r, 0) = lanes
      /\ \A i \in Lane : r.rc[i] = RoundConstant(CounterAfter(r.step[i], 0))
  BY <1>1, LoadedType
<1>3. regs' = r /\ lanes' = lanes /\ out' = out /\ regs = None /\ made' = made + n
  BY DEF Load
<1>4. r.done = 0
  OBVIOUS
<1> HIDE DEF r
<1> QED BY <1>1, <1>2, <1>3, <1>4

LEMMA IterateStep ==
  ASSUME IInv, Iterate
  PROVE  /\ regs \in Registers /\ regs' = Advanced(regs) /\ lanes' = lanes /\ made' = made
         /\ out' = Stored([i \in Lane |-> After(regs)[i][1]], [i \in Lane |-> After(regs)[i][2]])
         /\ regs # None
         /\ \A i \in Lane : regs.rc[i] = RoundConstant(CounterAfter(regs.step[i], regs.done))
<1>1. regs # None /\ regs \in Registers
  BY DEF Iterate, IInv, TypeOK
<1>2. \A i \in Lane : regs.rc[i] = RoundConstant(CounterAfter(regs.step[i], regs.done))
  BY <1>1 DEF IInv, ConstantInStep
<1>3. /\ regs' = Advanced(regs) /\ lanes' = lanes /\ made' = made
      /\ out' = Stored([i \in Lane |-> After(regs)[i][1]], [i \in Lane |-> After(regs)[i][2]])
  BY DEF Iterate, Advanced, After
<1> QED BY <1>1, <1>2, <1>3

LEMMA StoreStep ==
  ASSUME IInv, Store
  PROVE  /\ regs \in Registers /\ regs # None /\ regs.done \in Nat
         /\ lanes' = WrittenBack(regs, regs.done) /\ lanes' \in GroupType
         /\ regs' = None /\ out' = out /\ made' = made
<1>1. regs # None /\ regs \in Registers /\ regs.done \in Nat
  BY DEF Store, IInv, TypeOK, Registers
<1>2. lanes' = WrittenBack(regs, regs.done) /\ regs' = None /\ out' = out /\ made' = made
  BY DEF Store
<1> QED BY <1>1, <1>2, WrittenType

LEMMA NextInv == IInv /\ [Next]_vars => IInv'
<1> SUFFICES ASSUME IInv, [Next]_vars PROVE IInv'
  OBVIOUS
<1>1. ASSUME NEW n \in StepCounts, Load(n) PROVE IInv'
  <2>1. /\ regs' \in Registers /\ lanes' = lanes /\ made' \in Nat
        /\ \A i \in Lane : regs'.rc[i] = RoundConstant(CounterAfter(regs'.step[i], regs'.done))
    BY <1>1, LoadStep
  <2> QED BY <2>1 DEF IInv, TypeOK, ConstantInStep
<1>2. CASE Iterate
  <2>1. /\ regs \in Registers /\ regs' = Advanced(regs) /\ lanes' = lanes /\ made' = made
        /\ \A i \in Lane : regs.rc[i] = RoundConstant(CounterAfter(regs.step[i], regs.done))
    BY <1>2, IterateStep
  <2>2. /\ regs' \in Registers
        /\ \A i \in Lane : regs'.rc[i] = RoundConstant(CounterAfter(regs'.step[i], regs'.done))
    BY <2>1, AdvancedType
  <2> QED BY <2>1, <2>2 DEF IInv, TypeOK, ConstantInStep
<1>3. CASE Store
  BY <1>3, StoreStep DEF IInv, TypeOK, ConstantInStep, GroupType
<1>4. CASE UNCHANGED vars
  BY <1>4 DEF vars, IInv, TypeOK, ConstantInStep
<1> QED BY <1>1, <1>2, <1>3, <1>4 DEF Next

LEMMA Invariant == Spec => []IInv
<1>1. Init => IInv
  BY InitInv
<1>2. IInv /\ [Next]_vars => IInv'
  BY NextInv
<1> QED BY <1>1, <1>2, PTL DEF Spec

(* Every word a group computes is one of Bits bits.                        *)
THEOREM TypeCorrect == Spec => []TypeOK
<1>1. IInv => TypeOK
  BY DEF IInv
<1> QED BY <1>1, Invariant, PTL

(* The constant carried in rc is that of the lane's counter.               *)
THEOREM ConstantCorrect == Spec => []ConstantInStep
<1>1. IInv => ConstantInStep
  BY DEF IInv
<1> QED BY <1>1, Invariant, PTL

(* Both keys are odd and below the width of a word, and both rotations are *)
(* by less than a double word, in whatever state a group gets to           *)
(* (rotl64_var_bounded and rotl_u128_var, src/core_avx2.rs).               *)
THEOREM KeysCorrect == Spec => []KeysInRange
<1>1. IInv => KeysInRange
  <2> SUFFICES ASSUME IInv, regs # None, NEW i \in Lane
      PROVE  LET q    == VIdm(Quad(regs.s0[i].hi, regs.s0[i].lo, regs.s1[i].hi, regs.s1[i].lo))
                 p    == Perturbed(Wide(q.a, q.b), Wide(q.c, q.d), regs.rc[i])
                 keys == VErdKeys(VErdStages(VErdBase(p[1], p[2])))
                 rot  == VErd(p[1], p[2])
             IN  \A j \in 1 .. 2 :
                   /\ keys[j] \in 1 .. Bits-1 /\ keys[j] % 2 = 1
                   /\ rot[j] \in 1 .. 2 * Bits - 1
    BY DEF KeysInRange
  <2> DEFINE s == StateOf(regs, i)
             q == VIdm(Quad(regs.s0[i].hi, regs.s0[i].lo, regs.s1[i].hi, regs.s1[i].lo))
             t == Idm(s)
             p == Perturbed(Wide(q.a, q.b), Wide(q.c, q.d), regs.rc[i])
             c == Join(RotlBy(regs.rc[i], 17), regs.rc[i])
             x == DXor(t[1], c)
             y == DXor(t[2], DRotl(c, Amount(17)))
             keys == VErdKeys(VErdStages(VErdBase(p[1], p[2])))
             rot  == VErd(p[1], p[2])
  <2>1. regs \in Registers
    BY DEF IInv, TypeOK
  <2>2. /\ s \in Double \X Double /\ regs.rc[i] \in Word
        /\ regs.s0[i] = Halved(s[1]) /\ regs.s1[i] = Halved(s[2])
    BY <2>1, StateOfType
  <2>3. q = VIdm(Quad(Hi(s[1]), Lo(s[1]), Hi(s[2]), Lo(s[2])))
    BY <2>2 DEF Halved, Wide
  <2> HIDE DEF s, q
  <2>4. t \in Double \X Double /\ Wide(q.a, q.b) = Halved(t[1]) /\ Wide(q.c, q.d) = Halved(t[2])
    BY <2>2, <2>3, IdmSame
  <2> HIDE DEF t
  <2>5. p = <<Halved(x), Halved(y)>> /\ x \in Double /\ y \in Double
    BY <2>2, <2>4, PerturbedSame
  <2> HIDE DEF x, y, p
  <2>6. /\ VErdKeys(VErdStages(VErdBase(Halved(x), Halved(y)))) \in OddDistances \X OddDistances
        /\ VErd(Halved(x), Halved(y)) \in Turns
    BY <2>5, ErdAgrees
  <2>7. keys \in OddDistances \X OddDistances /\ rot \in Turns
    BY <2>5, <2>6
  <2> HIDE DEF keys, rot
  <2>8. \A j \in 1 .. 2 : keys[j] \in 1 .. Bits-1 /\ keys[j] % 2 = 1 /\ rot[j] \in 1 .. 2 * Bits - 1
    BY <2>7 DEF OddDistances, Turns
  <2> QED BY <2>8 DEF keys, rot, p, q
<1> QED BY <1>1, Invariant, PTL

-----------------------------------------------------------------------------
(* The abstract group computes with the same words.                        *)

LEMMA SameWords ==
  /\ LG!M = M /\ LG!B = B /\ LG!Half = Half
  /\ \A x, y : LG!Add(x, y) = Add(x, y) /\ LG!Mul(x, y) = Mul(x, y)
  /\ \A x, y : LG!Or(x, y) = Or(x, y) /\ LG!Rotl(x, y) = Rotl(x, y) /\ LG!RotlBy(x, y) = RotlBy(x, y)
  /\ \A x : LG!Hi(x) = Hi(x) /\ LG!Lo(x) = Lo(x)
  /\ \A x, y : LG!Join(x, y) = Join(x, y) /\ LG!DAdd(x, y) = DAdd(x, y)
               /\ LG!DXor(x, y) = DXor(x, y) /\ LG!DRotl(x, y) = DRotl(x, y)
BY DEF LG!M, LG!B, LG!Half, LG!Add, LG!Mul, LG!Or, LG!Rotl, LG!RotlBy, LG!Hi, LG!Lo, LG!Join,
       LG!DAdd, LG!DXor, LG!DRotl, M, B, Half, Add, Mul, Or, Rotl, RotlBy, Hi, Lo, Join,
       DAdd, DXor, DRotl

LEMMA SameIdm == \A s : LG!Idm(s) = Idm(s)
<1>1. /\ LG!Phi17 = Phi17 /\ LG!Phi23 = Phi23
      /\ \A a, b, c, d : LG!Quad(a, b, c, d) = Quad(a, b, c, d)
  BY SameWords DEF LG!Phi17, LG!Phi23, Phi17, Phi23, LG!Quad, Quad
<1>2. \A q : LG!IdmAdd(q) = IdmAdd(q)
  BY <1>1, SameWords DEF LG!IdmAdd, IdmAdd
<1>3. \A q : LG!IdmPhi(q) = IdmPhi(q)
  BY <1>1, SameWords DEF LG!IdmPhi, IdmPhi
<1>4. \A q : LG!IdmCross(q) = IdmCross(q)
  BY <1>1, SameWords DEF LG!IdmCross, IdmCross
<1>5. \A q : LG!IdmMul(q) = IdmMul(q)
  BY <1>1, SameWords DEF LG!IdmMul, IdmMul
<1>6. \A q : LG!IdmFold(q) = IdmFold(q)
  BY <1>1, SameWords DEF LG!IdmFold, IdmFold
<1>7. \A q : LG!IdmLink(q) = IdmLink(q)
  BY <1>1, SameWords DEF LG!IdmLink, IdmLink
<1>8. \A q : LG!IdmSpread(q) = IdmSpread(q)
  BY <1>1, SameWords DEF LG!IdmSpread, IdmSpread
<1>9. \A q : LG!IdmClose(q) = IdmClose(q)
  BY <1>1, SameWords DEF LG!IdmClose, IdmClose
<1>10. \A q : LG!IdmQuad(q) = IdmQuad(q)
  BY <1>2, <1>3, <1>4, <1>5, <1>6, <1>7, <1>8, <1>9 DEF LG!IdmQuad, IdmQuad
<1> QED BY <1>1, <1>10, SameWords DEF LG!Idm, Idm

LEMMA SameErd == \A x, y : LG!Erd(x, y) = Erd(x, y)
<1>1. \A x, y : LG!ErdBase(x, y) = ErdBase(x, y)
  BY SameWords DEF LG!ErdBase, ErdBase
<1>2. \A v : LG!ErdStages(v) = ErdStages(v)
  BY SameWords DEF LG!ErdStages, ErdStages
<1>3. \A v, r : LG!Key(v, r) = Key(v, r)
  BY SameWords DEF LG!Key, Key
<1>4. \A v : LG!ErdKeys(v) = ErdKeys(v)
  BY <1>3, SameWords DEF LG!ErdKeys, ErdKeys
<1>5. \A v, k : LG!ErdMix(v, k) = ErdMix(v, k)
  BY SameWords DEF LG!ErdMix, ErdMix
<1>6. \A v : LG!ErdFinish(v) = ErdFinish(v)
  BY SameWords DEF LG!ErdFinish, ErdFinish
<1>7. \A v, n : LG!Project(v, n) = Project(v, n)
  BY SameWords DEF LG!Project, Project
<1>8. \A v : LG!ErdRotations(v) = ErdRotations(v)
  BY <1>7 DEF LG!ErdRotations, ErdRotations
<1> QED BY <1>1, <1>2, <1>4, <1>5, <1>6, <1>8 DEF LG!Erd, Erd

LEMMA SameStep ==
  /\ \A s, n : LG!StreamStep(s, n) = StreamStep(s, n)
  /\ \A s : LG!Block(s) = <<Lo(s[1]), Hi(s[1]), Lo(s[2]), Hi(s[2])>>
<1>1. \A n : LG!RoundConstant(n) = RoundConstant(n)
  BY SameWords DEF LG!RoundConstant, RoundConstant
<1>2. \A s, rc : LG!ErdRound(s, rc) = ErdRound(s, rc)
  BY SameErd, SameWords DEF LG!ErdRound, ErdRound
<1>3. \A s, n : LG!StreamStep(s, n) = StreamStep(s, n)
  BY <1>1, <1>2, SameIdm DEF LG!StreamStep, StreamStep
<1> QED BY <1>3, SameWords DEF LG!Block

-----------------------------------------------------------------------------
(* Refinement.                                                             *)

(* The lanes of the abstract group.                                        *)
Bar == IF regs = None THEN lanes ELSE WrittenBack(regs, regs.done)

(* What the next step of the abstract group makes of a lane.               *)
Made(r, i) == StreamStep(StateOf(r, i), CounterAfter(r.step[i], r.done))

LEMMA IterateIsStep ==
  ASSUME IInv, Iterate
  PROVE  /\ Bar' = [i \in 1 .. 4 |-> LG!Stepped(Bar[i])]
         /\ out' = [i \in 1 .. 4 |-> LG!Block(LG!Stepped(Bar[i]).s)]
<1> DEFINE n(i) == CounterAfter(regs.step[i], regs.done)
<1>1. /\ regs \in Registers /\ regs' = Advanced(regs) /\ regs # None
      /\ out' = Stored([i \in Lane |-> After(regs)[i][1]], [i \in Lane |-> After(regs)[i][2]])
      /\ \A i \in Lane : regs.rc[i] = RoundConstant(CounterAfter(regs.step[i], regs.done))
  BY IterateStep
<1>2. /\ Advanced(regs) \in Registers
      /\ \A i \in Lane : /\ StateOf(Advanced(regs), i) = Made(regs, i)
                         /\ CounterAfter(Advanced(regs).step[i], Advanced(regs).done) = Add(n(i), 1)
  BY <1>1, AdvancedType DEF Made
<1>3. Bar = [i \in Lane |-> [s |-> StateOf(regs, i), step |-> n(i)]]
  BY <1>1, StateOfType, WrittenType DEF Bar, Registers
<1>4. Bar' = [i \in Lane |-> [s |-> Made(regs, i), step |-> Add(n(i), 1)]]
  <2>1. regs' \in Registers /\ regs' # None /\ regs'.done \in Nat
    BY <1>1, <1>2, Apart DEF Registers
  <2>2. Bar' = WrittenBack(regs', regs'.done)
    BY <2>1 DEF Bar
  <2>3. WrittenBack(regs', regs'.done)
          = [i \in Lane |-> [s |-> StateOf(regs', i), step |-> CounterAfter(regs'.step[i], regs'.done)]]
    BY <2>1, WrittenType
  <2> HIDE DEF n
  <2> QED BY <1>1, <1>2, <2>2, <2>3
<1>5. ASSUME NEW i \in Lane
      PROVE  LG!Stepped(Bar[i]) = [s |-> Made(regs, i), step |-> Add(n(i), 1)]
  <2>1. Bar[i] = [s |-> StateOf(regs, i), step |-> n(i)]
    BY <1>3
  <2> QED BY <2>1, SameStep, SameWords DEF LG!Stepped, Made
<1>6. ASSUME NEW i \in Lane
      PROVE  <<After(regs)[i][1].lo, After(regs)[i][1].hi, After(regs)[i][2].lo, After(regs)[i][2].hi>>
               = LG!Block(Made(regs, i))
  <2> DEFINE t == Made(regs, i)
  <2>1. After(regs)[i] = <<Halved(t[1]), Halved(t[2])>>
    BY <1>1, AfterIs DEF Made
  <2> HIDE DEF t
  <2>2. LG!Block(t) = <<Lo(t[1]), Hi(t[1]), Lo(t[2]), Hi(t[2])>>
    BY SameStep
  <2>3. <<After(regs)[i][1].lo, After(regs)[i][1].hi, After(regs)[i][2].lo, After(regs)[i][2].hi>>
          = <<Lo(t[1]), Hi(t[1]), Lo(t[2]), Hi(t[2])>>
    BY <2>1 DEF Halved, Wide
  <2> QED BY <2>2, <2>3 DEF t
<1>7. out' = [i \in Lane |-> LG!Block(Made(regs, i))]
  <2> DEFINE a0 == [i \in Lane |-> After(regs)[i][1]]
             a1 == [i \in Lane |-> After(regs)[i][2]]
  <2>1. Stored(a0, a1) = [i \in Lane |-> <<a0[i].lo, a0[i].hi, a1[i].lo, a1[i].hi>>]
    <3> HIDE DEF a0, a1
    <3> QED BY StoredIs
  <2>2. \A i \in Lane : a0[i] = After(regs)[i][1] /\ a1[i] = After(regs)[i][2]
    OBVIOUS
  <2>3. out' = Stored(a0, a1)
    BY <1>1
  <2> HIDE DEF a0, a1
  <2> QED BY <1>6, <2>1, <2>2, <2>3
<1>8. ASSUME NEW i \in Lane PROVE LG!Stepped(Bar[i]).s = Made(regs, i)
  <2>1. LG!Stepped(Bar[i]) = [s |-> Made(regs, i), step |-> Add(n(i), 1)]
    BY <1>5
  <2> QED BY <2>1
<1>9. Bar' = [i \in Lane |-> LG!Stepped(Bar[i])]
  <2> HIDE DEF n
  <2> QED BY <1>4, <1>5
<1>10. out' = [i \in Lane |-> LG!Block(LG!Stepped(Bar[i]).s)]
  BY <1>7, <1>8
<1> QED BY <1>9, <1>10 DEF Lane

(* Every step of the vectors is a step of all four lanes, or none; so the  *)
(* blocks that are stored and the lanes that are written back are those of *)
(* the scalar code, for any lanes and any lengths of the calls             *)
(* (process_lanes_x4 of src/core_avx2.rs against stream_step).             *)
THEOREM GroupRefines == Spec => ImplementsLaneGroup
<1>1. Init => LG!Init
  <2> SUFFICES ASSUME Init PROVE LG!Init
    OBVIOUS
  <2>1. regs = None /\ lanes \in Groups /\ out = NoBlocks
    BY DEF Init
  <2> QED BY <2>1 DEF LG!Init, LG!NoBlocks, NoBlocks
<1>2. IInv /\ [Next]_vars => [LG!Step]_<<Bar, out>>
  <2> SUFFICES ASSUME IInv, [Next]_vars PROVE [LG!Step]_<<Bar, out>>
    OBVIOUS
  <2>1. ASSUME NEW n \in StepCounts, Load(n) PROVE UNCHANGED <<Bar, out>>
    <3>1. /\ regs' \in Registers /\ regs'.done = 0 /\ WrittenBack(regs', 0) = lanes
          /\ out' = out /\ regs = None
      BY <2>1, LoadStep
    <3> QED BY <3>1, Apart DEF Bar
  <2>2. CASE Iterate
    BY <2>2, IterateIsStep DEF LG!Step, Bar
  <2>3. CASE Store
    BY <2>3, StoreStep DEF Bar
  <2>4. CASE UNCHANGED vars
    BY <2>4 DEF vars, Bar
  <2> QED BY <2>1, <2>2, <2>3, <2>4 DEF Next
<1>3. Bar = IF regs = None THEN lanes ELSE WrittenBack(regs, regs.done)
  BY DEF Bar
<1> QED BY <1>1, <1>2, Invariant, PTL DEF Spec, ImplementsLaneGroup, LG!Spec, Bar

-----------------------------------------------------------------------------
(* The padded row at an offset, by the comment of absorb_with_domain.      *)

Source(len, off, p) == off + (IF len - off < 16 THEN p % 16 ELSE p)

RowAt(len, off) ==
  [p \in 0 .. 31 |->
    IF Source(len, off, p) < len THEN {Source(len, off, p)}
    ELSE IF Source(len, off, p) = len THEN {Pad} ELSE {}]

(* A message of len bytes that begins a row at off ends inside it, after   *)
(* rem bytes.                                                              *)
EndsIn(len, off, rem) ==
  /\ len \in Nat /\ off \in Nat /\ rem \in 0 .. 31 /\ len = off + rem

LEMMA Fold ==
  ASSUME NEW p \in 0 .. 31
  PROVE  p % 16 = IF p < 16 THEN p ELSE p - 16
OBVIOUS

LEMMA LengthIs ==
  ASSUME NEW len \in Nat
  PROVE  /\ Full(len) \in Nat /\ Rem(len) \in 0 .. 31
         /\ len = 32 * Full(len) + Rem(len)
         /\ EndsIn(len, 32 * Full(len), Rem(len))
<1>1. 32 \in Nat \ {0} /\ 32 - 1 = 31
  OBVIOUS
<1>2. len \div 32 \in Nat /\ len % 32 \in 0 .. 32 - 1 /\ len = 32 * (len \div 32) + (len % 32)
  BY <1>1, DivMod
<1> QED BY <1>1, <1>2 DEF EndsIn, Full, Rem

LEMMA BlocksIs ==
  ASSUME NEW len \in Nat
  PROVE  /\ Blocks(len) \in Nat
         /\ Blocks(len) = Full(len) + (IF Rem(len) # 0 \/ len = 0 THEN 1 ELSE 0)
BY LengthIs DEF Blocks

LEMMA PaddedRow ==
  ASSUME NEW len \in Nat, NEW k \in 1 .. Blocks(len)
  PROVE  Padded(len)[k] = RowAt(len, 32 * (k - 1))
BY DEF Padded, RowAt, Source

(* A row of a message that goes on behind it.                              *)
LEMMA FullRowIs ==
  ASSUME NEW len \in Nat, NEW off \in Nat, off + 32 <= len
  PROVE  FullRow(off) = RowAt(len, off)
BY DEF FullRow, RowAt, Source

-----------------------------------------------------------------------------
(* What each word of the scalar padding holds.                             *)

LEMMA ShlAt ==
  ASSUME NEW first \in Int, NEW width \in Nat, NEW k \in Nat, NEW q \in 0 .. 15
  PROVE  Shl(Bytes(first, width), k)[q] = IF k <= q /\ q < width + k THEN {first + q - k} ELSE {}
<1> DEFINE w == Bytes(first, width)
<1>1. w = [p \in 0 .. 15 |-> IF p < width THEN {first + p} ELSE {}]
  BY DEF Bytes
<1> HIDE DEF w
<1>2. Shl(w, k)[q] = IF q >= k THEN w[q - k] ELSE {}
  BY DEF Shl
<1>3. CASE q >= k
  <2>1. q - k \in 0 .. 15
    BY <1>3
  <2>2. w[q - k] = IF q - k < width THEN {first + (q - k)} ELSE {}
    BY <1>1, <2>1
  <2>3. first + (q - k) = first + q - k /\ (q - k < width <=> q < width + k)
    OBVIOUS
  <2> QED BY <1>2, <1>3, <2>2, <2>3 DEF w
<1>4. CASE ~ (q >= k)
  BY <1>2, <1>4 DEF w
<1> QED BY <1>3, <1>4

(* The same words at both ends of the rest, one over the other.            *)
LEMMA TwoEnds ==
  ASSUME NEW off \in Nat, NEW width \in Nat, NEW rem \in width .. 2 * width, rem <= 16
  PROVE  Merged(Bytes(off, width), Shl(Bytes(off + rem - width, width), rem - width))
           = [q \in 0 .. 15 |-> IF q < rem THEN {off + q} ELSE {}]
<1>1. Bytes(off, width) = [q \in 0 .. 15 |-> IF q < width THEN {off + q} ELSE {}]
  BY DEF Bytes
<1> DEFINE f == off + rem - width
           k == rem - width
<1>2. f \in Int /\ k \in Nat
  OBVIOUS
<1>3. \A q \in 0 .. 15 :
        Shl(Bytes(f, width), k)[q] = IF k <= q /\ q < width + k THEN {f + q - k} ELSE {}
  <2> HIDE DEF f, k
  <2> QED BY <1>2, ShlAt
<1>4. ASSUME NEW q \in 0 .. 15
      PROVE  (IF q < width THEN {off + q} ELSE {}) \cup (IF k <= q /\ q < width + k THEN {f + q - k} ELSE {})
               = IF q < rem THEN {off + q} ELSE {}
  <2>1. f + q - k = off + q /\ width + k = rem /\ k <= width
    OBVIOUS
  <2> HIDE DEF f, k
  <2>2. CASE q < width
    <3>1. q < rem
      BY <2>2
    <3> QED BY <2>1, <2>2, <3>1
  <2>3. CASE ~ (q < width)
    <3>1. k <= q
      BY <2>1, <2>3, <1>2
    <3> QED BY <2>1, <2>3, <3>1
  <2> QED BY <2>2, <2>3
<1> HIDE DEF f, k
<1>5. Merged(Bytes(off, width), Shl(Bytes(f, width), k)) = [q \in 0 .. 15 |-> IF q < rem THEN {off + q} ELSE {}]
  <2> DEFINE a == Bytes(off, width)
             b == Shl(Bytes(f, width), k)
  <2>1. \A q \in 0 .. 15 : a[q] \cup b[q] = IF q < rem THEN {off + q} ELSE {}
    BY <1>1, <1>3, <1>4
  <2>2. Merged(a, b) = [q \in 0 .. 15 |-> a[q] \cup b[q]]
    BY DEF Merged
  <2> HIDE DEF a, b
  <2>3. Merged(a, b) = [q \in 0 .. 15 |-> IF q < rem THEN {off + q} ELSE {}]
    BY <2>1, <2>2
  <2> QED BY <2>3 DEF a, b
<1> QED BY <1>5 DEF f, k

LEMMA LowWordIs ==
  ASSUME NEW off \in Nat, NEW rem \in 0 .. 15
  PROVE  LowWord(off, rem) = [q \in 0 .. 15 |-> IF q < rem THEN {off + q} ELSE {}]
<1>1. CASE rem >= 8
  <2>1. LowWord(off, rem) = Merged(Bytes(off, 8), Shl(Bytes(off + rem - 8, 8), rem - 8))
    BY <1>1 DEF LowWord
  <2>2. 8 \in Nat /\ rem \in 8 .. 2 * 8 /\ rem <= 16
    BY <1>1
  <2> QED BY <2>1, <2>2, TwoEnds
<1>2. CASE rem >= 4 /\ rem < 8
  <2>1. LowWord(off, rem) = Merged(Bytes(off, 4), Shl(Bytes(off + rem - 4, 4), rem - 4))
    BY <1>2 DEF LowWord
  <2>2. 4 \in Nat /\ rem \in 4 .. 2 * 4 /\ rem <= 16
    BY <1>2
  <2> QED BY <2>1, <2>2, TwoEnds
<1>3. CASE rem > 0 /\ rem < 4
  <2>1. LowWord(off, rem) =
          Keep(Merged(Merged(Bytes(off, 1), Shl(Bytes(off + rem \div 2, 1), 1)),
                      Shl(Bytes(off + rem - 1, 1), 2)), rem)
    BY <1>3 DEF LowWord
  <2>2. rem \div 2 = IF rem = 1 THEN 0 ELSE 1
    BY <1>3
  <2>3. \A q \in 0 .. 15 :
          /\ Bytes(off, 1)[q] = IF q < 1 THEN {off + q} ELSE {}
          /\ Shl(Bytes(off + rem \div 2, 1), 1)[q] =
               IF 1 <= q /\ q < 1 + 1 THEN {off + rem \div 2 + q - 1} ELSE {}
          /\ Shl(Bytes(off + rem - 1, 1), 2)[q] =
               IF 2 <= q /\ q < 1 + 2 THEN {off + rem - 1 + q - 2} ELSE {}
    <3>1. off + rem \div 2 \in Int /\ off + rem - 1 \in Int /\ 1 \in Nat /\ 2 \in Nat
      BY <2>2
    <3>2. TAKE q \in 0 .. 15
    <3>3. Bytes(off, 1)[q] = IF q < 1 THEN {off + q} ELSE {}
      BY DEF Bytes
    <3>4. Shl(Bytes(off + rem \div 2, 1), 1)[q] =
             IF 1 <= q /\ q < 1 + 1 THEN {off + rem \div 2 + q - 1} ELSE {}
      BY <3>1, ShlAt
    <3>5. Shl(Bytes(off + rem - 1, 1), 2)[q] =
             IF 2 <= q /\ q < 1 + 2 THEN {off + rem - 1 + q - 2} ELSE {}
      BY <3>1, ShlAt
    <3> QED BY <3>3, <3>4, <3>5
  <2>4. ASSUME NEW q \in 0 .. 15
        PROVE  (IF q < rem
                  THEN ((IF q < 1 THEN {off + q} ELSE {}) \cup
                        (IF 1 <= q /\ q < 1 + 1 THEN {off + rem \div 2 + q - 1} ELSE {})) \cup
                       (IF 2 <= q /\ q < 1 + 2 THEN {off + rem - 1 + q - 2} ELSE {})
                  ELSE {}) = IF q < rem THEN {off + q} ELSE {}
    <3>1. CASE q >= rem
      BY <3>1
    <3>2. CASE q < rem /\ q = 0
      BY <3>2
    <3>3. CASE q < rem /\ q = 1
      <4>1. off + rem \div 2 + q - 1 = off + q
        BY <3>3, <2>2
      <4> QED BY <3>3, <4>1
    <3>4. CASE q < rem /\ q = 2
      <4>1. off + rem - 1 + q - 2 = off + q
        BY <3>4, <1>3
      <4> QED BY <3>4, <4>1
    <3> QED BY <1>3, <3>1, <3>2, <3>3, <3>4
  <2> DEFINE b1 == Bytes(off, 1)
             b2 == Shl(Bytes(off + rem \div 2, 1), 1)
             b3 == Shl(Bytes(off + rem - 1, 1), 2)
  <2>5. Keep(Merged(Merged(b1, b2), b3), rem) =
          [q \in 0 .. 15 |-> IF q < rem THEN (b1[q] \cup b2[q]) \cup b3[q] ELSE {}]
    <3> HIDE DEF b1, b2, b3
    <3> QED BY DEF Keep, Merged
  <2>6. \A q \in 0 .. 15 : (IF q < rem THEN (b1[q] \cup b2[q]) \cup b3[q] ELSE {})
                             = IF q < rem THEN {off + q} ELSE {}
    BY <2>3, <2>4
  <2> HIDE DEF b1, b2, b3
  <2>7. Keep(Merged(Merged(b1, b2), b3), rem) = [q \in 0 .. 15 |-> IF q < rem THEN {off + q} ELSE {}]
    BY <2>5, <2>6
  <2> QED BY <2>1, <2>7 DEF b1, b2, b3
<1>4. CASE rem = 0
  BY <1>4 DEF LowWord, Bytes
<1> QED BY <1>1, <1>2, <1>3, <1>4

LEMMA TerminatorIs ==
  ASSUME NEW len, NEW off, NEW rem, EndsIn(len, off, rem)
  PROVE  Terminator(off, rem) = RowAt(len, off)
<1> USE DEF EndsIn
<1>1. CASE rem >= 16
  <2>1. Terminator(off, rem) =
          RowOf(Bytes(off, 16), Merged(Shr(Bytes(off + rem - 16, 16), 32 - rem), Mark(rem - 16)))
    BY <1>1 DEF Terminator
  <2> QED BY <1>1, <2>1 DEF RowAt, Source, RowOf, Bytes, Merged, Shr, Mark
<1>2. CASE rem < 16
  <2> DEFINE lo == Merged(LowWord(off, rem), Mark(rem))
  <2>1. lo = [q \in 0 .. 15 |-> IF q < rem THEN {off + q} ELSE IF q = rem THEN {Pad} ELSE {}]
    <3>1. rem \in 0 .. 15 /\ off \in Nat
      BY <1>2
    <3>2. LowWord(off, rem) = [q \in 0 .. 15 |-> IF q < rem THEN {off + q} ELSE {}]
      BY <3>1, LowWordIs
    <3>3. Mark(rem) = [q \in 0 .. 15 |-> IF q = rem THEN {Pad} ELSE {}]
      BY DEF Mark
    <3>4. ASSUME NEW q \in 0 .. 15
          PROVE  (IF q < rem THEN {off + q} ELSE {}) \cup (IF q = rem THEN {Pad} ELSE {})
                   = IF q < rem THEN {off + q} ELSE IF q = rem THEN {Pad} ELSE {}
      <4>1. q < rem \/ q = rem \/ q > rem
        BY <3>1
      <4> QED BY <3>1, <4>1
    <3> QED BY <3>2, <3>3, <3>4 DEF Merged
  <2>2. Terminator(off, rem) = RowOf(lo, lo)
    BY <1>2 DEF Terminator
  <2> QED BY <1>2, <2>1, <2>2, Fold DEF RowAt, Source, RowOf
<1> QED BY <1>1, <1>2

(* The rest with its mark, its low half repeated when it is short.         *)
LEMMA PaddedOnce ==
  ASSUME NEW len, NEW off, NEW rem, EndsIn(len, off, rem), NEW row,
         row = [p \in 0 .. 31 |-> IF p < rem THEN {off + p} ELSE IF p = rem THEN {Pad} ELSE {}]
  PROVE  (IF rem < 16 THEN [p \in 0 .. 31 |-> row[p % 16]] ELSE row) = RowAt(len, off)
<1> USE DEF EndsIn
<1>1. CASE rem >= 16
  <2>1. ASSUME NEW p \in 0 .. 31
        PROVE  /\ Source(len, off, p) = off + p
               /\ (off + p < len <=> p < rem) /\ (off + p = len <=> p = rem)
    <3>1. len - off = rem
      OBVIOUS
    <3> QED BY <1>1, <3>1 DEF Source
  <2>2. \A p \in 0 .. 31 :
          (IF p < rem THEN {off + p} ELSE IF p = rem THEN {Pad} ELSE {})
            = IF Source(len, off, p) < len THEN {Source(len, off, p)}
              ELSE IF Source(len, off, p) = len THEN {Pad} ELSE {}
    BY <2>1
  <2> DEFINE byte(p) == IF Source(len, off, p) < len THEN {Source(len, off, p)}
                        ELSE IF Source(len, off, p) = len THEN {Pad} ELSE {}
             rest(p) == IF p < rem THEN {off + p} ELSE IF p = rem THEN {Pad} ELSE {}
  <2>3. row = [p \in 0 .. 31 |-> rest(p)] /\ RowAt(len, off) = [p \in 0 .. 31 |-> byte(p)]
    BY DEF RowAt
  <2>4. \A p \in 0 .. 31 : rest(p) = byte(p)
    BY <2>2
  <2> HIDE DEF byte, rest
  <2>5. row = RowAt(len, off)
    BY <2>3, <2>4
  <2>6. ~ (rem < 16)
    BY <1>1
  <2> QED BY ONLY <2>5, <2>6, Zenon
<1>2. CASE rem < 16
  <2>1. ASSUME NEW p \in 0 .. 31
        PROVE  /\ p % 16 \in 0 .. 31 /\ Source(len, off, p) = off + (p % 16)
               /\ (off + (p % 16) < len <=> p % 16 < rem) /\ (off + (p % 16) = len <=> p % 16 = rem)
    BY <1>2, Fold DEF Source
  <2>2. ASSUME NEW p \in 0 .. 31
        PROVE  row[p % 16] = IF p % 16 < rem THEN {off + (p % 16)} ELSE IF p % 16 = rem THEN {Pad} ELSE {}
    BY <2>1
  <2> QED BY <1>2, <2>1, <2>2 DEF RowAt
<1> QED BY <1>1, <1>2

LEMMA TailBufferIs ==
  ASSUME NEW len, NEW off, NEW rem, EndsIn(len, off, rem)
  PROVE  TailBuffer(off, rem) = RowAt(len, off)
<1> DEFINE copied == [p \in 0 .. 31 |-> IF p < rem THEN {off + p} ELSE IF p = rem THEN {Pad} ELSE {}]
<1>1. TailBuffer(off, rem) = IF rem < 16 THEN [p \in 0 .. 31 |-> copied[p % 16]] ELSE copied
  BY DEF TailBuffer
<1> QED BY <1>1, PaddedOnce

(* Loose bytes are at most three, behind the whole words.                  *)
LEMMA LooseIs ==
  ASSUME NEW rem \in 0 .. 31
  PROVE  /\ 4 * (rem \div 4) \in Nat /\ rem % 4 \in 0 .. 3 /\ rem = 4 * (rem \div 4) + (rem % 4)
         /\ \A k \in 1 .. 3 :
              /\ LooseBytes(rem)[k] \in Int
              /\ rem > 0 => LooseBytes(rem)[k] \in 0 .. rem - 1
              /\ k <= rem % 4 => LooseBytes(rem)[k] = 4 * (rem \div 4) + k - 1
<1> DEFINE whole == 4 * (rem \div 4)
           loose == rem % 4
<1>1. 4 \in Nat \ {0} /\ rem \in Nat
  OBVIOUS
<1>2. rem \div 4 \in Nat /\ loose \in 0 .. 4 - 1 /\ rem = 4 * (rem \div 4) + loose
  BY <1>1, DivMod
<1>3. LooseBytes(rem) =
        LET i0 == whole - (IF loose = 0 THEN 1 ELSE 0)
        IN  <<i0, i0 + loose \div 2, i0 + loose - 1>>
  BY DEF LooseBytes
<1> HIDE DEF whole, loose
<1>4. loose \div 2 = IF loose < 2 THEN 0 ELSE 1
  <2>1. loose \in 0 .. 3
    BY <1>2
  <2> QED BY <2>1
<1> QED BY <1>2, <1>3, <1>4 DEF whole, loose

LEMMA TailRowIs ==
  ASSUME NEW len, NEW off, NEW rem, EndsIn(len, off, rem)
  PROVE  TailRow(off, rem) = RowAt(len, off)
<1> DEFINE whole == 4 * (rem \div 4)
           loose == rem % 4
           row == [p \in 0 .. 31 |->
                    IF p < whole THEN {off + p}
                    ELSE IF p < whole + loose THEN {off + LooseBytes(rem)[p - whole + 1]}
                    ELSE IF p = whole + loose THEN {Pad} ELSE {}]
<1>1. /\ whole \in Nat /\ loose \in 0 .. 3 /\ rem = whole + loose
      /\ \A k \in 1 .. 3 : k <= loose => LooseBytes(rem)[k] = whole + k - 1
  BY LooseIs DEF EndsIn
<1>2. TailRow(off, rem) = IF rem < 16 THEN [p \in 0 .. 31 |-> row[p % 16]] ELSE row
  BY DEF TailRow
<1> HIDE DEF whole, loose
<1>3. row = [p \in 0 .. 31 |-> IF p < rem THEN {off + p} ELSE IF p = rem THEN {Pad} ELSE {}]
  <2>1. ASSUME NEW p \in 0 .. 31, p >= whole, p < whole + loose
        PROVE  LooseBytes(rem)[p - whole + 1] = p
    <3>1. p - whole + 1 \in 1 .. 3 /\ p - whole + 1 <= loose
      BY <1>1, <2>1
    <3>2. LooseBytes(rem)[p - whole + 1] = whole + (p - whole + 1) - 1
      BY <1>1, <3>1
    <3> QED BY <1>1, <3>2
  <2>2. ASSUME NEW p \in 0 .. 31
        PROVE  (IF p < whole THEN {off + p}
                ELSE IF p < whole + loose THEN {off + LooseBytes(rem)[p - whole + 1]}
                ELSE IF p = whole + loose THEN {Pad} ELSE {})
                 = IF p < rem THEN {off + p} ELSE IF p = rem THEN {Pad} ELSE {}
    <3>1. CASE p < whole
      BY <1>1, <3>1
    <3>2. CASE p >= whole /\ p < whole + loose
      <4>1. LooseBytes(rem)[p - whole + 1] = p
        BY <2>1, <3>2
      <4> QED BY <1>1, <3>2, <4>1
    <3>3. CASE p >= whole + loose
      BY <1>1, <3>3
    <3> QED BY <1>1, <3>1, <3>2, <3>3
  <2> QED BY <2>2
<1> HIDE DEF row
<1> QED BY <1>2, <1>3, PaddedOnce

LEMMA TailReadsIs ==
  ASSUME NEW len, NEW off, NEW rem, EndsIn(len, off, rem), rem > 0
  PROVE  TailReads(off, rem) \subseteq 0 .. len - 1
<1>0. rem \in 0 .. 31
  BY DEF EndsIn
<1>1. /\ 4 * (rem \div 4) \in Nat /\ 4 * (rem \div 4) <= rem
      /\ \A k \in 1 .. 3 : LooseBytes(rem)[k] \in 0 .. rem - 1
  <2>1. /\ 4 * (rem \div 4) \in Nat /\ rem % 4 \in 0 .. 3 /\ rem = 4 * (rem \div 4) + (rem % 4)
    BY <1>0, LooseIs
  <2>2. \A k \in 1 .. 3 : rem > 0 => LooseBytes(rem)[k] \in 0 .. rem - 1
    BY <1>0, LooseIs
  <2> QED BY <2>1, <2>2
<1>2. off \in Nat /\ rem \in Nat /\ len = off + rem
  BY DEF EndsIn
<1>3. {off + p : p \in 0 .. 4 * (rem \div 4) - 1} \subseteq 0 .. len - 1
  BY <1>1, <1>2
<1>4. {off + LooseBytes(rem)[k] : k \in 1 .. 3} \subseteq 0 .. len - 1
  BY <1>1, <1>2
<1> QED BY <1>3, <1>4 DEF TailReads

-----------------------------------------------------------------------------
(* What the masked kernel loads for a block of a lane.                     *)

LEMMA RowVarIs ==
  ASSUME NEW len \in Nat, NEW b \in Nat, b < Blocks(len)
  PROVE  /\ RowVar(len, b) = RowAt(len, 32 * b)
         /\ RowVarReads(len, b) \subseteq 0 .. len - 1
<1>1. /\ Full(len) \in Nat /\ Rem(len) \in 0 .. 31 /\ len = 32 * Full(len) + Rem(len)
      /\ EndsIn(len, 32 * Full(len), Rem(len))
  BY LengthIs
<1>2. Blocks(len) = Full(len) + (IF Rem(len) # 0 \/ len = 0 THEN 1 ELSE 0)
  BY BlocksIs
<1>3. CASE b < Full(len)
  <2>1. 32 * b \in Nat /\ 32 * b + 32 <= len
    BY <1>1, <1>3
  <2>2. FullRow(32 * b) = RowAt(len, 32 * b)
    BY <2>1, FullRowIs
  <2> QED BY <1>3, <2>1, <2>2 DEF RowVar, RowVarReads
<1>4. CASE b = Full(len) /\ Rem(len) # 0
  <2>1. RowVar(len, b) = TailRow(32 * b, Rem(len)) /\ RowVarReads(len, b) = TailReads(32 * b, Rem(len))
    BY <1>1, <1>4 DEF RowVar, RowVarReads
  <2>2. EndsIn(len, 32 * b, Rem(len)) /\ Rem(len) > 0
    BY <1>1, <1>4
  <2> QED BY <2>1, <2>2, TailRowIs, TailReadsIs
<1>5. CASE b = Full(len) /\ Rem(len) = 0 /\ len = 0
  <2>1. RowVar(len, b) = RowOf(Mark(0), Mark(0)) /\ RowVarReads(len, b) = {}
    BY <1>1, <1>5 DEF RowVar, RowVarReads
  <2>2. RowOf(Mark(0), Mark(0)) = RowAt(0, 0)
    BY Fold DEF RowOf, Mark, RowAt, Source, Pad
  <2>3. b = 0
    BY <1>1, <1>5
  <2> QED BY <2>1, <2>2, <2>3, <1>5
<1> QED BY <1>1, <1>2, <1>3, <1>4, <1>5

LEMMA RowAtIn ==
  ASSUME NEW len \in Nat, NEW off \in Nat
  PROVE  RowAt(len, off) \in [0 .. 31 -> SUBSET Int]
<1>1. \A p \in 0 .. 31 : Source(len, off, p) \in Int
  BY Fold DEF Source
<1>2. Pad \in Int
  BY DEF Pad
<1> DEFINE byte(p) ==
             IF Source(len, off, p) < len THEN {Source(len, off, p)}
             ELSE IF Source(len, off, p) = len THEN {Pad} ELSE {}
<1>3. \A p \in 0 .. 31 : byte(p) \in SUBSET Int
  BY <1>1, <1>2
<1>4. RowAt(len, off) = [p \in 0 .. 31 |-> byte(p)]
  BY DEF RowAt
<1> HIDE DEF byte
<1> QED BY <1>3, <1>4

-----------------------------------------------------------------------------
(* The blocks that the masked kernel counts.                               *)

(* Of one number and of four one is least and one is greatest.             *)
LEMMA Extremes ==
  ASSUME NEW n \in {1, 4}, NEW f \in [1 .. n -> Nat]
  PROVE  /\ \E i \in 1 .. n : \A k \in 1 .. n : f[i] <= f[k]
         /\ \E i \in 1 .. n : \A k \in 1 .. n : f[k] <= f[i]
<1>1. CASE n = 1
  BY <1>1
<1>2. CASE n = 4
  <2>1. 1 .. n = {1, 2, 3, 4} /\ f[1] \in Nat /\ f[2] \in Nat /\ f[3] \in Nat /\ f[4] \in Nat
    BY <1>2
  <2>2. PICK i \in {1, 2}, k \in {3, 4} : f[i] <= f[1] /\ f[i] <= f[2] /\ f[k] <= f[3] /\ f[k] <= f[4]
    <3>1. \E i \in {1, 2} : f[i] <= f[1] /\ f[i] <= f[2]
      BY <2>1
    <3>2. \E k \in {3, 4} : f[k] <= f[3] /\ f[k] <= f[4]
      BY <2>1
    <3> QED BY <3>1, <3>2
  <2>3. \E l \in 1 .. n : \A x \in 1 .. n : f[l] <= f[x]
    <3>1. f[i] \in Nat /\ f[k] \in Nat
      BY <2>1
    <3>2. CASE f[i] <= f[k]
      <4>1. f[i] <= f[3] /\ f[i] <= f[4]
        BY <2>1, <2>2, <3>1, <3>2
      <4> QED BY <2>1, <2>2, <4>1
    <3>3. CASE f[k] <= f[i]
      <4>1. f[k] <= f[1] /\ f[k] <= f[2]
        BY <2>1, <2>2, <3>1, <3>3
      <4> QED BY <2>1, <2>2, <4>1
    <3>4. f[i] <= f[k] \/ f[k] <= f[i]
      BY <3>1
    <3> QED BY ONLY <3>2, <3>3, <3>4, Zenon
  <2>4. PICK u \in {1, 2}, v \in {3, 4} : f[1] <= f[u] /\ f[2] <= f[u] /\ f[3] <= f[v] /\ f[4] <= f[v]
    <3>1. \E u \in {1, 2} : f[1] <= f[u] /\ f[2] <= f[u]
      BY <2>1
    <3>2. \E v \in {3, 4} : f[3] <= f[v] /\ f[4] <= f[v]
      BY <2>1
    <3> QED BY <3>1, <3>2
  <2>5. \E l \in 1 .. n : \A x \in 1 .. n : f[x] <= f[l]
    <3>1. f[u] \in Nat /\ f[v] \in Nat
      BY <2>1
    <3>2. CASE f[v] <= f[u]
      <4>1. f[3] <= f[u] /\ f[4] <= f[u]
        BY <2>1, <2>4, <3>1, <3>2
      <4> QED BY <2>1, <2>4, <4>1
    <3>3. CASE f[u] <= f[v]
      <4>1. f[1] <= f[v] /\ f[2] <= f[v]
        BY <2>1, <2>4, <3>1, <3>3
      <4> QED BY <2>1, <2>4, <4>1
    <3>4. f[v] <= f[u] \/ f[u] <= f[v]
      BY <3>1
    <3> QED BY ONLY <3>2, <3>3, <3>4, Zenon
  <2> QED BY <2>3, <2>5
<1> QED BY <1>1, <1>2

LEMMA LanesAre ==
  ASSUME lens \in LengthLists
  PROVE  /\ Lanes = 1 .. Len(lens) /\ Len(lens) \in {1, 4} /\ 1 \in Lanes
         /\ \A i \in Lanes : lens[i] \in Nat
BY LengthTypes DEF Lanes

LEMMA CommonIs ==
  ASSUME lens \in LengthLists
  PROVE  CommonBlocks \in Nat /\ \A i \in Lanes : CommonBlocks <= Full(lens[i])
<1> DEFINE f == [i \in 1 .. Len(lens) |-> Full(lens[i])]
<1>1. Lanes = 1 .. Len(lens) /\ Len(lens) \in {1, 4} /\ \A i \in Lanes : lens[i] \in Nat
  BY LanesAre
<1>2. f \in [1 .. Len(lens) -> Nat]
  BY <1>1, LengthIs
<1>3. PICK i \in Lanes : \A k \in Lanes : f[i] <= f[k]
  <2> HIDE DEF f
  <2> QED BY <1>1, <1>2, Extremes
<1>4. Full(lens[i]) \in {Full(lens[k]) : k \in Lanes} /\ \A k \in Lanes : Full(lens[i]) <= Full(lens[k])
  BY <1>1, <1>3
<1>5. /\ CommonBlocks \in {Full(lens[k]) : k \in Lanes}
      /\ \A k \in Lanes : CommonBlocks <= Full(lens[k])
  <2> HIDE DEF f
  <2> QED BY <1>4 DEF CommonBlocks
<1>6. \A k \in Lanes : Full(lens[k]) \in Nat
  BY <1>1, LengthIs
<1> QED BY <1>5, <1>6

LEMMA AllIs ==
  ASSUME lens \in LengthLists
  PROVE  AllBlocks \in Nat /\ \A i \in Lanes : Blocks(lens[i]) <= AllBlocks
<1> DEFINE f == [i \in 1 .. Len(lens) |-> Blocks(lens[i])]
<1>1. Lanes = 1 .. Len(lens) /\ Len(lens) \in {1, 4} /\ \A i \in Lanes : lens[i] \in Nat
  BY LanesAre
<1>2. f \in [1 .. Len(lens) -> Nat]
  BY <1>1, BlocksIs
<1>3. PICK i \in Lanes : \A k \in Lanes : f[k] <= f[i]
  <2> HIDE DEF f
  <2> QED BY <1>1, <1>2, Extremes
<1>4. Blocks(lens[i]) \in {Blocks(lens[k]) : k \in Lanes} /\ \A k \in Lanes : Blocks(lens[k]) <= Blocks(lens[i])
  BY <1>1, <1>3
<1>5. /\ AllBlocks \in {Blocks(lens[k]) : k \in Lanes}
      /\ \A k \in Lanes : Blocks(lens[k]) <= AllBlocks
  <2> HIDE DEF f
  <2> QED BY <1>4 DEF AllBlocks
<1>6. \A k \in Lanes : Blocks(lens[k]) \in Nat
  BY <1>1, BlocksIs
<1> QED BY <1>5, <1>6

-----------------------------------------------------------------------------
(* The inductive invariant.                                                *)

ByteRow == [0 .. 31 -> SUBSET Int]

(* Rows that lane i has taken.                                             *)
Taken(i) ==
  IF kernel = "masked" THEN (IF done < Blocks(lens[i]) THEN done ELSE Blocks(lens[i]))
  ELSE IF ended THEN Blocks(lens[i]) ELSE done

Kernels ==
  /\ lens \in LengthLists /\ ended \in BOOLEAN /\ done \in Nat
  /\ kernel \in {"scalar", "equal", "masked"}
  /\ kernel # "masked" => done <= Full(lens[1]) /\ \A i \in Lanes : lens[i] = lens[1]
  /\ kernel = "masked" => done <= AllBlocks /\ (ended => done = AllBlocks)
  /\ head = [i \in Lanes |-> lens[i]]

(* Each has taken the rows of its padded message, in their order.          *)
RowsRight ==
  /\ rows \in [Lanes -> Seq(ByteRow)]
  /\ \A i \in Lanes :
       /\ Len(rows[i]) = Taken(i)
       /\ \A k \in 1 .. Taken(i) : rows[i][k] = RowAt(lens[i], 32 * (k - 1))

ReadsTyped == read \in [Lanes -> SUBSET Int] /\ ReadsInside

AbsorbIInv == Kernels /\ RowsRight /\ ReadsTyped

LEMMA AbsorbStart == AbsorbInit => AbsorbIInv
<1> SUFFICES ASSUME AbsorbInit PROVE AbsorbIInv
  OBVIOUS
<1>1. Lanes = 1 .. Len(lens) /\ Len(lens) \in {1, 4} /\ 1 \in Lanes /\ \A i \in Lanes : lens[i] \in Nat
  BY LanesAre DEF AbsorbInit
<1>2. kernel = IF Len(lens) = 1 THEN "scalar"
               ELSE IF \A i \in Lanes : lens[i] = lens[1] THEN "equal" ELSE "masked"
  BY DEF AbsorbInit, Lanes
<1>3. kernel # "masked" => \A i \in Lanes : lens[i] = lens[1]
  BY <1>1, <1>2
<1>4. head = [i \in Lanes |-> lens[i]]
  <2>1. head = [i \in Lanes |-> IF kernel = "masked" THEN lens[i] ELSE lens[1]]
    BY DEF AbsorbInit, Lanes
  <2> QED BY <2>1, <1>3
<1>5. Full(lens[1]) \in Nat /\ AllBlocks \in Nat
  BY <1>1, LengthIs, AllIs DEF AbsorbInit
<1>6. Kernels
  <2>1. lens \in LengthLists /\ done = 0 /\ ended = FALSE
    BY DEF AbsorbInit
  <2>2. kernel \in {"scalar", "equal", "masked"}
    BY <1>2
  <2>3. done \in Nat /\ ended \in BOOLEAN /\ ~ ended
    BY <2>1
  <2>4. 0 <= Full(lens[1]) /\ 0 <= AllBlocks
    BY ONLY <1>5
  <2>5. done <= Full(lens[1]) /\ done <= AllBlocks
    BY ONLY <2>1, <2>4, Zenon
  <2> QED BY <1>3, <1>4, <2>1, <2>2, <2>3, <2>5, Zenon DEF Kernels
<1>7. \A i \in Lanes : Taken(i) = 0
  <2>1. done = 0 /\ ended = FALSE
    BY DEF AbsorbInit
  <2>2. \A i \in Lanes : Blocks(lens[i]) \in Nat
    BY <1>1, BlocksIs
  <2> QED BY <2>1, <2>2 DEF Taken
<1>8. rows = [i \in Lanes |-> <<>>] /\ read = [i \in Lanes |-> {}]
  BY DEF AbsorbInit, Lanes
<1>9. RowsRight
  BY <1>7, <1>8 DEF RowsRight
<1>10. ReadsTyped
  BY <1>8 DEF ReadsTyped, ReadsInside
<1> QED BY <1>6, <1>9, <1>10 DEF AbsorbIInv

(* A step in which some lanes take the next row of their message.          *)
LEMMA AbsorbStep ==
  ASSUME AbsorbIInv, UNCHANGED <<lens, kernel, head>>, NEW active, NEW row, NEW touched,
         AbsorbRows(active, row, touched), Kernels',
         \A i \in Lanes :
           /\ Taken(i)' = IF i \in active THEN Taken(i) + 1 ELSE Taken(i)
           /\ i \in active => row[i] = RowAt(lens[i], 32 * Taken(i))
           /\ touched[i] \subseteq 0 .. lens[i] - 1
  PROVE  AbsorbIInv'
<1>1. Lanes' = Lanes
  BY DEF Lanes
<1>2. /\ rows' = [i \in Lanes |-> IF i \in active THEN Append(rows[i], row[i]) ELSE rows[i]]
      /\ read' = [i \in Lanes |-> read[i] \cup touched[i]]
  BY DEF AbsorbRows
<1>3. /\ rows \in [Lanes -> Seq(ByteRow)]
      /\ \A i \in Lanes :
           /\ Len(rows[i]) = Taken(i)
           /\ \A k \in 1 .. Taken(i) : rows[i][k] = RowAt(lens[i], 32 * (k - 1))
  BY DEF AbsorbIInv, RowsRight
<1>4. \A i \in Lanes : lens[i] \in Nat
  BY LanesAre DEF AbsorbIInv, Kernels
<1>5. ASSUME NEW i \in Lanes
      PROVE  /\ rows'[i] \in Seq(ByteRow)
             /\ Len(rows'[i]) = Taken(i)'
             /\ \A k \in 1 .. Taken(i)' : rows'[i][k] = RowAt(lens[i], 32 * (k - 1))
  <2>1. rows[i] \in Seq(ByteRow) /\ Len(rows[i]) = Taken(i) /\ Taken(i) \in Nat
    BY <1>3
  <2>2. CASE i \in active
    <3>1. rows'[i] = Append(rows[i], row[i]) /\ Taken(i)' = Taken(i) + 1
      BY <1>2, <2>2
    <3>2. row[i] = RowAt(lens[i], 32 * Taken(i)) /\ row[i] \in ByteRow
      <4>1. 32 * Taken(i) \in Nat
        BY <2>1
      <4>2. row[i] = RowAt(lens[i], 32 * Taken(i))
        BY <2>2
      <4>3. RowAt(lens[i], 32 * Taken(i)) \in ByteRow
        BY <1>4, <4>1, RowAtIn DEF ByteRow
      <4> QED BY <4>2, <4>3
    <3>3. /\ rows'[i] \in Seq(ByteRow) /\ Len(rows'[i]) = Taken(i) + 1
          /\ \A k \in 1 .. Taken(i) : rows'[i][k] = rows[i][k]
          /\ rows'[i][Taken(i) + 1] = row[i]
      BY <2>1, <3>1, <3>2, AppendProperties
    <3>4. ASSUME NEW k \in 1 .. Taken(i) + 1
          PROVE  rows'[i][k] = RowAt(lens[i], 32 * (k - 1))
      <4>1. CASE k = Taken(i) + 1
        <5>1. k - 1 = Taken(i)
          BY <2>1, <4>1
        <5> QED BY <3>2, <3>3, <4>1, <5>1
      <4>2. CASE k # Taken(i) + 1
        <5>1. k \in 1 .. Taken(i)
          BY <2>1, <4>2
        <5> QED BY <1>3, <3>3, <5>1
      <4> QED BY <4>1, <4>2
    <3> QED BY <3>1, <3>3, <3>4
  <2>3. CASE i \notin active
    <3>1. rows'[i] = rows[i] /\ Taken(i)' = Taken(i)
      BY <1>2, <2>3
    <3> QED BY <1>3, <2>1, <3>1
  <2> QED BY <2>2, <2>3
<1>6. RowsRight'
  <2>1. rows' \in [Lanes -> Seq(ByteRow)]
    BY <1>2, <1>5
  <2> QED BY <1>1, <1>5, <2>1 DEF RowsRight
<1>7. ReadsTyped'
  <2>1. read \in [Lanes -> SUBSET Int] /\ \A i \in Lanes : read[i] \subseteq 0 .. lens[i] - 1
    BY DEF AbsorbIInv, ReadsTyped, ReadsInside
  <2>2. \A i \in Lanes : read'[i] \subseteq 0 .. lens[i] - 1
    BY <1>2, <2>1
  <2>3. read' \in [Lanes -> SUBSET Int]
    <3>1. \A i \in Lanes : touched[i] \subseteq Int
      BY <1>4
    <3> QED BY <1>2, <2>1, <3>1
  <2> QED BY <1>1, <2>2, <2>3 DEF ReadsTyped, ReadsInside
<1> QED BY <1>6, <1>7 DEF AbsorbIInv

LEMMA KeepsBlock == AbsorbIInv /\ Block => AbsorbIInv'
<1> SUFFICES ASSUME AbsorbIInv, Block PROVE AbsorbIInv'
  OBVIOUS
<1>1. /\ ~ended /\ kernel # "masked" /\ done < Full(lens[1]) /\ done' = done + 1
      /\ UNCHANGED <<lens, kernel, ended, head>>
      /\ AbsorbRows(Lanes, [i \in Lanes |-> FullRow(32 * done)], [i \in Lanes |-> 32 * done .. 32 * done + 31])
  BY DEF Block
<1>2. Kernels
  BY DEF AbsorbIInv
<1>3. 1 \in Lanes /\ \A i \in Lanes : lens[i] = lens[1] /\ lens[i] \in Nat
  BY <1>1, <1>2, LanesAre DEF Kernels
<1>4. Full(lens[1]) \in Nat /\ lens[1] = 32 * Full(lens[1]) + Rem(lens[1]) /\ Rem(lens[1]) \in 0 .. 31
  BY <1>3, LengthIs
<1>5. done \in Nat /\ 32 * done \in Nat /\ 32 * done + 32 <= lens[1]
  <2>1. done \in Nat
    BY <1>2 DEF Kernels
  <2>2. done + 1 <= Full(lens[1])
    BY <1>1, <1>4, <2>1
  <2>3. 32 * done + 32 <= 32 * Full(lens[1])
    BY ONLY <1>4, <2>1, <2>2
  <2> QED BY ONLY <1>4, <2>1, <2>3
<1>6. FullRow(32 * done) = RowAt(lens[1], 32 * done)
  BY <1>3, <1>5, FullRowIs
<1>7. Kernels'
  <2>1. done' \in Nat /\ done' <= Full(lens[1])
    BY <1>1, <1>4, <1>5
  <2>2. Lanes' = Lanes
    BY <1>1 DEF Lanes
  <2> QED BY <1>1, <1>2, <2>1, <2>2 DEF Kernels
<1>8. \A i \in Lanes : Taken(i) = done /\ Taken(i)' = done + 1
  BY <1>1 DEF Taken
<1> DEFINE row == [i \in Lanes |-> FullRow(32 * done)]
           touched == [i \in Lanes |-> 32 * done .. 32 * done + 31]
<1>9. \A i \in Lanes : /\ Taken(i)' = IF i \in Lanes THEN Taken(i) + 1 ELSE Taken(i)
                       /\ i \in Lanes => row[i] = RowAt(lens[i], 32 * Taken(i))
                       /\ touched[i] \subseteq 0 .. lens[i] - 1
  <2>1. ASSUME NEW i \in Lanes PROVE touched[i] \subseteq 0 .. lens[i] - 1
    <3>1. touched[i] = 32 * done .. 32 * done + 31 /\ lens[i] = lens[1]
      BY <1>3
    <3>2. 32 * done .. 32 * done + 31 \subseteq 0 .. lens[1] - 1
      BY <1>5, <1>3
    <3> QED BY <3>1, <3>2
  <2>2. ASSUME NEW i \in Lanes PROVE row[i] = RowAt(lens[i], 32 * Taken(i))
    BY <1>3, <1>6, <1>8
  <2> QED BY <1>8, <2>1, <2>2
<1> HIDE DEF row, touched
<1>10. AbsorbRows(Lanes, row, touched)
  BY <1>1 DEF row, touched
<1> QED BY <1>1, <1>7, <1>9, <1>10, AbsorbStep

LEMMA KeepsFinish == AbsorbIInv /\ Finish => AbsorbIInv'
<1> SUFFICES ASSUME AbsorbIInv, Finish PROVE AbsorbIInv'
  OBVIOUS
<1> DEFINE len == lens[1]
           off == 32 * Full(len)
           pad == IF kernel = "scalar" THEN Terminator(off, Rem(len)) ELSE TailBuffer(off, Rem(len))
<1>1. /\ ~ended /\ kernel # "masked" /\ done = Full(len) /\ ended' = TRUE
      /\ UNCHANGED <<lens, kernel, done, head>>
      /\ IF Whole(len)
           THEN UNCHANGED <<rows, read>>
           ELSE AbsorbRows(Lanes, [i \in Lanes |-> pad], [i \in Lanes |-> off .. len - 1])
  BY DEF Finish
<1>2. Kernels
  BY DEF AbsorbIInv
<1>3. len \in Nat /\ \A i \in Lanes : lens[i] = len /\ lens[i] \in Nat
  BY <1>1, <1>2, LanesAre DEF Kernels
<1>4. Lanes' = Lanes
  BY <1>1 DEF Lanes
<1>5. Kernels'
  BY <1>1, <1>2, <1>4 DEF Kernels
<1>6. /\ Full(len) \in Nat /\ Rem(len) \in 0 .. 31 /\ len = off + Rem(len) /\ EndsIn(len, off, Rem(len))
      /\ Blocks(len) = Full(len) + (IF Rem(len) # 0 \/ len = 0 THEN 1 ELSE 0)
  BY <1>3, LengthIs, BlocksIs
<1>7. \A i \in Lanes : Taken(i) = done /\ Taken(i)' = Blocks(len)
  BY <1>1, <1>3 DEF Taken
<1> HIDE DEF len
<1>8. CASE Whole(len)
  <2>1. Blocks(len) = done
    BY <1>1, <1>6, <1>8 DEF Whole
  <2>2. UNCHANGED <<rows, read>>
    BY <1>1, <1>8
  <2>3. \A i \in Lanes : Taken(i)' = Taken(i)
    BY <1>7, <2>1
  <2>4. RowsRight /\ ReadsTyped
    BY DEF AbsorbIInv
  <2>5. RowsRight'
    BY <1>1, <1>4, <2>2, <2>3, <2>4 DEF RowsRight
  <2>6. ReadsTyped'
    BY <1>1, <1>4, <2>2, <2>4 DEF ReadsTyped, ReadsInside
  <2> QED BY <1>5, <2>5, <2>6 DEF AbsorbIInv
<1>9. CASE ~ Whole(len)
  <2> DEFINE row == [i \in Lanes |-> pad]
             touched == [i \in Lanes |-> off .. len - 1]
  <2>1. Blocks(len) = done + 1
    BY <1>1, <1>3, <1>6, <1>9 DEF Whole
  <2>2. pad = RowAt(len, off)
    BY <1>6, TerminatorIs, TailBufferIs
  <2>3. \A i \in Lanes : Taken(i) = done /\ Taken(i)' = Taken(i) + 1 /\ row[i] = RowAt(lens[i], 32 * Taken(i))
    BY <1>1, <1>3, <1>7, <2>1, <2>2
  <2>4. \A i \in Lanes : touched[i] \subseteq 0 .. lens[i] - 1
    <3>1. off \in Nat
      BY <1>6
    <3>2. off .. len - 1 \subseteq 0 .. len - 1
      BY <3>1, <1>3
    <3> QED BY <3>2, <1>3
  <2>5. AbsorbRows(Lanes, row, touched)
    BY <1>1, <1>9
  <2> HIDE DEF row, touched
  <2>6. \A i \in Lanes : /\ Taken(i)' = IF i \in Lanes THEN Taken(i) + 1 ELSE Taken(i)
                         /\ i \in Lanes => row[i] = RowAt(lens[i], 32 * Taken(i))
                         /\ touched[i] \subseteq 0 .. lens[i] - 1
    BY <2>3, <2>4
  <2> QED BY <1>1, <1>5, <2>5, <2>6, AbsorbStep
<1> QED BY <1>8, <1>9

(* The masked kernel: a lane takes a row when it has one left.             *)
LEMMA MaskedIs ==
  ASSUME AbsorbIInv, kernel = "masked", ~ended, done < AllBlocks, done' = done + 1,
         UNCHANGED <<lens, kernel, ended, head>>
  PROVE  /\ Kernels'
         /\ \A i \in Lanes : /\ Blocks(lens[i]) \in Nat /\ lens[i] \in Nat
                             /\ i \in Active => Taken(i) = done
                             /\ Taken(i)' = IF i \in Active THEN Taken(i) + 1 ELSE Taken(i)
<1>1. Kernels /\ done \in Nat /\ lens \in LengthLists
  BY DEF AbsorbIInv, Kernels
<1>2. AllBlocks \in Nat /\ \A i \in Lanes : lens[i] \in Nat /\ Blocks(lens[i]) \in Nat
  BY <1>1, LanesAre, AllIs, BlocksIs
<1>3. Lanes' = Lanes
  BY DEF Lanes
<1>4. AllBlocks' = AllBlocks
  BY <1>3 DEF AllBlocks
<1>5. Kernels'
  <2>1. done' \in Nat /\ done' <= AllBlocks
    BY <1>1, <1>2
  <2> QED BY <1>1, <1>3, <1>4, <2>1 DEF Kernels
<1>6. ASSUME NEW i \in Lanes
      PROVE  /\ i \in Active => Taken(i) = done
             /\ Taken(i)' = IF i \in Active THEN Taken(i) + 1 ELSE Taken(i)
  <2>1. Taken(i) = IF done < Blocks(lens[i]) THEN done ELSE Blocks(lens[i])
    BY DEF Taken
  <2>2. Taken(i)' = IF done + 1 < Blocks(lens[i]) THEN done + 1 ELSE Blocks(lens[i])
    BY DEF Taken
  <2>3. i \in Active <=> done < Blocks(lens[i])
    BY <1>1, <1>2 DEF Active
  <2> QED BY <1>1, <1>2, <2>1, <2>2, <2>3
<1> QED BY <1>2, <1>5, <1>6

LEMMA KeepsMaskedCommon == AbsorbIInv /\ MaskedCommon => AbsorbIInv'
<1> SUFFICES ASSUME AbsorbIInv, MaskedCommon PROVE AbsorbIInv'
  OBVIOUS
<1> DEFINE row == [i \in Lanes |-> FullRow(32 * done)]
           touched == [i \in Lanes |-> 32 * done .. 32 * done + 31]
<1>1. /\ ~ended /\ kernel = "masked" /\ done < CommonBlocks /\ done' = done + 1
      /\ UNCHANGED <<lens, kernel, ended, head>>
      /\ AbsorbRows(Lanes, row, touched)
  BY DEF MaskedCommon
<1>2. lens \in LengthLists /\ done \in Nat
  BY DEF AbsorbIInv, Kernels
<1>3. \A i \in Lanes : /\ lens[i] \in Nat /\ CommonBlocks <= Full(lens[i])
                       /\ Full(lens[i]) \in Nat /\ 32 * Full(lens[i]) <= lens[i]
  <2>1. \A i \in Lanes : lens[i] \in Nat /\ CommonBlocks <= Full(lens[i])
    BY <1>2, LanesAre, CommonIs
  <2>2. \A i \in Lanes : Full(lens[i]) \in Nat /\ Rem(lens[i]) \in 0 .. 31 /\ lens[i] = 32 * Full(lens[i]) + Rem(lens[i])
    BY <2>1, LengthIs
  <2> QED BY <2>1, <2>2
<1>4. CommonBlocks \in Nat
  BY <1>2, CommonIs
<1>5. ASSUME NEW i \in Lanes
      PROVE  /\ done < Full(lens[i]) /\ 32 * done \in Nat /\ 32 * done + 32 <= lens[i]
             /\ done < Blocks(lens[i]) /\ done < AllBlocks
  <2>1. done < Full(lens[i])
    BY <1>1, <1>2, <1>3, <1>4
  <2>2. 32 * done \in Nat /\ 32 * done + 32 <= lens[i]
    BY <1>2, <1>3, <2>1
  <2>3. Blocks(lens[i]) \in Nat /\ Blocks(lens[i]) >= Full(lens[i])
    BY <1>3, BlocksIs
  <2>4. AllBlocks \in Nat /\ Blocks(lens[i]) <= AllBlocks
    BY <1>2, AllIs
  <2> QED BY <1>2, <1>3, <2>1, <2>2, <2>3, <2>4
<1>6. 1 \in Lanes
  BY <1>2, LanesAre
<1>7. /\ Kernels' /\ \A i \in Lanes : /\ i \in Active => Taken(i) = done
                                      /\ Taken(i)' = IF i \in Active THEN Taken(i) + 1 ELSE Taken(i)
  BY <1>1, <1>5, <1>6, MaskedIs
<1>8. \A i \in Lanes : i \in Active
  BY <1>5 DEF Active
<1>9. \A i \in Lanes : /\ Taken(i)' = IF i \in Lanes THEN Taken(i) + 1 ELSE Taken(i)
                       /\ i \in Lanes => row[i] = RowAt(lens[i], 32 * Taken(i))
                       /\ touched[i] \subseteq 0 .. lens[i] - 1
  <2>1. ASSUME NEW i \in Lanes
        PROVE  row[i] = RowAt(lens[i], 32 * done) /\ touched[i] \subseteq 0 .. lens[i] - 1
    <3>1. FullRow(32 * done) = RowAt(lens[i], 32 * done)
      BY <1>3, <1>5, FullRowIs
    <3>2. 32 * done .. 32 * done + 31 \subseteq 0 .. lens[i] - 1
      BY <1>3, <1>5
    <3> QED BY <3>1, <3>2
  <2> HIDE DEF row, touched
  <2> QED BY <1>7, <1>8, <2>1
<1> HIDE DEF row, touched
<1> QED BY <1>1, <1>7, <1>9, AbsorbStep

LEMMA KeepsMasked == AbsorbIInv /\ Masked => AbsorbIInv'
<1> SUFFICES ASSUME AbsorbIInv, Masked PROVE AbsorbIInv'
  OBVIOUS
<1> DEFINE row == [i \in Lanes |-> RowVar(lens[i], done)]
           touched == [i \in Lanes |-> RowVarReads(lens[i], done)]
<1>1. /\ ~ended /\ kernel = "masked" /\ done < AllBlocks /\ done' = done + 1
      /\ UNCHANGED <<lens, kernel, ended, head>>
      /\ AbsorbRows(Active, row, touched)
  BY DEF Masked
<1>2. lens \in LengthLists /\ done \in Nat
  BY DEF AbsorbIInv, Kernels
<1>3. /\ Kernels'
      /\ \A i \in Lanes : /\ Blocks(lens[i]) \in Nat /\ lens[i] \in Nat
                          /\ i \in Active => Taken(i) = done
                          /\ Taken(i)' = IF i \in Active THEN Taken(i) + 1 ELSE Taken(i)
  BY <1>1, MaskedIs
<1>4. ASSUME NEW i \in Lanes
      PROVE  /\ i \in Active => row[i] = RowAt(lens[i], 32 * Taken(i))
             /\ touched[i] \subseteq 0 .. lens[i] - 1
  <2>1. row[i] = RowVar(lens[i], done) /\ touched[i] = RowVarReads(lens[i], done)
    OBVIOUS
  <2> HIDE DEF row, touched
  <2>2. CASE i \in Active
    <3>1. done < Blocks(lens[i])
      BY <1>2, <1>3, <2>2 DEF Active
    <3>2. /\ RowVar(lens[i], done) = RowAt(lens[i], 32 * done)
          /\ RowVarReads(lens[i], done) \subseteq 0 .. lens[i] - 1
      BY <1>2, <1>3, <3>1, RowVarIs
    <3> QED BY <1>3, <2>1, <2>2, <3>2
  <2>3. CASE i \notin Active
    <3>1. done >= Blocks(lens[i])
      BY <1>2, <1>3, <2>3 DEF Active
    <3>2. RowVarReads(lens[i], done) = {}
      BY <1>2, <1>3, <3>1, LengthIs, BlocksIs DEF RowVarReads
    <3> QED BY <2>1, <2>3, <3>2
  <2> QED BY <2>2, <2>3
<1> HIDE DEF row, touched
<1>5. \A i \in Lanes : /\ Taken(i)' = IF i \in Active THEN Taken(i) + 1 ELSE Taken(i)
                       /\ i \in Active => row[i] = RowAt(lens[i], 32 * Taken(i))
                       /\ touched[i] \subseteq 0 .. lens[i] - 1
  BY <1>3, <1>4
<1> QED BY <1>1, <1>3, <1>5, AbsorbStep

LEMMA KeepsMaskedEnd == AbsorbIInv /\ MaskedEnd => AbsorbIInv'
<1> SUFFICES ASSUME AbsorbIInv, MaskedEnd PROVE AbsorbIInv'
  OBVIOUS
<1>1. /\ kernel = "masked" /\ done = AllBlocks /\ ended' = TRUE
      /\ UNCHANGED <<lens, kernel, done, head, rows, read>>
  BY DEF MaskedEnd
<1>2. Lanes' = Lanes
  BY <1>1 DEF Lanes
<1>3. AllBlocks' = AllBlocks
  BY <1>1, <1>2 DEF AllBlocks
<1>4. \A i : Taken(i)' = Taken(i)
  BY <1>1 DEF Taken
<1>5. Kernels'
  BY <1>1, <1>2, <1>3 DEF AbsorbIInv, Kernels
<1>6. RowsRight'
  BY <1>1, <1>2, <1>4 DEF AbsorbIInv, RowsRight
<1>7. ReadsTyped'
  BY <1>1, <1>2 DEF AbsorbIInv, ReadsTyped, ReadsInside
<1> QED BY <1>5, <1>6, <1>7 DEF AbsorbIInv

(* Every step keeps the invariant.                                         *)
LEMMA AbsorbKeeps == AbsorbIInv /\ [AbsorbNext]_absorbing => AbsorbIInv'
<1> SUFFICES ASSUME AbsorbIInv, [AbsorbNext]_absorbing PROVE AbsorbIInv'
  OBVIOUS
<1>1. CASE UNCHANGED absorbing
  <2>1. UNCHANGED <<lens, kernel, done, ended, head, rows, read>>
    BY <1>1 DEF absorbing
  <2>2. Lanes' = Lanes
    BY <2>1 DEF Lanes
  <2>3. AllBlocks' = AllBlocks /\ \A i : Taken(i)' = Taken(i)
    BY <2>1, <2>2 DEF AllBlocks, Taken
  <2>4. Kernels'
    BY <2>1, <2>2, <2>3 DEF AbsorbIInv, Kernels
  <2>5. RowsRight'
    BY <2>1, <2>2, <2>3 DEF AbsorbIInv, RowsRight
  <2>6. ReadsTyped'
    BY <2>1, <2>2 DEF AbsorbIInv, ReadsTyped, ReadsInside
  <2> QED BY <2>4, <2>5, <2>6 DEF AbsorbIInv
<1> QED BY <1>1, KeepsBlock, KeepsFinish, KeepsMaskedCommon, KeepsMasked, KeepsMaskedEnd DEF AbsorbNext

LEMMA AbsorbedIsPadded == AbsorbIInv => AbsorbsPadded
<1> SUFFICES ASSUME AbsorbIInv, NEW i \in Lanes
             PROVE  /\ head[i] = lens[i]
                    /\ IsPrefix(rows[i], Padded(lens[i]))
                    /\ ended => rows[i] = Padded(lens[i])
  BY DEF AbsorbsPadded
<1>1. Kernels /\ RowsRight
  BY DEF AbsorbIInv
<1>2. lens[i] \in Nat /\ Blocks(lens[i]) \in Nat /\ Full(lens[i]) \in Nat /\ Full(lens[i]) <= Blocks(lens[i])
  <2>1. lens[i] \in Nat
    BY <1>1, LanesAre DEF Kernels
  <2> QED BY <2>1, LengthIs, BlocksIs
<1>3. Taken(i) \in 0 .. Blocks(lens[i])
  BY <1>1, <1>2 DEF Kernels, Taken
<1>4. ended => Taken(i) = Blocks(lens[i])
  <2>1. Blocks(lens[i]) <= AllBlocks /\ AllBlocks \in Nat
    BY <1>1, AllIs DEF Kernels
  <2> QED BY <1>1, <1>2, <2>1 DEF Kernels, Taken
<1>5. /\ rows[i] \in Seq(ByteRow) /\ Len(rows[i]) = Taken(i)
      /\ \A k \in 1 .. Taken(i) : rows[i][k] = RowAt(lens[i], 32 * (k - 1))
  BY <1>1 DEF RowsRight
<1> DEFINE padded == Padded(lens[i])
<1>6. /\ padded = [k \in 1 .. Blocks(lens[i]) |-> padded[k]]
      /\ \A k \in 1 .. Blocks(lens[i]) : padded[k] = RowAt(lens[i], 32 * (k - 1))
  <2>1. \A k \in 1 .. Blocks(lens[i]) : padded[k] = RowAt(lens[i], 32 * (k - 1))
    BY <1>2, PaddedRow
  <2> QED BY <2>1 DEF Padded
<1> HIDE DEF padded
<1>7. padded \in Seq(ByteRow) /\ Len(padded) = Blocks(lens[i])
  <2>1. ASSUME NEW k \in 1 .. Blocks(lens[i]) PROVE padded[k] \in ByteRow
    <3>1. k - 1 \in Nat
      BY <1>2
    <3>2. 32 * (k - 1) \in Nat
      BY ONLY <3>1
    <3>3. RowAt(lens[i], 32 * (k - 1)) \in ByteRow
      BY <1>2, <3>2, RowAtIn DEF ByteRow
    <3>4. padded[k] = RowAt(lens[i], 32 * (k - 1))
      BY ONLY <1>6, k \in 1 .. Blocks(lens[i]), Zenon
    <3> QED BY ONLY <3>3, <3>4, Zenon
  <2> QED BY <1>2, <1>6, <2>1
<1>8. \A k \in 1 .. Taken(i) : rows[i][k] = padded[k]
  BY <1>2, <1>3, <1>5, <1>6
<1>9. IsPrefix(rows[i], padded)
  <2>1. SubSeq(padded, 1, Taken(i)) = rows[i]
    BY <1>2, <1>3, <1>5, <1>7, <1>8
  <2> QED BY <1>2, <1>3, <1>5, <1>7, <2>1 DEF IsPrefix
<1>10. ended => rows[i] = padded
  BY <1>2, <1>4, <1>5, <1>7, <1>8
<1>11. head[i] = lens[i]
  BY <1>1 DEF Kernels
<1> QED BY <1>9, <1>10, <1>11 DEF padded

(* Each kernel absorbs the rows of the padded message and its length, for  *)
(* one message or four, of every length: the overlapping reads of          *)
(* absorb_with_domain, the buffer of load_message_tails and the masked     *)
(* loads of tail_row pad alike.                                            *)
THEOREM KernelsAbsorbPadded == AbsorbSpec => []AbsorbsPadded
BY AbsorbStart, AbsorbKeeps, AbsorbedIsPadded, PTL DEF AbsorbSpec

(* No kernel reads outside a message, for messages of every length: the    *)
(* SAFETY contracts of the masked loads and of the loose bytes.            *)
THEOREM KernelsReadInside == AbsorbSpec => []ReadsInside
<1>1. AbsorbIInv => ReadsInside
  BY DEF AbsorbIInv, ReadsTyped
<1> QED BY <1>1, AbsorbStart, AbsorbKeeps, PTL DEF AbsorbSpec

=============================================================================
