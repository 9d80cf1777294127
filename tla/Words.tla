-------------------------------- MODULE Words --------------------------------
(***************************************************************************)
(* The machine words the mixing functions compute with: u64 and u128 of    *)
(* src/core.rs, as natural numbers.  A word has Bits bits (64 in the       *)
(* program) and a double word 2 * Bits; the distances and factors of the   *)
(* source are given for 64 bits and scaled by parameters, which are the    *)
(* identity there.                                                         *)
(*                                                                         *)
(* Powers and exclusive or are parameters with the laws that are needed of *)
(* them, so that the modules about words can be proved about for every     *)
(* size.                                                                   *)
(***************************************************************************)
EXTENDS Integers

CONSTANTS
  Bits,        \* bits of a word, 64
  KeyBits,     \* bits of a rotation distance, 6
  Pow(_),      \* powers of two
  Xor(_, _),   \* exclusive or of two words
  Amount(_),   \* distance in a word of Bits bits, for a distance in one of 64
  Phi,         \* PHI_64
  Span0, Span1 \* 127 and 113, the factors of the projections

M    == Pow(Bits)          \* 2^64
Half == Bits \div 2
B    == Pow(Half)          \* 2^32
Word   == 0 .. M-1
Double == 0 .. M*M-1

(* The distances that occur in the source.                                 *)
Distances == {7, 11, 13, 17, 19, 21, 23, 27, 29, 31, 33, 37, 40, 41, 42, 43, 47}

ASSUME SizeLaw ==
  /\ KeyBits \in Nat \ {0}
  /\ Bits = Pow(KeyBits)
  /\ Bits \in Nat /\ Half \in Nat \ {0} /\ Bits = 2 * Half
  /\ KeyBits < Bits
  /\ 2 * Bits <= B

ASSUME PowLaw ==
  /\ Pow(0) = 1 /\ Pow(1) = 2
  /\ \A r \in 0 .. 2 * Bits : Pow(r) \in Nat \ {0}
  /\ \A r, q \in 0 .. Bits : Pow(r + q) = Pow(r) * Pow(q)

ASSUME AmountLaw == \A d \in Distances : Amount(d) \in 1 .. Bits-1

ASSUME FactorLaw == Phi \in Word /\ Span0 \in 1 .. 2 * Bits - 1 /\ Span1 \in 1 .. 2 * Bits - 1

(* Exclusive or with the ones below bit r flips them; with bits that are   *)
(* all 0 it sets them; with the top bit it adds it.                        *)
ASSUME XorLaw ==
  /\ \A x, y \in Word : Xor(x, y) \in Word /\ Xor(x, y) = Xor(y, x)
  /\ \A x \in Word, r \in 0 .. Bits : Xor(x, Pow(r) - 1) = x + Pow(r) - 1 - 2 * (x % Pow(r))
  /\ \A r \in 0 .. Bits : \A x \in Word, y \in 0 .. Pow(r) - 1 :
       x % Pow(r) = 0 => Xor(x, y) = x + y
  /\ \A x \in Word : Xor(x, Pow(Bits-1)) = (x + Pow(Bits-1)) % M

-----------------------------------------------------------------------------

Add(x, y) == (x + y) % M
Mul(x, y) == (x * y) % M
And(x, y) == ((x + y) - Xor(x, y)) \div 2
Or(x, y)  == (x + y + Xor(x, y)) \div 2

(* rotate_left; the distance is taken modulo the width.                    *)
Rotl(x, d) ==
  LET r == d % Bits
  IN  (x % Pow(Bits - r)) * Pow(r) + (x \div Pow(Bits - r))

RotlBy(x, d) == Rotl(x, Amount(d))

(* Double words.                                                           *)
Hi(x) == x \div M
Lo(x) == x % M

Join(hi, lo) == hi * M + lo

DAdd(x, y) == (x + y) % (M * M)
DXor(x, y) == Join(Xor(Hi(x), Hi(y)), Xor(Lo(x), Lo(y)))

DRotl(x, d) ==
  LET r == d % (2 * Bits)
  IN  (x % Pow(2 * Bits - r)) * Pow(r) + (x \div Pow(2 * Bits - r))

=============================================================================
