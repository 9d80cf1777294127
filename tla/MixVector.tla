------------------------------ MODULE MixVector ------------------------------
(***************************************************************************)
(* The mixing functions of the AVX2 kernels, src/core_avx2.rs: four states *)
(* at a time, in vectors of four words.  Every instruction but those of    *)
(* the transposition does the same to each word of its operands, and the   *)
(* definitions say what it does to one; a double word is the pair of its   *)
(* halves.                                                                 *)
(***************************************************************************)
EXTENDS MixScalar

(* The instructions: shifts, the product of the low halves, the signed     *)
(* comparison, and the choice by a mask that is all ones or 0.             *)
Slli(x, r)  == (x * Pow(r)) % M
Srli(x, r)  == x \div Pow(r)
Sllv(x, n)  == IF n < Bits THEN Slli(x, n) ELSE 0
Srlv(x, n)  == IF n < Bits THEN Srli(x, n) ELSE 0
Sub(x, y)   == (x + (M - y)) % M
MulLow(x, y) == (x % B) * (y % B)
Signed(x)   == IF x < Pow(Bits-1) THEN x ELSE x - M
CmpGt(x, y) == IF Signed(x) > Signed(y) THEN M - 1 ELSE 0
Blend(x, y, mask) == IF mask = 0 THEN x ELSE y

-----------------------------------------------------------------------------

(* mul_u64x4_const.                                                        *)
MulConst(x, c) ==
  LET mid == Add(MulLow(Srli(x, Half), c % B), MulLow(x, Srli(c, Half)))
  IN  Add(MulLow(x, c % B), Slli(mid, Half))

(* x * (x | 1), from the square of x.                                      *)
MulXOrOne(x) ==
  LET cross == MulLow(x, Srli(x, Half))
      sq    == Add(MulLow(x, x), Slli(Add(cross, cross), Half))
      even  == Sub(And(x, 1), 1)
  IN  Add(sq, And(x, even))

RotlImm(x, r) == Or(Slli(x, r), Srli(x, Bits - r))

VRot(x, d) == RotlImm(x, Amount(d))

(* Shifts by a variable distance do not reduce it; see KeysInRange.        *)
RotlVarBounded(x, r) == Or(Sllv(x, r), Srlv(x, Sub(Bits, r)))

-----------------------------------------------------------------------------
(* Double words.                                                           *)

Wide(hi, lo) == [hi |-> hi, lo |-> lo]

(* Mutant: the words are compared as signed numbers.                       *)
AddWideSigned(x, y) ==
  LET lo    == Add(x.lo, y.lo)
      carry == And(CmpGt(x.lo, lo), 1)
  IN  Wide(Add(Add(x.hi, y.hi), carry), lo)

(* add_u128: the sum of the low words is below one of them exactly if it   *)
(* wrapped; there is only a signed comparison, so both get the other sign. *)
AddWide(x, y) ==
  LET lo    == Add(x.lo, y.lo)
      sign  == Pow(Bits-1)
      carry == And(CmpGt(Xor(x.lo, sign), Xor(lo, sign)), 1)
  IN  Wide(Add(Add(x.hi, y.hi), carry), lo)

XorWide(x, y) == Wide(Xor(x.hi, y.hi), Xor(x.lo, y.lo))

(* rotl_u128_17, _37, _42 and _43.                                         *)
RotlWide(x, d) ==
  LET r == Amount(d)
  IN  Wide(Or(Slli(x.hi, r), Srli(x.lo, Bits - r)), Or(Slli(x.lo, r), Srli(x.hi, Bits - r)))

(* rotl_u128_var: rotate by the distance below a word, then exchange the   *)
(* halves if there is a word more.                                         *)
RotlWideVar(x, r) ==
  LET near == And(r, Bits - 1)
      inv  == Sub(Bits, near)
      mask == CmpGt(r, Bits - 1)
      hi   == Or(Sllv(x.hi, near), Srlv(x.lo, inv))
      lo   == Or(Sllv(x.lo, near), Srlv(x.hi, inv))
  IN  Wide(Blend(hi, lo, mask), Blend(lo, hi, mask))

Swapped(x) == Wide(x.lo, x.hi)

-----------------------------------------------------------------------------
(* idm_core, cut as in MixScalar.                                          *)

VIdmAdd(q) ==
  LET a == Add(q.a, q.b)
      c == Add(q.c, q.d)
  IN  Quad(a, Xor(q.b, VRot(a, 11)), c, Xor(q.d, VRot(c, 19)))

VIdmPhi(q) ==
  LET a == Add(q.a, Phi)
      c == Add(q.c, Phi23)
  IN  Quad(Xor(a, VRot(c, 37)), q.b, c, Xor(q.d, VRot(q.b, 43)))

VIdmCross(q) ==
  LET b == Add(q.b, q.a)
      d == Add(q.d, q.c)
  IN  Quad(Xor(q.a, VRot(b, 31)), b, Xor(q.c, VRot(d, 47)), d)

VIdmMul(q) ==
  LET m == MulConst(Xor(q.a, q.c), Phi)
  IN  Quad(q.a, Xor(q.b, m), q.c, Xor(q.d, VRot(m, 33)))

(* The source takes a ^ c before m; a and c have not changed since.        *)
VIdmFold(q) ==
  LET mix0 == Xor(q.a, q.c)
      m0   == MulConst(Xor(mix0, RotlImm(mix0, Half)), Phi)
      m1   == MulConst(Xor(q.b, q.d), Phi17)
  IN  Quad(Xor(q.a, m0), Xor(q.b, m1), Xor(q.c, VRot(m0, 23)), Xor(q.d, VRot(m1, 41)))

VIdmLink(q) ==
  LET a == Add(q.a, q.b)
      d == Xor(q.d, VRot(a, 33))
  IN  Quad(a, Xor(q.b, VRot(Xor(q.c, d), 21)), q.c, d)

VIdmSpread(q) ==
  LET a == Add(q.a, q.d)
      c == Add(q.c, q.b)
  IN  Quad(a, Xor(q.b, VRot(c, 23)), c, Xor(q.d, VRot(a, 41)))

VIdmClose(q) ==
  LET b == Add(q.b, q.a)
      d == Add(q.d, q.c)
  IN  Quad(Xor(q.a, VRot(b, 17)), b, Xor(q.c, VRot(d, 31)), d)

VIdm(q) ==
  VIdmClose(VIdmSpread(VIdmLink(VIdmFold(VIdmMul(VIdmCross(VIdmPhi(VIdmAdd(q))))))))

-----------------------------------------------------------------------------
(* ERD: lane_prepare to lane_apply_rotation.                               *)

VErdBase(s0, s1) ==
  LET t0 == AddWide(s0, s1)
      t1 == XorWide(s0, RotlWide(s1, 42))
  IN  <<XorWide(t0, XorWide(Swapped(t0), RotlWide(t0, 37))).lo,
        XorWide(t1, XorWide(Swapped(t1), RotlWide(t1, 43))).lo>>

VErdStages(v) ==
  LET x0 == Add(v[1], VRot(v[2], 31))
      x1 == Xor(v[2], VRot(x0, 27))
      y0 == Add(x0, VRot(x1, 17))
  IN  <<y0, Xor(x1, VRot(y0, 29))>>

(* Mutant: the key may be even.                                            *)
VKeyEven(v, r) ==
  LET x == Xor(v, r)
      f == Xor(x, Srli(x, Half))
  IN  Srli(MulXOrOne(f), Bits - KeyBits)

VKey(v, r) ==
  LET x == Xor(v, r)
      f == Xor(x, Srli(x, Half))
  IN  Or(Srli(MulXOrOne(f), Bits - KeyBits), 1)

VErdKeys(v) == <<VKey(v[1], VRot(v[2], 11)), VKey(v[2], VRot(v[1], 13))>>

VErdMix(v, k) ==
  LET v0 == Add(v[1], Xor(RotlVarBounded(v[2], k[1]), Srli(v[2], Amount(7))))
  IN  <<v0, Xor(v[2], Xor(RotlVarBounded(v0, k[2]), Srli(v0, Amount(7))))>>

VErdFinish(v) ==
  LET v0 == Add(v[1], VRot(v[2], 17))
  IN  <<Xor(v0, Srli(v0, Amount(29))), Xor(v[2], VRot(v0, 40))>>

(* Mutant: the carry of the low product is lost.                           *)
VProjectNoCarry(v, span) == Add(Srli(MulLow(Srli(v, Half), span), Half), 1)

(* The high word of v * span, by halves.                                   *)
VProject(v, span) ==
  LET carry == Srli(MulLow(And(v, B - 1), span), Half)
  IN  Add(Srli(Add(MulLow(Srli(v, Half), span), carry), Half), 1)

VErdRotations(v) == <<VProject(v[1], Span0), VProject(v[2], Span1)>>

VErd(s0, s1) ==
  LET v == VErdStages(VErdBase(s0, s1))
  IN  VErdRotations(VErdFinish(VErdMix(v, VErdKeys(v))))

(* process_lane.                                                           *)
Perturbed(s0, s1, rc) ==
  LET rc128 == Wide(VRot(rc, 17), rc)
  IN  <<XorWide(s0, rc128), XorWide(s1, RotlWide(rc128, 17))>>

VErdRound(s0, s1, rc) ==
  LET p   == Perturbed(s0, s1, rc)
      rot == VErd(p[1], p[2])
  IN  <<RotlWideVar(p[1], rot[1]), RotlWideVar(p[2], rot[2])>>

(* step_x4_rc.                                                             *)
StepRc(s0, s1, rc) ==
  LET q == VIdm(Quad(s0.hi, s0.lo, s1.hi, s1.lo))
  IN  VErdRound(Wide(q.a, q.b), Wide(q.c, q.d), rc)

-----------------------------------------------------------------------------
(* transpose_blocks: four rows of four words.                              *)

UnpackLo(r, t) == <<r[1], t[1], r[3], t[3]>>
UnpackHi(r, t) == <<r[2], t[2], r[4], t[4]>>
LowHalves(r, t)  == <<r[1], r[2], t[1], t[2]>>
HighHalves(r, t) == <<r[3], r[4], t[3], t[4]>>

Transposed(r) ==
  LET t0 == UnpackLo(r[1], r[2])
      t1 == UnpackHi(r[1], r[2])
      t2 == UnpackLo(r[3], r[4])
      t3 == UnpackHi(r[3], r[4])
  IN  <<LowHalves(t0, t2), LowHalves(t1, t3), HighHalves(t0, t2), HighHalves(t1, t3)>>

=============================================================================
