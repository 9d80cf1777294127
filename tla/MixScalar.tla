------------------------------ MODULE MixScalar ------------------------------
(***************************************************************************)
(* The mixing functions as src/core.rs defines them for one state: IDM,    *)
(* the rotation distances of ERD, and the round that perturbs and rotates. *)
(* IDM is cut where the source has its empty lines.                        *)
(***************************************************************************)
EXTENDS Words

Phi17 == RotlBy(Phi, 17)
Phi23 == RotlBy(Phi, 23)

Quad(a, b, c, d) == [a |-> a, b |-> b, c |-> c, d |-> d]

IdmAdd(q) ==
  LET a == Add(q.a, q.b)
      c == Add(q.c, q.d)
  IN  Quad(a, Xor(q.b, RotlBy(a, 11)), c, Xor(q.d, RotlBy(c, 19)))

IdmPhi(q) ==
  LET a == Add(q.a, Phi)
      c == Add(q.c, Phi23)
  IN  Quad(Xor(a, RotlBy(c, 37)), q.b, c, Xor(q.d, RotlBy(q.b, 43)))

IdmCross(q) ==
  LET b == Add(q.b, q.a)
      d == Add(q.d, q.c)
  IN  Quad(Xor(q.a, RotlBy(b, 31)), b, Xor(q.c, RotlBy(d, 47)), d)

IdmMul(q) ==
  LET m == Mul(Xor(q.a, q.c), Phi)
  IN  Quad(q.a, Xor(q.b, m), q.c, Xor(q.d, RotlBy(m, 33)))

IdmFold(q) ==
  LET mix0 == Xor(q.a, q.c)
      m0   == Mul(Xor(mix0, Rotl(mix0, Half)), Phi)
      m1   == Mul(Xor(q.b, q.d), Phi17)
  IN  Quad(Xor(q.a, m0), Xor(q.b, m1), Xor(q.c, RotlBy(m0, 23)), Xor(q.d, RotlBy(m1, 41)))

IdmLink(q) ==
  LET a == Add(q.a, q.b)
      d == Xor(q.d, RotlBy(a, 33))
  IN  Quad(a, Xor(q.b, RotlBy(Xor(q.c, d), 21)), q.c, d)

IdmSpread(q) ==
  LET a == Add(q.a, q.d)
      c == Add(q.c, q.b)
  IN  Quad(a, Xor(q.b, RotlBy(c, 23)), c, Xor(q.d, RotlBy(a, 41)))

IdmClose(q) ==
  LET b == Add(q.b, q.a)
      d == Add(q.d, q.c)
  IN  Quad(Xor(q.a, RotlBy(b, 17)), b, Xor(q.c, RotlBy(d, 31)), d)

IdmQuad(q) ==
  IdmClose(IdmSpread(IdmLink(IdmFold(IdmMul(IdmCross(IdmPhi(IdmAdd(q))))))))

(* idm_scalar_ref.                                                         *)
Idm(s) ==
  LET q == IdmQuad(Quad(Hi(s[1]), Lo(s[1]), Hi(s[2]), Lo(s[2])))
  IN  <<Join(q.a, q.b), Join(q.c, q.d)>>

-----------------------------------------------------------------------------
(* erd: two working words, two odd keys, two distances.                    *)

ErdBase(s0, s1) ==
  LET t0 == DAdd(s0, s1)
      t1 == DXor(s0, DRotl(s1, Amount(42)))
  IN  <<Lo(DXor(t0, DXor(Hi(t0), DRotl(t0, Amount(37))))),
        Lo(DXor(t1, DXor(Hi(t1), DRotl(t1, Amount(43)))))>>

ErdStages(v) ==
  LET x0 == Add(v[1], RotlBy(v[2], 31))
      x1 == Xor(v[2], RotlBy(x0, 27))
      y0 == Add(x0, RotlBy(x1, 17))
  IN  <<y0, Xor(x1, RotlBy(y0, 29))>>

Key(v, r) ==
  LET x == Xor(v, r)
      f == Xor(x, x \div Pow(Half))
  IN  Or(Mul(f, Or(f, 1)) \div Pow(Bits - KeyBits), 1)

ErdKeys(v) == <<Key(v[1], RotlBy(v[2], 11)), Key(v[2], RotlBy(v[1], 13))>>

ErdMix(v, k) ==
  LET v0 == Add(v[1], Xor(Rotl(v[2], k[1]), v[2] \div Pow(Amount(7))))
  IN  <<v0, Xor(v[2], Xor(v0 \div Pow(Amount(7)), Rotl(v0, k[2])))>>

ErdFinish(v) ==
  LET v0 == Add(v[1], RotlBy(v[2], 17))
  IN  <<Xor(v0, v0 \div Pow(Amount(29))), Xor(v[2], RotlBy(v0, 40))>>

Project(v, span) == (v * span) \div M + 1

ErdRotations(v) == <<Project(v[1], Span0), Project(v[2], Span1)>>

Erd(s0, s1) ==
  LET v == ErdStages(ErdBase(s0, s1))
  IN  ErdRotations(ErdFinish(ErdMix(v, ErdKeys(v))))

(* erd_round_scalar_ref with the constant of the round.                    *)
RoundConstant(step) == Mul(Phi, Add(step, 2))

ErdRound(s, rc) ==
  LET rc128 == Join(RotlBy(rc, 17), rc)
      s0    == DXor(s[1], rc128)
      s1    == DXor(s[2], DRotl(rc128, Amount(17)))
      rot   == Erd(s0, s1)
  IN  <<DRotl(s0, rot[1]), DRotl(s1, rot[2])>>

(* stream_step; evaluate_scalar is the step 0.                             *)
StreamStep(s, step) == ErdRound(Idm(s), RoundConstant(step))

=============================================================================
