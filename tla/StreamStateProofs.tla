-------------------------- MODULE StreamStateProofs --------------------------
(***************************************************************************)
(* Proofs about StreamState for every number of objects and snapshots,     *)
(* every mixing function, every read length and every bound on the blocks. *)
(*                                                                         *)
(* The invariants TLC checks are not inductive: that a read continues the  *)
(* stream depends on where the bulk loop keeps the cursor, and that no     *)
(* read finds a cursor of 0 on the cursor being in 1 .. 32 whenever no     *)
(* call runs.  HandleInv adds both.                                        *)
(***************************************************************************)
EXTENDS StreamState, ArithLemmas

(* An object no call runs on: the cursor is never 0, and an object that    *)
(* has generated no block has none to read from.                           *)
AtRest(g) == g.cursor \in 1 .. BlockLen /\ (g.made = 0 => g.cursor = BlockLen)

(* The position a running call has come to, and what it has written.       *)
CallInv(g, c) ==
  /\ c.from + c.want <= MaxBlocks * BlockLen
  /\ IF c.bulk
       THEN g.cursor = 0 /\ c.from + c.done = g.made * BlockLen
       ELSE /\ AtRest(g)
            /\ c.from + c.done = Pos(g)
            /\ c.done < c.want => g.cursor = BlockLen
  /\ \A i \in 0 .. c.done - 1 :
       c.buf[i] = <<BlockAt(g.origin, (c.from + i) \div BlockLen + 1), (c.from + i) % BlockLen>>

HandleInv(g, c) ==
  /\ g = None => c = None
  /\ g # None => /\ g \in Object
                 /\ OnSchedule(g)
                 /\ c = None => AtRest(g)
                 /\ c # None => (\E n \in ReadLens : c \in CallFor(n)) /\ CallInv(g, c)

SavedInv(g) == g # None => g \in Object /\ OnSchedule(g) /\ AtRest(g)

IInv ==
  /\ gen \in [Handle -> Object \cup {None}]
  /\ DOMAIN call = Handle
  /\ saved \in [Store -> Object \cup {None}]
  /\ \A h \in Handle : HandleInv(gen[h], call[h])
  /\ \A k \in Store : SavedInv(saved[k])

-----------------------------------------------------------------------------
(* The operators on one object.                                            *)

(* One stream step keeps an object on its schedule.                        *)
LEMMA RefillOnSchedule ==
  ASSUME NEW g \in Object, OnSchedule(g), g.made < MaxBlocks
  PROVE  /\ Refill(g) \in Object
         /\ OnSchedule(Refill(g))
         /\ Refill(g).made = g.made + 1
         /\ Refill(g).cursor = 0
         /\ Refill(g).origin = g.origin
         /\ Refill(g).dom = g.dom
<1>1. /\ g.made \in 0 .. MaxBlocks-1
      /\ g.step \in 0 .. StepMod-1
      /\ g.s \in State
      /\ g.origin \in State
  BY Bounds DEF Object
<1>2. NextStep(g.step) = (g.made + 1) % StepMod
  BY <1>1, Bounds, ModSucc DEF OnSchedule, NextStep
<1>3. (g.made + 1) % StepMod \in 0 .. StepMod-1
  <2>1. g.made + 1 \in Nat /\ StepMod \in Nat \ {0}
    BY <1>1, Bounds
  <2>. QED
    BY <2>1, DivMod
<1>4. StreamStep(g.s, g.step) \in State
  BY <1>1, MixerTypes
<1>5. StreamStep(g.s, g.step) = BlockAt(g.origin, g.made + 1)
  BY <1>1, BlockLaw DEF OnSchedule
<1>6. Refill(g) = [dom |-> g.dom, s |-> StreamStep(g.s, g.step), step |-> NextStep(g.step),
                   cursor |-> 0, origin |-> g.origin, made |-> g.made + 1]
  BY DEF Refill
<1>7. g.dom \in Domains /\ g.made + 1 \in 0 .. MaxBlocks /\ 0 \in 0 .. BlockLen
  BY <1>1, Bounds DEF Object, BlockLen
<1>8. Refill(g) \in Object
  BY <1>1, <1>2, <1>3, <1>4, <1>6, <1>7 DEF Object
<1>9. OnSchedule(Refill(g))
  BY <1>2, <1>5, <1>6 DEF OnSchedule
<1>. QED
  BY <1>6, <1>8, <1>9

(* Moving the cursor changes nothing else.                                 *)
LEMMA CursorMoves ==
  ASSUME NEW g \in Object, NEW c \in 0 .. BlockLen
  PROVE  LET m == [g EXCEPT !.cursor = c]
         IN  /\ m \in Object
             /\ m.cursor = c
             /\ m.made = g.made /\ m.origin = g.origin /\ m.s = g.s
             /\ m.dom = g.dom /\ m.step = g.step
             /\ OnSchedule(g) => OnSchedule(m)
BY DEF Object, OnSchedule

(* A fresh object is on its schedule and at rest.                          *)
LEMMA FreshOnSchedule ==
  ASSUME NEW d \in Domains, NEW s \in State
  PROVE  Fresh(d, s) \in Object /\ OnSchedule(Fresh(d, s)) /\ AtRest(Fresh(d, s))
<1>1. BlockAt(s, 0) = s
  BY BlockLaw
<1>2. 0 % StepMod = 0 /\ 0 \in 0 .. StepMod-1 /\ 0 \in 0 .. MaxBlocks
  BY Bounds
<1>. QED
  BY <1>1, <1>2 DEF Fresh, Object, OnSchedule, AtRest, BlockLen

(* The byte copied from place i of the block of state s is byte i of it,   *)
(* in either half.                                                         *)
LEMMA FreshByteIs ==
  ASSUME NEW s, NEW i \in 0 .. BlockLen-1
  PROVE  FreshByte(s, i) = <<s, i>>
BY DEF FreshByte, LowByte, HighByte, BlockLen, HalfLen

(* Draining copies consecutive bytes, across the middle of the block too.  *)
LEMMA DrainByteIs ==
  ASSUME NEW s, NEW cursor \in 0 .. BlockLen-1, NEW n \in Nat,
         NEW i \in 0 .. DrainLen(cursor, n) - 1
  PROVE  /\ DrainByte(s, cursor, DrainLen(cursor, n), i) = <<s, cursor + i>>
         /\ cursor + i < BlockLen
BY DEF DrainByte, DrainLen, LowByte, HighByte, Lesser, BlockLen, HalfLen


-----------------------------------------------------------------------------
(* IInv is inductive.                                                      *)

LEMMA InitIInv == Init => IInv
BY DEF Init, IInv, HandleInv, SavedInv

(* A step that changes one object, and the call on it, keeps IInv when it  *)
(* leaves a good object behind.                                            *)
LEMMA OneHandle ==
  ASSUME IInv, NEW h \in Handle, NEW g \in Object \cup {None},
         gen' = [gen EXCEPT ![h] = g],
         DOMAIN call' = Handle, \A x \in Handle \ {h} : call'[x] = call[x],
         HandleInv(g, call'[h]),
         UNCHANGED saved
  PROVE  IInv'
<1>1. gen' \in [Handle -> Object \cup {None}]
  BY DEF IInv
<1>2. ASSUME NEW x \in Handle PROVE HandleInv(gen'[x], call'[x])
  BY DEF IInv
<1>. QED
  BY <1>1, <1>2 DEF IInv

(* Constructors, fork, clone and import place an object in an empty slot.  *)
LEMMA PutKeepsIInv ==
  ASSUME IInv, NEW h \in Handle, NEW g \in Object, OnSchedule(g), AtRest(g), Put(h, g)
  PROVE  IInv'
<1>1. call[h] = None /\ g # None
  BY NoneApart DEF IInv, HandleInv, Put
<1>2. HandleInv(g, call'[h])
  BY <1>1 DEF HandleInv, Put
<1>. QED
  BY <1>2, OneHandle DEF Put, IInv

(* An idle object is on its schedule and at rest.                          *)
LEMMA IdleAtRest ==
  ASSUME IInv, NEW h \in Handle, Idle(h)
  PROVE  gen[h] \in Object /\ OnSchedule(gen[h]) /\ AtRest(gen[h])
BY DEF IInv, HandleInv, Idle

LEMMA NewPrngKeepsIInv ==
  ASSUME IInv, NEW h \in Handle, NEW seed \in Seeds, NEW id \in Ids, NewPrng(h, seed, id)
  PROVE  IInv'
<1>1. ForkLane("prng", seed, id) \in State /\ "prng" \in Domains
  BY MixerTypes DEF Domains
<1>. QED
  BY <1>1, FreshOnSchedule, PutKeepsIInv DEF NewPrng

LEMMA NewXofKeepsIInv ==
  ASSUME IInv, NEW h \in Handle, NEW m \in Messages, NewXof(h, m)
  PROVE  IInv'
<1>1. Absorbed(m) \in State /\ "xof" \in Domains
  BY MixerTypes DEF Domains
<1>. QED
  BY <1>1, FreshOnSchedule, PutKeepsIInv DEF NewXof

LEMMA ForkKeepsIInv ==
  ASSUME IInv, NEW h \in Handle, NEW child \in Handle, NEW id \in Ids, Fork(h, child, id)
  PROVE  IInv'
<1>1. gen[h].dom \in Domains /\ gen[h].s \in State
  BY IdleAtRest DEF Fork, Object
<1>2. ForkLane(gen[h].dom, gen[h].s, id) \in State
  BY <1>1, MixerTypes DEF Domains
<1>. QED
  BY <1>1, <1>2, FreshOnSchedule, PutKeepsIInv DEF Fork, Child

LEMMA CloneKeepsIInv ==
  ASSUME IInv, NEW h \in Handle, NEW copy \in Handle, Clone(h, copy)
  PROVE  IInv'
BY IdleAtRest, PutKeepsIInv DEF Clone

LEMMA ImportKeepsIInv ==
  ASSUME IInv, NEW h \in Handle, NEW k \in Store, Import(k, h)
  PROVE  IInv'
<1>1. saved[k] \in Object /\ OnSchedule(saved[k]) /\ AtRest(saved[k])
  BY DEF Import, IInv, SavedInv
<1>. QED
  BY <1>1, PutKeepsIInv DEF Import

LEMMA DropKeepsIInv ==
  ASSUME IInv, NEW h \in Handle, Drop(h)
  PROVE  IInv'
<1>1. HandleInv(None, call'[h])
  BY DEF Drop, Idle, HandleInv
<1>. QED
  BY <1>1, OneHandle DEF Drop, IInv

LEMMA ExportKeepsIInv ==
  ASSUME IInv, NEW h \in Handle, NEW k \in Store, Export(h, k)
  PROVE  IInv'
<1>1. SavedInv(gen[h]) /\ gen[h] \in Object
  BY IdleAtRest DEF Export, SavedInv
<1>2. ASSUME NEW x \in Store PROVE SavedInv(saved'[x])
  BY <1>1 DEF Export, IInv, ToParts
<1>3. saved' \in [Store -> Object \cup {None}]
  BY <1>1 DEF Export, IInv, ToParts
<1>. QED
  BY <1>2, <1>3 DEF Export, IInv

LEMMA NextBlockKeepsIInv ==
  ASSUME IInv, NEW h \in Handle, NextBlock(h)
  PROVE  IInv'
<1>. DEFINE g == gen[h]
<1>1. g \in Object /\ OnSchedule(g) /\ g.made < MaxBlocks
  BY IdleAtRest DEF NextBlock
<1>2. /\ Refill(g) \in Object /\ OnSchedule(Refill(g))
      /\ Refill(g).made = g.made + 1
  BY <1>1, RefillOnSchedule
<1>3. BlockLen \in 0 .. BlockLen
  BY DEF BlockLen
<1>4. FullBlock(g) \in Object /\ OnSchedule(FullBlock(g)) /\ AtRest(FullBlock(g))
  <2>1. /\ FullBlock(g) \in Object /\ OnSchedule(FullBlock(g))
        /\ FullBlock(g).cursor = BlockLen
    BY <1>2, <1>3, CursorMoves DEF FullBlock
  <2>. QED
    BY <2>1 DEF AtRest, BlockLen
<1>5. HandleInv(FullBlock(g), call'[h])
  BY <1>4, NoneApart DEF HandleInv, NextBlock, Idle
<1>6. gen' = [gen EXCEPT ![h] = FullBlock(g)]
  BY DEF NextBlock
<1>. QED
  BY <1>4, <1>5, <1>6, OneHandle DEF NextBlock, IInv


(* Byte c of block k.                                                      *)
LEMMA BlockOfByte ==
  ASSUME NEW k \in Nat, NEW c \in 0 .. BlockLen-1
  PROVE  (k * BlockLen + c) \div BlockLen = k /\ (k * BlockLen + c) % BlockLen = c
BY DEF BlockLen

(* The bytes drained from block made of the stream are the next ones.      *)
LEMMA DrainIsStream ==
  ASSUME NEW g \in Object, OnSchedule(g), AtRest(g), NEW n \in Nat,
         NEW i \in 0 .. DrainLen(g.cursor, n) - 1
  PROVE  LET p == Pos(g) + i
         IN  DrainByte(g.s, g.cursor, DrainLen(g.cursor, n), i)
               = <<BlockAt(g.origin, p \div BlockLen + 1), p % BlockLen>>
<1>1. g.cursor \in 1 .. BlockLen-1 /\ g.made \in Nat \ {0} /\ g.s = BlockAt(g.origin, g.made)
  BY DEF AtRest, DrainLen, BlockLen, Object, OnSchedule
<1>2. /\ DrainByte(g.s, g.cursor, DrainLen(g.cursor, n), i) = <<g.s, g.cursor + i>>
      /\ g.cursor + i < BlockLen
  <2>1. g.cursor \in 0 .. BlockLen-1
    BY <1>1 DEF BlockLen
  <2>. QED
    BY <2>1, DrainByteIs
<1>3. i \in Nat
  BY DEF DrainLen, Lesser, BlockLen
<1>4. (Pos(g) + i) \div BlockLen + 1 = g.made /\ (Pos(g) + i) % BlockLen = g.cursor + i
  <2>1. g.made - 1 \in Nat /\ g.cursor + i \in 0 .. BlockLen-1
    BY <1>1, <1>2, <1>3 DEF BlockLen
  <2>2. Pos(g) + i = (g.made - 1) * BlockLen + (g.cursor + i)
    BY <1>1, <1>3 DEF Pos, BlockLen
  <2>3. (Pos(g) + i) \div BlockLen = g.made - 1 /\ (Pos(g) + i) % BlockLen = g.cursor + i
    BY <2>1, <2>2, BlockOfByte
  <2>. QED
    BY <1>1, <2>3
<1>. QED
  BY <1>1, <1>2, <1>4

(* Draining leaves a good object and a good call behind.                   *)
LEMMA BeginOfFill ==
  ASSUME IInv, NEW h \in Handle, NEW n \in ReadLens, FillBegin(h, n)
  PROVE  \E m \in Object, c \in CallFor(n) :
           /\ OnSchedule(m) /\ CallInv(m, c)
           /\ m.origin = gen[h].origin /\ m.dom = gen[h].dom
           /\ c.from = Pos(gen[h])
           /\ gen' = [gen EXCEPT ![h] = m]
           /\ call' = [call EXCEPT ![h] = c]
<1>. DEFINE g     == gen[h]
            chunk == DrainLen(g.cursor, n)
            m     == [g EXCEPT !.cursor = g.cursor + chunk]
            b     == [i \in 0 .. n-1 |->
                        IF i < chunk THEN DrainByte(g.s, g.cursor, chunk, i) ELSE None]
            c     == [want |-> n, done |-> chunk, bulk |-> FALSE, from |-> Pos(g), buf |-> b]
<1>1. g \in Object /\ OnSchedule(g) /\ AtRest(g) /\ n \in Nat
  BY IdleAtRest, Bounds DEF FillBegin
<1>2. g.cursor \in 1 .. BlockLen /\ g.made \in Nat /\ g.s \in State
  BY <1>1 DEF Object, AtRest
<1>3. /\ chunk \in 0 .. n
      /\ g.cursor + chunk \in 1 .. BlockLen
      /\ chunk < n => g.cursor + chunk = BlockLen
      /\ g.cursor = BlockLen => chunk = 0
  BY <1>1, <1>2 DEF DrainLen, Lesser, BlockLen
<1>4. /\ m \in Object /\ OnSchedule(m) /\ m.cursor = g.cursor + chunk
      /\ m.made = g.made /\ m.origin = g.origin
  <2>1. g.cursor + chunk \in 0 .. BlockLen
    BY <1>2, <1>3 DEF BlockLen
  <2>. QED
    BY <1>1, <2>1, CursorMoves
<1>5. Pos(g) \in Nat
  BY <1>1, <1>2 DEF Pos, AtRest, BlockLen
<1>6. AtRest(m) /\ Pos(g) + chunk = Pos(m)
  <2>1. g.made = 0 => g.cursor = BlockLen
    BY <1>1 DEF AtRest
  <2>2. chunk \in Int
    BY <1>1, <1>3
  <2>. HIDE DEF m, chunk, g
  <2>3. AtRest(m)
    BY <1>2, <1>3, <1>4, <2>1, <2>2 DEF AtRest, BlockLen
  <2>4. Pos(m) = Pos(g) + chunk
    BY <1>2, <1>4, <2>2 DEF Pos, BlockLen
  <2>. QED
    BY <2>3, <2>4
<1>7. \A i \in 0 .. chunk-1 :
        b[i] = <<BlockAt(m.origin, (Pos(g) + i) \div BlockLen + 1), (Pos(g) + i) % BlockLen>>
  <2>. TAKE i \in 0 .. chunk-1
  <2>1. i \in 0 .. n-1 /\ i < chunk
    BY <1>3, <1>1
  <2>2. b[i] = DrainByte(g.s, g.cursor, chunk, i)
    BY <2>1
  <2>. QED
    BY <2>2, <1>1, <1>4, DrainIsStream
<1>8. CallInv(m, c)
  <2>1. c.from + c.want <= MaxBlocks * BlockLen
    BY DEF FillBegin
  <2>2. c.done = chunk /\ c.from = Pos(g) /\ c.want = n /\ ~c.bulk /\ c.buf = b
    OBVIOUS
  <2>3. c.done < c.want => m.cursor = BlockLen
    BY <1>3, <1>4, <2>2
  <2>. HIDE DEF b, c, m, chunk, g
  <2>. QED
    BY <1>6, <1>7, <2>1, <2>2, <2>3 DEF CallInv
<1>9. c \in CallFor(n)
  <2>1. ASSUME NEW i \in 0 .. n-1 PROVE b[i] \in Byte \cup {None}
    <3>1. CASE i < chunk
      <4>1. /\ DrainByte(g.s, g.cursor, chunk, i) = <<g.s, g.cursor + i>>
            /\ g.cursor + i < BlockLen
        <5>1. g.cursor \in 0 .. BlockLen-1 /\ i \in 0 .. chunk-1
          BY <1>2, <1>3, <3>1 DEF BlockLen
        <5>. QED
          BY <5>1, <1>1, DrainByteIs
      <4>. QED
        BY <3>1, <4>1, <1>2 DEF Byte, BlockLen
    <3>2. CASE ~(i < chunk)
      BY <3>2
    <3>. QED
      BY <3>1, <3>2
  <2>2. b \in [0 .. n-1 -> Byte \cup {None}]
    <3>. HIDE DEF chunk, g
    <3>. QED
      BY <2>1
  <2>. HIDE DEF b, chunk, g
  <2>. QED
    BY <2>2, <1>3, <1>5 DEF CallFor
<1>10. call' = [call EXCEPT ![h] = c] /\ gen' = [gen EXCEPT ![h] = m]
  BY DEF FillBegin
<1>11. c.from = Pos(g) /\ m.dom = g.dom
  <2>1. g.cursor + chunk \in 0 .. BlockLen
    BY <1>2, <1>3 DEF BlockLen
  <2>. QED
    BY <1>1, <2>1, CursorMoves
<1>. HIDE DEF c, m
<1>. QED
  BY <1>4, <1>8, <1>9, <1>10, <1>11

(* A step of a running call that leaves a good object and a good call      *)
(* behind keeps IInv.                                                      *)
LEMMA CallGoesOn ==
  ASSUME IInv, NEW h \in Handle, NEW n \in ReadLens,
         NEW m \in Object, NEW c \in CallFor(n),
         OnSchedule(m), CallInv(m, c),
         gen' = [gen EXCEPT ![h] = m], call' = [call EXCEPT ![h] = c], UNCHANGED saved
  PROVE  IInv'
<1>1. call'[h] = c /\ DOMAIN call' = Handle /\ \A x \in Handle \ {h} : call'[x] = call[x]
  BY DEF IInv
<1>2. HandleInv(m, call'[h])
  BY <1>1, NoneApart DEF HandleInv
<1>. QED
  BY <1>1, <1>2, OneHandle

LEMMA FillBeginKeepsIInv ==
  ASSUME IInv, NEW h \in Handle, NEW n \in ReadLens, FillBegin(h, n)
  PROVE  IInv'
<1>1. UNCHANGED saved
  BY DEF FillBegin
<1>. QED
  BY <1>1, BeginOfFill, CallGoesOn

(* The index within a piece of at most `most` bytes that begins at d.      *)
LEMMA Offset ==
  ASSUME NEW d \in Int, NEW most \in Nat, NEW len \in 0 .. most, NEW i \in d .. d + len - 1
  PROVE  i - d \in 0 .. most - 1
OBVIOUS

(* A call that has come to the beginning of block k + 1 and copies a piece *)
(* of that block continues the stream.                                     *)
LEMMA CopiedIsStream ==
  ASSUME NEW n \in Nat, NEW c \in CallFor(n), NEW k \in Nat, NEW o, NEW s \in State,
         NEW len \in 0 .. BlockLen,
         c.from + c.done = k * BlockLen, c.done + len <= n, s = BlockAt(o, k + 1),
         \A i \in 0 .. c.done - 1 :
           c.buf[i] = <<BlockAt(o, (c.from + i) \div BlockLen + 1), (c.from + i) % BlockLen>>
  PROVE  /\ Copied(c, s, len) \in [0 .. n-1 -> Byte \cup {None}]
         /\ \A i \in 0 .. c.done + len - 1 :
              Copied(c, s, len)[i]
                = <<BlockAt(o, (c.from + i) \div BlockLen + 1), (c.from + i) % BlockLen>>
<1>1. /\ c.done \in 0 .. n /\ c.from \in Nat
      /\ c.buf \in [0 .. n-1 -> Byte \cup {None}] /\ DOMAIN c.buf = 0 .. n-1
  BY DEF CallFor
<1>2. ASSUME NEW i \in c.done .. c.done + len - 1
      PROVE  /\ FreshByte(s, i - c.done) = <<s, i - c.done>>
             /\ i - c.done \in 0 .. BlockLen-1
  <2>1. i - c.done \in 0 .. BlockLen-1
    <3>1. c.done \in Int
      BY <1>1
    <3>. QED
      BY <3>1, Offset DEF BlockLen
  <2>. QED
    BY <2>1, FreshByteIs
<1>3. ASSUME NEW i \in 0 .. n-1 PROVE Copied(c, s, len)[i] \in Byte \cup {None}
  <2>1. CASE i \in c.done .. c.done + len - 1
    <3>1. Copied(c, s, len)[i] = <<s, i - c.done>>
      BY <1>1, <1>2, <2>1 DEF Copied
    <3>. QED
      BY <1>2, <2>1, <3>1 DEF Byte
  <2>2. CASE i \notin c.done .. c.done + len - 1
    <3>1. Copied(c, s, len)[i] = c.buf[i]
      BY <1>1, <2>2 DEF Copied
    <3>. QED
      BY <1>1, <3>1
  <2>. QED
    BY <2>1, <2>2
<1>4. Copied(c, s, len) \in [0 .. n-1 -> Byte \cup {None}]
  BY <1>1, <1>3 DEF Copied
<1>5. ASSUME NEW i \in 0 .. c.done + len - 1
      PROVE  Copied(c, s, len)[i]
               = <<BlockAt(o, (c.from + i) \div BlockLen + 1), (c.from + i) % BlockLen>>
  <2>1. i \in DOMAIN c.buf
    BY <1>1
  <2>2. CASE i < c.done
    <3>1. i \in 0 .. c.done - 1 /\ i \notin c.done .. c.done + len - 1
      BY <1>1, <2>2
    <3>. QED
      BY <2>1, <3>1 DEF Copied
  <2>3. CASE i >= c.done
    <3>1. i \in c.done .. c.done + len - 1
      BY <1>1, <2>3
    <3>2. Copied(c, s, len)[i] = <<s, i - c.done>>
      BY <1>2, <2>1, <3>1 DEF Copied
    <3>3. c.from + i = k * BlockLen + (i - c.done)
      BY <1>1 DEF BlockLen
    <3>4. (c.from + i) \div BlockLen = k /\ (c.from + i) % BlockLen = i - c.done
      BY <1>2, <3>1, <3>3, BlockOfByte
    <3>. QED
      BY <3>2, <3>4
  <2>. QED
    BY <1>1, <2>2, <2>3
<1>. QED
  BY <1>4, <1>5

(* A call that has bytes left to write stands at the end of a block.       *)
LEMMA CallAtBlockEnd ==
  ASSUME NEW n \in Nat, NEW g \in Object, NEW c \in CallFor(n), CallInv(g, c), c.done < c.want
  PROVE  c.from + c.done = g.made * BlockLen /\ g.made < MaxBlocks
<1>1. c.done \in 0 .. n /\ c.from \in Nat /\ c.want = n /\ g.made \in Nat
  BY DEF CallFor, Object
<1>2. c.from + c.done = g.made * BlockLen
  <2>1. CASE c.bulk
    BY <2>1 DEF CallInv
  <2>2. CASE ~c.bulk
    <3>1. c.from + c.done = Pos(g) /\ g.cursor = BlockLen
      BY <2>2 DEF CallInv
    <3>. QED
      BY <1>1, <3>1 DEF Pos, BlockLen
  <2>. QED
    BY <2>1, <2>2
<1>3. c.from + n <= MaxBlocks * BlockLen /\ c.done < n
  BY <1>1 DEF CallInv
<1>4. MaxBlocks \in Nat
  BY Bounds
<1>5. g.made < MaxBlocks
  BY <1>1, <1>2, <1>3, <1>4 DEF BlockLen
<1>. QED
  BY <1>2, <1>5

(* So does every iteration of the bulk loop.                               *)
LEMMA BlockOfFill ==
  ASSUME IInv, NEW h \in Handle, FillBlock(h)
  PROVE  \E n \in ReadLens, r \in Object : \E d \in CallFor(n) :
           /\ call[h] \in CallFor(n)
           /\ OnSchedule(r) /\ CallInv(r, d)
           /\ r.origin = gen[h].origin /\ r.dom = gen[h].dom
           /\ d.from = call[h].from
           /\ gen' = [gen EXCEPT ![h] = r]
           /\ call' = [call EXCEPT ![h] = d]
<1>. DEFINE g == gen[h]
            c == call[h]
            r == Refill(g)
            b == Copied(c, r.s, BlockLen)
            d == [want |-> c.want, done |-> c.done + BlockLen, bulk |-> TRUE, from |-> c.from,
                  buf |-> b]
<1>1. g \in Object /\ OnSchedule(g) /\ CallInv(g, c)
  BY DEF FillBlock, IInv, HandleInv
<1>2. PICK n \in ReadLens : c \in CallFor(n)
  BY DEF FillBlock, IInv, HandleInv
<1>3. /\ n \in Nat /\ c.want = n /\ c.done \in 0 .. n /\ c.from \in Nat
      /\ c.done + BlockLen <= n /\ g.made \in Nat
  BY <1>1, <1>2, Bounds DEF CallFor, FillBlock, Object, BlockLen
<1>4. c.from + c.done = g.made * BlockLen /\ g.made < MaxBlocks
  <2>1. c.done < c.want
    BY <1>3 DEF BlockLen
  <2>. QED
    BY <1>1, <1>2, <1>3, <2>1, CallAtBlockEnd
<1>5. /\ r \in Object /\ OnSchedule(r)
      /\ r.made = g.made + 1 /\ r.cursor = 0 /\ r.origin = g.origin /\ r.dom = g.dom
  BY <1>1, <1>4, RefillOnSchedule
<1>6. r.s = BlockAt(r.origin, g.made + 1) /\ r.s \in State
  BY <1>5 DEF OnSchedule, Object
<1>7. /\ b \in [0 .. n-1 -> Byte \cup {None}]
      /\ \A i \in 0 .. c.done + BlockLen - 1 :
           b[i] = <<BlockAt(r.origin, (c.from + i) \div BlockLen + 1), (c.from + i) % BlockLen>>
  <2>. DEFINE len == BlockLen
              o   == r.origin
  <2>1. len \in 0 .. BlockLen /\ len \in Nat
    BY DEF BlockLen
  <2>2. \A i \in 0 .. c.done - 1 :
          c.buf[i] = <<BlockAt(o, (c.from + i) \div BlockLen + 1), (c.from + i) % BlockLen>>
    BY <1>1, <1>5 DEF CallInv
  <2>3. n \in Nat /\ g.made \in Nat /\ c \in CallFor(n) /\ c.done + len <= n
    BY <1>2, <1>3
  <2>4. c.from + c.done = g.made * BlockLen
    BY <1>4
  <2>5. r.s = BlockAt(o, g.made + 1) /\ r.s \in State
    BY <1>6
  <2>6. b = Copied(c, r.s, len)
    OBVIOUS
  <2>. HIDE DEF b, r, c, g, len, o
  <2>7. /\ b \in [0 .. n-1 -> Byte \cup {None}]
        /\ \A i \in 0 .. c.done + len - 1 :
             b[i] = <<BlockAt(o, (c.from + i) \div BlockLen + 1), (c.from + i) % BlockLen>>
    BY <2>1, <2>2, <2>3, <2>4, <2>5, <2>6, CopiedIsStream
  <2>. QED
    BY <2>7 DEF len, o
<1>8. /\ d.want = n /\ d.done = c.done + BlockLen /\ d.bulk = TRUE
      /\ d.from = c.from /\ d.buf = b
  <2>. HIDE DEF b, c
  <2>. QED
    BY <1>2, <1>3 DEF CallFor
<1>9. d \in CallFor(n)
  <2>1. c.done + BlockLen \in 0 .. n
    BY <1>3 DEF BlockLen
  <2>. HIDE DEF b, c
  <2>. QED
    BY <1>2, <1>7, <2>1 DEF CallFor
<1>10. CallInv(r, d)
  <2>1. d.from + d.want <= MaxBlocks * BlockLen
    BY <1>1, <1>3, <1>8 DEF CallInv
  <2>2. d.from + d.done = r.made * BlockLen
    BY <1>3, <1>4, <1>5, <1>8 DEF BlockLen
  <2>3. \A i \in 0 .. d.done - 1 :
          d.buf[i] = <<BlockAt(r.origin, (d.from + i) \div BlockLen + 1), (d.from + i) % BlockLen>>
    <3>. HIDE DEF b, c, d, r, g
    <3>. TAKE i \in 0 .. d.done - 1
    <3>1. i \in 0 .. c.done + BlockLen - 1
      BY <1>3, <1>8 DEF BlockLen
    <3>. QED
      BY <1>7, <1>8, <3>1
  <2>. HIDE DEF b, c, d, r, g
  <2>. QED
    BY <1>5, <1>8, <2>1, <2>2, <2>3 DEF CallInv
<1>11. call' = [call EXCEPT ![h] = d] /\ gen' = [gen EXCEPT ![h] = r]
  BY DEF FillBlock
<1>. HIDE DEF d, r
<1>. QED
  BY <1>2, <1>5, <1>8, <1>9, <1>10, <1>11

LEMMA FillBlockKeepsIInv ==
  ASSUME IInv, NEW h \in Handle, FillBlock(h)
  PROVE  IInv'
<1>1. UNCHANGED saved
  BY DEF FillBlock
<1>. QED
  BY <1>1, BlockOfFill, CallGoesOn

(* What fill_bytes returns with: the object it leaves behind and the whole *)
(* buffer.                                                                 *)
LEMMA EndOfFill ==
  ASSUME IInv, NEW h \in Handle, FillEnd(h)
  PROVE  \E n \in ReadLens, e \in Object :
           /\ call[h] \in CallFor(n)
           /\ OnSchedule(e) /\ AtRest(e)
           /\ e.origin = gen[h].origin /\ e.dom = gen[h].dom
           /\ Pos(e) = call[h].from + n
           /\ call[h].from + n <= MaxBlocks * BlockLen
           /\ gen' = [gen EXCEPT ![h] = e]
           /\ ret' \in [0 .. n-1 -> Byte \cup {None}]
           /\ \A i \in 0 .. n-1 :
                ret'[i] = <<BlockAt(e.origin, (call[h].from + i) \div BlockLen + 1),
                           (call[h].from + i) % BlockLen>>
<1>. DEFINE g    == gen[h]
            c    == call[h]
            tail == c.want - c.done
            a    == AfterBulk(g, c.bulk)
            e    == AfterTail(a, tail)
<1>1. g \in Object /\ OnSchedule(g) /\ CallInv(g, c)
  BY DEF FillEnd, IInv, HandleInv
<1>2. PICK n \in ReadLens : c \in CallFor(n)
  BY DEF FillEnd, IInv, HandleInv
<1>3. /\ n \in Nat /\ c.done \in 0 .. n /\ c.from \in Nat
      /\ tail \in 0 .. BlockLen-1 /\ c.done + tail = n
      /\ g.made \in Nat
  <2>1. n \in Nat /\ g.made \in Nat
    BY <1>1, Bounds DEF Object
  <2>2. c.want = n /\ c.done \in 0 .. n /\ c.from \in Nat
    BY <1>2 DEF CallFor
  <2>3. c.want - c.done < BlockLen
    BY DEF FillEnd
  <2>. HIDE DEF c, g
  <2>. QED
    BY <2>1, <2>2, <2>3 DEF BlockLen
<1>4. c.buf \in [0 .. n-1 -> Byte \cup {None}] /\ c.want = n
  BY <1>2 DEF CallFor
<1>5. /\ a \in Object /\ OnSchedule(a)
      /\ a.made = g.made /\ a.origin = g.origin /\ a.dom = g.dom
      /\ a.cursor = IF c.bulk THEN BlockLen ELSE g.cursor
  <2>1. BlockLen \in 0 .. BlockLen
    BY DEF BlockLen
  <2>. HIDE DEF g, c
  <2>2. CASE c.bulk
    BY <1>1, <2>1, <2>2, CursorMoves DEF AfterBulk
  <2>3. CASE ~c.bulk
    BY <1>1, <2>3 DEF AfterBulk
  <2>. QED
    BY <2>2, <2>3
<1>6. gen' = [gen EXCEPT ![h] = e] /\ ret' = Copied(c, e.s, tail)
  BY DEF FillEnd
<1>7. c.from + n <= MaxBlocks * BlockLen
  BY <1>1, <1>4 DEF CallInv
<1>8. \A i \in 0 .. c.done - 1 :
        c.buf[i] = <<BlockAt(g.origin, (c.from + i) \div BlockLen + 1), (c.from + i) % BlockLen>>
  BY <1>1 DEF CallInv
<1>9. CASE tail = 0
  <2>1. e = a /\ c.done = n
    BY <1>3, <1>9 DEF AfterTail
  <2>2. AtRest(e) /\ Pos(e) = c.from + n
    <3>1. CASE c.bulk
      <4>1. c.from + c.done = g.made * BlockLen
        BY <1>1, <3>1 DEF CallInv
      <4>. HIDE DEF a, c, e, g
      <4>. QED
        BY <1>3, <1>5, <2>1, <3>1, <4>1 DEF AtRest, Pos, BlockLen
    <3>2. CASE ~c.bulk
      <4>1. AtRest(g) /\ c.from + c.done = Pos(g) /\ a = g
        BY <1>1, <3>2 DEF CallInv, AfterBulk
      <4>. HIDE DEF a, c, e, g
      <4>. QED
        BY <2>1, <4>1
    <3>. QED
      BY <3>1, <3>2
  <2>3. ret' = c.buf
    <3>1. \A i \in DOMAIN c.buf : i \notin c.done .. c.done + tail - 1
      BY <1>3, <1>9, <1>4
    <3>. HIDE DEF tail, e, c
    <3>. QED
      BY <1>6, <1>4, <3>1 DEF Copied
  <2>4. \A i \in 0 .. n-1 :
          ret'[i] = <<BlockAt(e.origin, (c.from + i) \div BlockLen + 1), (c.from + i) % BlockLen>>
    <3>. HIDE DEF a, c, e, g
    <3>. QED
      BY <1>5, <1>8, <2>1, <2>3
  <2>. HIDE DEF a, e, tail
  <2>. QED
    BY <1>2, <1>3, <1>5, <1>6, <1>7, <1>4, <2>1, <2>2, <2>3, <2>4
<1>10. CASE tail > 0
  <2>1. c.from + c.done = g.made * BlockLen /\ g.made < MaxBlocks
    <3>1. c.done < c.want
      <4>. HIDE DEF c
      <4>. QED
        BY <1>3, <1>10, <1>4
    <3>. QED
      BY <1>1, <1>2, <1>3, <3>1, CallAtBlockEnd
  <2>2. /\ Refill(a) \in Object /\ OnSchedule(Refill(a))
        /\ Refill(a).made = g.made + 1 /\ Refill(a).origin = g.origin
        /\ Refill(a).dom = g.dom
    <3>. HIDE DEF a, g
    <3>. QED
      BY <1>5, <2>1, RefillOnSchedule
  <2>3. /\ e \in Object /\ OnSchedule(e) /\ e.cursor = tail
        /\ e.made = g.made + 1 /\ e.origin = g.origin /\ e.dom = g.dom
    <3>1. e = [Refill(a) EXCEPT !.cursor = tail]
      BY <1>10 DEF AfterTail
    <3>2. tail \in 0 .. BlockLen
      BY <1>3 DEF BlockLen
    <3>. HIDE DEF a, e, g, tail
    <3>. QED
      BY <2>2, <3>1, <3>2, CursorMoves
  <2>4. AtRest(e) /\ Pos(e) = c.from + n
    <3>1. e.cursor \in 1 .. BlockLen-1 /\ e.made = g.made + 1 /\ g.made \in Nat
      BY <1>3, <1>10, <2>3
    <3>2. Pos(e) = g.made * BlockLen + e.cursor
      <4>. HIDE DEF a, e, g, c, tail
      <4>. QED
        BY <3>1 DEF Pos, BlockLen
    <3>3. AtRest(e)
      <4>. HIDE DEF a, e, g, c, tail
      <4>. QED
        BY <3>1 DEF AtRest, BlockLen
    <3>. HIDE DEF a, e, g, c, tail
    <3>. QED
      BY <1>3, <2>1, <2>3, <3>2, <3>3 DEF BlockLen
  <2>5. e.s \in State /\ e.s = BlockAt(e.origin, g.made + 1)
    <3>. HIDE DEF e
    <3>. QED
      BY <2>3 DEF Object, OnSchedule
  <2>6. /\ ret' \in [0 .. n-1 -> Byte \cup {None}]
        /\ \A i \in 0 .. n-1 :
             ret'[i] = <<BlockAt(e.origin, (c.from + i) \div BlockLen + 1), (c.from + i) % BlockLen>>
    <3>1. tail \in 0 .. BlockLen /\ c.done + tail <= n
      BY <1>3 DEF BlockLen
    <3>2. \A i \in 0 .. c.done - 1 :
            c.buf[i] = <<BlockAt(e.origin, (c.from + i) \div BlockLen + 1), (c.from + i) % BlockLen>>
      BY <1>8, <2>3
    <3>3. n \in Nat /\ c \in CallFor(n) /\ g.made \in Nat /\ e.s \in State
      BY <1>2, <1>3, <2>5
    <3>. HIDE DEF a, c, e, g, tail
    <3>4. /\ Copied(c, e.s, tail) \in [0 .. n-1 -> Byte \cup {None}]
          /\ \A i \in 0 .. c.done + tail - 1 :
               Copied(c, e.s, tail)[i]
                 = <<BlockAt(e.origin, (c.from + i) \div BlockLen + 1), (c.from + i) % BlockLen>>
      BY <2>1, <2>5, <3>1, <3>2, <3>3, CopiedIsStream
    <3>. QED
      BY <1>3, <1>6, <3>4
  <2>. HIDE DEF a, e, tail
  <2>. QED
    BY <1>2, <1>6, <1>7, <2>3, <2>4, <2>6
<1>11. tail = 0 \/ tail > 0
  <2>. HIDE DEF tail
  <2>. QED
    BY <1>3 DEF BlockLen
<1>. QED
  BY <1>9, <1>10, <1>11

LEMMA FillEndKeepsIInv ==
  ASSUME IInv, NEW h \in Handle, FillEnd(h)
  PROVE  IInv'
<1>1. PICK e \in Object : OnSchedule(e) /\ AtRest(e) /\ gen' = [gen EXCEPT ![h] = e]
  BY EndOfFill
<1>2. call'[h] = None /\ DOMAIN call' = Handle /\ \A x \in Handle \ {h} : call'[x] = call[x]
  BY DEF FillEnd, IInv
<1>3. HandleInv(e, call'[h])
  BY <1>1, <1>2, NoneApart DEF HandleInv
<1>. QED
  BY <1>1, <1>2, <1>3, OneHandle DEF FillEnd

LEMMA CrashKeepsIInv ==
  ASSUME IInv, Crash
  PROVE  IInv'
BY DEF IInv, Crash, HandleInv

THEOREM Invariance == Spec => []IInv
<1>1. IInv /\ [Next]_vars => IInv'
  <2>. SUFFICES ASSUME IInv, [Next]_vars PROVE IInv'
    OBVIOUS
  <2>1. CASE UNCHANGED vars
    BY <2>1 DEF vars, IInv, HandleInv, SavedInv, OnSchedule, AtRest, CallInv, Pos
  <2>2. CASE Next
    BY <2>2, NewPrngKeepsIInv, NewXofKeepsIInv, ForkKeepsIInv, CloneKeepsIInv, DropKeepsIInv,
       FillBeginKeepsIInv, FillBlockKeepsIInv, FillEndKeepsIInv, NextBlockKeepsIInv,
       ExportKeepsIInv, ImportKeepsIInv, CrashKeepsIInv DEF Next
  <2>. QED
    BY <2>1, <2>2
<1>. QED
  BY <1>1, InitIInv, PTL DEF Spec

-----------------------------------------------------------------------------
(* What follows from it.                                                   *)

(* Objects, calls and snapshots keep their shape: the counter never leaves *)
(* the u64, the cursor never passes the end of the block.                  *)
THEOREM TypeCorrect == Spec => []TypeOK
<1>1. IInv => TypeOK
  BY DEF IInv, TypeOK, HandleInv
<1>. QED
  BY <1>1, Invariance, PTL

(* No state is ever off the schedule of its origin, for every mixing       *)
(* function and every counter width.                                       *)
THEOREM AlwaysOnSchedule == Spec => []StatesOnSchedule
<1>1. IInv => StatesOnSchedule
  BY DEF IInv, StatesOnSchedule, HandleInv, SavedInv
<1>. QED
  BY <1>1, Invariance, PTL

(* Every byte a read has written is the next one of its stream.            *)
THEOREM ReadsContinueTheStream == Spec => []FilledIsStream
<1>1. IInv => FilledIsStream
  BY DEF IInv, FilledIsStream, HandleInv, CallInv
<1>. QED
  BY <1>1, Invariance, PTL

(* No exported snapshot is refused for its cursor.                         *)
THEOREM SnapshotsNeverRefused == Spec => []SnapshotsImportable
<1>1. IInv => SnapshotsImportable
  BY DEF IInv, SnapshotsImportable, SavedInv, AtRest, CursorAccepted
<1>. QED
  BY <1>1, Invariance, PTL

-----------------------------------------------------------------------------
(* StreamState implements ByteStream.                                      *)

(* Blocks begun before the position of an object at rest.                  *)
LEMMA BlocksBeforeIs ==
  ASSUME NEW g \in Object, AtRest(g)
  PROVE  BS!BlocksBefore(Pos(g)) = g.made /\ Pos(g) \in Nat
<1>1. g.made \in Nat /\ g.cursor \in 1 .. 32 /\ (g.made = 0 => g.cursor = 32)
  BY DEF Object, AtRest, BlockLen
<1>2. Pos(g) = (g.made * 32 + g.cursor) - 32
  BY DEF Pos, BlockLen
<1>3. Pos(g) \in Nat /\ (Pos(g) + 32 - 1) \div 32 = g.made
  BY <1>1, <1>2
<1>. QED
  BY <1>3 DEF BS!BlocksBefore, BlockLen

LEMMA PositionIsSomewhere ==
  ASSUME NEW g \in Object, AtRest(g), None # g
  PROVE  /\ View(g, None) = [dom |-> g.dom, origin |-> g.origin, pos |-> Pos(g)]
         /\ View(g, None) # None
<1>1. Pos(g) \in Nat /\ g.dom \in Domains /\ g.origin \in State
  BY BlocksBeforeIs DEF Object
<1>2. View(g, None) = [dom |-> g.dom, origin |-> g.origin, pos |-> Pos(g)]
  BY DEF View, Position
<1>. QED
  BY <1>1, <1>2, NoneApart

(* A step that changes one object moves one position.                      *)
LEMMA OnePosition ==
  ASSUME IInv, NEW h \in Handle, NEW g,
         gen' = [gen EXCEPT ![h] = g],
         \A x \in Handle \ {h} : call'[x] = call[x]
  PROVE  Positions' = [Positions EXCEPT ![h] = View(g, call'[h])]
BY DEF IInv, Positions

(* Placing an object at rest in an empty slot places its position there.   *)
LEMMA PutImplements ==
  ASSUME IInv, NEW h \in Handle, NEW g \in Object, AtRest(g), Put(h, g)
  PROVE  BS!Put(h, [dom |-> g.dom, origin |-> g.origin, pos |-> Pos(g)])
<1>1. call[h] = None /\ call' = call /\ g # None /\ gen[h] = None
  BY NoneApart DEF IInv, HandleInv, Put
<1>2. Positions' = [Positions EXCEPT ![h] = View(g, None)]
  BY <1>1, OnePosition DEF Put
<1>3. View(g, None) = [dom |-> g.dom, origin |-> g.origin, pos |-> Pos(g)]
  BY <1>1, PositionIsSomewhere
<1>4. Positions[h] = None
  BY <1>1 DEF Positions, View
<1>5. Marks' = Marks /\ ret' = BS!NoBytes
  BY DEF Put, Marks, NoBytes, BS!NoBytes
<1>. QED
  BY <1>2, <1>3, <1>4, <1>5 DEF BS!Put

(* The position of an idle object.                                         *)
LEMMA IdlePosition ==
  ASSUME IInv, NEW h \in Handle, Idle(h)
  PROVE  /\ Positions[h] = [dom |-> gen[h].dom, origin |-> gen[h].origin, pos |-> Pos(gen[h])]
         /\ Positions[h] # None
         /\ BS!BlocksBefore(Positions[h].pos) = gen[h].made
<1>1. gen[h] \in Object /\ AtRest(gen[h]) /\ gen[h] # None /\ call[h] = None
  BY IdleAtRest DEF Idle
<1>2. /\ Positions[h] = [dom |-> gen[h].dom, origin |-> gen[h].origin, pos |-> Pos(gen[h])]
      /\ Positions[h] # None
  BY <1>1, PositionIsSomewhere DEF Positions
<1>3. Positions[h].pos = Pos(gen[h])
  BY <1>2
<1>. QED
  BY <1>1, <1>2, <1>3, BlocksBeforeIs

LEMMA FreshStarts ==
  ASSUME NEW d \in Domains, NEW s \in State
  PROVE  [dom |-> Fresh(d, s).dom, origin |-> Fresh(d, s).origin, pos |-> Pos(Fresh(d, s))]
           = BS!Start(d, s)
BY DEF Fresh, Pos, BS!Start, BlockLen

LEMMA NewPrngImplements ==
  ASSUME IInv, NEW h \in Handle, NEW seed \in Seeds, NEW id \in Ids, NewPrng(h, seed, id)
  PROVE  BS!NewPrng(h, seed, id)
<1>1. ForkLane("prng", seed, id) \in State /\ "prng" \in Domains
  BY MixerTypes DEF Domains
<1>. QED
  BY <1>1, FreshOnSchedule, FreshStarts, PutImplements DEF NewPrng, BS!NewPrng

LEMMA NewXofImplements ==
  ASSUME IInv, NEW h \in Handle, NEW m \in Messages, NewXof(h, m)
  PROVE  BS!NewXof(h, m)
<1>1. Absorbed(m) \in State /\ "xof" \in Domains
  BY MixerTypes DEF Domains
<1>. QED
  BY <1>1, FreshOnSchedule, FreshStarts, PutImplements DEF NewXof, BS!NewXof

LEMMA ForkImplements ==
  ASSUME IInv, NEW h \in Handle, NEW child \in Handle, NEW id \in Ids, Fork(h, child, id)
  PROVE  BS!Fork(h, child, id)
<1>. DEFINE g == gen[h]
<1>1. g \in Object /\ OnSchedule(g) /\ Idle(h)
  BY IdleAtRest DEF Fork
<1>2. g.dom \in Domains /\ g.s \in State /\ g.s = BlockAt(g.origin, g.made)
  BY <1>1 DEF Object, OnSchedule
<1>3. ForkLane(g.dom, g.s, id) \in State
  BY <1>2, MixerTypes DEF Domains
<1>4. /\ Positions[h].dom = g.dom /\ Positions[h].origin = g.origin /\ Positions[h] # None
      /\ BS!BlocksBefore(Positions[h].pos) = g.made
  <2>1. /\ Positions[h] = [dom |-> g.dom, origin |-> g.origin, pos |-> Pos(g)]
        /\ Positions[h] # None
        /\ BS!BlocksBefore(Positions[h].pos) = g.made
    BY <1>1, IdlePosition
  <2>. QED
    BY <2>1
<1>5. BS!Put(child, BS!Start(g.dom, ForkLane(g.dom, g.s, id)))
  BY <1>2, <1>3, FreshOnSchedule, FreshStarts, PutImplements DEF Fork, Child
<1>. QED
  BY <1>2, <1>4, <1>5 DEF BS!Fork

LEMMA CloneImplements ==
  ASSUME IInv, NEW h \in Handle, NEW copy \in Handle, Clone(h, copy)
  PROVE  BS!Clone(h, copy)
BY IdleAtRest, IdlePosition, PutImplements DEF Clone, BS!Clone

LEMMA ImportImplements ==
  ASSUME IInv, NEW h \in Handle, NEW k \in Store, Import(k, h)
  PROVE  BS!Import(k, h)
<1>1. saved[k] \in Object /\ AtRest(saved[k]) /\ saved[k] # None
  BY DEF Import, IInv, SavedInv
<1>2. /\ Marks[k] = [dom |-> saved[k].dom, origin |-> saved[k].origin, pos |-> Pos(saved[k])]
      /\ Marks[k] # None
  BY <1>1, PositionIsSomewhere DEF Marks
<1>. QED
  BY <1>1, <1>2, PutImplements DEF Import, BS!Import

LEMMA DropImplements ==
  ASSUME IInv, NEW h \in Handle, Drop(h)
  PROVE  BS!Drop(h)
<1>1. Positions' = [Positions EXCEPT ![h] = None]
  BY OnePosition DEF Drop, View
<1>2. Positions[h] # None
  BY IdlePosition DEF Drop
<1>. QED
  BY <1>1, <1>2 DEF Drop, BS!Drop, Marks, NoBytes, BS!NoBytes

LEMMA ExportImplements ==
  ASSUME IInv, NEW h \in Handle, NEW k \in Store, Export(h, k)
  PROVE  BS!Export(h, k)
<1>1. Positions[h] # None /\ Positions[h] = View(gen[h], None)
  BY IdlePosition DEF Export, Positions, Idle
<1>2. Marks' = [Marks EXCEPT ![k] = Positions[h]]
  BY <1>1 DEF Export, ToParts, Marks, IInv
<1>. QED
  BY <1>1, <1>2 DEF Export, BS!Export, Positions, NoBytes, BS!NoBytes

LEMMA CrashImplements ==
  ASSUME Crash
  PROVE  BS!Crash
BY DEF Crash, BS!Crash, Positions, View, Marks, NoBytes, BS!NoBytes

(* fill_bytes up to its last step does not show.                           *)
LEMMA FillBeginStutters ==
  ASSUME IInv, NEW h \in Handle, NEW n \in ReadLens, FillBegin(h, n)
  PROVE  UNCHANGED BS!vars
<1>1. PICK m \in Object, c \in CallFor(n) :
        /\ m.origin = gen[h].origin /\ m.dom = gen[h].dom
        /\ c.from = Pos(gen[h])
        /\ gen' = [gen EXCEPT ![h] = m]
        /\ call' = [call EXCEPT ![h] = c]
  BY BeginOfFill
<1>2. Idle(h) /\ UNCHANGED <<saved, ret>>
  BY DEF FillBegin
<1>3. call'[h] = c /\ \A x \in Handle \ {h} : call'[x] = call[x]
  BY <1>1 DEF IInv
<1>4. View(m, c) = Positions[h]
  <2>1. m # None /\ c # None
    BY NoneApart
  <2>2. View(m, c) = [dom |-> m.dom, origin |-> m.origin, pos |-> c.from]
    BY <2>1 DEF View, Position
  <2>. QED
    BY <1>1, <1>2, <2>2, IdlePosition
<1>5. Positions' = Positions
  <2>1. Positions' = [Positions EXCEPT ![h] = View(m, c)]
    BY <1>1, <1>3, OnePosition
  <2>. QED
    BY <1>4, <2>1 DEF Positions
<1>. QED
  BY <1>2, <1>5 DEF BS!vars, Marks

LEMMA FillBlockStutters ==
  ASSUME IInv, NEW h \in Handle, FillBlock(h)
  PROVE  UNCHANGED BS!vars
<1>1. PICK n \in ReadLens, r \in Object : \E d \in CallFor(n) :
        /\ r.origin = gen[h].origin /\ r.dom = gen[h].dom
        /\ d.from = call[h].from
        /\ gen' = [gen EXCEPT ![h] = r]
        /\ call' = [call EXCEPT ![h] = d]
  BY BlockOfFill
<1>2. PICK d \in CallFor(n) :
        /\ r.origin = gen[h].origin /\ r.dom = gen[h].dom
        /\ d.from = call[h].from
        /\ gen' = [gen EXCEPT ![h] = r]
        /\ call' = [call EXCEPT ![h] = d]
  BY <1>1
<1>3. call[h] # None /\ gen[h] # None /\ UNCHANGED <<saved, ret>>
  BY DEF FillBlock, IInv, HandleInv
<1>4. call'[h] = d /\ \A x \in Handle \ {h} : call'[x] = call[x]
  BY <1>2 DEF IInv
<1>5. View(r, d) = Positions[h]
  <2>1. r # None /\ d # None
    BY NoneApart
  <2>2. View(r, d) = [dom |-> r.dom, origin |-> r.origin, pos |-> d.from]
    BY <2>1 DEF View, Position
  <2>3. Positions[h] = [dom |-> gen[h].dom, origin |-> gen[h].origin, pos |-> call[h].from]
    BY <1>3 DEF Positions, View, Position
  <2>. QED
    BY <1>2, <2>2, <2>3
<1>6. Positions' = Positions
  <2>1. Positions' = [Positions EXCEPT ![h] = View(r, d)]
    BY <1>2, <1>4, OnePosition, ZenonT(60)
  <2>. QED
    BY <1>5, <2>1 DEF Positions
<1>. QED
  BY <1>3, <1>6 DEF BS!vars, Marks

(* Its last step is the read.                                              *)
LEMMA FillEndImplements ==
  ASSUME IInv, NEW h \in Handle, FillEnd(h)
  PROVE  \E n \in ReadLens : BS!Read(h, n)
<1>1. PICK n \in ReadLens, e \in Object :
        /\ call[h] \in CallFor(n)
        /\ AtRest(e)
        /\ e.origin = gen[h].origin /\ e.dom = gen[h].dom
        /\ Pos(e) = call[h].from + n
        /\ call[h].from + n <= MaxBlocks * BlockLen
        /\ gen' = [gen EXCEPT ![h] = e]
        /\ ret' \in [0 .. n-1 -> Byte \cup {None}]
        /\ \A i \in 0 .. n-1 :
             ret'[i] = <<BlockAt(e.origin, (call[h].from + i) \div BlockLen + 1),
                        (call[h].from + i) % BlockLen>>
  BY EndOfFill
<1>2. call[h] # None /\ gen[h] # None /\ call' = [call EXCEPT ![h] = None] /\ UNCHANGED saved
  BY DEF FillEnd, IInv, HandleInv
<1>3. /\ Positions[h] = [dom |-> gen[h].dom, origin |-> gen[h].origin, pos |-> call[h].from]
      /\ gen[h].dom \in Domains /\ gen[h].origin \in State /\ call[h].from \in Nat
  BY <1>1, <1>2 DEF Positions, View, Position, CallFor, IInv, Object
<1>4. Positions[h] # None
  BY <1>3, NoneApart
<1>5. call'[h] = None /\ \A x \in Handle \ {h} : call'[x] = call[x]
  BY <1>2 DEF IInv
<1>6. Positions' = [Positions EXCEPT ![h].pos = @ + n]
  <2>1. Positions' = [Positions EXCEPT ![h] = View(e, None)]
    BY <1>1, <1>5, OnePosition
  <2>2. View(e, None) = [dom |-> e.dom, origin |-> e.origin, pos |-> Pos(e)]
    BY <1>1, NoneApart, PositionIsSomewhere
  <2>3. View(e, None) = [Positions[h] EXCEPT !.pos = @ + n]
    BY <1>1, <1>3, <2>2
  <2>. QED
    BY <2>1, <2>3
<1>7. ret' = BS!Bytes(Positions[h].origin, Positions[h].pos, n)
  <2>1. Positions[h].origin = e.origin /\ Positions[h].pos = call[h].from
    BY <1>1, <1>3
  <2>2. ASSUME NEW i \in 0 .. n-1
        PROVE  ret'[i] = BS!ByteAt(Positions[h].origin, Positions[h].pos + i)
    BY <1>1, <2>1 DEF BS!ByteAt
  <2>. QED
    BY <1>1, <2>2 DEF BS!Bytes
<1>8. Positions[h].pos + n <= MaxBlocks * BlockLen
  BY <1>1, <1>3
<1>9. Marks' = Marks
  BY <1>2 DEF Marks
<1>. QED
  BY <1>4, <1>6, <1>7, <1>8, <1>9 DEF BS!Read

LEMMA NextBlockImplements ==
  ASSUME IInv, NEW h \in Handle, NextBlock(h)
  PROVE  BS!NextBlock(h)
<1>. DEFINE g == gen[h]
            f == FullBlock(g)
<1>1. g \in Object /\ OnSchedule(g) /\ Idle(h) /\ g.made < MaxBlocks /\ g.made \in Nat
  BY IdleAtRest DEF NextBlock, Object
<1>2. /\ f \in Object /\ OnSchedule(f) /\ AtRest(f) /\ f.cursor = BlockLen
      /\ f.made = g.made + 1 /\ f.origin = g.origin /\ f.dom = g.dom
  <2>1. /\ Refill(g) \in Object /\ OnSchedule(Refill(g))
        /\ Refill(g).made = g.made + 1 /\ Refill(g).origin = g.origin /\ Refill(g).dom = g.dom
    BY <1>1, RefillOnSchedule
  <2>2. BlockLen \in 0 .. BlockLen /\ BlockLen \in 1 .. BlockLen
    BY DEF BlockLen
  <2>. HIDE DEF g
  <2>. QED
    BY <2>1, <2>2, CursorMoves DEF FullBlock, AtRest
<1>3. /\ Positions[h] = [dom |-> g.dom, origin |-> g.origin, pos |-> Pos(g)]
      /\ Positions[h] # None
      /\ BS!BlocksBefore(Positions[h].pos) = g.made
  BY <1>1, IdlePosition
<1>4. gen' = [gen EXCEPT ![h] = f] /\ UNCHANGED <<call, saved>> /\ call[h] = None
  BY DEF NextBlock, Idle
<1>5. Positions' = [Positions EXCEPT ![h].pos = g.made * BlockLen + BlockLen]
  <2>1. Positions' = [Positions EXCEPT ![h] = View(f, None)]
    BY <1>4, OnePosition
  <2>2. View(f, None) = [dom |-> f.dom, origin |-> f.origin, pos |-> Pos(f)]
    BY <1>2, NoneApart, PositionIsSomewhere
  <2>3. Pos(f) = g.made * BlockLen + BlockLen
    <3>. HIDE DEF f, g
    <3>. QED
      BY <1>1, <1>2 DEF Pos, BlockLen
  <2>4. View(f, None) = [Positions[h] EXCEPT !.pos = g.made * BlockLen + BlockLen]
    <3>. HIDE DEF f, g
    <3>. QED
      BY <1>2, <1>3, <2>2, <2>3
  <2>. QED
    BY <2>1, <2>4
<1>6. ret' = BS!Bytes(Positions[h].origin, g.made * BlockLen, BlockLen)
  <2>1. ASSUME NEW i \in 0 .. BlockLen-1
        PROVE  FreshByte(f.s, i) = BS!ByteAt(g.origin, g.made * BlockLen + i)
    <3>1. FreshByte(f.s, i) = <<BlockAt(g.origin, g.made + 1), i>>
      BY <1>2, FreshByteIs DEF OnSchedule
    <3>2. (g.made * BlockLen + i) \div BlockLen = g.made /\ (g.made * BlockLen + i) % BlockLen = i
      BY <1>1, BlockOfByte
    <3>. QED
      BY <3>1, <3>2 DEF BS!ByteAt
  <2>2. Positions[h].origin = g.origin
    BY <1>3
  <2>3. ret' = [i \in 0 .. BlockLen-1 |-> FreshByte(f.s, i)]
    BY DEF NextBlock
  <2>. HIDE DEF f, g
  <2>. QED
    BY <2>1, <2>2, <2>3 DEF BS!Bytes
<1>7. Marks' = Marks
  BY <1>4 DEF Marks
<1>. QED
  BY <1>1, <1>3, <1>5, <1>6, <1>7 DEF BS!NextBlock

LEMMA StepImplements ==
  ASSUME IInv, Next
  PROVE  [BS!Next]_BS!vars
<1>1. \/ BS!Next
      \/ UNCHANGED BS!vars
  BY NewPrngImplements, NewXofImplements, ForkImplements, CloneImplements, DropImplements,
     FillBeginStutters, FillBlockStutters, FillEndImplements, NextBlockImplements,
     ExportImplements, ImportImplements, CrashImplements DEF Next, BS!Next
<1>. QED
  BY <1>1

(* LustroPrng and LustroXof implement the byte streams of ARCHITECTURE.md  *)
(* section 10: read lengths and buffering never show, fork depends on the  *)
(* latest block only, an imported snapshot resumes exactly.                *)
THEOREM StreamsImplementByteStream == Spec => ImplementsByteStream
<1>1. Init => BS!Init
  BY DEF Init, BS!Init, Positions, Marks, View, NoBytes, BS!NoBytes
<1>2. IInv /\ [Next]_vars => [BS!Next]_BS!vars
  <2>1. CASE UNCHANGED vars
    BY <2>1 DEF vars, BS!vars, Positions, Marks
  <2>. QED
    BY <2>1, StepImplements
<1>. QED
  BY <1>1, <1>2, Invariance, PTL DEF Spec, ImplementsByteStream, BS!Spec

=============================================================================
