------------------------- MODULE StreamDispatchProofs -------------------------
(***************************************************************************)
(* Proofs about StreamDispatch, for batches of every size, any number of   *)
(* workers and every tuning: the workers never share a block, the pool     *)
(* gets no more items than it has threads, and a call implements the       *)
(* abstract LaneStreams whatever the plan and the order of the steps.      *)
(***************************************************************************)
EXTENDS StreamDispatch, ArithLemmas, SequenceTheorems, FiniteSetTheorems, TLAPS

-----------------------------------------------------------------------------
(* How a batch is divided, for every size: a batch into items (ChunkRule   *)
(* and par_chunks_mut of src/dispatch.rs) and an item into tiles           *)
(* (process_lanes_scalar, process_lanes_x4).                               *)

(* The lanes of an item, and those of all tiles a worker has left.         *)
Extent(x) == x.first .. x.first + x.len - 1

SpanOf(tiles) == UNION {Span(tiles[k]) : k \in DOMAIN tiles}

(* A tile of a call, and tiles that take their lanes forward.              *)
IsTile(t, n, steps) ==
  /\ t \in TileType
  /\ t.base + t.width <= n
  /\ t.from < t.to /\ t.to <= steps
  /\ t.x4 => t.from = 0

InOrder(tiles) ==
  \A k, l \in DOMAIN tiles : k < l =>
    \A i \in Span(tiles[k]) \cap Span(tiles[l]) : tiles[k].to <= tiles[l].from

(* The tile makes the block of lane i at step s.                           *)
Does(t, i, s) == i \in Span(t) /\ s \in t.from .. t.to - 1

-----------------------------------------------------------------------------
(* Division into parts that are rounded up.                                *)

LEMMA CeilDiv4 ==
  ASSUME NEW a \in Nat
  PROVE  DivCeil(a, 4) \in Nat /\ 4 * DivCeil(a, 4) >= a /\ 4 * DivCeil(a, 4) < a + 4
BY DEF DivCeil

LEMMA CeilDiv8 ==
  ASSUME NEW a \in Nat
  PROVE  DivCeil(a, 8) \in Nat /\ 8 * DivCeil(a, 8) >= a /\ 8 * DivCeil(a, 8) < a + 8
BY DEF DivCeil

(* By a divisor that is a parameter.                                       *)
LEMMA CeilDiv ==
  ASSUME NEW a \in Nat, NEW b \in Nat \ {0}
  PROVE  /\ DivCeil(a, b) \in Nat
         /\ b * DivCeil(a, b) >= a
         /\ \A k \in 0 .. DivCeil(a, b) - 1 : k * b < a
<1> DEFINE x == a + b - 1
           q == x \div b
           r == x % b
<1>1. q \in Nat /\ r \in 0 .. b-1 /\ x = b * q + r
  <2>1. x \in Nat
    OBVIOUS
  <2> HIDE DEF x
  <2> QED BY <2>1, DivMod
<1>2. b * q >= a
  <2>1. b * q \in Nat
    BY <1>1
  <2> QED BY <2>1, <1>1
<1>3. ASSUME NEW k \in 0 .. q - 1 PROVE k * b < a
  <2>1. k \in Nat /\ q - 1 - k \in Nat
    BY <1>1
  <2>2. PICK d \in Nat : q = k + 1 + d
    <3>1. q = k + 1 + (q - 1 - k)
      BY <1>1
    <3> QED BY <2>1, <3>1
  <2>3. b * q = k * b + b + b * d /\ b * d \in Nat /\ k * b \in Nat
    BY <2>1, <2>2
  <2> QED BY <2>3, <1>1
<1>4. DivCeil(a, b) = q
  BY DEF DivCeil
<1> QED BY <1>1, <1>2, <1>3, <1>4

(* The least quotient that covers a is the rounded one.                    *)
LEMMA CeilLeast ==
  ASSUME NEW a \in Nat, NEW b \in Nat \ {0}, NEW m \in Nat, b * m >= a
  PROVE  DivCeil(a, b) <= m
<1>1. DivCeil(a, b) \in Nat /\ \A k \in 0 .. DivCeil(a, b) - 1 : k * b < a
  BY CeilDiv
<1>2. ASSUME DivCeil(a, b) > m PROVE FALSE
  <2>1. m \in 0 .. DivCeil(a, b) - 1
    BY <1>1, <1>2
  <2>2. m * b < a
    BY <2>1, <1>1
  <2> QED BY <2>2
<1> QED BY <1>1, <1>2

LEMMA Ceil4Is ==
  ASSUME NEW v \in Nat
  PROVE  Ceil4(v) \in Nat \ {0} /\ Ceil4(v) % 4 = 0 /\ Ceil4(v) >= v
BY CeilDiv4, SMTT(40) DEF Ceil4, Larger

(* A chunk is whole groups of 4 lanes, and no more chunks are needed than  *)
(* there are threads.                                                      *)
LEMMA ChunkForIs ==
  ASSUME NEW b \in Backends, NEW n \in Nat, NEW steps \in Nat \ {0}, NEW threads \in Nat \ {0}
  PROVE  /\ ChunkFor(b, n, steps, threads) \in Nat \ {0}
         /\ ChunkFor(b, n, steps, threads) % 4 = 0
         /\ DivCeil(n, ChunkFor(b, n, steps, threads)) <= threads
<1> DEFINE even      == Ceil4(DivCeil(n, NearTasks(b)))
           rounds    == Rounds(b) \div Larger(steps, 1)
           cap       == Larger(4 * (rounds \div 4), 4)
           share     == DivCeil(n, threads)
           perThread == Ceil4(share)
           c         == Larger(Lesser(even, cap), perThread)
<1>1. even \in Nat \ {0} /\ even % 4 = 0
  <2>1. NearTasks(b) \in Nat \ {0}
    BY Tuning
  <2>2. DivCeil(n, NearTasks(b)) \in Nat
    BY <2>1, CeilDiv
  <2> QED BY <2>2, Ceil4Is
<1>2. cap \in Nat \ {0} /\ cap % 4 = 0
  <2>1. Rounds(b) \in Nat /\ Larger(steps, 1) \in Nat \ {0}
    BY Tuning DEF Larger
  <2>2. rounds \in Nat
    BY <2>1, DivMod
  <2> HIDE DEF rounds
  <2> QED BY <2>2 DEF Larger
<1>3. share \in Nat /\ threads * share >= n
  BY CeilDiv
<1>4. perThread \in Nat \ {0} /\ perThread % 4 = 0 /\ perThread >= share
  <2> HIDE DEF share
  <2> QED BY <1>3, Ceil4Is
<1>5. c \in Nat \ {0} /\ c % 4 = 0 /\ c >= share
  <2> HIDE DEF even, cap, perThread, share
  <2> QED BY <1>1, <1>2, <1>3, <1>4 DEF Larger, Lesser
<1>6. ChunkFor(b, n, steps, threads) = c
  <2>1. Larger(threads, 1) = threads
    BY DEF Larger
  <2> QED BY <2>1 DEF ChunkFor
<1>7. c * threads >= n
  <2> HIDE DEF c, share
  <2>1. PICK d \in Nat : c = share + d
    <3>1. c - share \in Nat /\ c = share + (c - share)
      BY <1>3, <1>5
    <3> QED BY <3>1
  <2>2. c * threads = threads * share + d * threads /\ d * threads \in Nat
    BY <1>3, <2>1
  <2>3. threads * share \in Nat
    BY <1>3
  <2> QED BY <1>3, <2>2, <2>3
<1>8. DivCeil(n, c) <= threads
  <2> HIDE DEF c
  <2> QED BY <1>5, <1>7, CeilLeast
<1> QED BY <1>5, <1>6, <1>8

(* The items of the pool cover the batch, do not overlap, and only the     *)
(* last one may end in a group that is not whole.                          *)
LEMMA ChunksDivide ==
  ASSUME NEW n \in Nat, NEW c \in Nat \ {0}, c % 4 = 0
  PROVE  /\ \A x \in Chunks(n, c) :
              /\ x \in [first : Nat, len : Nat]
              /\ x.len >= 1 /\ x.first + x.len <= n
              /\ x.first % 4 = 0 /\ (x.len % 4 = 0 \/ x.first + x.len = n)
         /\ \A x, y \in Chunks(n, c) : x # y => Extent(x) \cap Extent(y) = {}
         /\ \A i \in 0 .. n-1 : \E x \in Chunks(n, c) : i \in Extent(x)
<1> DEFINE m == DivCeil(n, c)
           Item(k) == [first |-> k * c, len |-> Lesser(c, n - k * c)]
<1>1. m \in Nat /\ c * m >= n /\ \A k \in 0 .. m-1 : k * c < n
  BY CeilDiv
<1>2. Chunks(n, c) = {Item(k) : k \in 0 .. m-1}
  BY DEF Chunks
<1> HIDE DEF m
<1>3. ASSUME NEW k \in 0 .. m-1
      PROVE  /\ Item(k).first = k * c /\ Item(k).len \in Nat /\ Item(k).first \in Nat
             /\ Item(k) = [first |-> Item(k).first, len |-> Item(k).len]
             /\ Item(k).len >= 1 /\ Item(k).len <= c /\ k * c + Item(k).len <= n
             /\ Item(k).len = c \/ k * c + Item(k).len = n
  <2>1. k * c \in Nat /\ k * c < n
    BY <1>1
  <2> QED BY <2>1 DEF Lesser
<1>4. ASSUME NEW k \in 0 .. m-1 PROVE (k * c) % 4 = 0
  <2>1. PICK e \in Nat : c = 4 * e
    <3>1. c = 4 * (c \div 4) /\ c \div 4 \in Nat
      OBVIOUS
    <3> QED BY <3>1
  <2>2. k * c = 4 * (k * e) /\ k * e \in Nat
    BY <1>1, <2>1
  <2> HIDE DEF Item
  <2>3. \A z \in Nat : (4 * z) % 4 = 0
    OBVIOUS
  <2> QED BY <2>2, <2>3
<1>5. ASSUME NEW k \in 0 .. m-1, NEW l \in 0 .. m-1, k < l
      PROVE  Extent(Item(k)) \cap Extent(Item(l)) = {}
  <2>1. PICK d \in Nat : l = k + 1 + d
    <3>1. l - k - 1 \in Nat /\ l = k + 1 + (l - k - 1)
      BY <1>1, <1>5
    <3> QED BY <3>1
  <2>2. l * c = k * c + c + d * c /\ d * c \in Nat /\ k * c \in Nat
    BY <2>1, <1>1
  <2> HIDE DEF Item
  <2>3. /\ Item(k).first = k * c /\ Item(k).len \in Nat /\ Item(k).len <= c
        /\ Item(l).first = l * c
    BY <1>3
  <2> QED BY <2>2, <2>3 DEF Extent
<1>6. ASSUME NEW i \in 0 .. n-1 PROVE \E k \in 0 .. m-1 : i \in Extent(Item(k))
  <2> DEFINE q == i \div c
             r == i % c
  <2>1. q \in Nat /\ r \in 0 .. c-1 /\ i = c * q + r
    <3>1. i \in Nat
      OBVIOUS
    <3> QED BY <3>1, DivMod
  <2>2. q \in 0 .. m-1
    <3>1. i \in 0 .. c * m - 1
      <4>1. c * m \in Nat
        BY <1>1
      <4> QED BY <4>1, <1>1
    <3> QED BY <3>1, <1>1, QuotBound
  <2> HIDE DEF q, r
  <2>3. /\ Item(q).first = q * c /\ Item(q).len \in Nat
        /\ Item(q).len = c \/ q * c + Item(q).len = n
    BY <2>2, <1>3
  <2>4. q * c \in Nat /\ q * c = c * q
    BY <2>1
  <2>5. i \in Extent(Item(q))
    <3> HIDE DEF Item
    <3> QED BY <2>1, <2>3, <2>4 DEF Extent
  <2> QED BY <2>2, <2>5
<1> HIDE DEF Item
<1>7. ASSUME NEW x \in Chunks(n, c)
      PROVE  /\ x \in [first : Nat, len : Nat]
             /\ x.len >= 1 /\ x.first + x.len <= n
             /\ x.first % 4 = 0 /\ (x.len % 4 = 0 \/ x.first + x.len = n)
  <2>1. PICK k \in 0 .. m-1 : x = Item(k)
    BY <1>2
  <2> QED BY <2>1, <1>3, <1>4
<1>8. ASSUME NEW x \in Chunks(n, c), NEW y \in Chunks(n, c), x # y
      PROVE  Extent(x) \cap Extent(y) = {}
  <2>1. PICK k \in 0 .. m-1, l \in 0 .. m-1 : x = Item(k) /\ y = Item(l)
    BY <1>2
  <2>2. k # l
    BY <2>1, <1>8
  <2>3. k < l \/ l < k
    BY <2>2, <1>1
  <2> QED BY <2>1, <2>3, <1>5
<1>9. \A i \in 0 .. n-1 : \E x \in Chunks(n, c) : i \in Extent(x)
  BY <1>2, <1>6
<1> QED BY <1>7, <1>8, <1>9

(* A set that is listed has no more elements than the list.                *)
LEMMA ChunksCount ==
  ASSUME NEW n \in Nat, NEW c \in Nat \ {0}
  PROVE  IsFiniteSet(Chunks(n, c)) /\ Cardinality(Chunks(n, c)) <= DivCeil(n, c)
<1> DEFINE m == DivCeil(n, c)
           I == 0 .. m-1
           f == [k \in I |-> [first |-> k * c, len |-> Lesser(c, n - k * c)]]
<1>1. m \in Nat
  BY CeilDiv
<1>2. Chunks(n, c) = {f[k] : k \in I}
  BY DEF Chunks
<1> HIDE DEF m
<1>3. IsFiniteSet(I) /\ Cardinality(I) = m
  <2>1. 0 \in Int /\ m - 1 \in Int
    BY <1>1
  <2> QED BY <1>1, <2>1, FS_Interval
<1> HIDE DEF I
<1>4. f \in Surjection(I, Chunks(n, c))
  <2>1. DOMAIN f = I /\ f = [k \in I |-> f[k]]
    OBVIOUS
  <2> HIDE DEF f
  <2>2. f \in [I -> Chunks(n, c)]
    BY <2>1, <1>2
  <2> QED BY <2>2, <1>2 DEF Surjection
<1> QED BY <1>3, <1>4, FS_Surjection DEF m

-----------------------------------------------------------------------------
(* Tiles.                                                                  *)

(* The tiles of some lanes make every block of them, each lane's in order. *)
Cuts(tiles, n, first, len, steps) ==
  /\ tiles \in Seq(TileType)
  /\ \A k \in DOMAIN tiles :
       IsTile(tiles[k], n, steps) /\ Span(tiles[k]) \subseteq first .. first + len - 1
  /\ InOrder(tiles)
  /\ \A i \in first .. first + len - 1, s \in 0 .. steps - 1 :
       \E k \in DOMAIN tiles : Does(tiles[k], i, s)

LEMMA ListIsSeq ==
  ASSUME NEW m \in Nat, NEW S, NEW f \in [1 .. m -> S]
  PROVE  f \in Seq(S) /\ DOMAIN f = 1 .. m
OBVIOUS

(* A single step: all lanes at once.                                       *)
LEMMA SingleCuts ==
  ASSUME NEW n \in Nat, NEW first \in Nat, NEW len \in Nat, first + len <= n
  PROVE  Cuts(ScalarTiles(first, len, 1), n, first, len, 1)
<1> DEFINE t == [base |-> first, width |-> len, from |-> 0, to |-> 1, x4 |-> FALSE]
<1>1. ScalarTiles(first, len, 1) = <<t>>
  BY DEF ScalarTiles
<1>2. t \in TileType
  BY DEF TileType
<1>3. IsTile(t, n, 1) /\ Span(t) = first .. first + len - 1
  BY <1>2 DEF IsTile, Span
<1>4. \A i \in first .. first + len - 1, s \in 0 .. 1 - 1 : Does(t, i, s)
  BY DEF Does, Span
<1> HIDE DEF t
<1>5. <<t>> \in Seq(TileType) /\ DOMAIN <<t>> = {1} /\ <<t>>[1] = t
  BY <1>2
<1>6. InOrder(<<t>>)
  BY <1>5 DEF InOrder
<1> QED BY <1>1, <1>3, <1>4, <1>5, <1>6 DEF Cuts

(* Lanes by four, steps by eight, all lanes before the next steps.         *)
LEMMA ScalarCuts ==
  ASSUME NEW n \in Nat, NEW first \in Nat, NEW len \in Nat \ {0}, first + len <= n,
         NEW steps \in Nat \ {0}
  PROVE  Cuts(ScalarTiles(first, len, steps), n, first, len, steps)
<1>1. CASE steps = 1
  BY <1>1, SingleCuts
<1>2. CASE steps # 1
  <2> DEFINE across == DivCeil(len, 4)
             down   == DivCeil(steps, 8)
             A(k)   == (k - 1) % across
             D(k)   == (k - 1) \div across
             T(a, d) == [base |-> first + 4 * a, width |-> Lesser(4, len - 4 * a),
                         from |-> 8 * d, to |-> Lesser(steps, 8 * d + 8), x4 |-> FALSE]
             tiles  == [k \in 1 .. across * down |-> T(A(k), D(k))]
  <2>1. ScalarTiles(first, len, steps) = tiles
    BY <1>2 DEF ScalarTiles
  <2>2. across \in Nat \ {0} /\ 4 * across >= len /\ 4 * across < len + 4
    BY CeilDiv4
  <2>3. down \in Nat \ {0} /\ 8 * down >= steps /\ 8 * down < steps + 8
    BY CeilDiv8
  <2> HIDE DEF across, down
  <2>4. across * down \in Nat
    BY <2>2, <2>3
  <2>5. ASSUME NEW k \in 1 .. across * down
        PROVE  /\ A(k) \in 0 .. across - 1 /\ D(k) \in 0 .. down - 1
               /\ k = across * D(k) + A(k) + 1
    <3> DEFINE x == k - 1
    <3>1. x \in Nat /\ x \in 0 .. across * down - 1
      BY <2>4
    <3>2. x % across \in 0 .. across - 1 /\ x = across * (x \div across) + (x % across)
      <4> HIDE DEF x
      <4> QED BY <3>1, <2>2, DivMod
    <3>3. x \div across \in 0 .. down - 1
      <4> HIDE DEF x
      <4> QED BY <3>1, <2>2, <2>3, QuotBound
    <3> QED BY <3>1, <3>2, <3>3, <2>2, <2>3
  <2>6. ASSUME NEW a \in 0 .. across - 1, NEW d \in 0 .. down - 1
        PROVE  /\ IsTile(T(a, d), n, steps)
               /\ Span(T(a, d)) = {i \in first .. first + len - 1 : (i - first) \div 4 = a}
               /\ T(a, d).from = 8 * d /\ T(a, d).to = Lesser(steps, 8 * d + 8)
    <3>1. a \in Nat /\ d \in Nat /\ 4 * a < len /\ 8 * d < steps
      BY <2>2, <2>3
    <3>2. T(a, d) \in TileType
      BY <3>1 DEF TileType, Lesser
    <3>3. IsTile(T(a, d), n, steps)
      BY <3>1, <3>2 DEF IsTile, Lesser
    <3>4. Span(T(a, d)) = {i \in first .. first + len - 1 : (i - first) \div 4 = a}
      BY <3>1 DEF Span, Lesser
    <3> QED BY <3>3, <3>4
  <2> HIDE DEF A, D, T
  <2>7. tiles \in [1 .. across * down -> TileType]
    BY <2>5, <2>6 DEF IsTile
  <2>8. tiles \in Seq(TileType) /\ DOMAIN tiles = 1 .. across * down
    <3> HIDE DEF tiles
    <3> QED BY <2>4, <2>7, ListIsSeq
  <2>9. ASSUME NEW k \in 1 .. across * down PROVE tiles[k] = T(A(k), D(k))
    OBVIOUS
  <2> HIDE DEF tiles
  <2>10. InOrder(tiles)
    <3> SUFFICES ASSUME NEW k \in 1 .. across * down, NEW l \in 1 .. across * down, k < l,
                        NEW i \in Span(tiles[k]) \cap Span(tiles[l])
                 PROVE  tiles[k].to <= tiles[l].from
      BY <2>8 DEF InOrder
    <3>1. A(k) = A(l)
      BY <2>5, <2>6, <2>9
    <3>2. across * D(k) < across * D(l)
      <4>1. across * D(k) \in Nat /\ across * D(l) \in Nat
        BY <2>2, <2>3, <2>5
      <4> QED BY <2>5, <3>1, <4>1, <2>2
    <3>3. D(k) < D(l)
      <4>1. ASSUME D(k) >= D(l) PROVE FALSE
        <5>1. PICK e \in Nat : D(k) = D(l) + e
          <6>1. D(k) - D(l) \in Nat /\ D(k) = D(l) + (D(k) - D(l))
            BY <4>1, <2>5, <2>3
          <6> QED BY <6>1
        <5>2. across * D(k) = across * D(l) + across * e /\ across * e \in Nat
          BY <5>1, <2>2, <2>3, <2>5
        <5>3. across * D(l) \in Nat
          BY <2>2, <2>3, <2>5
        <5> QED BY <3>2, <5>2, <5>3
      <4> QED BY <4>1, <2>3, <2>5
    <3>4. tiles[k].to <= 8 * D(k) + 8 /\ tiles[l].from = 8 * D(l)
      <4>1. tiles[k].to = Lesser(steps, 8 * D(k) + 8) /\ tiles[l].from = 8 * D(l)
        BY <2>5, <2>6, <2>9
      <4> QED BY <4>1, <2>3, <2>5 DEF Lesser
    <3>5. D(k) \in Int /\ D(l) \in Int /\ tiles[k].to \in Int
      BY <2>3, <2>5, <2>6, <2>9 DEF IsTile, TileType
    <3> QED BY <3>3, <3>4, <3>5
  <2>11. ASSUME NEW i \in first .. first + len - 1, NEW s \in 0 .. steps - 1
         PROVE  \E k \in 1 .. across * down : Does(tiles[k], i, s)
    <3> DEFINE a == (i - first) \div 4
               d == s \div 8
               x == d * across + a
               k == x + 1
    <3>1. a \in 0 .. across - 1 /\ d \in 0 .. down - 1
      BY <2>2, <2>3
    <3>2. s >= 8 * d /\ s < 8 * d + 8
      OBVIOUS
    <3>3. (i - first) \div 4 = a
      OBVIOUS
    <3> HIDE DEF a, d
    <3>4. x \in 0 .. across * down - 1
      <4>1. d * across + a \in 0 .. down * across - 1
        BY <3>1, <2>2, <2>3, ProductBound
      <4>2. down * across = across * down
        BY <2>2, <2>3
      <4> QED BY <4>1, <4>2
    <3>5. k \in 1 .. across * down /\ k - 1 = across * d + a
      <4>1. d * across = across * d /\ d * across \in Nat
        BY <3>1, <2>2, <2>3
      <4> QED BY <3>4, <4>1, <3>1, <2>4
    <3>6. A(k) = a /\ D(k) = d
      <4>1. (across * d + a) % across = a /\ (across * d + a) \div across = d
        <5>1. d \in Nat
          BY <3>1, <2>3
        <5> QED BY <5>1, <3>1, <2>2, QuotRem
      <4> HIDE DEF k
      <4> QED BY <4>1, <3>5 DEF A, D
    <3> HIDE DEF k
    <3>7. tiles[k] = T(a, d)
      BY <3>5, <3>6, <2>9
    <3>8. Does(T(a, d), i, s)
      <4>1. i \in Span(T(a, d))
        BY <3>1, <3>3, <2>6
      <4>2. T(a, d).from = 8 * d /\ T(a, d).to = Lesser(steps, 8 * d + 8)
        BY <3>1, <2>6
      <4> QED BY <4>1, <4>2, <3>1, <3>2, <2>3 DEF Does, Lesser
    <3> QED BY <3>5, <3>7, <3>8
  <2>12. \A k \in 1 .. across * down :
           IsTile(tiles[k], n, steps) /\ Span(tiles[k]) \subseteq first .. first + len - 1
    BY <2>5, <2>6, <2>9
  <2> QED BY <2>1, <2>8, <2>10, <2>11, <2>12 DEF Cuts
<1> QED BY <1>1, <1>2

(* Groups of four, all steps of a group in a row.                          *)
LEMMA X4Cuts ==
  ASSUME NEW n \in Nat, NEW first \in Nat, NEW len \in Nat, first + len <= n, len % 4 = 0,
         NEW steps \in Nat \ {0}
  PROVE  Cuts(X4Tiles(first, len, steps), n, first, len, steps)
<1> DEFINE m == len \div 4
           T(g) == [base |-> first + 4 * (g - 1), width |-> 4, from |-> 0, to |-> steps,
                    x4 |-> TRUE]
           tiles == [g \in 1 .. m |-> T(g)]
<1>1. X4Tiles(first, len, steps) = tiles
  BY DEF X4Tiles
<1>2. m \in Nat /\ len = 4 * m
  OBVIOUS
<1> HIDE DEF m
<1>3. ASSUME NEW g \in 1 .. m
      PROVE  /\ IsTile(T(g), n, steps)
             /\ Span(T(g)) = {i \in first .. first + len - 1 : (i - first) \div 4 = g - 1}
             /\ T(g).from = 0 /\ T(g).to = steps
  <2>1. T(g) \in TileType
    BY <1>2 DEF TileType
  <2>2. IsTile(T(g), n, steps)
    BY <1>2, <2>1 DEF IsTile
  <2>3. Span(T(g)) = {i \in first .. first + len - 1 : (i - first) \div 4 = g - 1}
    BY <1>2 DEF Span
  <2> QED BY <2>2, <2>3
<1> HIDE DEF T
<1>4. tiles \in [1 .. m -> TileType]
  BY <1>3 DEF IsTile
<1>5. tiles \in Seq(TileType) /\ DOMAIN tiles = 1 .. m
  <2> HIDE DEF tiles
  <2> QED BY <1>2, <1>4, ListIsSeq
<1>6. \A g \in 1 .. m : tiles[g] = T(g)
  OBVIOUS
<1> HIDE DEF tiles
<1>7. InOrder(tiles)
  BY <1>2, <1>3, <1>5, <1>6 DEF InOrder
<1>8. ASSUME NEW i \in first .. first + len - 1, NEW s \in 0 .. steps - 1
      PROVE  \E g \in DOMAIN tiles : Does(tiles[g], i, s)
  <2> DEFINE g == (i - first) \div 4 + 1
  <2>1. g \in 1 .. m /\ (i - first) \div 4 = g - 1
    BY <1>2
  <2> HIDE DEF g
  <2>2. Does(tiles[g], i, s)
    BY <2>1, <1>3, <1>6 DEF Does
  <2> QED BY <2>1, <2>2, <1>5
<1> QED BY <1>1, <1>3, <1>5, <1>6, <1>7, <1>8 DEF Cuts

(* No lanes, no tiles.                                                     *)
LEMMA NothingCuts ==
  ASSUME NEW n \in Nat, NEW first \in Nat, NEW steps \in Nat \ {0}
  PROVE  Cuts(<<>>, n, first, 0, steps)
<1>1. <<>> \in Seq(TileType) /\ DOMAIN <<>> = {}
  OBVIOUS
<1> QED BY <1>1 DEF Cuts, InOrder

(* Lanes side by side.                                                     *)
LEMMA JoinCuts ==
  ASSUME NEW n \in Nat, NEW first \in Nat, NEW head \in Nat, NEW rest \in Nat,
         NEW steps \in Nat \ {0}, NEW a, NEW b,
         Cuts(a, n, first, head, steps), Cuts(b, n, first + head, rest, steps)
  PROVE  Cuts(a \o b, n, first, head + rest, steps)
<1> DEFINE c == a \o b
           la == Len(a)
           lb == Len(b)
<1>1. a \in Seq(TileType) /\ b \in Seq(TileType)
  BY DEF Cuts
<1>2. la \in Nat /\ lb \in Nat /\ DOMAIN a = 1 .. la /\ DOMAIN b = 1 .. lb
  BY <1>1, LenProperties
<1>3. /\ c \in Seq(TileType) /\ Len(c) = la + lb
      /\ \A i \in 1 .. la + lb : c[i] = IF i <= la THEN a[i] ELSE b[i - la]
  BY <1>1, ConcatProperties
<1>4. DOMAIN c = 1 .. la + lb
  BY <1>3, LenProperties
<1> HIDE DEF la, lb, c
<1>5. \A k \in 1 .. la : k \in DOMAIN c /\ c[k] = a[k]
  BY <1>2, <1>3, <1>4
<1>6. \A k \in 1 .. lb : la + k \in DOMAIN c /\ c[la + k] = b[k]
  <2> SUFFICES ASSUME NEW k \in 1 .. lb PROVE la + k \in DOMAIN c /\ c[la + k] = b[k]
    OBVIOUS
  <2>1. la + k \in 1 .. la + lb /\ ~(la + k <= la) /\ (la + k) - la = k
    BY <1>2
  <2> QED BY <2>1, <1>3, <1>4
<1>7. \A k \in DOMAIN c : k \in 1 .. la \/ \E l \in 1 .. lb : k = la + l
  <2> SUFFICES ASSUME NEW k \in DOMAIN c, k \notin 1 .. la PROVE k - la \in 1 .. lb /\ k = la + (k - la)
    OBVIOUS
  <2> QED BY <1>2, <1>4
<1>8. ASSUME NEW k \in 1 .. la
      PROVE  /\ IsTile(a[k], n, steps)
             /\ Span(a[k]) \subseteq first .. first + head - 1
  BY <1>2 DEF Cuts
<1>9. ASSUME NEW k \in 1 .. lb
      PROVE  /\ IsTile(b[k], n, steps)
             /\ Span(b[k]) \subseteq first + head .. first + head + rest - 1
  BY <1>2 DEF Cuts
<1>10. \A k \in DOMAIN c :
         IsTile(c[k], n, steps) /\ Span(c[k]) \subseteq first .. first + (head + rest) - 1
  <2>1. first .. first + head - 1 \subseteq first .. first + (head + rest) - 1
    OBVIOUS
  <2>2. first + head .. first + head + rest - 1 \subseteq first .. first + (head + rest) - 1
    OBVIOUS
  <2> QED BY <1>5, <1>6, <1>7, <1>8, <1>9, <2>1, <2>2
<1>11. InOrder(c)
  <2> SUFFICES ASSUME NEW k \in DOMAIN c, NEW l \in DOMAIN c, k < l,
                      NEW i \in Span(c[k]) \cap Span(c[l])
               PROVE  c[k].to <= c[l].from
    BY DEF InOrder
  <2>0. k \in Int /\ l \in Int
    BY <1>2, <1>4
  <2>1. CASE k \in 1 .. la /\ l \in 1 .. la
    BY <2>1, <1>2, <1>5 DEF Cuts, InOrder
  <2>2. CASE k \in 1 .. la /\ \E m \in 1 .. lb : l = la + m
    <3>1. PICK m \in 1 .. lb : l = la + m
      BY <2>2
    <3>2. i \in first .. first + head - 1 /\ i \in first + head .. first + head + rest - 1
      BY <2>2, <3>1, <1>5, <1>6, <1>8, <1>9
    <3> QED BY <3>2
  <2>3. CASE (\E m \in 1 .. lb : k = la + m) /\ l \in 1 .. la
    BY <2>0, <2>3, <1>2
  <2>4. CASE (\E m \in 1 .. lb : k = la + m) /\ (\E m \in 1 .. lb : l = la + m)
    <3>1. PICK m \in 1 .. lb, q \in 1 .. lb : k = la + m /\ l = la + q
      BY <2>4
    <3>2. m < q /\ c[k] = b[m] /\ c[l] = b[q]
      BY <3>1, <1>2, <1>6
    <3> QED BY <3>2, <1>2 DEF Cuts, InOrder
  <2> QED BY <2>1, <2>2, <2>3, <2>4, <1>7
<1>12. ASSUME NEW i \in first .. first + (head + rest) - 1, NEW s \in 0 .. steps - 1
       PROVE  \E k \in DOMAIN c : Does(c[k], i, s)
  <2>1. CASE i \in first .. first + head - 1
    BY <2>1, <1>2, <1>5 DEF Cuts
  <2>2. CASE i \in first + head .. first + head + rest - 1
    <3>1. PICK k \in 1 .. lb : Does(b[k], i, s)
      BY <2>2, <1>2 DEF Cuts
    <3> QED BY <3>1, <1>6
  <2> QED BY <2>1, <2>2
<1> QED BY <1>3, <1>10, <1>11, <1>12 DEF Cuts, c

(* process_lanes makes every block of its lanes, each lane's in order.     *)
LEMMA TilesCut ==
  ASSUME NEW b \in Backends, NEW n \in Nat, NEW first \in Nat, NEW len \in Nat \ {0},
         first + len <= n, NEW steps \in Nat \ {0}
  PROVE  Cuts(Tiles(b, first, len, steps), n, first, len, steps)
<1>1. CASE b = "scalar"
  BY <1>1, ScalarCuts DEF Tiles
<1>2. CASE b # "scalar"
  <2> DEFINE head == 4 * (len \div 4)
             rest == len - head
             tail == IF head < len THEN ScalarTiles(first + head, rest, steps) ELSE <<>>
  <2>1. head \in Nat /\ head % 4 = 0 /\ rest \in Nat /\ len = head + rest
    OBVIOUS
  <2>2. Tiles(b, first, len, steps) = X4Tiles(first, head, steps) \o tail
    BY <1>2 DEF Tiles
  <2> HIDE DEF head, rest
  <2>3. first + head \in Nat /\ first + head <= n /\ first + head + rest <= n
    BY <2>1
  <2>4. Cuts(X4Tiles(first, head, steps), n, first, head, steps)
    BY <2>1, <2>3, X4Cuts
  <2>5. Cuts(tail, n, first + head, rest, steps)
    <3>1. CASE head < len
      <4>1. rest \in Nat \ {0}
        BY <2>1, <3>1
      <4> QED BY <4>1, <3>1, <2>3, ScalarCuts
    <3>2. CASE ~(head < len)
      <4>1. rest = 0
        BY <2>1, <3>2
      <4> QED BY <4>1, <3>2, <2>3, NothingCuts
    <3> QED BY <3>1, <3>2
  <2> HIDE DEF tail
  <2>6. Cuts(X4Tiles(first, head, steps) \o tail, n, first, head + rest, steps)
    BY <2>1, <2>4, <2>5, JoinCuts
  <2> QED BY <2>1, <2>2, <2>6
<1> QED BY <1>1, <1>2

(* A worker that has lanes to do has tiles.                                *)
LEMMA CutsSomething ==
  ASSUME NEW n \in Nat, NEW first \in Nat, NEW len \in Nat \ {0}, NEW steps \in Nat \ {0},
         NEW tiles, Cuts(tiles, n, first, len, steps)
  PROVE  tiles # <<>> /\ SpanOf(tiles) = first .. first + len - 1
<1>1. \A i \in first .. first + len - 1 : \E k \in DOMAIN tiles : i \in Span(tiles[k])
  <2>1. 0 \in 0 .. steps - 1
    OBVIOUS
  <2> QED BY <2>1 DEF Cuts, Does
<1>2. first \in first .. first + len - 1
  OBVIOUS
<1>3. DOMAIN <<>> = {}
  OBVIOUS
<1>4. tiles # <<>>
  BY <1>1, <1>2, <1>3
<1>5. SpanOf(tiles) \subseteq first .. first + len - 1
  BY DEF Cuts, SpanOf
<1>6. first .. first + len - 1 \subseteq SpanOf(tiles)
  BY <1>1 DEF SpanOf
<1> QED BY <1>4, <1>5, <1>6

-----------------------------------------------------------------------------
(* The inductive invariant.                                                *)

AtRest ==
  /\ job = [w \in Hands |-> job[w]]
  /\ call = None => \A w \in Hands : job[w] = None

(* Every lane belongs to one item that waits, or to one worker, or is done.*)
Divided ==
  call # None =>
    /\ \A x \in call.todo : x.len >= 1 /\ x.first + x.len <= LaneCount
    /\ \A x, y \in call.todo : x # y => Extent(x) \cap Extent(y) = {}
    /\ \A w \in Hands : job[w] # None =>
         /\ \A x \in call.todo : SpanOf(job[w].tiles) \cap Extent(x) = {}
         /\ \A v \in Hands \ {w} : job[v] # None =>
              SpanOf(job[w].tiles) \cap SpanOf(job[v].tiles) = {}

Tiled ==
  \A w \in Hands : job[w] # None =>
    /\ job[w].tiles # <<>>
    /\ \A k \in DOMAIN job[w].tiles : IsTile(job[w].tiles[k], LaneCount, call.steps)
    /\ InOrder(job[w].tiles)

(* Blocks the running call has made of a lane, when its tile is stored.    *)
Gone(i) == lanes[i].made - call.start[i]

(* The block is in a tile that a worker has left.                          *)
Coming(i, s) ==
  \E w \in Hands : job[w] # None /\
    \E k \in DOMAIN job[w].tiles : Does(job[w].tiles[k], i, s)

Progress ==
  call # None => \A i \in DOMAIN lanes :
    /\ Gone(i) \in 0 .. call.steps
    /\ call.start[i] + call.steps <= MaxBlocks
    /\ \A x \in call.todo : i \in Extent(x) => Gone(i) = 0
    /\ \A w \in Hands : job[w] # None =>
         \A k \in DOMAIN job[w].tiles :
           i \in Span(job[w].tiles[k]) => Gone(i) <= job[w].tiles[k].from
    /\ \/ \E x \in call.todo : i \in Extent(x)
       \/ \A s \in Gone(i) .. call.steps - 1 : Coming(i, s)

BlockOf(i, k) == BlockAt(Origin(i), k)

OnSchedule ==
  \A i \in DOMAIN lanes :
    /\ lanes[i].s = BlockOf(i, lanes[i].made)
    /\ lanes[i].step = lanes[i].made % WordMod

(* A lane in registers, k blocks after its origin; the call began at c.    *)
InRegisters(r, x4, i, c, k) ==
  /\ r.s = BlockOf(i, k)
  /\ IF x4 THEN r.step = c % WordMod /\ r.rc = Rc(k % WordMod) ELSE r.step = k % WordMod

Loaded ==
  \A w \in Hands : job[w] # None /\ job[w].regs # None =>
    \A j \in 0 .. Tile(w).width - 1 :
      LET i == Tile(w).base + j
      IN  InRegisters(job[w].regs[j], Tile(w).x4, i, call.start[i], call.start[i] + job[w].s)

(* The block has been made, in a tile that is stored or by a row of one    *)
(* that is not.                                                            *)
InRow(w, i, s) ==
  /\ job[w] # None /\ job[w].regs # None
  /\ Does(Tile(w), i, s) /\ s < job[w].s

Written ==
  call # None => \A i \in DOMAIN lanes, s \in 0 .. call.steps - 1 :
    s < Gone(i) \/ (\E w \in Hands : InRow(w, i, s))
      => out[Slot(LaneCount, s, i)] = BlockOf(i, call.start[i] + s + 1)

Fitting == ItemsFitPool /\ (call # None => IsFiniteSet(call.todo))

IInv ==
  /\ TypeOK /\ AtRest /\ Divided /\ Tiled /\ Progress
  /\ OnSchedule /\ Loaded /\ Written /\ Fitting

-----------------------------------------------------------------------------
(* Small facts.                                                            *)

LEMMA CountOf == ASSUME NEW n \in Nat PROVE Cardinality(0 .. n-1) = n
<1>1. 0 \in Int /\ n - 1 \in Int
  OBVIOUS
<1> QED BY <1>1, FS_Interval

LEMMA LanesAre ==
  ASSUME TypeOK
  PROVE  /\ LaneCount \in Nat /\ LaneCount \in Sizes
         /\ DOMAIN lanes = 0 .. LaneCount - 1
         /\ lanes \in [0 .. LaneCount - 1 -> LaneStates]
<1>1. PICK n \in Sizes : lanes \in [0 .. n-1 -> LaneStates]
  BY DEF TypeOK
<1>2. n \in Nat /\ DOMAIN lanes = 0 .. n-1
  BY <1>1, ConstantTypes
<1>3. LaneCount = n
  BY <1>2, CountOf DEF LaneCount
<1> QED BY <1>1, <1>2, <1>3

LEMMA CallApart ==
  ASSUME NEW n \in Sizes, NEW c \in CallType(n)
  PROVE  c # None
BY NoneApart

LEMMA JobApart ==
  ASSUME NEW n \in Sizes, NEW k \in 0 .. n, NEW j \in JobType(k)
  PROVE  j # None
BY NoneApart

LEMMA HandsFacts ==
  /\ IsFiniteSet(Worker) /\ Threads \in Nat
  /\ Worker \subseteq Hands /\ Caller \in Hands /\ Worker # {Caller}
<1>1. IsFiniteSet(Worker) /\ Caller \notin Worker
  BY ConstantTypes
<1> QED BY <1>1, FS_CardinalityType DEF Threads, Hands

(* The first tile of a busy worker.                                        *)
LEMMA JobFacts ==
  ASSUME TypeOK, Tiled, NEW w \in Hands, job[w] # None
  PROVE  /\ call # None /\ w \in call.hands
         /\ call.steps \in Nat \ {0}
         /\ job[w].tiles \in Seq(TileType)
         /\ 1 \in DOMAIN job[w].tiles /\ Tile(w) = job[w].tiles[1]
         /\ IsTile(Tile(w), LaneCount, call.steps)
         /\ Span(Tile(w)) \subseteq 0 .. LaneCount - 1
         /\ Tile(w).width \in 0 .. LaneCount
         /\ job[w] \in JobType(Tile(w).width)
<1>1. call # None /\ w \in call.hands /\ job[w] \in JobType(Tile(w).width)
  BY DEF TypeOK
<1>2. call.steps \in Nat \ {0}
  BY <1>1, ConstantTypes DEF TypeOK
<1>3. job[w].tiles \in Seq(TileType)
  BY <1>1 DEF JobType
<1>4. job[w].tiles # <<>> /\ \A k \in DOMAIN job[w].tiles : IsTile(job[w].tiles[k], LaneCount, call.steps)
  BY DEF Tiled
<1>5. 1 \in DOMAIN job[w].tiles /\ Tile(w) = job[w].tiles[1]
  BY <1>3, <1>4 DEF Tile
<1>6. IsTile(Tile(w), LaneCount, call.steps)
  BY <1>4, <1>5
<1>7. LaneCount \in Nat
  BY LanesAre
<1>8. Span(Tile(w)) \subseteq 0 .. LaneCount - 1 /\ Tile(w).width \in 0 .. LaneCount
  BY <1>6, <1>7 DEF IsTile, Span, TileType
<1> QED BY <1>1, <1>2, <1>3, <1>5, <1>6, <1>8

(* Two blocks never have the same place.                                   *)
LEMMA SlotUnique ==
  ASSUME NEW n \in Nat, NEW i \in 0 .. n-1, NEW j \in 0 .. n-1, NEW s \in Nat, NEW r \in Nat,
         Slot(n, s, i) = Slot(n, r, j)
  PROVE  s = r /\ i = j
<1>1. n \in Nat \ {0}
  OBVIOUS
<1>2. (n * s + i) % n = i /\ (n * s + i) \div n = s
  BY <1>1, QuotRem
<1>3. (n * r + j) % n = j /\ (n * r + j) \div n = r
  BY <1>1, QuotRem
<1>4. n * s + i = n * r + j
  BY DEF Slot
<1> QED BY <1>2, <1>3, <1>4

LEMMA SlotInside ==
  ASSUME NEW n \in Nat, NEW m \in Nat \ {0}, NEW i \in 0 .. n-1, NEW s \in 0 .. m-1
  PROVE  Slot(n, s, i) \in 0 .. n * m - 1
<1>1. n \in Nat \ {0}
  OBVIOUS
<1>2. s * n + i \in 0 .. m * n - 1
  BY <1>1, ProductBound
<1>3. m * n = n * m
  OBVIOUS
<1> QED BY <1>2, <1>3 DEF Slot

LEMMA RcIs ==
  ASSUME NEW k \in Nat
  PROVE  /\ Rc(k % WordMod) = (Phi * (k + 2)) % WordMod
         /\ Rc(k % WordMod) \in 0 .. WordMod-1
<1>1. WordMod \in Nat \ {0} /\ Phi \in Nat
  BY ConstantTypes
<1>2. ((k % WordMod) + 2) % WordMod = (k + 2) % WordMod
  BY <1>1, ModAdd
<1>3. (((k + 2) % WordMod) * Phi) % WordMod = ((k + 2) * Phi) % WordMod
  <2>1. k + 2 \in Nat
    OBVIOUS
  <2> QED BY <1>1, <2>1, ModMul
<1>4. (k + 2) * Phi = Phi * (k + 2)
  BY <1>1
<1>5. (k + 2) % WordMod \in Nat
  BY <1>1
<1>6. ((k + 2) % WordMod) * Phi = Phi * ((k + 2) % WordMod)
  BY <1>1, <1>5
<1>7. Phi * (k + 2) \in Nat
  BY <1>1
<1>8. (Phi * (k + 2)) % WordMod \in 0 .. WordMod-1
  BY <1>1, <1>7, DivMod
<1> QED BY <1>2, <1>3, <1>4, <1>6, <1>8 DEF Rc

(* The round constant of the next step, by addition.                       *)
LEMMA RcNext ==
  ASSUME NEW k \in Nat
  PROVE  (Rc(k % WordMod) + Phi) % WordMod = Rc((k + 1) % WordMod)
<1>1. WordMod \in Nat \ {0} /\ Phi \in Nat
  BY ConstantTypes
<1>2. Rc(k % WordMod) = (Phi * (k + 2)) % WordMod
  BY RcIs
<1>3. Rc((k + 1) % WordMod) = (Phi * ((k + 1) + 2)) % WordMod
  <2>1. k + 1 \in Nat
    OBVIOUS
  <2> QED BY <2>1, RcIs
<1>4. Phi * (k + 2) \in Nat /\ Phi * ((k + 1) + 2) = Phi * (k + 2) + Phi
  BY <1>1
<1>5. (((Phi * (k + 2)) % WordMod) + Phi) % WordMod = (Phi * (k + 2) + Phi) % WordMod
  BY <1>1, <1>4, ModAdd
<1> QED BY <1>2, <1>3, <1>4, <1>5

LEMMA BlockNext ==
  ASSUME NEW n \in Sizes, NEW i \in 0 .. n-1, NEW k \in Nat, k + 1 <= MaxBlocks
  PROVE  BlockOf(i, k + 1) = Mix(BlockOf(i, k), Rc(k % WordMod))
<1>1. Origin(i) \in State
  BY ConstantTypes
<1>2. k \in 0 .. MaxBlocks - 1
  BY ConstantTypes
<1> QED BY <1>1, <1>2, BlockLaw DEF BlockOf, StreamStep

-----------------------------------------------------------------------------
(* The initial state, and the plan.                                        *)

LEMMA InitIInv == Init => IInv
<1> SUFFICES ASSUME Init PROVE IInv
  OBVIOUS
<1>1. PICK n \in Sizes : lanes = [i \in 0 .. n-1 |-> [s |-> Origin(i), step |-> 0, made |-> 0]]
  BY DEF Init
<1>2. call = None /\ job = [w \in Hands |-> None]
  BY DEF Init
<1>3. WordMod \in Nat \ {0} /\ MaxBlocks \in Nat /\ \A i \in 0 .. n-1 : Origin(i) \in State
  BY ConstantTypes
<1>4. lanes \in [0 .. n-1 -> LaneStates]
  BY <1>1, <1>3 DEF LaneStates
<1>5. TypeOK
  BY <1>2, <1>4 DEF TypeOK, Init
<1>6. OnSchedule
  <2>1. 0 % WordMod = 0
    BY <1>3
  <2> QED BY <1>1, <1>3, <2>1, BlockLaw DEF OnSchedule, BlockOf
<1> QED BY <1>2, <1>5, <1>6
    DEF IInv, AtRest, Divided, Tiled, Progress, Loaded, Written, Fitting, ItemsFitPool

(* The items of a call: the whole batch, or chunks for the pool.           *)
LEMMA ItemsDivide ==
  ASSUME NEW n \in Nat \ {0}, NEW steps \in Nat \ {0}, NEW b \in Backends
  PROVE  LET hands == HandsFor(PlansPool(b, n, steps))
             todo  == Items(hands, b, n, steps)
         IN  /\ hands \subseteq Hands
             /\ todo \subseteq [first : Nat, len : Nat] /\ IsFiniteSet(todo)
             /\ \A x \in todo : x.len >= 1 /\ x.first + x.len <= n
             /\ \A x, y \in todo : x # y => Extent(x) \cap Extent(y) = {}
             /\ \A i \in 0 .. n-1 : \E x \in todo : i \in Extent(x)
             /\ hands = Worker =>
                  /\ Cardinality(todo) <= Threads
                  /\ \A x \in todo :
                       x.first % 4 = 0 /\ (x.len % 4 = 0 \/ x.first + x.len = n)
<1> DEFINE planned == PlansPool(b, n, steps)
           hands   == HandsFor(planned)
           c       == ChunkFor(b, n, steps, Threads)
           todo    == Items(hands, b, n, steps)
<1>1. CASE planned /\ mode.pool
  <2>1. hands = Worker
    BY <1>1 DEF HandsFor
  <2>2. Threads \in Nat \ {0}
    BY <1>1, HandsFacts DEF PlansPool, GoesParallel
  <2>3. c \in Nat \ {0} /\ c % 4 = 0 /\ DivCeil(n, c) <= Threads
    BY <2>2, ChunkForIs
  <2>4. todo = Chunks(n, c)
    BY <2>1, HandsFacts DEF Items
  <2> HIDE DEF c, todo, hands
  <2>5. IsFiniteSet(Chunks(n, c)) /\ Cardinality(Chunks(n, c)) <= DivCeil(n, c)
    BY <2>3, ChunksCount
  <2>6. DivCeil(n, c) \in Nat
    BY <2>3, CeilDiv
  <2>7. Cardinality(Chunks(n, c)) \in Nat
    BY <2>5, FS_CardinalityType
  <2>8. Cardinality(todo) <= Threads
    BY <2>2, <2>3, <2>4, <2>5, <2>6, <2>7
  <2>9. /\ \A x \in todo :
             /\ x \in [first : Nat, len : Nat]
             /\ x.len >= 1 /\ x.first + x.len <= n
             /\ x.first % 4 = 0 /\ (x.len % 4 = 0 \/ x.first + x.len = n)
        /\ \A x, y \in todo : x # y => Extent(x) \cap Extent(y) = {}
        /\ \A i \in 0 .. n-1 : \E x \in todo : i \in Extent(x)
    BY <2>3, <2>4, ChunksDivide
  <2>10. hands \subseteq Hands
    BY <2>1, HandsFacts
  <2>11. todo \subseteq [first : Nat, len : Nat] /\ IsFiniteSet(todo)
    BY <2>4, <2>5, <2>9
  <2> QED BY <2>8, <2>9, <2>10, <2>11 DEF todo, hands
<1>2. CASE ~(planned /\ mode.pool)
  <2>1. hands = {Caller} /\ hands # Worker /\ hands \subseteq Hands
    BY <1>2, HandsFacts DEF HandsFor
  <2> DEFINE x == [first |-> 0, len |-> n]
  <2>2. todo = {x}
    BY <2>1 DEF Items
  <2>3. /\ x \in [first : Nat, len : Nat]
        /\ x.len >= 1 /\ x.first + x.len <= n
        /\ \A i \in 0 .. n-1 : i \in Extent(x)
    BY DEF Extent
  <2>4. IsFiniteSet({x})
    BY FS_Singleton
  <2> HIDE DEF x, todo, hands
  <2> QED BY <2>1, <2>2, <2>3, <2>4 DEF todo, hands
<1> QED BY <1>1, <1>2

LEMMA NobodyBusy ==
  ASSUME NEW S, S = {} PROVE IsFiniteSet(S) /\ Cardinality(S) = 0
BY FS_EmptySet

LEMMA BeginKeeps ==
  ASSUME IInv, NEW steps \in StepCounts, Begin(steps)
  PROVE  IInv'
<1> DEFINE n     == LaneCount
           b     == ChooseBackend(mode.simd, n)
           hands == HandsFor(PlansPool(b, n, steps))
           todo  == Items(hands, b, n, steps)
           start == [i \in DOMAIN lanes |-> lanes[i].made]
           c     == [steps |-> steps, backend |-> b, hands |-> hands, todo |-> todo,
                     start |-> start]
<1>1. /\ call = None /\ n > 0 /\ steps > 0
      /\ \A i \in DOMAIN lanes : lanes[i].made + steps <= MaxBlocks
      /\ call' = c
      /\ out' = [x \in 0 .. n * steps - 1 |-> None]
      /\ UNCHANGED <<mode, lanes, job, ret>>
  BY DEF Begin
<1>2. n \in Nat \ {0} /\ n \in Sizes /\ DOMAIN lanes = 0 .. n-1 /\ lanes \in [0 .. n-1 -> LaneStates]
  BY <1>1, LanesAre DEF IInv
<1>3. steps \in Nat \ {0} /\ b \in Backends
  BY <1>1, ConstantTypes DEF ChooseBackend, Backends
<1>4. LaneCount' = n /\ (DOMAIN lanes)' = DOMAIN lanes
  BY <1>1 DEF LaneCount
<1> HIDE DEF n, b
<1>5. /\ hands \subseteq Hands
      /\ todo \subseteq [first : Nat, len : Nat] /\ IsFiniteSet(todo)
      /\ \A x \in todo : x.len >= 1 /\ x.first + x.len <= n
      /\ \A x, y \in todo : x # y => Extent(x) \cap Extent(y) = {}
      /\ \A i \in 0 .. n-1 : \E x \in todo : i \in Extent(x)
      /\ hands = Worker =>
           /\ Cardinality(todo) <= Threads
           /\ \A x \in todo : x.first % 4 = 0 /\ (x.len % 4 = 0 \/ x.first + x.len = n)
  BY <1>2, <1>3, ItemsDivide
<1>6. start \in [0 .. n-1 -> Nat] /\ \A i \in 0 .. n-1 : start[i] = lanes[i].made
  <2>1. \A i \in 0 .. n-1 : lanes[i].made \in Nat
    BY <1>2, ConstantTypes DEF LaneStates
  <2>2. DOMAIN start = 0 .. n-1 /\ \A i \in 0 .. n-1 : start[i] = lanes[i].made
    BY <1>2
  <2>3. start = [i \in DOMAIN start |-> start[i]]
    OBVIOUS
  <2> HIDE DEF start
  <2> QED BY <2>1, <2>2, <2>3
<1> HIDE DEF hands, todo, start
<1>7. c \in CallType(n)
  BY <1>3, <1>5, <1>6 DEF CallType
<1>8. c # None
  BY <1>2, <1>7, CallApart
<1>9. /\ c.steps = steps /\ c.hands = hands /\ c.todo = todo /\ c.start = start
  OBVIOUS
<1> HIDE DEF c
<1>10. \A w \in Hands : job[w] = None /\ job'[w] = None
  BY <1>1 DEF IInv, AtRest
<1>11. TypeOK'
  <2>1. mode' \in [simd : BOOLEAN, parallel : BOOLEAN, pool : BOOLEAN]
    BY <1>1 DEF IInv, TypeOK
  <2>2. lanes' \in [0 .. n-1 -> LaneStates]
    BY <1>1, <1>2
  <2>3. out' \in [0 .. n * steps - 1 -> State \cup {None}]
    BY <1>1
  <2> QED BY <1>1, <1>2, <1>3, <1>4, <1>7, <1>8, <1>9, <1>10, <2>1, <2>2, <2>3 DEF TypeOK
<1>12. AtRest'
  BY <1>1, <1>8 DEF IInv, AtRest
<1>13. Divided'
  BY <1>1, <1>4, <1>5, <1>9, <1>10 DEF Divided
<1>14. Tiled' /\ Loaded'
  BY <1>10 DEF Tiled, Loaded
<1>15. Progress'
  <2> SUFFICES ASSUME NEW i \in 0 .. n-1
               PROVE  /\ Gone(i)' = 0 /\ start[i] + steps <= MaxBlocks
                      /\ \E x \in todo : i \in Extent(x)
    BY <1>1, <1>2, <1>3, <1>9, <1>10 DEF Progress
  <2>1. start[i] = lanes[i].made /\ lanes[i].made \in Nat
    BY <1>6
  <2>2. lanes'[i].made = lanes[i].made /\ call'.start[i] = lanes[i].made
    BY <1>1, <1>9, <2>1
  <2>3. Gone(i)' = 0
    BY <2>1, <2>2 DEF Gone
  <2>4. start[i] + steps <= MaxBlocks
    BY <1>1, <1>2, <2>1
  <2>5. \E x \in todo : i \in Extent(x)
    BY <1>5
  <2> QED BY <2>3, <2>4, <2>5
<1>16. OnSchedule'
  BY <1>1 DEF IInv, OnSchedule
<1>17. Written'
  <2> SUFFICES ASSUME NEW i \in 0 .. n-1, NEW s \in 0 .. steps - 1
               PROVE  ~(s < Gone(i)') /\ ~(\E w \in Hands : InRow(w, i, s)')
    BY <1>1, <1>2, <1>9 DEF Written
  <2>1. lanes[i].made \in Nat /\ Gone(i)' = lanes[i].made - lanes[i].made
    BY <1>1, <1>2, <1>6, <1>9 DEF LaneStates, Gone
  <2> QED BY <1>10, <2>1 DEF InRow
<1>18. Fitting'
  <2> DEFINE S == {w \in Worker : Busy(w)'}
  <2>1. S = {}
    BY <1>10, HandsFacts DEF Busy
  <2>2. Cardinality(S) = 0
    BY <2>1, NobodyBusy
  <2>3. Cardinality(todo) \in Nat
    BY <1>5, FS_CardinalityType
  <2> HIDE DEF S
  <2>4. ASSUME hands = Worker PROVE Cardinality(todo) + Cardinality(S) <= Threads
    BY <1>5, <2>2, <2>3, <2>4
  <2> QED BY <1>1, <1>4, <1>5, <1>9, <2>4 DEF Fitting, ItemsFitPool, S
<1> QED BY <1>11, <1>12, <1>13, <1>14, <1>15, <1>16, <1>17, <1>18 DEF IInv

LEMMA BeginNothingKeeps ==
  ASSUME IInv, NEW steps \in StepCounts, BeginNothing(steps)
  PROVE  IInv'
<1>1. call = None /\ UNCHANGED <<mode, lanes, call, job, out>>
  BY DEF BeginNothing
<1>2. \A w \in Hands : job[w] = None
  BY <1>1 DEF IInv, AtRest
<1>3. TypeOK'
  BY <1>1, <1>2 DEF IInv, TypeOK
<1>4. OnSchedule'
  BY <1>1 DEF IInv, OnSchedule
<1>5. AtRest'
  BY <1>1 DEF IInv, AtRest
<1> QED BY <1>1, <1>2, <1>3, <1>4, <1>5
    DEF IInv, Divided, Tiled, Progress, Loaded, Written, Fitting, ItemsFitPool

-----------------------------------------------------------------------------
(* A worker takes an item.                                                 *)

LEMMA TakeKeeps ==
  ASSUME IInv, NEW w \in Hands, Take(w)
  PROVE  IInv'
<1> DEFINE n == LaneCount
<1>1. call # None /\ w \in call.hands /\ job[w] = None
  BY DEF Take
<1>2. PICK x \in call.todo :
        /\ call' = [call EXCEPT !.todo = @ \ {x}]
        /\ job' = [job EXCEPT ![w] =
             [tiles |-> Tiles(call.backend, x.first, x.len, call.steps), regs |-> None, s |-> 0]]
        /\ UNCHANGED <<mode, lanes, out, ret>>
  BY DEF Take
<1> DEFINE tiles == Tiles(call.backend, x.first, x.len, call.steps)
           j     == [tiles |-> tiles, regs |-> None, s |-> 0]
<1>3. n \in Nat /\ n \in Sizes /\ DOMAIN lanes = 0 .. n-1 /\ lanes \in [0 .. n-1 -> LaneStates]
  BY LanesAre DEF IInv
<1>4. LaneCount' = n
  BY <1>2 DEF LaneCount
<1>5. call \in CallType(n) /\ call.steps \in Nat \ {0} /\ call.steps \in StepCounts \ {0}
  BY <1>1, ConstantTypes DEF IInv, TypeOK
<1> HIDE DEF n
<1>6. /\ call' \in CallType(n) /\ call' # None
      /\ call'.steps = call.steps /\ call'.hands = call.hands /\ call'.start = call.start
      /\ call'.todo = call.todo \ {x}
  <2>1. /\ call' \in CallType(n)
        /\ call'.steps = call.steps /\ call'.hands = call.hands /\ call'.start = call.start
        /\ call'.todo = call.todo \ {x}
    BY <1>2, <1>5 DEF CallType
  <2> QED BY <2>1, <1>3, CallApart
<1>7. /\ x \in [first : Nat, len : Nat] /\ x.len >= 1 /\ x.first + x.len <= n
      /\ call.backend \in Backends
  BY <1>1, <1>5 DEF IInv, Divided, CallType, n
<1>8. Cuts(tiles, n, x.first, x.len, call.steps)
  <2>1. x.first \in Nat /\ x.len \in Nat \ {0}
    BY <1>7
  <2> QED BY <2>1, <1>3, <1>5, <1>7, TilesCut
<1> HIDE DEF tiles
<1>9. tiles # <<>> /\ SpanOf(tiles) = Extent(x)
  <2>1. x.first \in Nat /\ x.len \in Nat \ {0}
    BY <1>7
  <2>2. tiles # <<>> /\ SpanOf(tiles) = x.first .. x.first + x.len - 1
    BY <2>1, <1>3, <1>5, <1>8, CutsSomething
  <2> QED BY <2>2 DEF Extent
<1>10. /\ tiles \in Seq(TileType) /\ InOrder(tiles)
       /\ \A k \in DOMAIN tiles : IsTile(tiles[k], n, call.steps)
  BY <1>8 DEF Cuts
<1>11. /\ j \in JobType(Head(tiles).width) /\ j # None
       /\ j.tiles = tiles /\ j.regs = None
  <2>1. Head(tiles) = tiles[1] /\ 1 \in DOMAIN tiles
    BY <1>9, <1>10
  <2>2. Head(tiles).width \in 0 .. n
    BY <2>1, <1>3, <1>10 DEF IsTile, TileType
  <2>3. j \in JobType(Head(tiles).width)
    BY <1>10 DEF JobType
  <2> QED BY <2>2, <2>3, <1>3, JobApart
<1>12. /\ job' = [v \in Hands |-> IF v = w THEN j ELSE job[v]]
       /\ job'[w] = j /\ \A v \in Hands \ {w} : job'[v] = job[v]
  BY <1>2 DEF IInv, AtRest, tiles
<1> HIDE DEF j
<1>13. \A v \in Hands : job[v] # None => v # w
  BY <1>1
<1>14. TypeOK'
  <2>1. mode' \in [simd : BOOLEAN, parallel : BOOLEAN, pool : BOOLEAN]
    BY <1>2 DEF IInv, TypeOK
  <2>2. out' \in [0 .. n * call.steps - 1 -> State \cup {None}]
    BY <1>1, <1>2 DEF IInv, TypeOK, n
  <2>3. \A v \in Hands : job'[v] # None =>
          /\ v \in call.hands
          /\ job'[v] \in JobType(Head(job'[v].tiles).width)
          /\ job'[v].regs # None =>
               job'[v].s \in Head(job'[v].tiles).from .. Head(job'[v].tiles).to
    BY <1>1, <1>11, <1>12 DEF IInv, TypeOK, Tile
  <2> QED BY <1>2, <1>3, <1>4, <1>5, <1>6, <2>1, <2>2, <2>3 DEF TypeOK, Tile
<1>15. AtRest'
  BY <1>6, <1>12 DEF AtRest
<1>16. Divided'
  <2>1. \A y \in call.todo \ {x} : y.len >= 1 /\ y.first + y.len <= n
    BY <1>1 DEF IInv, Divided, n
  <2>2. \A y, z \in call.todo : y # z => Extent(y) \cap Extent(z) = {}
    BY <1>1 DEF IInv, Divided
  <2>3. ASSUME NEW v \in Hands, job'[v] # None
        PROVE  /\ \A y \in call.todo \ {x} : SpanOf(job'[v].tiles) \cap Extent(y) = {}
               /\ \A u \in Hands \ {v} : job'[u] # None =>
                    SpanOf(job'[v].tiles) \cap SpanOf(job'[u].tiles) = {}
    <3>1. CASE v = w
      BY <3>1, <1>1, <1>9, <1>11, <1>12, <2>2 DEF IInv, Divided
    <3>2. CASE v # w
      BY <2>3, <3>2, <1>1, <1>9, <1>11, <1>12 DEF IInv, Divided
    <3> QED BY <3>1, <3>2
  <2> QED BY <1>4, <1>6, <2>1, <2>2, <2>3 DEF Divided
<1>17. Tiled'
  BY <1>4, <1>6, <1>9, <1>10, <1>11, <1>12 DEF IInv, Tiled, n
<1>18. \A i \in 0 .. n-1 : Gone(i)' = Gone(i)
  BY <1>2, <1>6 DEF Gone
<1>19. \A i, s : Coming(i, s) => Coming(i, s)'
  BY <1>12, <1>13 DEF Coming
<1>20. Progress'
  <2> SUFFICES ASSUME NEW i \in 0 .. n-1
               PROVE  /\ \A v \in Hands : job'[v] # None =>
                           \A k \in DOMAIN job'[v].tiles :
                             i \in Span(job'[v].tiles[k]) => Gone(i) <= job'[v].tiles[k].from
                      /\ \/ \E y \in call.todo \ {x} : i \in Extent(y)
                         \/ \A s \in Gone(i) .. call.steps - 1 : Coming(i, s)'
    BY <1>1, <1>2, <1>3, <1>6, <1>18 DEF IInv, Progress
  <2>1. /\ Gone(i) \in 0 .. call.steps
        /\ i \in Extent(x) => Gone(i) = 0
        /\ \A v \in Hands : job[v] # None =>
             \A k \in DOMAIN job[v].tiles :
               i \in Span(job[v].tiles[k]) => Gone(i) <= job[v].tiles[k].from
        /\ \/ \E y \in call.todo : i \in Extent(y)
           \/ \A s \in Gone(i) .. call.steps - 1 : Coming(i, s)
    BY <1>1, <1>3 DEF IInv, Progress
  <2>2. \A k \in DOMAIN tiles : i \in Span(tiles[k]) => Gone(i) <= tiles[k].from
    <3> SUFFICES ASSUME NEW k \in DOMAIN tiles, i \in Span(tiles[k])
                 PROVE  Gone(i) <= tiles[k].from
      OBVIOUS
    <3>1. i \in Extent(x)
      BY <1>9 DEF SpanOf
    <3>2. tiles[k].from \in Nat
      BY <1>10 DEF IsTile, TileType
    <3> QED BY <2>1, <3>1, <3>2
  <2>3. ASSUME i \in Extent(x) PROVE \A s \in Gone(i) .. call.steps - 1 : Coming(i, s)'
    <3> SUFFICES ASSUME NEW s \in Gone(i) .. call.steps - 1 PROVE Coming(i, s)'
      OBVIOUS
    <3>1. s \in 0 .. call.steps - 1 /\ i \in x.first .. x.first + x.len - 1
      BY <2>1, <2>3 DEF Extent
    <3>2. \E k \in DOMAIN tiles : Does(tiles[k], i, s)
      BY <3>1, <1>8 DEF Cuts
    <3> QED BY <3>2, <1>11, <1>12 DEF Coming
  <2>4. \A v \in Hands : job'[v] # None =>
          \A k \in DOMAIN job'[v].tiles :
            i \in Span(job'[v].tiles[k]) => Gone(i) <= job'[v].tiles[k].from
    BY <2>1, <2>2, <1>11, <1>12
  <2> QED BY <2>1, <2>3, <2>4, <1>19
<1>21. OnSchedule'
  BY <1>2 DEF IInv, OnSchedule
<1>22. Loaded'
  BY <1>6, <1>11, <1>12 DEF IInv, Loaded, Tile
<1>23. \A i, s : (\E v \in Hands : InRow(v, i, s)') => \E v \in Hands : InRow(v, i, s)
  BY <1>11, <1>12 DEF InRow, Tile
<1>24. Written'
  BY <1>1, <1>2, <1>3, <1>4, <1>6, <1>18, <1>23 DEF IInv, Written, n
<1>25. Fitting'
  <2> DEFINE S == {v \in Worker : Busy(v)}
             T == {v \in Worker : Busy(v)'}
  <2>1. IsFiniteSet(call.todo) /\ IsFiniteSet(call.todo \ {x})
        /\ Cardinality(call.todo \ {x}) = Cardinality(call.todo) - 1
        /\ Cardinality(call.todo) \in Nat
    <3>1. IsFiniteSet(call.todo)
      BY <1>1 DEF IInv, Fitting
    <3> QED BY <3>1, FS_RemoveElement, FS_CardinalityType
  <2>2. T \subseteq S \cup {w}
    BY <1>1, <1>12, HandsFacts DEF Busy
  <2>3. IsFiniteSet(S) /\ IsFiniteSet(T)
    BY HandsFacts, FS_Subset
  <2> HIDE DEF S, T
  <2>4. Cardinality(T) \in Nat /\ Cardinality(S) \in Nat /\ Cardinality(T) <= Cardinality(S) + 1
    <3>1. IsFiniteSet(S \cup {w}) /\ Cardinality(S \cup {w}) <= Cardinality(S) + 1
          /\ Cardinality(S) \in Nat
      <4>1. Cardinality(S) \in Nat
        BY <2>3, FS_CardinalityType
      <4>2. /\ IsFiniteSet(S \cup {w})
            /\ Cardinality(S \cup {w}) =
                 IF w \in S THEN Cardinality(S) ELSE Cardinality(S) + 1
        BY <2>3, FS_AddElement
      <4> QED BY <4>1, <4>2
    <3>2. Cardinality(T) <= Cardinality(S \cup {w})
      BY <2>2, <3>1, FS_Subset
    <3>3. Cardinality(T) \in Nat /\ Cardinality(S \cup {w}) \in Nat
      BY <2>3, <3>1, FS_CardinalityType
    <3> QED BY <3>1, <3>2, <3>3
  <2>5. ASSUME call.hands = Worker
        PROVE  /\ Cardinality(call.todo \ {x}) + Cardinality(T) <= Threads
               /\ \A y \in call.todo :
                    y.first % 4 = 0 /\ (y.len % 4 = 0 \/ y.first + y.len = n)
    <3>1. /\ Cardinality(call.todo) + Cardinality(S) <= Threads
          /\ \A y \in call.todo :
               y.first % 4 = 0 /\ (y.len % 4 = 0 \/ y.first + y.len = n)
      BY <2>5, <1>1 DEF IInv, Fitting, ItemsFitPool, n, S
    <3> QED BY <3>1, <2>1, <2>4, HandsFacts
  <2> QED BY <1>4, <1>6, <2>1, <2>5 DEF Fitting, ItemsFitPool, T
<1> QED BY <1>14, <1>15, <1>16, <1>17, <1>20, <1>21, <1>22, <1>24, <1>25 DEF IInv

-----------------------------------------------------------------------------
(* A tile in registers.                                                    *)

(* The first tile of a worker goes on where its lanes are.                 *)
LEMMA HeadNext ==
  ASSUME IInv, NEW w \in Hands, job[w] # None, NEW i \in Span(Tile(w))
  PROVE  /\ i \in DOMAIN lanes /\ Gone(i) = Tile(w).from
         /\ call.start[i] \in Nat
         /\ lanes[i].made = call.start[i] + Tile(w).from
         /\ call.start[i] + call.steps <= MaxBlocks
         /\ \A x \in call.todo : i \notin Extent(x)
         /\ \A v \in Hands \ {w} : job[v] # None => i \notin SpanOf(job[v].tiles)
<1> DEFINE t == Tile(w)
           tiles == job[w].tiles
<1>1. /\ call # None /\ call.steps \in Nat \ {0}
      /\ tiles \in Seq(TileType) /\ 1 \in DOMAIN tiles /\ t = tiles[1]
      /\ IsTile(t, LaneCount, call.steps) /\ Span(t) \subseteq 0 .. LaneCount - 1
  BY JobFacts DEF IInv
<1>2. /\ LaneCount \in Nat /\ DOMAIN lanes = 0 .. LaneCount - 1
      /\ lanes \in [0 .. LaneCount - 1 -> LaneStates]
  BY LanesAre DEF IInv
<1>3. i \in DOMAIN lanes
  BY <1>1, <1>2
<1>4. call.start[i] \in Nat
  BY <1>1, <1>2, <1>3 DEF IInv, TypeOK, CallType
<1>5. i \in SpanOf(tiles)
  BY <1>1 DEF SpanOf
<1>6. \A x \in call.todo : i \notin Extent(x)
  BY <1>1, <1>5 DEF IInv, Divided
<1>7. \A v \in Hands \ {w} : job[v] # None => i \notin SpanOf(job[v].tiles)
  BY <1>1, <1>5 DEF IInv, Divided
<1>8. /\ Gone(i) \in 0 .. call.steps /\ call.start[i] + call.steps <= MaxBlocks
      /\ Gone(i) <= t.from
      /\ \A s \in Gone(i) .. call.steps - 1 : Coming(i, s)
  BY <1>1, <1>3, <1>6 DEF IInv, Progress
<1>9. t.from \in Nat /\ t.to \in Nat /\ t.from < t.to /\ t.to <= call.steps
  BY <1>1 DEF IsTile, TileType
<1>10. ASSUME Gone(i) < t.from PROVE FALSE
  <2>1. Coming(i, Gone(i))
    BY <1>1, <1>8, <1>9, <1>10
  <2>2. PICK v \in Hands : job[v] # None /\ \E k \in DOMAIN job[v].tiles : Does(job[v].tiles[k], i, Gone(i))
    BY <2>1 DEF Coming
  <2>3. v = w
    BY <2>2, <1>7 DEF SpanOf, Does
  <2>4. PICK k \in DOMAIN tiles : Does(tiles[k], i, Gone(i))
    BY <2>2, <2>3
  <2>5. i \in Span(tiles[k]) /\ tiles[k].from <= Gone(i) /\ tiles[k].from \in Nat
    BY <2>4, <1>1 DEF Does, IInv, Tiled, IsTile, TileType
  <2>6. k # 1
    BY <2>5, <1>1, <1>8, <1>9, <1>10
  <2>7. 1 < k
    BY <2>6, <1>1
  <2>8. t.to <= tiles[k].from
    BY <2>5, <2>7, <1>1 DEF IInv, Tiled, InOrder
  <2> QED BY <2>5, <2>8, <1>8, <1>9, <1>10
<1>11. Gone(i) = t.from
  BY <1>8, <1>9, <1>10
<1>12. lanes[i].made \in Nat
  BY <1>2, <1>3, ConstantTypes DEF LaneStates
<1>13. lanes[i].made = call.start[i] + t.from
  BY <1>4, <1>9, <1>11, <1>12 DEF Gone
<1> QED BY <1>3, <1>4, <1>6, <1>7, <1>8, <1>11, <1>13

(* Steps that leave the lanes and the tiles alone.                         *)
LEMMA SameTilesKeep ==
  ASSUME IInv, UNCHANGED <<mode, lanes, call>>,
         \A v \in Hands : job'[v] = None <=> job[v] = None,
         \A v \in Hands : job[v] # None => job'[v].tiles = job[v].tiles
  PROVE  /\ Divided' /\ Tiled' /\ Progress' /\ OnSchedule' /\ Fitting'
         /\ LaneCount' = LaneCount
         /\ \A i : Gone(i)' = Gone(i)
         /\ \A v \in Hands : job[v] # None => Tile(v)' = Tile(v)
<1>1. LaneCount' = LaneCount /\ \A i : Gone(i)' = Gone(i)
  BY DEF LaneCount, Gone
<1>2. \A v \in Hands : job[v] # None => Tile(v)' = Tile(v)
  BY DEF Tile
<1>3. Divided'
  BY <1>1 DEF IInv, Divided
<1>4. Tiled'
  BY <1>1 DEF IInv, Tiled
<1>5. \A i, s : Coming(i, s)' <=> Coming(i, s)
  BY DEF Coming
<1>6. Progress'
  BY <1>1, <1>5 DEF IInv, Progress
<1>7. OnSchedule'
  BY DEF IInv, OnSchedule
<1>8. Fitting'
  <2>1. \A v \in Worker : Busy(v)' <=> Busy(v)
    BY HandsFacts DEF Busy
  <2>2. {v \in Worker : Busy(v)'} = {v \in Worker : Busy(v)}
    BY <2>1
  <2> QED BY <1>1, <2>2 DEF IInv, Fitting, ItemsFitPool
<1> QED BY <1>1, <1>2, <1>3, <1>4, <1>6, <1>7, <1>8

LEMMA JobExcept ==
  ASSUME NEW k, NEW r \in JobType(k), NEW p, NEW q
  PROVE  [r EXCEPT !.regs = p, !.s = q] = [tiles |-> r.tiles, regs |-> p, s |-> q]
<1> DEFINE Fields == {"tiles", "regs", "s"}
           a == [r EXCEPT !.regs = p, !.s = q]
           b == [tiles |-> r.tiles, regs |-> p, s |-> q]
<1>1. r = [f \in Fields |-> r[f]] /\ DOMAIN r = Fields
  BY DEF JobType
<1>2. a = [f \in Fields |-> a[f]] /\ b = [f \in Fields |-> b[f]]
  BY <1>1
<1>3. \A f \in Fields : a[f] = b[f]
  <2>1. a["tiles"] = r["tiles"] /\ a["regs"] = p /\ a["s"] = q
    BY <1>1
  <2>2. b["tiles"] = r["tiles"] /\ b["regs"] = p /\ b["s"] = q
    OBVIOUS
  <2> HIDE DEF a, b
  <2> QED BY <2>1, <2>2
<1>4. [f \in Fields |-> a[f]] = [f \in Fields |-> b[f]]
  <2> HIDE DEF a, b, Fields
  <2> QED BY <1>3
<1>5. a = b
  <2> HIDE DEF a, b, Fields
  <2> QED BY <1>2, <1>4
<1> QED BY <1>5

LEMMA LoadKeeps ==
  ASSUME IInv, NEW w \in Hands, Load(w)
  PROVE  IInv'
<1> DEFINE t == Tile(w)
           n == LaneCount
           regs == [j \in 0 .. t.width - 1 |->
                      [s |-> lanes[t.base + j].s, step |-> lanes[t.base + j].step,
                       rc |-> Rc(lanes[t.base + j].step)]]
           new == [tiles |-> job[w].tiles, regs |-> regs, s |-> t.from]
<1>1. call # None /\ job[w] # None /\ job[w].regs = None
  BY DEF Load, Busy
<1>2. /\ job' = [job EXCEPT ![w].regs = regs, ![w].s = t.from]
      /\ UNCHANGED <<mode, lanes, call, out, ret>>
  BY DEF Load
<1>3. /\ w \in call.hands /\ call.steps \in Nat \ {0}
      /\ job[w].tiles \in Seq(TileType) /\ 1 \in DOMAIN job[w].tiles
      /\ t = job[w].tiles[1] /\ IsTile(t, n, call.steps)
      /\ Span(t) \subseteq 0 .. n-1 /\ t.width \in 0 .. n
      /\ job[w] \in JobType(t.width)
  BY <1>1, JobFacts DEF IInv
<1>4. /\ n \in Nat /\ n \in Sizes /\ DOMAIN lanes = 0 .. n-1
      /\ lanes \in [0 .. n-1 -> LaneStates]
  BY LanesAre DEF IInv
<1> HIDE DEF n
<1>5. t.base \in Nat /\ t.width \in Nat /\ t.from \in Nat /\ t.to \in Nat /\ t.from < t.to
  BY <1>3 DEF IsTile, TileType
<1>6. ASSUME NEW j \in 0 .. t.width - 1
      PROVE  t.base + j \in Span(t) /\ t.base + j \in DOMAIN lanes
  <2>1. t.base + j \in Span(t)
    BY <1>5 DEF Span
  <2> QED BY <2>1, <1>3, <1>4
<1>7. ASSUME NEW j \in 0 .. t.width - 1
      PROVE  /\ regs[j] \in RegisterType
             /\ InRegisters(regs[j], t.x4, t.base + j, call.start[t.base + j],
                            call.start[t.base + j] + t.from)
  <2> DEFINE i == t.base + j
  <2>1. /\ i \in DOMAIN lanes /\ call.start[i] \in Nat
        /\ lanes[i].made = call.start[i] + t.from
    BY <1>1, <1>6, HeadNext
  <2>2. /\ lanes[i] \in LaneStates
        /\ lanes[i].s = BlockOf(i, lanes[i].made) /\ lanes[i].step = lanes[i].made % WordMod
    BY <1>4, <2>1 DEF IInv, OnSchedule
  <2>3. regs[j] = [s |-> lanes[i].s, step |-> lanes[i].step, rc |-> Rc(lanes[i].step)]
    OBVIOUS
  <2>4. Rc(lanes[i].step) \in 0 .. WordMod-1
    <3>1. lanes[i].made \in Nat
      BY <2>2, ConstantTypes DEF LaneStates
    <3> QED BY <2>2, <3>1, RcIs
  <2> HIDE DEF regs, i
  <2>5. regs[j] \in RegisterType
    BY <2>2, <2>3, <2>4 DEF LaneStates, RegisterType
  <2>6. t.x4 => call.start[i] + t.from = call.start[i]
    BY <1>3, <2>1 DEF IsTile
  <2>7. InRegisters(regs[j], t.x4, i, call.start[i], call.start[i] + t.from)
    BY <2>1, <2>2, <2>3, <2>6 DEF InRegisters
  <2> QED BY <2>5, <2>7 DEF i
<1>8. regs \in [0 .. t.width - 1 -> RegisterType]
  <2>1. DOMAIN regs = 0 .. t.width - 1 /\ regs = [j \in DOMAIN regs |-> regs[j]]
    OBVIOUS
  <2> HIDE DEF regs
  <2> QED BY <1>7, <2>1
<1> HIDE DEF regs
<1>9. /\ new \in JobType(t.width) /\ new # None
      /\ new.tiles = job[w].tiles /\ new.regs = regs /\ new.s = t.from
  <2>1. new \in JobType(t.width)
    BY <1>3, <1>5, <1>8 DEF JobType
  <2> QED BY <2>1, <1>3, <1>4, JobApart
<1>10. /\ job' = [v \in Hands |-> IF v = w THEN new ELSE job[v]]
       /\ job'[w] = new /\ \A v \in Hands \ {w} : job'[v] = job[v]
  <2>1. job = [v \in Hands |-> job[v]]
    BY DEF IInv, AtRest
  <2>2. job' = [job EXCEPT ![w] = [job[w] EXCEPT !.regs = regs, !.s = t.from]]
    BY <1>2, <2>1
  <2>3. [job[w] EXCEPT !.regs = regs, !.s = t.from] = new
    BY <1>3, JobExcept
  <2> HIDE DEF new
  <2> QED BY <2>1, <2>2, <2>3
<1> HIDE DEF new
<1>11. /\ \A v \in Hands : job'[v] = None <=> job[v] = None
       /\ \A v \in Hands : job[v] # None => job'[v].tiles = job[v].tiles
  BY <1>1, <1>9, <1>10
<1>12. /\ Divided' /\ Tiled' /\ Progress' /\ OnSchedule' /\ Fitting'
       /\ LaneCount' = n
       /\ \A i : Gone(i)' = Gone(i)
       /\ \A v \in Hands : job[v] # None => Tile(v)' = Tile(v)
  BY <1>2, <1>11, SameTilesKeep DEF n
<1>13. TypeOK'
  <2>1. /\ mode \in [simd : BOOLEAN, parallel : BOOLEAN, pool : BOOLEAN]
        /\ call \in CallType(n) /\ call.steps \in StepCounts \ {0}
        /\ out \in [0 .. n * call.steps - 1 -> State \cup {None}]
    BY <1>1 DEF IInv, TypeOK, n
  <2>2. \A v \in Hands : job'[v] # None =>
          /\ v \in call.hands
          /\ job'[v] \in JobType(Tile(v).width)
          /\ job'[v].regs # None => job'[v].s \in Tile(v).from .. Tile(v).to
    BY <1>3, <1>5, <1>9, <1>10, <1>11 DEF IInv, TypeOK
  <2> QED BY <1>1, <1>2, <1>4, <1>11, <1>12, <2>1, <2>2 DEF TypeOK
<1>14. AtRest'
  BY <1>1, <1>2, <1>10 DEF AtRest
<1>15. Loaded'
  <2>1. \A v \in Hands : job'[v] # None /\ job'[v].regs # None =>
          \A j \in 0 .. Tile(v).width - 1 :
            InRegisters(job'[v].regs[j], Tile(v).x4, Tile(v).base + j,
                        call.start[Tile(v).base + j], call.start[Tile(v).base + j] + job'[v].s)
    BY <1>7, <1>9, <1>10 DEF IInv, Loaded
  <2> QED BY <1>2, <1>11, <1>12, <2>1 DEF Loaded
<1>16. ASSUME NEW v \in Hands, NEW i, NEW s, InRow(v, i, s)'
       PROVE  InRow(v, i, s)
  <2>1. CASE v = w
    BY <2>1, <1>5, <1>9, <1>10, <1>11, <1>12, <1>16 DEF InRow, Does
  <2>2. CASE v # w
    BY <2>2, <1>10, <1>11, <1>12, <1>16 DEF InRow
  <2> QED BY <2>1, <2>2
<1>17. Written'
  BY <1>2, <1>12, <1>16 DEF IInv, Written, n
<1> QED BY <1>12, <1>13, <1>14, <1>15, <1>17 DEF IInv

LEMMA AdvancedIs ==
  ASSUME NEW n \in Sizes, NEW i \in 0 .. n-1, NEW c \in Nat, NEW k \in Nat, k + 1 <= MaxBlocks,
         NEW x4 \in BOOLEAN, NEW r \in RegisterType, InRegisters(r, x4, i, c, k)
  PROVE  /\ Advanced(x4, r) \in RegisterType
         /\ InRegisters(Advanced(x4, r), x4, i, c, k + 1)
<1>1. WordMod \in Nat \ {0} /\ Phi \in Nat
  BY ConstantTypes
<1>2. /\ r.s \in State /\ r.step \in 0 .. WordMod-1 /\ r.rc \in 0 .. WordMod-1
      /\ r.s = BlockOf(i, k)
  BY DEF RegisterType, InRegisters
<1>3. BlockOf(i, k + 1) = Mix(r.s, Rc(k % WordMod))
  BY <1>2, BlockNext
<1>4. Rc(k % WordMod) \in 0 .. WordMod-1
  BY RcIs
<1>5. BlockOf(i, k + 1) \in State
  BY <1>2, <1>3, <1>4, ConstantTypes
<1>6. CASE x4
  <2> DEFINE a == [s |-> Mix(r.s, r.rc), step |-> r.step, rc |-> (r.rc + Phi) % WordMod]
  <2>1. Advanced(x4, r) = a
    BY <1>6 DEF Advanced, X4Step
  <2>2. r.step = c % WordMod /\ r.rc = Rc(k % WordMod)
    BY <1>6 DEF InRegisters
  <2>3. (r.rc + Phi) % WordMod = Rc((k + 1) % WordMod)
    BY <2>2, RcNext
  <2>4. (r.rc + Phi) % WordMod \in 0 .. WordMod-1
    <3>1. r.rc + Phi \in Nat
      BY <1>1, <1>2
    <3> QED BY <3>1, <1>1, DivMod
  <2>5. a.s = BlockOf(i, k + 1)
    BY <1>3, <2>2
  <2>6. a \in RegisterType
    BY <1>2, <1>5, <2>4, <2>5 DEF RegisterType
  <2>7. a.step = c % WordMod /\ a.rc = Rc((k + 1) % WordMod)
    BY <2>2, <2>3
  <2> HIDE DEF a
  <2> QED BY <1>6, <2>1, <2>5, <2>6, <2>7 DEF InRegisters
<1>7. CASE ~x4
  <2> DEFINE a == [s |-> StreamStep(r.s, r.step), step |-> (r.step + 1) % WordMod, rc |-> r.rc]
  <2>1. Advanced(x4, r) = a
    BY <1>7 DEF Advanced, ScalarStep
  <2>2. r.step = k % WordMod
    BY <1>7 DEF InRegisters
  <2>3. (r.step + 1) % WordMod = (k + 1) % WordMod
    BY <1>1, <2>2, ModSucc
  <2>4. (r.step + 1) % WordMod \in 0 .. WordMod-1
    <3>1. r.step + 1 \in Nat
      BY <1>1, <1>2
    <3> QED BY <3>1, <1>1, DivMod
  <2>5. a.s = BlockOf(i, k + 1)
    BY <1>3, <2>2 DEF StreamStep
  <2>6. a \in RegisterType
    BY <1>2, <1>5, <2>4, <2>5 DEF RegisterType
  <2>7. a.step = (k + 1) % WordMod
    BY <2>3
  <2> HIDE DEF a
  <2> QED BY <1>7, <2>1, <2>5, <2>6, <2>7 DEF InRegisters
<1> QED BY <1>6, <1>7

LEMMA RowKeeps ==
  ASSUME IInv, NEW w \in Hands, Row(w)
  PROVE  IInv'
<1> DEFINE t == Tile(w)
           n == LaneCount
           S == job[w].s
           old == job[w].regs
           regs == [j \in DOMAIN old |-> Advanced(t.x4, old[j])]
           new == [tiles |-> job[w].tiles, regs |-> regs, s |-> S + 1]
           row == Slot(n, S, t.base)
<1>1. call # None /\ job[w] # None /\ old # None /\ S < t.to
  BY DEF Row, Busy
<1>2. /\ job' = [job EXCEPT ![w].regs = regs, ![w].s = @ + 1]
      /\ out' = [x \in DOMAIN out |->
                   IF x \in row .. row + t.width - 1 THEN regs[x - row].s ELSE out[x]]
      /\ UNCHANGED <<mode, lanes, call, ret>>
  BY DEF Row
<1>3. /\ w \in call.hands /\ call.steps \in Nat \ {0}
      /\ job[w].tiles \in Seq(TileType) /\ 1 \in DOMAIN job[w].tiles
      /\ t = job[w].tiles[1] /\ IsTile(t, n, call.steps)
      /\ Span(t) \subseteq 0 .. n-1 /\ t.width \in 0 .. n
      /\ job[w] \in JobType(t.width)
  BY <1>1, JobFacts DEF IInv
<1>4. /\ n \in Nat /\ n \in Sizes /\ DOMAIN lanes = 0 .. n-1
      /\ lanes \in [0 .. n-1 -> LaneStates]
  BY LanesAre DEF IInv
<1>5. out \in [0 .. n * call.steps - 1 -> State \cup {None}]
  BY <1>1 DEF IInv, TypeOK
<1> HIDE DEF n
<1>6. /\ t.base \in Nat /\ t.width \in Nat /\ t.from \in Nat /\ t.to \in Nat /\ t.from < t.to
      /\ t.to <= call.steps /\ t.base + t.width <= n /\ t.x4 \in BOOLEAN
  BY <1>3 DEF IsTile, TileType
<1>7. S \in t.from .. t.to /\ S \in Nat /\ S + 1 \in t.from .. t.to
  <2>1. S \in t.from .. t.to
    BY <1>1 DEF IInv, TypeOK
  <2> HIDE DEF S, t
  <2> QED BY <1>1, <1>6, <2>1
<1>8. old \in [0 .. t.width - 1 -> RegisterType] /\ DOMAIN old = 0 .. t.width - 1
  BY <1>1, <1>3 DEF JobType
<1>9. ASSUME NEW j \in 0 .. t.width - 1
      PROVE  t.base + j \in Span(t) /\ t.base + j \in 0 .. n-1
  <2>1. t.base + j \in Span(t)
    BY <1>6 DEF Span
  <2> QED BY <2>1, <1>3
<1>10. ASSUME NEW j \in 0 .. t.width - 1
       PROVE  /\ regs[j] \in RegisterType
              /\ InRegisters(regs[j], t.x4, t.base + j, call.start[t.base + j],
                             call.start[t.base + j] + (S + 1))
  <2> DEFINE i == t.base + j
             c == call.start[i]
  <2>1. /\ i \in 0 .. n-1 /\ c \in Nat /\ c + call.steps <= MaxBlocks
    BY <1>1, <1>9, HeadNext
  <2>2. old[j] \in RegisterType /\ InRegisters(old[j], t.x4, i, c, c + S)
    BY <1>1, <1>8 DEF IInv, Loaded
  <2>4. regs[j] = Advanced(t.x4, old[j])
    BY <1>8
  <2> HIDE DEF regs, i, c, old, S, t
  <2>6. call.steps \in Nat /\ t.to \in Nat /\ MaxBlocks \in Nat
    BY <1>3, <1>6, ConstantTypes
  <2>7. S + 1 <= call.steps
    BY <2>6, <1>6, <1>7
  <2>3. c + S \in Nat /\ (c + S) + 1 <= MaxBlocks /\ c + (S + 1) = (c + S) + 1
    BY <1>7, <2>1, <2>6, <2>7
  <2>5. Advanced(t.x4, old[j]) \in RegisterType /\ InRegisters(Advanced(t.x4, old[j]), t.x4, i, c, (c + S) + 1)
    BY <1>4, <1>6, <2>1, <2>2, <2>3, AdvancedIs
  <2> QED BY <2>3, <2>4, <2>5 DEF i, c
<1>11. regs \in [0 .. t.width - 1 -> RegisterType]
  <2>1. DOMAIN regs = 0 .. t.width - 1 /\ regs = [j \in DOMAIN regs |-> regs[j]]
    BY <1>8
  <2> HIDE DEF regs
  <2> QED BY <1>10, <2>1
<1> HIDE DEF regs, old
<1>12. /\ new \in JobType(t.width) /\ new # None
       /\ new.tiles = job[w].tiles /\ new.regs = regs /\ new.s = S + 1
  <2>1. new \in JobType(t.width)
    BY <1>3, <1>7, <1>11 DEF JobType
  <2> QED BY <2>1, <1>3, <1>4, JobApart
<1>13. /\ job' = [v \in Hands |-> IF v = w THEN new ELSE job[v]]
       /\ job'[w] = new /\ \A v \in Hands \ {w} : job'[v] = job[v]
  <2>1. job = [v \in Hands |-> job[v]]
    BY DEF IInv, AtRest
  <2>2. job' = [job EXCEPT ![w] = [job[w] EXCEPT !.regs = regs, !.s = S + 1]]
    BY <1>2, <2>1
  <2>3. [job[w] EXCEPT !.regs = regs, !.s = S + 1] = new
    BY <1>3, JobExcept
  <2> HIDE DEF new
  <2> QED BY <2>1, <2>2, <2>3
<1> HIDE DEF new
<1>14. /\ \A v \in Hands : job'[v] = None <=> job[v] = None
       /\ \A v \in Hands : job[v] # None => job'[v].tiles = job[v].tiles
  BY <1>1, <1>12, <1>13
<1>15. /\ Divided' /\ Tiled' /\ Progress' /\ OnSchedule' /\ Fitting'
       /\ LaneCount' = n
       /\ \A i : Gone(i)' = Gone(i)
       /\ \A v \in Hands : job[v] # None => Tile(v)' = Tile(v)
  BY <1>2, <1>14, SameTilesKeep DEF n
<1>16. row \in Nat
  <2>1. S * n \in Nat
    BY <1>4, <1>7
  <2> QED BY <2>1, <1>6 DEF Slot
<1> HIDE DEF S, t, row
<1>17. out' \in [0 .. n * call.steps - 1 -> State \cup {None}]
  <2>1. DOMAIN out = 0 .. n * call.steps - 1 /\ \A x \in DOMAIN out : out[x] \in State \cup {None}
    BY <1>5
  <2>2. \A x \in row .. row + t.width - 1 : regs[x - row].s \in State
    <3> SUFFICES ASSUME NEW x \in row .. row + t.width - 1 PROVE regs[x - row].s \in State
      OBVIOUS
    <3>1. x - row \in 0 .. t.width - 1
      BY <1>6, <1>16
    <3> QED BY <3>1, <1>11 DEF RegisterType
  <2> QED BY <1>2, <2>1, <2>2 DEF S, t, row
<1>18. TypeOK'
  <2>1. /\ mode \in [simd : BOOLEAN, parallel : BOOLEAN, pool : BOOLEAN]
        /\ call \in CallType(n) /\ call.steps \in StepCounts \ {0}
    BY <1>1 DEF IInv, TypeOK, n
  <2>2. \A v \in Hands : job'[v] # None =>
          /\ v \in call.hands
          /\ job'[v] \in JobType(Tile(v).width)
          /\ job'[v].regs # None => job'[v].s \in Tile(v).from .. Tile(v).to
    BY <1>3, <1>7, <1>12, <1>13, <1>14 DEF IInv, TypeOK, t
  <2> QED BY <1>1, <1>2, <1>4, <1>14, <1>15, <1>17, <2>1, <2>2 DEF TypeOK
<1>19. AtRest'
  BY <1>1, <1>2, <1>13 DEF AtRest
<1>20. Loaded'
  <2>1. \A v \in Hands : job'[v] # None /\ job'[v].regs # None =>
          \A j \in 0 .. Tile(v).width - 1 :
            InRegisters(job'[v].regs[j], Tile(v).x4, Tile(v).base + j,
                        call.start[Tile(v).base + j], call.start[Tile(v).base + j] + job'[v].s)
    BY <1>10, <1>12, <1>13 DEF IInv, Loaded, t
  <2> QED BY <1>2, <1>14, <1>15, <2>1 DEF Loaded
<1>21. ASSUME NEW i \in 0 .. n-1, NEW s \in 0 .. call.steps - 1,
              s < Gone(i) \/ \E v \in Hands : InRow(v, i, s)'
       PROVE  out'[Slot(n, s, i)] = BlockOf(i, call.start[i] + s + 1)
  <2> DEFINE x == Slot(n, s, i)
  <2>1. x \in 0 .. n * call.steps - 1
    BY <1>3, <1>4, SlotInside
  <2>2. out'[x] = IF x \in row .. row + t.width - 1 THEN regs[x - row].s ELSE out[x]
    BY <1>2, <1>5, <2>1 DEF S, t, row
  <2>3. CASE x \in row .. row + t.width - 1
    <3> DEFINE j == x - row
    <3>1. j \in 0 .. t.width - 1 /\ x = row + j
      BY <1>6, <1>16, <2>1, <2>3
    <3> HIDE DEF j, x
    <3>2. t.base + j \in 0 .. n-1
      BY <1>9, <3>1
    <3>3. Slot(n, S, t.base + j) = x
      BY <1>4, <1>6, <1>7, <3>1 DEF Slot, row
    <3>4. s = S /\ i = t.base + j
      BY <1>4, <1>7, <3>2, <3>3, SlotUnique DEF x
    <3>5. regs[j].s = BlockOf(i, call.start[i] + (S + 1))
      BY <1>10, <3>1, <3>4 DEF InRegisters
    <3>6. call.start[i] \in Nat
      BY <1>1, <1>4 DEF IInv, TypeOK, CallType, n
    <3>7. call.start[i] + (S + 1) = call.start[i] + s + 1
      BY <1>7, <3>4, <3>6
    <3> QED BY <2>2, <2>3, <3>5, <3>7 DEF j, x
  <2>4. CASE x \notin row .. row + t.width - 1
    <3>1. ASSUME NEW v \in Hands, InRow(v, i, s)' PROVE InRow(v, i, s)
      <4>1. CASE v # w
        BY <4>1, <3>1, <1>13, <1>14, <1>15 DEF InRow
      <4>2. CASE v = w
        <5>1. Does(t, i, s) /\ s < S + 1
          BY <4>2, <3>1, <1>1, <1>12, <1>13, <1>14, <1>15 DEF InRow, t
        <5>2. s # S
          <6>1. ASSUME s = S PROVE FALSE
            <7>1. i \in t.base .. t.base + t.width - 1
              BY <5>1 DEF Does, Span
            <7>2. x = row + (i - t.base) /\ i - t.base \in 0 .. t.width - 1
              <8>1. S * n \in Nat
                BY <1>4, <1>7
              <8> QED BY <6>1, <7>1, <8>1, <1>6, <1>7 DEF Slot, row
            <7>3. x \in row .. row + t.width - 1
              <8> HIDE DEF x
              <8> QED BY <7>2, <1>6, <1>16
            <7> QED BY <7>3, <2>4
          <6> QED BY <6>1
        <5>3. s < S
          BY <5>1, <5>2, <1>7
        <5> QED BY <4>2, <5>1, <5>3, <1>1 DEF InRow, t, S, old
      <4> QED BY <4>1, <4>2
    <3>2. out[x] = BlockOf(i, call.start[i] + s + 1)
      BY <1>1, <1>4, <1>21, <3>1 DEF IInv, Written, n
    <3> QED BY <2>2, <2>4, <3>2
  <2> QED BY <2>3, <2>4
<1>22. Written'
  BY <1>2, <1>4, <1>15, <1>21, ZenonT(60) DEF Written
<1> QED BY <1>15, <1>18, <1>19, <1>20, <1>22 DEF IInv

(* The tiles a worker has left when it has done the first.                 *)
LEMMA TailTiles ==
  ASSUME NEW tiles \in Seq(TileType), Len(tiles) > 1
  PROVE  /\ Tail(tiles) \in Seq(TileType) /\ Tail(tiles) # <<>>
         /\ \A k \in DOMAIN Tail(tiles) :
              k + 1 \in DOMAIN tiles /\ 1 < k + 1 /\ Tail(tiles)[k] = tiles[k + 1]
         /\ \A k \in DOMAIN tiles \ {1} :
              k - 1 \in DOMAIN Tail(tiles) /\ Tail(tiles)[k - 1] = tiles[k]
         /\ SpanOf(Tail(tiles)) \subseteq SpanOf(tiles)
<1> DEFINE rest == Tail(tiles)
<1>1. /\ rest \in Seq(TileType) /\ Len(rest) = Len(tiles) - 1
      /\ \A k \in 1 .. Len(rest) : rest[k] = tiles[k + 1]
  <2>1. tiles # <<>>
    OBVIOUS
  <2> QED BY <2>1, HeadTailProperties
<1>2. Len(tiles) \in Nat /\ DOMAIN tiles = 1 .. Len(tiles)
  OBVIOUS
<1>3. DOMAIN rest = 1 .. Len(rest)
  BY <1>1
<1> HIDE DEF rest
<1>4. rest # <<>>
  BY <1>1, <1>2
<1>5. \A k \in DOMAIN rest : k + 1 \in DOMAIN tiles /\ 1 < k + 1 /\ rest[k] = tiles[k + 1]
  BY <1>1, <1>2, <1>3
<1>6. \A k \in DOMAIN tiles \ {1} : k - 1 \in DOMAIN rest /\ rest[k - 1] = tiles[k]
  <2> SUFFICES ASSUME NEW k \in DOMAIN tiles \ {1}
               PROVE  k - 1 \in DOMAIN rest /\ rest[k - 1] = tiles[k]
    OBVIOUS
  <2>1. k - 1 \in 1 .. Len(rest) /\ (k - 1) + 1 = k
    BY <1>1, <1>2
  <2> QED BY <2>1, <1>1, <1>3
<1>7. SpanOf(rest) \subseteq SpanOf(tiles)
  BY <1>5 DEF SpanOf
<1> QED BY <1>1, <1>4, <1>5, <1>6, <1>7 DEF rest

(* A lane that its tile stores.                                            *)
LEMMA StoredIs ==
  ASSUME IInv, NEW w \in Hands, job[w] # None, job[w].regs # None,
         job[w].s = Tile(w).to, NEW i \in Span(Tile(w))
  PROVE  LET r == job[w].regs[i - Tile(w).base]
             k == call.start[i] + Tile(w).to
         IN  /\ r \in RegisterType /\ r.s = BlockOf(i, k)
             /\ StepAfter(Tile(w), r) = k % WordMod
             /\ lanes[i].made + Tile(w).to - Tile(w).from = k
             /\ k \in 0 .. MaxBlocks /\ k % WordMod \in 0 .. WordMod-1
<1> DEFINE t == Tile(w)
           j == i - t.base
           r == job[w].regs[j]
           c == call.start[i]
           k == c + t.to
<1>1. /\ c \in Nat /\ lanes[i].made = c + t.from /\ c + call.steps <= MaxBlocks
  BY HeadNext
<1>2. /\ call.steps \in Nat \ {0} /\ IsTile(t, LaneCount, call.steps)
      /\ job[w] \in JobType(t.width)
  BY JobFacts DEF IInv
<1>3. /\ t.base \in Nat /\ t.width \in Nat /\ t.from \in Nat /\ t.to \in Nat /\ t.from < t.to
      /\ t.to <= call.steps /\ t.x4 \in BOOLEAN /\ (t.x4 => t.from = 0)
  BY <1>2 DEF IsTile, TileType
<1>4. i \in t.base .. t.base + t.width - 1
  BY DEF Span
<1>5. WordMod \in Nat \ {0} /\ MaxBlocks \in Nat
  BY ConstantTypes
<1>6. job[w].regs \in [0 .. t.width - 1 -> RegisterType]
  BY <1>2 DEF JobType
<1>7. ASSUME NEW l \in 0 .. t.width - 1
      PROVE  InRegisters(job[w].regs[l], t.x4, t.base + l, call.start[t.base + l],
                         call.start[t.base + l] + t.to)
  BY <1>7 DEF IInv, Loaded
<1> HIDE DEF t
<1>8. j \in 0 .. t.width - 1 /\ t.base + j = i
  BY <1>3, <1>4
<1> HIDE DEF j
<1>9. InRegisters(r, t.x4, i, c, k)
  BY <1>7, <1>8
<1>10. r \in RegisterType
  BY <1>6, <1>8
<1> HIDE DEF r, c
<1>11. k \in Nat /\ k <= MaxBlocks
  BY <1>1, <1>2, <1>3, <1>5
<1>12. lanes[i].made + t.to - t.from = k
  BY <1>1, <1>3
<1>13. k % WordMod \in 0 .. WordMod-1
  BY <1>5, <1>11, DivMod
<1>14. r.s = BlockOf(i, k)
  BY <1>9 DEF InRegisters
<1>15. StepAfter(t, r) = k % WordMod
  <2>1. CASE t.x4
    <3>1. r.step = c % WordMod
      BY <1>9, <2>1 DEF InRegisters
    <3>2. ((c % WordMod) + t.to) % WordMod = (c + t.to) % WordMod
      BY <1>1, <1>3, <1>5, ModAdd
    <3> QED BY <2>1, <3>1, <3>2 DEF StepAfter
  <2>2. CASE ~t.x4
    BY <1>9, <2>2 DEF InRegisters, StepAfter
  <2> QED BY <2>1, <2>2
<1>16. k \in 0 .. MaxBlocks
  BY <1>5, <1>11
<1> QED BY <1>10, <1>12, <1>13, <1>14, <1>15, <1>16 DEF t, j, r, c

LEMMA StoreKeeps ==
  ASSUME IInv, NEW w \in Hands, Store(w)
  PROVE  IInv'
<1> DEFINE t     == Tile(w)
           n     == LaneCount
           tiles == job[w].tiles
           regs  == job[w].regs
           rest  == [tiles |-> Tail(tiles), regs |-> None, s |-> 0]
           next  == IF Len(tiles) > 1 THEN rest ELSE None
           new(i) == [s |-> regs[i - t.base].s, step |-> StepAfter(t, regs[i - t.base]),
                      made |-> lanes[i].made + t.to - t.from]
<1>1. call # None /\ job[w] # None /\ regs # None /\ job[w].s = t.to
  BY DEF Store, Busy
<1>2. /\ lanes' = [i \in DOMAIN lanes |-> IF i \in Span(t) THEN new(i) ELSE lanes[i]]
      /\ job' = [job EXCEPT ![w] = next]
      /\ UNCHANGED <<mode, call, out, ret>>
  BY DEF Store, Span
<1>3. /\ w \in call.hands /\ call.steps \in Nat \ {0}
      /\ tiles \in Seq(TileType) /\ 1 \in DOMAIN tiles
      /\ t = tiles[1] /\ IsTile(t, n, call.steps)
      /\ Span(t) \subseteq 0 .. n-1
  BY <1>1, JobFacts DEF IInv
<1>4. /\ n \in Nat /\ n \in Sizes /\ DOMAIN lanes = 0 .. n-1
      /\ lanes \in [0 .. n-1 -> LaneStates]
  BY LanesAre DEF IInv
<1>5. DOMAIN lanes' = 0 .. n-1 /\ LaneCount' = n
  BY <1>2, <1>4 DEF LaneCount
<1> HIDE DEF n
<1>6. t.from \in Nat /\ t.to \in Nat /\ t.from < t.to /\ t.to <= call.steps
  BY <1>3 DEF IsTile, TileType
<1>7. ASSUME NEW i \in Span(t)
      PROVE  /\ lanes'[i] \in LaneStates
             /\ lanes'[i].made = call.start[i] + t.to
             /\ lanes'[i].s = BlockOf(i, call.start[i] + t.to)
             /\ lanes'[i].step = (call.start[i] + t.to) % WordMod
             /\ Gone(i) = t.from /\ Gone(i)' = t.to
             /\ i \in 0 .. n-1
             /\ \A x \in call.todo : i \notin Extent(x)
             /\ \A v \in Hands \ {w} : job[v] # None => i \notin SpanOf(job[v].tiles)
  <2> DEFINE r == regs[i - t.base]
             k == call.start[i] + t.to
  <2>1. /\ r \in RegisterType /\ r.s = BlockOf(i, k)
        /\ StepAfter(t, r) = k % WordMod
        /\ lanes[i].made + t.to - t.from = k
        /\ k \in 0 .. MaxBlocks /\ k % WordMod \in 0 .. WordMod-1
    BY <1>1, StoredIs
  <2>2. /\ Gone(i) = t.from /\ i \in 0 .. n-1 /\ call.start[i] \in Nat
        /\ \A x \in call.todo : i \notin Extent(x)
        /\ \A v \in Hands \ {w} : job[v] # None => i \notin SpanOf(job[v].tiles)
    BY <1>1, <1>4, HeadNext
  <2>3. lanes'[i] = [s |-> r.s, step |-> StepAfter(t, r), made |-> lanes[i].made + t.to - t.from]
    BY <1>2, <1>4, <2>2
  <2> HIDE DEF r, k, t
  <2>4. lanes'[i] = [s |-> BlockOf(i, k), step |-> k % WordMod, made |-> k]
    BY <2>1, <2>3
  <2>5. BlockOf(i, k) \in State
    BY <2>1 DEF RegisterType
  <2>6. lanes'[i] \in LaneStates
    BY <2>1, <2>4, <2>5 DEF LaneStates
  <2>7. lanes'[i].made = k /\ lanes'[i].s = BlockOf(i, k) /\ lanes'[i].step = k % WordMod
    BY <2>4
  <2>8. Gone(i)' = k - call.start[i]
    BY <1>2, <2>7 DEF Gone
  <2>9. Gone(i)' = t.to
    BY <1>6, <2>2, <2>8 DEF k
  <2> QED BY <2>2, <2>6, <2>7, <2>9 DEF k
<1>8. ASSUME NEW i \in 0 .. n-1, i \notin Span(t)
      PROVE  lanes'[i] = lanes[i] /\ Gone(i)' = Gone(i)
  <2>1. lanes'[i] = lanes[i]
    BY <1>2, <1>4, <1>8
  <2> QED BY <2>1, <1>2 DEF Gone
<1>9. /\ job' = [v \in Hands |-> IF v = w THEN next ELSE job[v]]
      /\ job'[w] = next /\ \A v \in Hands \ {w} : job'[v] = job[v]
  <2> HIDE DEF next
  <2>1. job = [v \in Hands |-> job[v]]
    BY DEF IInv, AtRest
  <2> QED BY <1>2, <2>1
<1>10. ASSUME Len(tiles) > 1
       PROVE  /\ next = rest /\ rest # None
              /\ rest.tiles = Tail(tiles) /\ rest.regs = None
              /\ rest \in JobType(Head(rest.tiles).width)
              /\ Tail(tiles) # <<>> /\ SpanOf(Tail(tiles)) \subseteq SpanOf(tiles)
              /\ \A k \in DOMAIN Tail(tiles) :
                   k + 1 \in DOMAIN tiles /\ 1 < k + 1 /\ Tail(tiles)[k] = tiles[k + 1]
              /\ \A k \in DOMAIN tiles \ {1} :
                   k - 1 \in DOMAIN Tail(tiles) /\ Tail(tiles)[k - 1] = tiles[k]
  <2>1. /\ Tail(tiles) \in Seq(TileType) /\ Tail(tiles) # <<>>
        /\ SpanOf(Tail(tiles)) \subseteq SpanOf(tiles)
        /\ \A k \in DOMAIN Tail(tiles) :
             k + 1 \in DOMAIN tiles /\ 1 < k + 1 /\ Tail(tiles)[k] = tiles[k + 1]
        /\ \A k \in DOMAIN tiles \ {1} :
             k - 1 \in DOMAIN Tail(tiles) /\ Tail(tiles)[k - 1] = tiles[k]
    <3> HIDE DEF tiles
    <3> QED BY <1>3, <1>10, TailTiles
  <2> DEFINE tail == Tail(tiles)
  <2>2. rest = [tiles |-> tail, regs |-> None, s |-> 0]
    OBVIOUS
  <2>3. next = rest
    BY <1>10
  <2>4. \A k \in DOMAIN tiles : IsTile(tiles[k], n, call.steps)
    BY <1>1 DEF IInv, Tiled, n
  <2> HIDE DEF tail, rest, next, tiles
  <2>5. Head(tail) = tail[1] /\ 1 \in DOMAIN tail
    BY <2>1 DEF tail
  <2>6. IsTile(Head(tail), n, call.steps)
    <3>1. 1 + 1 \in DOMAIN tiles /\ tail[1] = tiles[1 + 1]
      BY <2>1, <2>5 DEF tail
    <3> QED BY <2>4, <2>5, <3>1
  <2>7. Head(tail).width \in 0 .. n
    BY <2>6, <1>4 DEF IsTile, TileType
  <2>8. rest \in JobType(Head(tail).width)
    BY <2>1, <2>2 DEF JobType, tail
  <2>9. rest.tiles = tail /\ rest.regs = None
    BY <2>2
  <2>10. rest # None
    BY <1>4, <2>7, <2>8, JobApart
  <2> QED BY <2>1, <2>3, <2>8, <2>9, <2>10 DEF tail
<1>11. ~(Len(tiles) > 1) => next = None
  OBVIOUS
<1> HIDE DEF next, rest, tiles, regs, t, new
<1>12. \A i \in 0 .. n-1 : lanes'[i] \in LaneStates
  BY <1>4, <1>7, <1>8
<1>13. TypeOK'
  <2>1. lanes' \in [0 .. n-1 -> LaneStates]
    <3>1. lanes' = [i \in DOMAIN lanes' |-> lanes'[i]]
      BY <1>2
    <3> QED BY <3>1, <1>5, <1>12
  <2>2. /\ mode \in [simd : BOOLEAN, parallel : BOOLEAN, pool : BOOLEAN]
        /\ call \in CallType(n) /\ call.steps \in StepCounts \ {0}
        /\ out \in [0 .. n * call.steps - 1 -> State \cup {None}]
    BY <1>1 DEF IInv, TypeOK, n
  <2>3. \A v \in Hands : job'[v] # None =>
          /\ v \in call.hands
          /\ job'[v] \in JobType(Head(job'[v].tiles).width)
          /\ job'[v].regs # None =>
               job'[v].s \in Head(job'[v].tiles).from .. Head(job'[v].tiles).to
    BY <1>3, <1>9, <1>10, <1>11 DEF IInv, TypeOK, Tile
  <2> QED BY <1>1, <1>2, <1>4, <1>5, <2>1, <2>2, <2>3 DEF TypeOK, Tile
<1>14. AtRest'
  BY <1>1, <1>2, <1>9 DEF AtRest
<1>15. \A v \in Hands : job'[v] # None =>
         job[v] # None /\ SpanOf(job'[v].tiles) \subseteq SpanOf(job[v].tiles)
  BY <1>1, <1>9, <1>10, <1>11 DEF tiles
<1>16. Divided'
  <2>1. \A x \in call.todo : x.len >= 1 /\ x.first + x.len <= n
    BY <1>1 DEF IInv, Divided, n
  <2>2. \A x, y \in call.todo : x # y => Extent(x) \cap Extent(y) = {}
    BY <1>1 DEF IInv, Divided
  <2>3. ASSUME NEW v \in Hands, job'[v] # None
        PROVE  /\ \A x \in call.todo : SpanOf(job'[v].tiles) \cap Extent(x) = {}
               /\ \A u \in Hands \ {v} : job'[u] # None =>
                    SpanOf(job'[v].tiles) \cap SpanOf(job'[u].tiles) = {}
    <3>1. /\ \A x \in call.todo : SpanOf(job[v].tiles) \cap Extent(x) = {}
          /\ \A u \in Hands \ {v} : job[u] # None =>
               SpanOf(job[v].tiles) \cap SpanOf(job[u].tiles) = {}
      BY <1>1, <1>15, <2>3 DEF IInv, Divided
    <3> QED BY <3>1, <1>15, <2>3
  <2> QED BY <1>2, <1>5, <2>1, <2>2, <2>3 DEF Divided
<1>17. Tiled'
  <2>1. ASSUME NEW v \in Hands, job'[v] # None
        PROVE  /\ job'[v].tiles # <<>>
               /\ \A k \in DOMAIN job'[v].tiles : IsTile(job'[v].tiles[k], n, call.steps)
               /\ InOrder(job'[v].tiles)
    <3>1. CASE v # w
      BY <2>1, <3>1, <1>9 DEF IInv, Tiled, n
    <3>2. CASE v = w
      <4>1. Len(tiles) > 1 /\ job'[v].tiles = Tail(tiles)
        BY <2>1, <3>2, <1>9, <1>10, <1>11
      <4>2. InOrder(tiles) /\ \A k \in DOMAIN tiles : IsTile(tiles[k], n, call.steps)
        BY <1>1 DEF IInv, Tiled, n, tiles
      <4>3. \A k, l \in DOMAIN Tail(tiles) : k < l => k + 1 < l + 1
        <5>1. \A k \in DOMAIN Tail(tiles) : k \in Int
          BY <1>3, <4>1, TailTiles, ElementOfSeq
        <5> QED BY <5>1
      <4>4. InOrder(Tail(tiles))
        BY <1>10, <4>1, <4>2, <4>3 DEF InOrder
      <4> QED BY <1>10, <4>1, <4>2, <4>4
    <3> QED BY <3>1, <3>2
  <2> QED BY <1>2, <1>5, <2>1 DEF Tiled

<1>18. ASSUME NEW i \in 0 .. n-1, NEW s \in Gone(i)' .. call.steps - 1, Gone(i) \in Nat, Coming(i, s)
       PROVE  Coming(i, s)'
  <2>1. PICK v \in Hands : job[v] # None /\ \E k \in DOMAIN job[v].tiles : Does(job[v].tiles[k], i, s)
    BY <1>18 DEF Coming
  <2>2. CASE v # w
    BY <2>1, <2>2, <1>9 DEF Coming
  <2>3. CASE v = w
    <3>1. PICK k \in DOMAIN tiles : Does(tiles[k], i, s)
      BY <2>1, <2>3 DEF tiles
    <3>2. k # 1
      <4>1. ASSUME k = 1 PROVE FALSE
        <5>1. i \in Span(t) /\ s < t.to
          BY <4>1, <3>1, <1>3, <1>6 DEF Does
        <5>2. Gone(i)' = t.to
          BY <5>1, <1>7
        <5> QED BY <5>1, <5>2, <1>6, <1>18
      <4> QED BY <4>1
    <3>3. Len(tiles) > 1
      <4>1. tiles \in Seq(TileType) /\ k \in 1 .. Len(tiles)
        BY <1>3
      <4> QED BY <4>1, <3>2
    <3>4. /\ job'[w] = rest /\ rest # None /\ rest.tiles = Tail(tiles)
          /\ k - 1 \in DOMAIN Tail(tiles) /\ Tail(tiles)[k - 1] = tiles[k]
      BY <3>1, <3>2, <3>3, <1>9, <1>10
    <3> QED BY <3>1, <3>4 DEF Coming
  <2> QED BY <2>2, <2>3
<1>19. Progress'
  <2> SUFFICES ASSUME NEW i \in 0 .. n-1
               PROVE  /\ Gone(i)' \in 0 .. call.steps
                      /\ call.start[i] + call.steps <= MaxBlocks
                      /\ \A x \in call.todo : i \in Extent(x) => Gone(i)' = 0
                      /\ \A v \in Hands : job'[v] # None =>
                           \A k \in DOMAIN job'[v].tiles :
                             i \in Span(job'[v].tiles[k]) => Gone(i)' <= job'[v].tiles[k].from
                      /\ \/ \E x \in call.todo : i \in Extent(x)
                         \/ \A s \in Gone(i)' .. call.steps - 1 : Coming(i, s)'
    BY <1>1, <1>2, <1>5 DEF Progress
  <2>1. /\ Gone(i) \in 0 .. call.steps
        /\ call.start[i] + call.steps <= MaxBlocks
        /\ \A x \in call.todo : i \in Extent(x) => Gone(i) = 0
        /\ \A v \in Hands : job[v] # None =>
             \A k \in DOMAIN job[v].tiles :
               i \in Span(job[v].tiles[k]) => Gone(i) <= job[v].tiles[k].from
        /\ \/ \E x \in call.todo : i \in Extent(x)
           \/ \A s \in Gone(i) .. call.steps - 1 : Coming(i, s)
    BY <1>1, <1>4 DEF IInv, Progress
  <2>2. call.steps \in Nat /\ Gone(i) \in Nat
    BY <1>3, <2>1
  <2>3. Gone(i)' \in 0 .. call.steps /\ Gone(i) <= Gone(i)'
    <3>1. CASE i \in Span(t)
      <4>1. Gone(i) = t.from /\ Gone(i)' = t.to
        BY <3>1, <1>7
      <4> QED BY <4>1, <1>6, <2>2
    <3>2. CASE i \notin Span(t)
      BY <3>2, <1>8, <2>1, <2>2
    <3> QED BY <3>1, <3>2
  <2>4. \A x \in call.todo : i \in Extent(x) => Gone(i)' = 0
    BY <1>7, <1>8, <2>1
  <2>5. ASSUME NEW v \in Hands, job'[v] # None, NEW k \in DOMAIN job'[v].tiles,
               i \in Span(job'[v].tiles[k])
        PROVE  Gone(i)' <= job'[v].tiles[k].from
    <3>1. CASE v # w
      <4>1. job'[v] = job[v]
        BY <3>1, <1>9
      <4>2. i \in SpanOf(job[v].tiles)
        BY <2>5, <4>1 DEF SpanOf
      <4>3. i \notin Span(t)
        BY <2>5, <3>1, <4>1, <4>2, <1>7
      <4> QED BY <2>1, <2>5, <4>1, <4>3, <1>8
    <3>2. CASE v = w
      <4>1. Len(tiles) > 1 /\ job'[v].tiles = Tail(tiles)
        BY <2>5, <3>2, <1>9, <1>10, <1>11
      <4>2. k + 1 \in DOMAIN tiles /\ 1 < k + 1 /\ Tail(tiles)[k] = tiles[k + 1]
        BY <2>5, <4>1, <1>10
      <4>3. i \in Span(tiles[k + 1])
        BY <2>5, <4>1, <4>2
      <4>4. CASE i \in Span(t)
        <5>1. InOrder(tiles)
          BY <1>1 DEF IInv, Tiled, tiles
        <5>2. t.to <= tiles[k + 1].from
          BY <1>3, <4>2, <4>3, <4>4, <5>1 DEF InOrder
        <5> QED BY <1>7, <4>1, <4>2, <4>4, <5>2
      <4>5. CASE i \notin Span(t)
        BY <1>1, <1>8, <2>1, <4>1, <4>2, <4>3, <4>5 DEF tiles
      <4> QED BY <4>4, <4>5
    <3> QED BY <3>1, <3>2
  <2>6. ASSUME ~\E x \in call.todo : i \in Extent(x), NEW s \in Gone(i)' .. call.steps - 1
        PROVE  Coming(i, s)'
    <3>1. s \in Gone(i) .. call.steps - 1
      BY <2>2, <2>3
    <3>2. Coming(i, s)
      BY <2>1, <2>6, <3>1
    <3> QED BY <1>18, <2>2, <3>2
  <2> QED BY <2>1, <2>3, <2>4, <2>5, <2>6
<1>20. OnSchedule'
  BY <1>5, <1>7, <1>8, <1>4 DEF IInv, OnSchedule
<1>21. Loaded'
  BY <1>2, <1>9, <1>10, <1>11 DEF IInv, Loaded, Tile
<1>22. ASSUME NEW i \in 0 .. n-1, NEW s \in 0 .. call.steps - 1,
              s < Gone(i)' \/ \E v \in Hands : InRow(v, i, s)'
       PROVE  s < Gone(i) \/ \E v \in Hands : InRow(v, i, s)
  <2>1. CASE \E v \in Hands : InRow(v, i, s)'
    <3>1. PICK v \in Hands : InRow(v, i, s)'
      BY <2>1
    <3>2. v # w
      BY <3>1, <1>9, <1>10, <1>11 DEF InRow
    <3>3. InRow(v, i, s)
      BY <3>1, <3>2, <1>9 DEF InRow, Tile
    <3> QED BY <3>3
  <2>2. CASE s < Gone(i)'
    <3>1. CASE i \in Span(t)
      <4>1. s < t.to /\ Gone(i) = t.from
        BY <2>2, <3>1, <1>7
      <4>2. CASE s < t.from
        BY <4>1, <4>2
      <4>3. CASE ~(s < t.from)
        <5>1. s \in t.from .. t.to - 1
          BY <4>1, <4>3, <1>6
        <5>2. InRow(w, i, s)
          BY <5>1, <3>1, <4>1, <1>1 DEF InRow, Does, t, regs
        <5> QED BY <5>2
      <4> QED BY <4>2, <4>3
    <3>2. CASE i \notin Span(t)
      BY <2>2, <3>2, <1>8
    <3> QED BY <3>1, <3>2
  <2> QED BY <1>22, <2>1, <2>2
<1>23. Written'
  <2>1. \A i \in 0 .. n-1, s \in 0 .. call.steps - 1 :
          s < Gone(i)' \/ (\E v \in Hands : InRow(v, i, s)')
            => out[Slot(n, s, i)] = BlockOf(i, call.start[i] + s + 1)
    BY <1>1, <1>4, <1>22 DEF IInv, Written, n
  <2> QED BY <1>2, <1>5, <2>1 DEF Written
<1>24. Fitting'
  <2> DEFINE P == {v \in Worker : Busy(v)}
             T == {v \in Worker : Busy(v)'}
  <2>1. T \subseteq P
    BY <1>1, <1>15, HandsFacts DEF Busy
  <2>2. IsFiniteSet(P) /\ IsFiniteSet(T)
    BY HandsFacts, FS_Subset
  <2> HIDE DEF P, T
  <2>3. Cardinality(T) <= Cardinality(P)
    BY <2>1, <2>2, FS_Subset
  <2>4. Cardinality(T) \in Nat /\ Cardinality(P) \in Nat
    BY <2>2, FS_CardinalityType
  <2>5. IsFiniteSet(call.todo) /\ Cardinality(call.todo) \in Nat
    <3>1. IsFiniteSet(call.todo)
      BY <1>1 DEF IInv, Fitting
    <3> QED BY <3>1, FS_CardinalityType
  <2>6. ASSUME call.hands = Worker
        PROVE  /\ Cardinality(call.todo) + Cardinality(T) <= Threads
               /\ \A x \in call.todo :
                    x.first % 4 = 0 /\ (x.len % 4 = 0 \/ x.first + x.len = n)
    <3>1. /\ Cardinality(call.todo) + Cardinality(P) <= Threads
          /\ \A x \in call.todo :
               x.first % 4 = 0 /\ (x.len % 4 = 0 \/ x.first + x.len = n)
      BY <2>6, <1>1 DEF IInv, Fitting, ItemsFitPool, n, P
    <3> QED BY <3>1, <2>3, <2>4, <2>5, HandsFacts
  <2> QED BY <1>2, <1>5, <2>5, <2>6 DEF Fitting, ItemsFitPool, T
<1> QED BY <1>13, <1>14, <1>16, <1>17, <1>19, <1>20, <1>21, <1>23, <1>24 DEF IInv

-----------------------------------------------------------------------------
(* The end of a call, and the theorems.                                    *)

LEMMA ReturnKeeps ==
  ASSUME IInv, Return
  PROVE  IInv'
<1>1. call' = None /\ (\A w \in Hands : job[w] = None) /\ UNCHANGED <<mode, lanes, job, out>>
  BY DEF Return
<1>2. TypeOK'
  BY <1>1 DEF IInv, TypeOK
<1>3. OnSchedule'
  BY <1>1 DEF IInv, OnSchedule
<1>4. AtRest'
  BY <1>1 DEF IInv, AtRest
<1> QED BY <1>1, <1>2, <1>3, <1>4
    DEF IInv, Divided, Tiled, Progress, Loaded, Written, Fitting, ItemsFitPool

LEMMA StutterKeeps ==
  ASSUME IInv, UNCHANGED vars
  PROVE  IInv'
<1>1. UNCHANGED <<mode, lanes, call, job, out, ret>>
  BY DEF vars
<1>2. /\ Divided' /\ Tiled' /\ Progress' /\ OnSchedule' /\ Fitting'
      /\ LaneCount' = LaneCount
      /\ \A i : Gone(i)' = Gone(i)
      /\ \A v \in Hands : job[v] # None => Tile(v)' = Tile(v)
  BY <1>1, SameTilesKeep
<1>3. TypeOK' /\ AtRest'
  BY <1>1 DEF IInv, TypeOK, AtRest, LaneCount, Tile
<1>4. Loaded'
  BY <1>1, <1>2 DEF IInv, Loaded
<1>5. \A v, i, s : InRow(v, i, s)' => InRow(v, i, s)
  BY <1>1 DEF InRow, Tile
<1>6. Written'
  BY <1>1, <1>2, <1>5 DEF IInv, Written
<1> QED BY <1>2, <1>3, <1>4, <1>6 DEF IInv

LEMMA NextKeeps == IInv /\ [Next]_vars => IInv'
<1> SUFFICES ASSUME IInv, [Next]_vars PROVE IInv'
  OBVIOUS
<1>1. ASSUME NEW steps \in StepCounts, Begin(steps) PROVE IInv'
  BY <1>1, BeginKeeps
<1>2. ASSUME NEW steps \in StepCounts, BeginNothing(steps) PROVE IInv'
  BY <1>2, BeginNothingKeeps
<1>3. ASSUME NEW w \in Hands, Take(w) PROVE IInv'
  BY <1>3, TakeKeeps
<1>4. ASSUME NEW w \in Hands, Load(w) PROVE IInv'
  BY <1>4, LoadKeeps
<1>5. ASSUME NEW w \in Hands, Row(w) PROVE IInv'
  BY <1>5, RowKeeps
<1>6. ASSUME NEW w \in Hands, Store(w) PROVE IInv'
  BY <1>6, StoreKeeps
<1>7. CASE Return
  BY <1>7, ReturnKeeps
<1>8. CASE UNCHANGED vars
  BY <1>8, StutterKeeps
<1> QED BY <1>1, <1>2, <1>3, <1>4, <1>5, <1>6, <1>7, <1>8 DEF Next

(* Every state of every execution satisfies the inductive invariant: the   *)
(* lanes of a call are divided among items and workers, every worker is    *)
(* where its tile and its registers say, and the blocks written so far are *)
(* those of the streams.                                                   *)
THEOREM Invariance == Spec => []IInv
BY InitIInv, NextKeeps, PTL DEF Spec

(* The lanes, calls, work items and buffers have their types, for every    *)
(* batch, pool and tuning.                                                 *)
THEOREM TypeCorrect == Spec => []TypeOK
<1>1. IInv => TypeOK
  BY DEF IInv
<1> QED BY <1>1, Invariance, PTL

(* The pool never gets more work items than it has threads, and only the   *)
(* last item may end inside a group of four lanes.                         *)
THEOREM PoolFits == Spec => []ItemsFitPool
<1>1. IInv => ItemsFitPool
  BY DEF IInv, Fitting
<1> QED BY <1>1, Invariance, PTL

LEMMA IInvApart == IInv => WorkersApart
<1> SUFFICES ASSUME IInv, NEW w \in Hands, Busy(w)
             PROVE  /\ Writes(w) \subseteq DOMAIN out
                    /\ \A v \in Hands \ {w} : Busy(v) => Writes(w) \cap Writes(v) = {}
                    /\ \A item \in call.todo, k \in DOMAIN job[w].tiles :
                         Span(job[w].tiles[k]) \cap (item.first .. item.first + item.len - 1) = {}
  BY DEF WorkersApart
<1>1. /\ call # None /\ job[w] # None
      /\ call.steps \in Nat \ {0} /\ LaneCount \in Nat
      /\ DOMAIN out = 0 .. LaneCount * call.steps - 1
  <2>1. call # None /\ job[w] # None
    BY DEF Busy
  <2> QED BY <2>1, LanesAre, JobFacts DEF IInv, TypeOK
<1>2. ASSUME NEW v \in Hands, job[v] # None, NEW x \in Writes(v)
      PROVE  \E i \in SpanOf(job[v].tiles), s \in 0 .. call.steps - 1 :
               i \in 0 .. LaneCount - 1 /\ x = Slot(LaneCount, s, i)
  <2>1. PICK k \in DOMAIN job[v].tiles :
          \E s \in job[v].tiles[k].from .. job[v].tiles[k].to - 1, i \in Span(job[v].tiles[k]) :
            x = Slot(LaneCount, s, i)
    BY <1>2 DEF Writes
  <2> DEFINE t == job[v].tiles[k]
  <2>2. PICK s \in t.from .. t.to - 1, i \in Span(t) : x = Slot(LaneCount, s, i)
    BY <2>1
  <2>3. IsTile(t, LaneCount, call.steps)
    BY <1>2 DEF IInv, Tiled
  <2>4. i \in SpanOf(job[v].tiles)
    BY DEF SpanOf
  <2> HIDE DEF t
  <2>5. /\ t.base \in Nat /\ t.width \in Nat /\ t.from \in Nat /\ t.to \in Nat
        /\ t.base + t.width <= LaneCount /\ t.to <= call.steps
    BY <2>3 DEF IsTile, TileType
  <2>6. i \in 0 .. LaneCount - 1
    BY <1>1, <2>5 DEF Span
  <2>7. s \in 0 .. call.steps - 1
    BY <1>1, <2>5
  <2> QED BY <2>2, <2>4, <2>6, <2>7
<1>3. Writes(w) \subseteq DOMAIN out
  BY <1>1, <1>2, SlotInside
<1>4. ASSUME NEW v \in Hands \ {w}, Busy(v) PROVE Writes(w) \cap Writes(v) = {}
  <2>1. job[v] # None /\ SpanOf(job[w].tiles) \cap SpanOf(job[v].tiles) = {}
    BY <1>1, <1>4 DEF IInv, Divided, Busy
  <2>2. ASSUME NEW x \in Writes(w), x \in Writes(v) PROVE FALSE
    <3>1. PICK i \in SpanOf(job[w].tiles), s \in 0 .. call.steps - 1 :
            i \in 0 .. LaneCount - 1 /\ x = Slot(LaneCount, s, i)
      BY <1>1, <1>2
    <3>2. PICK j \in SpanOf(job[v].tiles), r \in 0 .. call.steps - 1 :
            j \in 0 .. LaneCount - 1 /\ x = Slot(LaneCount, r, j)
      BY <1>2, <2>1, <2>2
    <3>3. i = j
      <4>1. s \in Nat /\ r \in Nat /\ Slot(LaneCount, s, i) = Slot(LaneCount, r, j)
        BY <1>1, <3>1, <3>2
      <4> QED BY <1>1, <3>1, <3>2, <4>1, SlotUnique
    <3> QED BY <2>1, <3>3
  <2> QED BY <2>2
<1>5. \A item \in call.todo, k \in DOMAIN job[w].tiles :
        Span(job[w].tiles[k]) \cap (item.first .. item.first + item.len - 1) = {}
  BY <1>1 DEF IInv, Divided, SpanOf, Extent
<1> QED BY <1>3, <1>4, <1>5

(* The SAFETY comments of src/dispatch.rs and of the kernels: no two       *)
(* workers share a block of the buffer or a lane, and every write stays    *)
(* within the buffer.                                                      *)
THEOREM Apart == Spec => []WorkersApart
BY IInvApart, Invariance, PTL

-----------------------------------------------------------------------------
(* A call implements a step of LaneStreams.                                *)

(* When every item is done, every lane is.                                 *)
LEMMA CallDone ==
  ASSUME IInv, call # None, call.todo = {}, \A w \in Hands : job[w] = None,
         NEW i \in DOMAIN lanes
  PROVE  /\ call.start[i] \in Nat /\ call.start[i] + call.steps <= MaxBlocks
         /\ Gone(i) = call.steps /\ lanes[i].made = call.start[i] + call.steps
<1>1. /\ DOMAIN lanes = 0 .. LaneCount - 1 /\ lanes \in [0 .. LaneCount - 1 -> LaneStates]
  BY LanesAre DEF IInv
<1>2. call.start[i] \in Nat /\ call.steps \in Nat
  BY <1>1, ConstantTypes DEF IInv, TypeOK, CallType
<1>3. /\ Gone(i) \in 0 .. call.steps /\ call.start[i] + call.steps <= MaxBlocks
      /\ \A s \in Gone(i) .. call.steps - 1 : Coming(i, s)
  BY DEF IInv, Progress
<1>4. \A s : ~Coming(i, s)
  BY DEF Coming
<1>5. Gone(i) = call.steps
  <2>1. ASSUME Gone(i) < call.steps PROVE FALSE
    <3>1. Gone(i) \in Gone(i) .. call.steps - 1
      BY <1>2, <1>3, <2>1
    <3> QED BY <1>3, <1>4, <3>1
  <2> QED BY <1>2, <1>3, <2>1
<1>6. lanes[i].made \in Nat
  BY <1>1, ConstantTypes DEF LaneStates
<1>7. lanes[i].made = call.start[i] + call.steps
  BY <1>2, <1>5, <1>6 DEF Gone
<1> QED BY <1>2, <1>3, <1>5, <1>7

(* The buffer then holds the blocks of the call, step-major.               *)
LEMMA CallWritten ==
  ASSUME IInv, call # None, call.todo = {}, \A w \in Hands : job[w] = None,
         NEW x \in 0 .. LaneCount * call.steps - 1
  PROVE  /\ x % LaneCount \in 0 .. LaneCount - 1
         /\ out[x] = BlockAt(Origin(x % LaneCount),
                             call.start[x % LaneCount] + x \div LaneCount + 1)
<1> DEFINE n == LaneCount
           i == x % n
           s == x \div n
<1>1. n \in Nat /\ DOMAIN lanes = 0 .. n - 1
  BY LanesAre DEF IInv
<1>2. call.steps \in Nat
  BY ConstantTypes DEF IInv, TypeOK
<1> HIDE DEF n
<1>3. n \in Nat \ {0} /\ x \in Nat
  BY <1>1, <1>2 DEF n
<1>4. i \in 0 .. n-1 /\ s \in Nat /\ x = n * s + i
  BY <1>3, DivMod
<1>5. s \in 0 .. call.steps - 1
  BY <1>2, <1>3, QuotBound DEF n
<1> HIDE DEF i, s
<1>6. Slot(n, s, i) = x
  BY <1>3, <1>4 DEF Slot
<1>7. s < Gone(i)
  BY <1>1, <1>2, <1>4, <1>5, CallDone
<1>8. out[Slot(n, s, i)] = BlockOf(i, call.start[i] + s + 1)
  BY <1>1, <1>4, <1>5, <1>7 DEF IInv, Written, n
<1> QED BY <1>4, <1>6, <1>8 DEF BlockOf, i, s, n

LEMMA InitRefines == Init => LS!Init
<1> SUFFICES ASSUME Init PROVE LS!Init
  OBVIOUS
<1>1. PICK n \in Sizes : lanes = [i \in 0 .. n-1 |-> [s |-> Origin(i), step |-> 0, made |-> 0]]
  BY DEF Init
<1>2. call = None /\ ret = [x \in {} |-> 0]
  BY DEF Init
<1>3. Given = [i \in 0 .. n-1 |-> 0]
  BY <1>1, <1>2 DEF Given
<1> QED BY <1>2, <1>3 DEF LS!Init

(* Nothing shows of a call until it returns.                               *)
LEMMA Unseen ==
  ASSUME DOMAIN lanes' = DOMAIN lanes, ret' = ret,
         call # None => call' # None /\ call'.start = call.start,
         call = None => \A i \in DOMAIN lanes :
           IF call' = None THEN lanes'[i].made = lanes[i].made
           ELSE call'.start[i] = lanes[i].made
  PROVE  UNCHANGED LS!vars
<1>1. Given' = Given
  BY DEF Given
<1> QED BY <1>1 DEF LS!vars

LEMMA NothingRefines ==
  ASSUME IInv, NEW steps \in StepCounts, BeginNothing(steps)
  PROVE  LS!FillBlocks(LaneCount, steps)
<1> DEFINE n == LaneCount
<1>1. call = None /\ (n = 0 \/ steps = 0) /\ ret' = [x \in {} |-> 0]
      /\ UNCHANGED <<lanes, call>>
  BY DEF BeginNothing
<1>2. n \in Nat /\ DOMAIN lanes = 0 .. n-1 /\ lanes \in [0 .. n-1 -> LaneStates]
  BY LanesAre DEF IInv
<1>3. Given = [i \in 0 .. n-1 |-> lanes[i].made] /\ Given' = Given
  BY <1>1, <1>2 DEF Given
<1> HIDE DEF n
<1>4. steps \in Nat /\ MaxBlocks \in Nat
  BY ConstantTypes
<1>5. \A i \in 0 .. n-1 : lanes[i].made \in 0 .. MaxBlocks /\ steps = 0
  BY <1>1, <1>2 DEF LaneStates
<1>6. \A i \in 0 .. n-1 : Given[i] + steps <= MaxBlocks /\ Given[i] + steps = Given[i]
  BY <1>3, <1>4, <1>5
<1>7. Given' = [i \in 0 .. n-1 |-> Given[i] + steps]
  <2>1. DOMAIN Given = 0 .. n-1 /\ Given = [i \in 0 .. n-1 |-> Given[i]]
    BY <1>3
  <2> QED BY <1>3, <1>6, <2>1
<1>8. n * steps = 0
  BY <1>1, <1>2, <1>4
<1>9. 0 .. n * steps - 1 = {}
  BY <1>8
<1>10. ret' = LS!Blocks(n, steps)
  BY <1>1, <1>9 DEF LS!Blocks
<1>11. LS!Lane = 0 .. n-1
  BY <1>3 DEF LS!Lane
<1> QED BY <1>6, <1>7, <1>10, <1>11 DEF LS!FillBlocks, n

LEMMA ReturnRefines ==
  ASSUME IInv, Return
  PROVE  LS!FillBlocks(LaneCount, call.steps) /\ call.steps \in StepCounts
<1> DEFINE n == LaneCount
           steps == call.steps
<1>1. /\ call # None /\ call.todo = {} /\ \A w \in Hands : job[w] = None
      /\ ret' = out /\ call' = None /\ lanes' = lanes
  BY DEF Return
<1>2. n \in Nat /\ DOMAIN lanes = 0 .. n-1
  BY LanesAre DEF IInv
<1>3. steps \in StepCounts /\ out \in [0 .. n * steps - 1 -> State \cup {None}]
  BY <1>1 DEF IInv, TypeOK
<1>4. /\ Given = [i \in 0 .. n-1 |-> call.start[i]]
      /\ Given' = [i \in 0 .. n-1 |-> lanes[i].made]
  BY <1>1, <1>2 DEF Given
<1>5. \A i \in 0 .. n-1 :
        Given[i] + steps <= MaxBlocks /\ lanes[i].made = Given[i] + steps
  BY <1>1, <1>2, <1>4, CallDone
<1>6. \A x \in 0 .. n * steps - 1 :
        out[x] = BlockAt(Origin(x % n), Given[x % n] + x \div n + 1)
  BY <1>1, <1>4, CallWritten
<1> HIDE DEF n, steps
<1>7. Given' = [i \in 0 .. n-1 |-> Given[i] + steps]
  BY <1>4, <1>5
<1>8. ret' = LS!Blocks(n, steps)
  <2>1. out = [x \in 0 .. n * steps - 1 |-> out[x]]
    BY <1>3
  <2> QED BY <1>1, <1>6, <2>1 DEF LS!Blocks
<1>9. LS!Lane = 0 .. n-1
  BY <1>4 DEF LS!Lane
<1> QED BY <1>3, <1>5, <1>7, <1>8, <1>9 DEF LS!FillBlocks, n, steps

LEMMA StepRefines == IInv /\ [Next]_vars => [LS!Next]_LS!vars
<1> SUFFICES ASSUME IInv, [Next]_vars PROVE [LS!Next]_LS!vars
  OBVIOUS
<1>1. LaneCount \in Sizes /\ DOMAIN lanes = 0 .. LaneCount - 1
      /\ (call # None => call \in CallType(LaneCount))
  BY LanesAre DEF IInv, TypeOK
<1>2. ASSUME NEW steps \in StepCounts, Begin(steps) PROVE UNCHANGED LS!vars
  <2>1. IInv'
    BY <1>2, BeginKeeps
  <2>2. call = None /\ lanes' = lanes /\ ret' = ret
        /\ \A i \in DOMAIN lanes : call'.start[i] = lanes[i].made
    BY <1>2 DEF Begin
  <2> QED BY <2>2, Unseen
<1>3. ASSUME NEW steps \in StepCounts, BeginNothing(steps) PROVE LS!Next
  BY <1>1, <1>3, NothingRefines DEF LS!Next
<1>4. ASSUME NEW w \in Hands, Take(w) PROVE UNCHANGED LS!vars
  <2>1. PICK x \in call.todo : call' = [call EXCEPT !.todo = @ \ {x}]
    BY <1>4 DEF Take
  <2>2. call # None /\ lanes' = lanes /\ ret' = ret
    BY <1>4 DEF Take
  <2>3. call' \in CallType(LaneCount) /\ call'.start = call.start
    BY <1>1, <2>1, <2>2 DEF CallType
  <2>4. call' # None
    BY <1>1, <2>3, CallApart
  <2> QED BY <2>2, <2>3, <2>4, Unseen
<1>5. ASSUME NEW w \in Hands, Load(w) \/ Row(w) PROVE UNCHANGED LS!vars
  BY <1>5, Unseen DEF Load, Row, Busy
<1>6. ASSUME NEW w \in Hands, Store(w) PROVE UNCHANGED LS!vars
  <2>1. call # None /\ call' = call /\ ret' = ret /\ DOMAIN lanes' = DOMAIN lanes
    BY <1>6 DEF Store, Busy
  <2> QED BY <2>1, Unseen
<1>7. CASE Return
  BY <1>1, <1>7, ReturnRefines DEF LS!Next
<1>8. CASE UNCHANGED vars
  BY <1>8 DEF vars, LS!vars, Given
<1> QED BY <1>2, <1>3, <1>4, <1>5, <1>6, <1>7, <1>8 DEF Next

(* A call of fill_blocks implements LaneStreams: whatever the backend, the *)
(* plan, the pool and the order in which the workers run, it returns the   *)
(* next blocks of every lane, step-major, and nothing else shows.          *)
THEOREM DispatchRefines == Spec => ImplementsLaneStreams
BY InitRefines, StepRefines, Invariance, PTL DEF Spec, ImplementsLaneStreams, LS!Spec

=============================================================================
