----------------------------- MODULE HeapProofs -----------------------------
(***************************************************************************)
(* The allocator keeps its lists, for any number of blocks on each.        *)
(*                                                                         *)
(* The argument: every list is a sequence without repetitions of the       *)
(* blocks of its size that are not in use, the linked list runs through it *)
(* from head to tail (IsList), and a block in use lies on the list that    *)
(* find_order sent its request to, so that kfree, which only has the       *)
(* address, brings it back there (GrantsInPlace).  The rest is arithmetic: *)
(* where the lists lie, and what find_order and find_size compute.         *)
(***************************************************************************)
EXTENDS Heap, FiniteSetTheorems, SequenceTheorems, WellFoundedInduction, TLAPS

(* The list of an order is q.                                              *)
IsList(o, q) ==
  /\ q \in Seq(BlocksOf(o)) /\ Len(q) = numFree[o]
  /\ \A i, j \in 1 .. Len(q) : q[i] = q[j] => i = j
  /\ \A b \in BlocksOf(o) : grant[b] = 0 <=> \E i \in 1 .. Len(q) : q[i] = b
  /\ head[o] = IF Len(q) = 0 THEN Null ELSE q[1]
  /\ Len(q) # 0 => tail[o] = q[Len(q)]
  /\ \A i \in 1 .. Len(q) : next[q[i]] = IF i = Len(q) THEN Null ELSE q[i + 1]

GrantsInPlace ==
  \A o \in Order : \A b \in BlocksOf(o) : grant[b] # 0 => o = FindOrder(grant[b])

Functions ==
  /\ head \in [Order -> Block \cup {Null}] /\ tail \in [Order -> Block \cup {Null}]
  /\ numFree \in [Order -> Nat]
  /\ next \in [Block -> Block \cup {Null}] /\ grant \in [Block -> Sizes \cup {0}]

(* The inductive invariant.                                                *)
HeapInv ==
  /\ Functions
  /\ \A o \in Order : \E q : IsList(o, q)
  /\ GrantsInPlace

----------------------------------------------------------------------------
(* Powers of two.                                                          *)
LEMMA Powers ==
  /\ 2 ^ 0 = 1 /\ 2 ^ 1 = 2 /\ 2 ^ 2 = 4 /\ 2 ^ 3 = 8 /\ 2 ^ 4 = 16 /\ 2 ^ 5 = 32 /\ 2 ^ 6 = 64
  /\ 2 ^ 7 = 128 /\ 2 ^ 8 = 256 /\ 2 ^ 9 = 512 /\ 2 ^ 10 = 1024 /\ 2 ^ 11 = 2048
  /\ 2 ^ 12 = 4096 /\ 2 ^ 13 = 8192 /\ 2 ^ 14 = 16384 /\ 2 ^ 15 = 32768
OBVIOUS

(* Where the lists lie.                                                    *)
LEMMA Lengths ==
  ASSUME NEW o \in Order
  PROVE  /\ SizeOf(o) \in Nat \ {0} /\ Base(o) \in Nat /\ Base(o + 1) \in Nat
         /\ Base(o + 1) = Base(o) + BlockNum * SizeOf(o)
<1> USE BlockNumAssumption DEF MIN_BLOCK, SizeOf, Base, Order, MAX_ORDER
<1>1. CASE o = 0
  BY <1>1, Powers
<1>2. CASE o = 1
  BY <1>2, Powers
<1>3. CASE o = 2
  BY <1>3, Powers
<1>4. CASE o = 3
  BY <1>4, Powers
<1>5. CASE o = 4
  BY <1>5, Powers
<1>6. CASE o = 5
  BY <1>6, Powers
<1>7. CASE o = 6
  BY <1>7, Powers
<1>8. CASE o = 7
  BY <1>8, Powers
<1>9. CASE o = 8
  BY <1>9, Powers
<1>10. CASE o = 9
  BY <1>10, Powers
<1> QED
  BY <1>1, <1>2, <1>3, <1>4, <1>5, <1>6, <1>7, <1>8, <1>9, <1>10

LEMMA ListsInOrder ==
  ASSUME NEW o \in 0 .. 10, NEW p \in 0 .. o
  PROVE  Base(p) <= Base(o)
<1>1. \A k \in 0 .. 10 : Base(k) \in Nat
  BY Lengths DEF Order, MAX_ORDER
<1>2. \A k \in 0 .. 9 : Base(k) <= Base(k + 1)
  BY Lengths, BlockNumAssumption DEF Order, MAX_ORDER
<1>3. /\ Base(0) <= Base(1) /\ Base(1) <= Base(2) /\ Base(2) <= Base(3) /\ Base(3) <= Base(4)
      /\ Base(4) <= Base(5) /\ Base(5) <= Base(6) /\ Base(6) <= Base(7) /\ Base(7) <= Base(8)
      /\ Base(8) <= Base(9) /\ Base(9) <= Base(10)
  BY <1>2
<1> QED
  BY <1>1, <1>3

LEMMA BlocksLie ==
  ASSUME NEW o \in Order, NEW b \in BlocksOf(o)
  PROVE  b \in Nat /\ Base(o) <= b /\ b < Base(o + 1) /\ b # Null
<1>1. PICK i \in 0 .. BlockNum - 1 : b = Base(o) + i * SizeOf(o)
  BY DEF BlocksOf
<1>2. \A n, m, x \in Nat : n < m /\ x # 0 => n * x \in Nat /\ n * x < m * x
  OBVIOUS
<1>3. i * SizeOf(o) \in Nat /\ i * SizeOf(o) < BlockNum * SizeOf(o)
  BY <1>2, Lengths, BlockNumAssumption
<1> QED
  BY <1>1, <1>3, Lengths, BlockNumAssumption DEF Null

LEMMA ListsApart ==
  ASSUME NEW o \in Order, NEW p \in Order, NEW b \in BlocksOf(o), b \in BlocksOf(p)
  PROVE  o = p
<1>1. /\ b \in Nat /\ Base(o) <= b /\ b < Base(o + 1) /\ Base(p) <= b /\ b < Base(p + 1)
  BY BlocksLie
<1>2. /\ Base(o) \in Nat /\ Base(o + 1) \in Nat /\ Base(p) \in Nat /\ Base(p + 1) \in Nat
  BY Lengths
<1>3. ~(o < p)
  <2> SUFFICES ASSUME o < p PROVE FALSE
    OBVIOUS
  <2>1. Base(o + 1) <= Base(p)
    BY ListsInOrder DEF Order, MAX_ORDER
  <2> QED
    BY <1>1, <1>2, <2>1
<1>4. ~(p < o)
  <2> SUFFICES ASSUME p < o PROVE FALSE
    OBVIOUS
  <2>1. Base(p + 1) <= Base(o)
    BY ListsInOrder DEF Order, MAX_ORDER
  <2> QED
    BY <1>1, <1>2, <2>1
<1> QED
  BY <1>3, <1>4 DEF Order, MAX_ORDER

(* find_size.                                                              *)
LEMMA SizeIsFound ==
  ASSUME NEW o \in Order, NEW b \in BlocksOf(o)
  PROVE  FindSize(b) = SizeOf(o)
<1> DEFINE Passed(p) == b < Base(p + 1) /\ \A x \in 0 .. p - 1 : b >= Base(x + 1)
<1>1. b \in Nat /\ Base(o) <= b /\ b < Base(o + 1) /\ \A p \in 0 .. 10 : Base(p) \in Nat
  BY BlocksLie, Lengths DEF Order, MAX_ORDER
<1>2. Passed(o)
  <2>1. \A x \in 0 .. o - 1 : Base(x + 1) <= Base(o)
    BY ListsInOrder DEF Order, MAX_ORDER
  <2> QED
    BY <1>1, <2>1 DEF Order, MAX_ORDER
<1>3. ASSUME NEW p \in Order, Passed(p) PROVE p = o
  <2>1. ~(o < p)
    BY <1>1, <1>3 DEF Order, MAX_ORDER
  <2>2. ~(p < o)
    <3>1. p < o => Base(p + 1) <= Base(o)
      BY ListsInOrder DEF Order, MAX_ORDER
    <3> QED
      BY <1>1, <1>3, <3>1 DEF Order, MAX_ORDER
  <2> QED
    BY <2>1, <2>2 DEF Order, MAX_ORDER
<1>4. (CHOOSE p \in Order : Passed(p)) = o
  <2> HIDE DEF Passed
  <2> QED
    BY <1>2, <1>3
<1> QED
  BY <1>4 DEF FindSize

(* find_order.                                                             *)
LEMMA CtzOfPowers ==
  /\ Ctz(0) = 0 /\ Ctz(1) = 0 /\ Ctz(2) = 1 /\ Ctz(4) = 2 /\ Ctz(8) = 3 /\ Ctz(16) = 4
  /\ Ctz(32) = 5 /\ Ctz(64) = 6 /\ Ctz(128) = 7
<1> DEFINE IsCtz(x, k) == x % 2 ^ k = 0 /\ (x \div 2 ^ k) % 2 = 1
<1>1. /\ IsCtz(1, 0) /\ IsCtz(2, 1) /\ IsCtz(4, 2) /\ IsCtz(8, 3) /\ IsCtz(16, 4)
      /\ IsCtz(32, 5) /\ IsCtz(64, 6) /\ IsCtz(128, 7)
  BY Powers
<1>2. ASSUME NEW k \in 0 .. 7
      PROVE  /\ IsCtz(1, k) => k = 0
             /\ IsCtz(2, k) => k = 1
             /\ IsCtz(4, k) => k = 2
             /\ IsCtz(8, k) => k = 3
             /\ IsCtz(16, k) => k = 4
             /\ IsCtz(32, k) => k = 5
             /\ IsCtz(64, k) => k = 6
             /\ IsCtz(128, k) => k = 7
  <2>0. CASE k = 0
    BY <2>0, Powers
  <2>1. CASE k = 1
    BY <2>1, Powers
  <2>2. CASE k = 2
    BY <2>2, Powers
  <2>3. CASE k = 3
    BY <2>3, Powers
  <2>4. CASE k = 4
    BY <2>4, Powers
  <2>5. CASE k = 5
    BY <2>5, Powers
  <2>6. CASE k = 6
    BY <2>6, Powers
  <2>7. CASE k = 7
    BY <2>7, Powers
  <2> QED
    BY <2>0, <2>1, <2>2, <2>3, <2>4, <2>5, <2>6, <2>7
<1>3. \A x : x # 0 => Ctz(x) = CHOOSE k \in 0 .. 7 : IsCtz(x, k)
  BY DEF Ctz
<1>4. Ctz(0) = 0
  BY DEF Ctz
<1> HIDE DEF IsCtz
<1> QED
  BY <1>1, <1>2, <1>3, <1>4

Twos == {1, 2, 4, 8, 16, 32, 64, 128, 256, 512, 1024, 2048, 4096, 8192, 16384, 32768}

LEMMA TwosArePowers == {2 ^ k : k \in 0 .. 15} = Twos
<1>1. ASSUME NEW i \in 0 .. 15 PROVE 2 ^ i \in Twos
  <2>0. CASE i = 0
    BY <2>0, Powers DEF Twos
  <2>1. CASE i = 1
    BY <2>1, Powers DEF Twos
  <2>2. CASE i = 2
    BY <2>2, Powers DEF Twos
  <2>3. CASE i = 3
    BY <2>3, Powers DEF Twos
  <2>4. CASE i = 4
    BY <2>4, Powers DEF Twos
  <2>5. CASE i = 5
    BY <2>5, Powers DEF Twos
  <2>6. CASE i = 6
    BY <2>6, Powers DEF Twos
  <2>7. CASE i = 7
    BY <2>7, Powers DEF Twos
  <2>8. CASE i = 8
    BY <2>8, Powers DEF Twos
  <2>9. CASE i = 9
    BY <2>9, Powers DEF Twos
  <2>10. CASE i = 10
    BY <2>10, Powers DEF Twos
  <2>11. CASE i = 11
    BY <2>11, Powers DEF Twos
  <2>12. CASE i = 12
    BY <2>12, Powers DEF Twos
  <2>13. CASE i = 13
    BY <2>13, Powers DEF Twos
  <2>14. CASE i = 14
    BY <2>14, Powers DEF Twos
  <2>15. CASE i = 15
    BY <2>15, Powers DEF Twos
  <2> QED
    BY <2>0, <2>1, <2>2, <2>3, <2>4, <2>5, <2>6, <2>7, <2>8, <2>9, <2>10, <2>11, <2>12, <2>13, <2>14, <2>15
<1>2. ASSUME NEW p \in Twos PROVE \E k \in 0 .. 15 : p = 2 ^ k
  BY Powers DEF Twos
<1> QED
  BY <1>1, <1>2

LEMMA PowerIsFound ==
  ASSUME NEW p \in Twos, NEW n \in Nat, p < 2 * n, n <= p
  PROVE  PowerOfTwo(n) = p
<1>1. \A q \in Twos : n <= q /\ q < 2 * n => q = p
  BY DEF Twos
<1>2. (CHOOSE q \in Twos : n <= q /\ q < 2 * n) = p
  BY <1>1
<1> QED
  BY <1>2, TwosArePowers DEF PowerOfTwo

(* A size whose power of two is p goes to the order of p, but for the last *)
(* two, whose quotients do not fit a byte.                                 *)
LEMMA OrderIsFound ==
  ASSUME NEW p \in Twos, NEW n \in Nat, p < 2 * n, n <= p, n > MIN_BLOCK
  PROVE  FindOrder(n) = Ctz(Byte(p \div MIN_BLOCK))
<1>1. ~(n <= MIN_BLOCK)
  BY DEF MIN_BLOCK
<1>2. PowerOfTwo(n) = p
  BY PowerIsFound
<1> QED
  BY <1>1, <1>2 DEF FindOrder

LEMMA Orders ==
  ASSUME NEW n \in 1 .. MAX_BLOCK
  PROVE  /\ n <= 64 => FindOrder(n) = 0
         /\ 64 < n /\ n <= 128 => FindOrder(n) = 1
         /\ 128 < n /\ n <= 256 => FindOrder(n) = 2
         /\ 256 < n /\ n <= 512 => FindOrder(n) = 3
         /\ 512 < n /\ n <= 1024 => FindOrder(n) = 4
         /\ 1024 < n /\ n <= 2048 => FindOrder(n) = 5
         /\ 2048 < n /\ n <= 4096 => FindOrder(n) = 6
         /\ 4096 < n /\ n <= 8192 => FindOrder(n) = 7
         /\ 8192 < n /\ n <= 16384 => FindOrder(n) = 0
         /\ 16384 < n /\ n <= 32768 => FindOrder(n) = 0
<1>6. n <= 64 => FindOrder(n) = 0
  BY DEF FindOrder, MIN_BLOCK
<1>7. 64 < n /\ n <= 128 => FindOrder(n) = 1
  <2>1. Ctz(Byte(128 \div MIN_BLOCK)) = 1
    <3>1. Byte(128 \div MIN_BLOCK) = 2
      BY DEF Byte, MIN_BLOCK
    <3> QED
      BY <3>1, CtzOfPowers
  <2> QED
    BY <2>1, OrderIsFound DEF Twos, MIN_BLOCK, MAX_BLOCK
<1>8. 128 < n /\ n <= 256 => FindOrder(n) = 2
  <2>1. Ctz(Byte(256 \div MIN_BLOCK)) = 2
    <3>1. Byte(256 \div MIN_BLOCK) = 4
      BY DEF Byte, MIN_BLOCK
    <3> QED
      BY <3>1, CtzOfPowers
  <2> QED
    BY <2>1, OrderIsFound DEF Twos, MIN_BLOCK, MAX_BLOCK
<1>9. 256 < n /\ n <= 512 => FindOrder(n) = 3
  <2>1. Ctz(Byte(512 \div MIN_BLOCK)) = 3
    <3>1. Byte(512 \div MIN_BLOCK) = 8
      BY DEF Byte, MIN_BLOCK
    <3> QED
      BY <3>1, CtzOfPowers
  <2> QED
    BY <2>1, OrderIsFound DEF Twos, MIN_BLOCK, MAX_BLOCK
<1>10. 512 < n /\ n <= 1024 => FindOrder(n) = 4
  <2>1. Ctz(Byte(1024 \div MIN_BLOCK)) = 4
    <3>1. Byte(1024 \div MIN_BLOCK) = 16
      BY DEF Byte, MIN_BLOCK
    <3> QED
      BY <3>1, CtzOfPowers
  <2> QED
    BY <2>1, OrderIsFound DEF Twos, MIN_BLOCK, MAX_BLOCK
<1>11. 1024 < n /\ n <= 2048 => FindOrder(n) = 5
  <2>1. Ctz(Byte(2048 \div MIN_BLOCK)) = 5
    <3>1. Byte(2048 \div MIN_BLOCK) = 32
      BY DEF Byte, MIN_BLOCK
    <3> QED
      BY <3>1, CtzOfPowers
  <2> QED
    BY <2>1, OrderIsFound DEF Twos, MIN_BLOCK, MAX_BLOCK
<1>12. 2048 < n /\ n <= 4096 => FindOrder(n) = 6
  <2>1. Ctz(Byte(4096 \div MIN_BLOCK)) = 6
    <3>1. Byte(4096 \div MIN_BLOCK) = 64
      BY DEF Byte, MIN_BLOCK
    <3> QED
      BY <3>1, CtzOfPowers
  <2> QED
    BY <2>1, OrderIsFound DEF Twos, MIN_BLOCK, MAX_BLOCK
<1>13. 4096 < n /\ n <= 8192 => FindOrder(n) = 7
  <2>1. Ctz(Byte(8192 \div MIN_BLOCK)) = 7
    <3>1. Byte(8192 \div MIN_BLOCK) = 128
      BY DEF Byte, MIN_BLOCK
    <3> QED
      BY <3>1, CtzOfPowers
  <2> QED
    BY <2>1, OrderIsFound DEF Twos, MIN_BLOCK, MAX_BLOCK
<1>14. 8192 < n /\ n <= 16384 => FindOrder(n) = 0
  <2>1. Ctz(Byte(16384 \div MIN_BLOCK)) = 0
    <3>1. Byte(16384 \div MIN_BLOCK) = 0
      BY DEF Byte, MIN_BLOCK
    <3> QED
      BY <3>1, CtzOfPowers
  <2> QED
    BY <2>1, OrderIsFound DEF Twos, MIN_BLOCK, MAX_BLOCK
<1>15. 16384 < n /\ n <= 32768 => FindOrder(n) = 0
  <2>1. Ctz(Byte(32768 \div MIN_BLOCK)) = 0
    <3>1. Byte(32768 \div MIN_BLOCK) = 0
      BY DEF Byte, MIN_BLOCK
    <3> QED
      BY <3>1, CtzOfPowers
  <2> QED
    BY <2>1, OrderIsFound DEF Twos, MIN_BLOCK, MAX_BLOCK
<1> QED
  BY <1>6, <1>7, <1>8, <1>9, <1>10, <1>11, <1>12, <1>13, <1>14, <1>15

LEMMA SizesOfOrders ==
  /\ SizeOf(0) = 64 /\ SizeOf(1) = 128 /\ SizeOf(2) = 256 /\ SizeOf(3) = 512 /\ SizeOf(4) = 1024
  /\ SizeOf(5) = 2048 /\ SizeOf(6) = 4096 /\ SizeOf(7) = 8192
BY Powers DEF SizeOf, MIN_BLOCK

LEMMA OrderFits ==
  ASSUME NEW n \in 1 .. MAX_BLOCK
  PROVE  /\ FindOrder(n) \in 0 .. 7 /\ FindOrder(n) \in Order
         /\ n <= 8192 => /\ n <= SizeOf(FindOrder(n))
                         /\ SizeOf(FindOrder(n)) = MIN_BLOCK \/ SizeOf(FindOrder(n)) < 2 * n
<1>1. FindOrder(n) \in 0 .. 7
  <2>6. CASE n <= 64
    <3>1. FindOrder(n) = 0
      BY <2>6, Orders
    <3> QED
      BY <3>1
  <2>7. CASE 64 < n /\ n <= 128
    <3>1. FindOrder(n) = 1
      BY <2>7, Orders
    <3> QED
      BY <3>1
  <2>8. CASE 128 < n /\ n <= 256
    <3>1. FindOrder(n) = 2
      BY <2>8, Orders
    <3> QED
      BY <3>1
  <2>9. CASE 256 < n /\ n <= 512
    <3>1. FindOrder(n) = 3
      BY <2>9, Orders
    <3> QED
      BY <3>1
  <2>10. CASE 512 < n /\ n <= 1024
    <3>1. FindOrder(n) = 4
      BY <2>10, Orders
    <3> QED
      BY <3>1
  <2>11. CASE 1024 < n /\ n <= 2048
    <3>1. FindOrder(n) = 5
      BY <2>11, Orders
    <3> QED
      BY <3>1
  <2>12. CASE 2048 < n /\ n <= 4096
    <3>1. FindOrder(n) = 6
      BY <2>12, Orders
    <3> QED
      BY <3>1
  <2>13. CASE 4096 < n /\ n <= 8192
    <3>1. FindOrder(n) = 7
      BY <2>13, Orders
    <3> QED
      BY <3>1
  <2>14. CASE 8192 < n /\ n <= 16384
    <3>1. FindOrder(n) = 0
      BY <2>14, Orders
    <3> QED
      BY <3>1
  <2>15. CASE 16384 < n /\ n <= 32768
    <3>1. FindOrder(n) = 0
      BY <2>15, Orders
    <3> QED
      BY <3>1
  <2>1. \/ n <= 64
        \/ 64 < n /\ n <= 128
        \/ 128 < n /\ n <= 256
        \/ 256 < n /\ n <= 512
        \/ 512 < n /\ n <= 1024
        \/ 1024 < n /\ n <= 2048
        \/ 2048 < n /\ n <= 4096
        \/ 4096 < n /\ n <= 8192
        \/ 8192 < n /\ n <= 16384
        \/ 16384 < n /\ n <= 32768
    BY DEF MAX_BLOCK
  <2> QED
    BY <2>1, <2>6, <2>7, <2>8, <2>9, <2>10, <2>11, <2>12, <2>13, <2>14, <2>15
<1>2. ASSUME n <= 8192
      PROVE  /\ n <= SizeOf(FindOrder(n))
             /\ SizeOf(FindOrder(n)) = MIN_BLOCK \/ SizeOf(FindOrder(n)) < 2 * n
  <2>6. CASE n <= 64
    BY <2>6, Orders, SizesOfOrders DEF MIN_BLOCK
  <2>7. CASE 64 < n /\ n <= 128
    BY <2>7, Orders, SizesOfOrders DEF MIN_BLOCK
  <2>8. CASE 128 < n /\ n <= 256
    BY <2>8, Orders, SizesOfOrders DEF MIN_BLOCK
  <2>9. CASE 256 < n /\ n <= 512
    BY <2>9, Orders, SizesOfOrders DEF MIN_BLOCK
  <2>10. CASE 512 < n /\ n <= 1024
    BY <2>10, Orders, SizesOfOrders DEF MIN_BLOCK
  <2>11. CASE 1024 < n /\ n <= 2048
    BY <2>11, Orders, SizesOfOrders DEF MIN_BLOCK
  <2>12. CASE 2048 < n /\ n <= 4096
    BY <2>12, Orders, SizesOfOrders DEF MIN_BLOCK
  <2>13. CASE 4096 < n /\ n <= 8192
    BY <2>13, Orders, SizesOfOrders DEF MIN_BLOCK
  <2> QED
    BY <1>2, <2>6, <2>7, <2>8, <2>9, <2>10, <2>11, <2>12, <2>13 DEF MAX_BLOCK
<1> QED
  BY <1>1, <1>2 DEF Order, MAX_ORDER

(* kfree finds the list again that kmalloc took the block from.            *)
LEMMA OrderOfSize ==
  ASSUME NEW o \in 0 .. 7
  PROVE  FindOrder(SizeOf(o)) = o
<1>0. CASE o = 0
  BY <1>0, Orders, SizesOfOrders DEF MAX_BLOCK
<1>1. CASE o = 1
  BY <1>1, Orders, SizesOfOrders DEF MAX_BLOCK
<1>2. CASE o = 2
  BY <1>2, Orders, SizesOfOrders DEF MAX_BLOCK
<1>3. CASE o = 3
  BY <1>3, Orders, SizesOfOrders DEF MAX_BLOCK
<1>4. CASE o = 4
  BY <1>4, Orders, SizesOfOrders DEF MAX_BLOCK
<1>5. CASE o = 5
  BY <1>5, Orders, SizesOfOrders DEF MAX_BLOCK
<1>6. CASE o = 6
  BY <1>6, Orders, SizesOfOrders DEF MAX_BLOCK
<1>7. CASE o = 7
  BY <1>7, Orders, SizesOfOrders DEF MAX_BLOCK
<1> QED
  BY <1>0, <1>1, <1>2, <1>3, <1>4, <1>5, <1>6, <1>7

----------------------------------------------------------------------------
(* The lists that init_alloc makes.                                        *)
Row(o) == [i \in 1 .. BlockNum |-> Base(o) + (i - 1) * SizeOf(o)]

LEMMA BlocksInARow ==
  ASSUME NEW o \in Order
  PROVE  /\ Row(o) \in Seq(BlocksOf(o)) /\ Len(Row(o)) = BlockNum
         /\ \A i \in 1 .. BlockNum : Row(o)[i] \in BlocksOf(o)
         /\ \A i, j \in 1 .. BlockNum : Row(o)[i] = Row(o)[j] => i = j
         /\ \A b \in BlocksOf(o) : \E i \in 1 .. BlockNum : Row(o)[i] = b
         /\ Row(o)[1] = Base(o) /\ Row(o)[BlockNum] = Base(o + 1) - SizeOf(o)
         /\ \A i \in 1 .. BlockNum - 1 : Row(o)[i + 1] = Row(o)[i] + SizeOf(o)
<1> DEFINE size == SizeOf(o)
<1>1. size \in Nat \ {0} /\ Base(o) \in Nat /\ Base(o + 1) = Base(o) + BlockNum * size
  BY Lengths
<1>2. BlockNum \in Nat \ {0}
  BY BlockNumAssumption
<1>3. \A i \in 1 .. BlockNum : Row(o)[i] = Base(o) + (i - 1) * size
  BY DEF Row
<1>4. BlocksOf(o) = {Base(o) + i * size : i \in 0 .. BlockNum - 1}
  BY DEF BlocksOf
<1> HIDE DEF size
<1>5. \A i \in 1 .. BlockNum : Row(o)[i] \in BlocksOf(o)
  BY <1>2, <1>3, <1>4
<1>6. \A b \in BlocksOf(o) : \E i \in 1 .. BlockNum : Row(o)[i] = b
  <2> SUFFICES ASSUME NEW n \in 0 .. BlockNum - 1
               PROVE  \E i \in 1 .. BlockNum : Row(o)[i] = Base(o) + n * size
    BY <1>4
  <2>1. n + 1 \in 1 .. BlockNum /\ (n + 1) - 1 = n
    BY <1>2
  <2> QED
    BY <1>3, <2>1
<1>7. \A n, m \in Nat : n < m => n * size < m * size
  BY <1>1
<1>8. \A i, j \in 1 .. BlockNum : Row(o)[i] = Row(o)[j] => i = j
  <2> SUFFICES ASSUME NEW i \in 1 .. BlockNum, NEW j \in 1 .. BlockNum, i < j
               PROVE  Row(o)[i] # Row(o)[j]
    BY <1>2
  <2>1. (i - 1) * size < (j - 1) * size
    BY <1>2, <1>7
  <2>2. (i - 1) * size \in Nat /\ (j - 1) * size \in Nat
    BY <1>1, <1>2
  <2> QED
    BY <1>1, <1>3, <2>1, <2>2
<1>9. \A n \in Nat : (n + 1) * size = n * size + size
  BY <1>1
<1>10. Row(o)[1] = Base(o) /\ Row(o)[BlockNum] = Base(o + 1) - size
  <2>1. Row(o)[BlockNum] = Base(o) + (BlockNum - 1) * size
    BY <1>2, <1>3
  <2>2. BlockNum * size = (BlockNum - 1) * size + size
    BY <1>2, <1>9
  <2>3. (BlockNum - 1) * size \in Nat
    BY <1>1, <1>2
  <2>4. Row(o)[1] = Base(o)
    BY <1>1, <1>2, <1>3
  <2> QED
    BY <1>1, <2>1, <2>2, <2>3, <2>4
<1>11. \A i \in 1 .. BlockNum - 1 : Row(o)[i + 1] = Row(o)[i] + size
  <2> SUFFICES ASSUME NEW i \in 1 .. BlockNum - 1 PROVE Row(o)[i + 1] = Row(o)[i] + size
    OBVIOUS
  <2>1. Row(o)[i + 1] = Base(o) + i * size /\ Row(o)[i] = Base(o) + (i - 1) * size
    BY <1>2, <1>3
  <2>2. i * size = (i - 1) * size + size /\ (i - 1) * size \in Nat
    BY <1>1, <1>2, <1>9
  <2> QED
    BY <1>1, <2>1, <2>2
<1>12. Row(o) \in Seq(BlocksOf(o)) /\ Len(Row(o)) = BlockNum
  <2>1. Row(o) \in [1 .. BlockNum -> BlocksOf(o)]
    BY <1>5 DEF Row
  <2> QED
    BY <1>2, <2>1
<1> QED
  BY <1>5, <1>6, <1>8, <1>10, <1>11, <1>12 DEF size

LEMMA NextInARow ==
  ASSUME Init, NEW o \in Order, NEW i \in 1 .. BlockNum
  PROVE  next[Row(o)[i]] = IF i = BlockNum THEN Null ELSE Row(o)[i + 1]
<1> DEFINE b == Row(o)[i]
<1> DEFINE IsLast == \E p \in Order : b = Base(p + 1) - SizeOf(p)
<1>0. BlockNum \in Nat \ {0} /\ i \in Nat
  BY BlockNumAssumption
<1>1. b \in BlocksOf(o) /\ b \in Block
  BY BlocksInARow DEF Block
<1>2. next[b] = IF IsLast THEN Null ELSE CHOOSE c \in Block : Follows(b, c)
  BY <1>1 DEF Init
<1>3. CASE i = BlockNum
  <2>1. b = Base(o + 1) - SizeOf(o)
    BY <1>3, BlocksInARow
  <2> QED
    BY <1>2, <1>3, <2>1
<1>4. CASE i # BlockNum
  <2>0. i \in 1 .. BlockNum - 1 /\ i + 1 \in 1 .. BlockNum
    BY <1>0, <1>4
  <2>1. ~IsLast
    <3> SUFFICES ASSUME NEW p \in Order, b = Base(p + 1) - SizeOf(p) PROVE FALSE
      OBVIOUS
    <3>1. b = Row(p)[BlockNum] /\ b \in BlocksOf(p)
      BY <1>0, BlocksInARow
    <3>2. p = o
      BY <1>1, <3>1, ListsApart
    <3> QED
      BY <1>0, <1>4, <3>1, <3>2, BlocksInARow
  <2>2. Row(o)[i + 1] = b + SizeOf(o) /\ Row(o)[i + 1] \in BlocksOf(o) /\ Row(o)[i + 1] \in Block
    BY <2>0, BlocksInARow DEF Block
  <2>3. Follows(b, Row(o)[i + 1])
    BY <1>1, <2>2 DEF Follows
  <2>4. ASSUME NEW c \in Block, Follows(b, c) PROVE c = Row(o)[i + 1]
    <3>1. PICK p \in Order : b \in BlocksOf(p) /\ c = b + SizeOf(p)
      BY <2>4 DEF Follows
    <3>2. p = o
      BY <1>1, <3>1, ListsApart
    <3> QED
      BY <2>2, <3>1, <3>2
  <2>5. (CHOOSE c \in Block : Follows(b, c)) = Row(o)[i + 1]
    BY <2>2, <2>3, <2>4
  <2> HIDE DEF IsLast
  <2> QED
    BY <1>2, <1>4, <2>1, <2>5
<1> QED
  BY <1>3, <1>4

LEMMA InitLists ==
  ASSUME Init, NEW o \in Order
  PROVE  IsList(o, Row(o))
<1>1. \A b \in BlocksOf(o) : grant[b] = 0
  BY DEF Init, Block
<1>2. \A b \in BlocksOf(o) : grant[b] = 0 <=> \E i \in 1 .. Len(Row(o)) : Row(o)[i] = b
  BY <1>1, BlocksInARow
<1>3. \A i \in 1 .. Len(Row(o)) :
        next[Row(o)[i]] = IF i = Len(Row(o)) THEN Null ELSE Row(o)[i + 1]
  BY BlocksInARow, NextInARow
<1>4. Len(Row(o)) = numFree[o] /\ Len(Row(o)) # 0
  BY BlockNumAssumption, BlocksInARow DEF Init
<1>5. head[o] = Row(o)[1] /\ tail[o] = Row(o)[BlockNum]
  BY BlocksInARow DEF Init
<1> QED
  BY <1>2, <1>3, <1>4, <1>5, BlocksInARow DEF IsList

LEMMA InitEstablishes == Init => HeapInv
<1> SUFFICES ASSUME Init PROVE HeapInv
  OBVIOUS
<1>0. BlockNum \in Nat \ {0} /\ 1 \in 1 .. BlockNum /\ BlockNum \in 1 .. BlockNum
  BY BlockNumAssumption
<1>1. ASSUME NEW o \in Order
      PROVE  /\ head[o] = Row(o)[1] /\ tail[o] = Row(o)[BlockNum] /\ numFree[o] = BlockNum
             /\ head[o] \in Block /\ tail[o] \in Block
  BY <1>0, BlocksInARow DEF Init, Block
<1>2. \A b \in Block : grant[b] = 0
  BY DEF Init
<1>3. Functions
  <2>1. \A b \in Block : next[b] \in Block \cup {Null}
    <3> SUFFICES ASSUME NEW b \in Block PROVE next[b] \in Block \cup {Null}
      OBVIOUS
    <3>1. PICK o \in Order : b \in BlocksOf(o)
      BY DEF Block
    <3>2. PICK i \in 1 .. BlockNum : b = Row(o)[i]
      BY <3>1, BlocksInARow
    <3>3. i # BlockNum => Row(o)[i + 1] \in Block
      <4>1. i # BlockNum => i + 1 \in 1 .. BlockNum
        BY <1>0
      <4> QED
        BY <4>1, BlocksInARow DEF Block
    <3> QED
      BY <3>2, <3>3, NextInARow
  <2> QED
    BY <1>0, <1>1, <1>2, <2>1 DEF Init, Functions
<1>4. \A o \in Order : IsList(o, Row(o))
  BY InitLists
<1>5. GrantsInPlace
  BY <1>2 DEF GrantsInPlace, Block
<1> QED
  BY <1>3, <1>4, <1>5 DEF HeapInv

----------------------------------------------------------------------------
(* The steps.                                                              *)
LEMMA ListStays ==
  ASSUME NEW o \in Order, NEW q, IsList(o, q),
         head'[o] = head[o], tail'[o] = tail[o], numFree'[o] = numFree[o],
         \A b \in BlocksOf(o) : next'[b] = next[b] /\ grant'[b] = grant[b]
  PROVE  IsList(o, q)'
<1>1. q \in Seq(BlocksOf(o)) /\ \A i \in 1 .. Len(q) : q[i] \in BlocksOf(o)
  BY DEF IsList
<1> QED
  BY <1>1 DEF IsList

LEMMA BlockIsSomewhere ==
  ASSUME NEW b \in Block
  PROVE  \E o \in Order : b \in BlocksOf(o)
BY DEF Block

LEMMA SizesHaveOrders ==
  ASSUME NEW size \in Sizes
  PROVE  size # 0 /\ FindOrder(size) \in Order /\ FindOrder(size) \in 0 .. 7
<1>1. size \in 1 .. MAX_BLOCK
  BY SizesAssumption
<1>2. size # 0
  BY <1>1
<1> QED
  BY <1>1, <1>2, OrderFits

(* kmalloc.                                                                *)
LEMMA TakeFromList ==
  ASSUME HeapInv, NEW size \in Sizes, Kmalloc(size), NEW q, IsList(FindOrder(size), q)
  PROVE  q # <<>> /\ IsList(FindOrder(size), Tail(q))' /\ grant[head[FindOrder(size)]] = 0
         /\ head[FindOrder(size)] \in BlocksOf(FindOrder(size))
<1> DEFINE o == FindOrder(size)
           n == Len(q)
           b == head[o]
<1>0. o \in Order /\ size # 0
  BY SizesHaveOrders
<1>1. /\ head' = [head EXCEPT ![o] = next[b]]
      /\ tail' = IF next[b] = Null THEN [tail EXCEPT ![o] = Null] ELSE tail
      /\ next' = [next EXCEPT ![b] = Null]
      /\ numFree' = [numFree EXCEPT ![o] = @ - 1]
      /\ grant' = [grant EXCEPT ![b] = size]
      /\ numFree[o] > 0
  BY DEF Kmalloc, TakeBlock, Available
<1>2. /\ q \in Seq(BlocksOf(o)) /\ n = numFree[o]
      /\ \A i, j \in 1 .. n : q[i] = q[j] => i = j
      /\ \A c \in BlocksOf(o) : grant[c] = 0 <=> \E i \in 1 .. n : q[i] = c
      /\ b = IF n = 0 THEN Null ELSE q[1]
      /\ n # 0 => tail[o] = q[n]
      /\ \A i \in 1 .. n : next[q[i]] = IF i = n THEN Null ELSE q[i + 1]
  BY DEF IsList
<1>3. Functions
  BY DEF HeapInv
<1> HIDE DEF o
<1>4. n \in Nat /\ n > 0 /\ b = q[1] /\ 1 \in 1 .. n /\ q # <<>>
  BY <1>1, <1>2
<1>5. \A i \in 1 .. n : q[i] \in BlocksOf(o) /\ q[i] \in Block /\ q[i] # Null
  BY <1>0, <1>2, BlocksLie DEF Block
<1> DEFINE r == Tail(q)
<1>6. r \in Seq(BlocksOf(o)) /\ Len(r) = n - 1 /\ \A i \in 1 .. n - 1 : r[i] = q[i + 1]
  BY <1>2, <1>4, HeadTailProperties
<1> HIDE DEF r, n, b
<1>7. head'[o] = next[b] /\ next[b] = IF n = 1 THEN Null ELSE q[2]
  BY <1>0, <1>1, <1>2, <1>3, <1>4 DEF Functions
<1>8. numFree'[o] = n - 1
  BY <1>0, <1>1, <1>2, <1>3 DEF Functions
<1>9. \A c \in BlocksOf(o) : /\ c \in Block
                             /\ next'[c] = IF c = b THEN Null ELSE next[c]
                             /\ grant'[c] = IF c = b THEN size ELSE grant[c]
  BY <1>0, <1>1, <1>3 DEF Functions, Block
<1>10. \A i \in 1 .. n - 1 : i + 1 \in 1 .. n /\ q[i + 1] # b
  BY <1>2, <1>4
<1>11. \A i, j \in 1 .. n - 1 : r[i] = r[j] => i = j
  BY <1>2, <1>4, <1>6, <1>10
<1>12. ASSUME NEW c \in BlocksOf(o)
       PROVE  grant'[c] = 0 <=> \E i \in 1 .. n - 1 : r[i] = c
  <2>1. CASE c = b
    BY <1>0, <1>6, <1>9, <1>10, <2>1
  <2>2. CASE c # b
    <3>1. grant'[c] = 0 <=> \E i \in 1 .. n : q[i] = c
      BY <1>2, <1>9, <2>2
    <3>2. ASSUME NEW i \in 1 .. n, q[i] = c PROVE \E j \in 1 .. n - 1 : r[j] = c
      <4>1. i # 1
        BY <1>4, <2>2, <3>2
      <4>2. i - 1 \in 1 .. n - 1 /\ r[i - 1] = q[(i - 1) + 1] /\ (i - 1) + 1 = i
        BY <1>4, <1>6, <4>1
      <4> QED
        BY <3>2, <4>2
    <3>3. ASSUME NEW j \in 1 .. n - 1, r[j] = c PROVE \E i \in 1 .. n : q[i] = c
      BY <1>6, <1>10, <3>3
    <3> QED
      BY <3>1, <3>2, <3>3
  <2> QED
    BY <2>1, <2>2
<1>13. head'[o] = IF n - 1 = 0 THEN Null ELSE r[1]
  <2>1. n # 1 => 1 \in 1 .. n - 1
    BY <1>4
  <2> QED
    BY <1>4, <1>6, <1>7, <2>1
<1>14. n - 1 # 0 => tail'[o] = r[n - 1]
  <2> SUFFICES ASSUME n - 1 # 0 PROVE tail'[o] = r[n - 1]
    OBVIOUS
  <2>1. 2 \in 1 .. n /\ n - 1 \in 1 .. n - 1 /\ (n - 1) + 1 = n
    BY <1>4
  <2>2. next[b] # Null
    BY <1>4, <1>5, <1>7, <2>1
  <2> QED
    BY <1>1, <1>2, <1>4, <1>6, <2>1, <2>2
<1>15. \A i \in 1 .. n - 1 : next'[r[i]] = IF i = n - 1 THEN Null ELSE r[i + 1]
  <2> SUFFICES ASSUME NEW i \in 1 .. n - 1
               PROVE  next'[r[i]] = IF i = n - 1 THEN Null ELSE r[i + 1]
    OBVIOUS
  <2>1. r[i] = q[i + 1] /\ i + 1 \in 1 .. n /\ q[i + 1] # b
    BY <1>6, <1>10
  <2>2. next'[r[i]] = next[q[i + 1]]
    BY <1>5, <1>9, <2>1
  <2>3. next[q[i + 1]] = IF i + 1 = n THEN Null ELSE q[(i + 1) + 1]
    BY <1>2, <2>1
  <2>4. i # n - 1 => r[i + 1] = q[(i + 1) + 1]
    <3>1. i # n - 1 => i + 1 \in 1 .. n - 1
      BY <1>4
    <3> QED
      BY <1>6, <3>1
  <2> QED
    BY <1>4, <2>2, <2>3, <2>4
<1>16. IsList(o, r)'
  BY <1>6, <1>8, <1>11, <1>12, <1>13, <1>14, <1>15 DEF IsList
<1>17. grant[b] = 0 /\ b \in BlocksOf(o)
  BY <1>2, <1>4, <1>5
<1> QED
  BY <1>4, <1>16, <1>17 DEF o, r, b

LEMMA KmallocKeeps ==
  ASSUME HeapInv, NEW size \in Sizes, Kmalloc(size)
  PROVE  /\ HeapInv'
         /\ \A p \in Order : \A q : p # FindOrder(size) /\ IsList(p, q) => IsList(p, q)'
<1> DEFINE o == FindOrder(size)
           b == head[o]
<1>0. o \in Order /\ size # 0
  BY SizesHaveOrders
<1>1. /\ head' = [head EXCEPT ![o] = next[b]]
      /\ tail' = IF next[b] = Null THEN [tail EXCEPT ![o] = Null] ELSE tail
      /\ next' = [next EXCEPT ![b] = Null]
      /\ numFree' = [numFree EXCEPT ![o] = @ - 1]
      /\ grant' = [grant EXCEPT ![b] = size]
      /\ numFree[o] > 0
  BY DEF Kmalloc, TakeBlock, Available
<1>2. Functions /\ GrantsInPlace
  BY DEF HeapInv
<1>3. PICK q : IsList(o, q)
  BY <1>0 DEF HeapInv
<1>4. IsList(o, Tail(q))' /\ b \in BlocksOf(o)
  BY <1>3, TakeFromList
<1>5. b \in Block
  BY <1>0, <1>4 DEF Block
<1>6. Functions'
  <2>1. numFree[o] - 1 \in Nat
    BY <1>0, <1>1, <1>2 DEF Functions
  <2>2. next[b] \in Block \cup {Null}
    BY <1>2, <1>5 DEF Functions
  <2> HIDE DEF o, b
  <2> QED
    BY <1>0, <1>1, <1>2, <1>5, <2>1, <2>2 DEF Functions
<1>7. ASSUME NEW p \in Order, NEW r, p # o, IsList(p, r) PROVE IsList(p, r)'
  <2>1. ASSUME NEW c \in BlocksOf(p) PROVE next'[c] = next[c] /\ grant'[c] = grant[c]
    <3>1. c # b /\ c \in Block
      BY <1>0, <1>4, <1>7, ListsApart DEF Block
    <3> QED
      BY <1>1, <1>2, <3>1 DEF Functions
  <2>2. head'[p] = head[p] /\ tail'[p] = tail[p] /\ numFree'[p] = numFree[p]
    BY <1>0, <1>1, <1>2, <1>7 DEF Functions
  <2> QED
    BY <1>7, <2>1, <2>2, ListStays
<1>8. ASSUME NEW p \in Order PROVE (\E r : IsList(p, r))'
  <2>1. CASE p = o
    BY <1>4, <2>1
  <2>2. CASE p # o
    <3>1. PICK r : IsList(p, r)
      BY DEF HeapInv
    <3> QED
      BY <1>7, <2>2, <3>1
  <2> QED
    BY <2>1, <2>2
<1>9. GrantsInPlace'
  <2> SUFFICES ASSUME NEW p \in Order, NEW c \in BlocksOf(p), grant'[c] # 0
               PROVE  p = FindOrder(grant'[c])
    BY DEF GrantsInPlace
  <2>1. c \in Block /\ grant'[c] = IF c = b THEN size ELSE grant[c]
    BY <1>1, <1>2, <1>5 DEF Functions, Block
  <2>2. c = b => p = o
    BY <1>0, <1>4, ListsApart
  <2> QED
    BY <1>2, <2>1, <2>2 DEF GrantsInPlace
<1> QED
  BY <1>6, <1>7, <1>8, <1>9 DEF HeapInv

(* kfree.                                                                  *)
LEMMA ListIsFound ==
  ASSUME HeapInv, NEW b \in Block, grant[b] # 0
  PROVE  FindOrder(FindSize(b)) \in Order /\ b \in BlocksOf(FindOrder(FindSize(b)))
<1>1. PICK o \in Order : b \in BlocksOf(o)
  BY BlockIsSomewhere
<1>2. o = FindOrder(grant[b]) /\ grant[b] \in Sizes
  BY <1>1 DEF HeapInv, GrantsInPlace, Functions
<1>3. o \in 0 .. 7
  BY <1>2, SizesHaveOrders
<1>4. FindOrder(FindSize(b)) = o
  BY <1>1, <1>3, SizeIsFound, OrderOfSize
<1> QED
  BY <1>1, <1>4

LEMMA GiveToList ==
  ASSUME HeapInv, NEW b \in Block, Kfree(b), NEW q, IsList(FindOrder(FindSize(b)), q)
  PROVE  /\ IsList(FindOrder(FindSize(b)), Append(q, b))'
         /\ \A i \in 1 .. Len(q) : q[i] # b
         /\ next' = IF Len(q) = 0 THEN [next EXCEPT ![b] = Null]
                    ELSE [next EXCEPT ![b] = Null, ![q[Len(q)]] = b]
<1> DEFINE o == FindOrder(FindSize(b))
           n == Len(q)
<1>0. o \in Order /\ b \in BlocksOf(o) /\ grant[b] # 0
  BY ListIsFound DEF Kfree
<1>1. /\ tail' = [tail EXCEPT ![o] = b]
      /\ head[o] = Null => head' = [head EXCEPT ![o] = b] /\ next' = [next EXCEPT ![b] = Null]
      /\ head[o] # Null => /\ next' = [next EXCEPT ![b] = Null, ![tail[o]] = b]
                           /\ head' = head
      /\ numFree' = [numFree EXCEPT ![o] = @ + 1]
      /\ grant' = [grant EXCEPT ![b] = 0]
  BY DEF Kfree
<1>2. /\ q \in Seq(BlocksOf(o)) /\ n = numFree[o]
      /\ \A i, j \in 1 .. n : q[i] = q[j] => i = j
      /\ \A c \in BlocksOf(o) : grant[c] = 0 <=> \E i \in 1 .. n : q[i] = c
      /\ head[o] = IF n = 0 THEN Null ELSE q[1]
      /\ n # 0 => tail[o] = q[n]
      /\ \A i \in 1 .. n : next[q[i]] = IF i = n THEN Null ELSE q[i + 1]
  BY DEF IsList
<1>3. Functions
  BY DEF HeapInv
<1> HIDE DEF o
<1>4. n \in Nat
  BY <1>2
<1>5. \A i \in 1 .. n : q[i] \in BlocksOf(o) /\ q[i] \in Block /\ q[i] # Null /\ q[i] # b
  BY <1>0, <1>2, BlocksLie DEF Block
<1>6. head[o] = Null <=> n = 0
  <2>1. n # 0 => 1 \in 1 .. n
    BY <1>4
  <2> QED
    BY <1>2, <1>5, <2>1
<1> DEFINE r == Append(q, b)
<1>7. /\ r \in Seq(BlocksOf(o)) /\ Len(r) = n + 1
      /\ \A i \in 1 .. n : r[i] = q[i]
      /\ r[n + 1] = b
  BY <1>0, <1>2, AppendProperties
<1> HIDE DEF r, n
<1>8. /\ head'[o] = IF n = 0 THEN b ELSE q[1]
      /\ tail'[o] = b /\ numFree'[o] = n + 1
  BY <1>0, <1>1, <1>2, <1>3, <1>6 DEF Functions
<1>9. next' = IF n = 0 THEN [next EXCEPT ![b] = Null] ELSE [next EXCEPT ![b] = Null, ![q[n]] = b]
  BY <1>1, <1>2, <1>6
<1>10. \A c \in Block : next'[c] = IF n # 0 /\ c = q[n] THEN b ELSE IF c = b THEN Null ELSE next[c]
  BY <1>3, <1>9 DEF Functions
<1>11. \A i \in 1 .. n + 1 : i \in 1 .. n \/ i = n + 1
  BY <1>4
<1>12. \A i, j \in 1 .. n + 1 : r[i] = r[j] => i = j
  BY <1>2, <1>5, <1>7, <1>11
<1>13. ASSUME NEW c \in BlocksOf(o)
       PROVE  grant'[c] = 0 <=> \E i \in 1 .. n + 1 : r[i] = c
  <2>1. c \in Block /\ grant'[c] = IF c = b THEN 0 ELSE grant[c]
    BY <1>0, <1>1, <1>3 DEF Functions, Block
  <2>2. CASE c = b
    <3>1. n + 1 \in 1 .. n + 1
      BY <1>4
    <3> QED
      BY <1>7, <2>1, <2>2, <3>1
  <2>3. CASE c # b
    <3>1. (\E i \in 1 .. n : q[i] = c) => \E i \in 1 .. n + 1 : r[i] = c
      <4>1. \A i \in 1 .. n : i \in 1 .. n + 1
        BY <1>4
      <4> QED
        BY <1>7, <4>1
    <3>2. (\E i \in 1 .. n + 1 : r[i] = c) => \E i \in 1 .. n : q[i] = c
      BY <1>7, <1>11, <2>3
    <3> QED
      BY <1>2, <2>1, <2>3, <3>1, <3>2
  <2> QED
    BY <2>2, <2>3
<1>14. head'[o] = r[1]
  <2>1. n # 0 => 1 \in 1 .. n
    BY <1>4
  <2>2. n = 0 => r[1] = b
    BY <1>7
  <2> QED
    BY <1>7, <1>8, <2>1, <2>2
<1>15. ASSUME NEW i \in 1 .. n + 1
       PROVE  next'[r[i]] = IF i = n + 1 THEN Null ELSE r[i + 1]
  <2>1. CASE i = n + 1
    <3>1. n # 0 => n \in 1 .. n
      BY <1>4
    <3>2. n # 0 => q[n] # b
      BY <1>5, <3>1
    <3> QED
      BY <1>7, <1>10, <2>1, <3>2
  <2>2. CASE i # n + 1 /\ i = n
    <3>1. n # 0 /\ r[i] = q[n] /\ q[n] \in Block
      BY <1>4, <1>5, <1>7, <1>11, <2>2
    <3> QED
      BY <1>7, <1>10, <2>2, <3>1
  <2>3. CASE i # n + 1 /\ i # n
    <3>1. i \in 1 .. n /\ i + 1 \in 1 .. n /\ n \in 1 .. n
      BY <1>4, <1>11, <2>3
    <3>2. r[i] = q[i] /\ r[i + 1] = q[i + 1] /\ q[i] # q[n] /\ q[i] # b /\ q[i] \in Block
      BY <1>2, <1>5, <1>7, <2>3, <3>1
    <3>3. next'[q[i]] = next[q[i]]
      BY <1>10, <3>2
    <3> QED
      BY <1>2, <2>3, <3>1, <3>2, <3>3
  <2> QED
    BY <2>1, <2>2, <2>3
<1>16. n + 1 # 0 /\ 1 + n = n + 1
  BY <1>4
<1>17. IsList(o, r)'
  BY <1>7, <1>8, <1>12, <1>13, <1>14, <1>15, <1>16 DEF IsList
<1> QED
  BY <1>5, <1>9, <1>17 DEF o, r, n

LEMMA KfreeKeeps ==
  ASSUME HeapInv, NEW b \in Block, Kfree(b)
  PROVE  /\ HeapInv'
         /\ \A p \in Order : \A q : p # FindOrder(FindSize(b)) /\ IsList(p, q) => IsList(p, q)'
<1> DEFINE o == FindOrder(FindSize(b))
<1>0. o \in Order /\ b \in BlocksOf(o) /\ grant[b] # 0
  BY ListIsFound DEF Kfree
<1>1. /\ tail' = [tail EXCEPT ![o] = b]
      /\ head' = [head EXCEPT ![o] = b] \/ head' = head
      /\ numFree' = [numFree EXCEPT ![o] = @ + 1]
      /\ grant' = [grant EXCEPT ![b] = 0]
  BY DEF Kfree
<1>2. Functions /\ GrantsInPlace
  BY DEF HeapInv
<1>3. PICK q : IsList(o, q)
  BY <1>0 DEF HeapInv
<1>4. /\ IsList(o, Append(q, b))'
      /\ next' = IF Len(q) = 0 THEN [next EXCEPT ![b] = Null]
                 ELSE [next EXCEPT ![b] = Null, ![q[Len(q)]] = b]
  BY <1>3, GiveToList
<1> HIDE DEF o
<1>5. q \in Seq(BlocksOf(o)) /\ (Len(q) # 0 => q[Len(q)] \in BlocksOf(o))
  BY <1>3 DEF IsList
<1>6. Functions'
  <2>1. numFree[o] + 1 \in Nat
    BY <1>0, <1>2 DEF Functions
  <2> QED
    BY <1>0, <1>1, <1>2, <1>4, <2>1 DEF Functions
<1>7. ASSUME NEW p \in Order, NEW r, p # o, IsList(p, r) PROVE IsList(p, r)'
  <2>1. ASSUME NEW c \in BlocksOf(p) PROVE next'[c] = next[c] /\ grant'[c] = grant[c]
    <3>1. c # b /\ c \in Block /\ (Len(q) # 0 => c # q[Len(q)])
      BY <1>0, <1>5, <1>7, ListsApart DEF Block
    <3> QED
      BY <1>1, <1>2, <1>4, <3>1 DEF Functions
  <2>2. head'[p] = head[p] /\ tail'[p] = tail[p] /\ numFree'[p] = numFree[p]
    BY <1>0, <1>1, <1>2, <1>7 DEF Functions
  <2> QED
    BY <1>7, <2>1, <2>2, ListStays
<1>8. ASSUME NEW p \in Order PROVE (\E r : IsList(p, r))'
  <2>1. CASE p = o
    BY <1>4, <2>1
  <2>2. CASE p # o
    <3>1. PICK r : IsList(p, r)
      BY DEF HeapInv
    <3> QED
      BY <1>7, <2>2, <3>1
  <2> QED
    BY <2>1, <2>2
<1>9. GrantsInPlace'
  <2> SUFFICES ASSUME NEW p \in Order, NEW c \in BlocksOf(p), grant'[c] # 0
               PROVE  p = FindOrder(grant'[c])
    BY DEF GrantsInPlace
  <2>1. grant'[c] = grant[c]
    BY <1>1, <1>2 DEF Functions, Block
  <2> QED
    BY <1>2, <2>1 DEF GrantsInPlace
<1> QED
  BY <1>6, <1>7, <1>8, <1>9 DEF HeapInv, o

LEMMA StepKeeps == HeapInv /\ [Next]_vars => HeapInv'
<1> SUFFICES ASSUME HeapInv, [Next]_vars PROVE HeapInv'
  OBVIOUS
<1>1. CASE \E size \in Sizes : Kmalloc(size)
  BY <1>1, KmallocKeeps
<1>2. CASE \E b \in Block : Kfree(b)
  BY <1>2, KfreeKeeps
<1>3. CASE UNCHANGED vars
  BY <1>3 DEF vars, HeapInv, Functions, IsList, GrantsInPlace
<1> QED
  BY <1>1, <1>2, <1>3 DEF Next

----------------------------------------------------------------------------
(* The linked list read off from its head.                                 *)
LEMMA UpTo ==
  ASSUME NEW n \in Nat
  PROVE  IsFiniteSet(1 .. n) /\ Cardinality(1 .. n) = n
<1>1. IsFiniteSet(1 .. n) /\ Cardinality(1 .. n) = IF 1 > n THEN 0 ELSE n - 1 + 1
  BY FS_Interval
<1> QED
  BY <1>1

LEMMA ListsAreShort ==
  ASSUME NEW o \in Order, NEW q, IsList(o, q)
  PROVE  /\ Len(q) \in 0 .. BlockNum
         /\ Len(q) = Cardinality({b \in BlocksOf(o) : grant[b] = 0})
<1> DEFINE n == Len(q)
           f == {b \in BlocksOf(o) : grant[b] = 0}
<1>1. /\ q \in Seq(BlocksOf(o)) /\ n \in Nat
      /\ \A i, j \in 1 .. n : q[i] = q[j] => i = j
      /\ \A b \in BlocksOf(o) : grant[b] = 0 <=> \E i \in 1 .. n : q[i] = b
  BY DEF IsList
<1>2. BlockNum \in Nat
  BY BlockNumAssumption
<1>3. IsFiniteSet(1 .. BlockNum) /\ Cardinality(1 .. BlockNum) = BlockNum
      /\ IsFiniteSet(1 .. n) /\ Cardinality(1 .. n) = n
  BY <1>1, <1>2, UpTo
<1>4. Row(o) \in Surjection(1 .. BlockNum, BlocksOf(o))
  BY BlocksInARow DEF Surjection, Row
<1>5. IsFiniteSet(BlocksOf(o)) /\ Cardinality(BlocksOf(o)) <= BlockNum
  BY <1>3, <1>4, FS_Surjection
<1>6. q \in Bijection(1 .. n, f)
  <2>1. q \in [1 .. n -> BlocksOf(o)]
    BY <1>1
  <2>2. \A i \in 1 .. n : q[i] \in f
    BY <1>1, <2>1
  <2>3. \A b \in f : \E i \in 1 .. n : q[i] = b
    BY <1>1
  <2> HIDE DEF f, n
  <2>4. q \in [1 .. n -> f]
    BY <2>1, <2>2
  <2> QED
    <3>1. q \in Injection(1 .. n, f)
      BY <1>1, <2>4 DEF Injection, IsInjective
    <3>2. q \in Surjection(1 .. n, f)
      BY <2>3, <2>4 DEF Surjection
    <3> QED
      BY <3>1, <3>2 DEF Bijection
<1>7. IsFiniteSet(f) /\ Cardinality(f) = n
  BY <1>3, <1>6, FS_Bijection DEF ExistsBijection
<1>8. Cardinality(f) <= Cardinality(BlocksOf(o)) /\ Cardinality(BlocksOf(o)) \in Nat
  BY <1>5, FS_Subset, FS_CardinalityType
<1> HIDE DEF f, n
<1>9. n \in 0 .. BlockNum
  BY <1>1, <1>2, <1>5, <1>7, <1>8
<1> QED
  BY <1>7, <1>9 DEF f, n

LEMMA LeastIn ==
  ASSUME NEW S, S \subseteq Nat, S # {}
  PROVE  \E x \in S : \A y \in S : ~(y < x)
<1>1. PICK x \in S : \A y \in S : ~(<<y, x>> \in OpToRel(<, Nat))
  BY NatLessThanWellFounded, WFMin
<1> QED
  BY <1>1 DEF OpToRel

Node(o) ==
  CHOOSE node : node = [i \in 1 .. BlockNum |->
    IF i = 1 THEN head[o] ELSE IF node[i - 1] = Null THEN Null ELSE next[node[i - 1]]]

LEMMA ChainOfNodes ==
  ASSUME NEW o
  PROVE  Chain(o) = [i \in 1 .. numFree[o] |-> Node(o)[i]]
BY DEF Chain, Node

LEMMA ListIsChain ==
  ASSUME HeapInv, NEW o \in Order, NEW q, IsList(o, q)
  PROVE  Chain(o) = q
<1> DEFINE n == Len(q)
           OfNode(g) == [i \in 1 .. BlockNum |->
             IF i = 1 THEN head[o] ELSE IF g[i - 1] = Null THEN Null ELSE next[g[i - 1]]]
           path == [i \in 1 .. BlockNum |-> IF i <= n THEN q[i] ELSE Null]
<1>1. /\ q \in Seq(BlocksOf(o)) /\ n \in 0 .. BlockNum /\ n = numFree[o]
      /\ head[o] = IF n = 0 THEN Null ELSE q[1]
      /\ \A i \in 1 .. n : next[q[i]] = IF i = n THEN Null ELSE q[i + 1]
      /\ \A i \in 1 .. n : q[i] # Null
  <2>1. n \in 0 .. BlockNum
    BY ListsAreShort
  <2>2. q \in Seq(BlocksOf(o)) /\ \A i \in 1 .. n : q[i] \in BlocksOf(o)
    BY DEF IsList
  <2>3. \A i \in 1 .. n : q[i] # Null
    BY <2>2, BlocksLie
  <2> QED
    BY <2>1, <2>2, <2>3 DEF IsList
<1>2. BlockNum \in Nat \ {0}
  BY BlockNumAssumption
<1> HIDE DEF n
<1>3. path = OfNode(path)
  <2> SUFFICES ASSUME NEW i \in 1 .. BlockNum PROVE path[i] = OfNode(path)[i]
    OBVIOUS
  <2>1. CASE i = 1
    BY <1>1, <2>1
  <2>2. CASE i # 1
    <3>1. /\ i - 1 \in 1 .. BlockNum /\ path[i - 1] = IF i - 1 <= n THEN q[i - 1] ELSE Null
          /\ path[i] = IF i <= n THEN q[i] ELSE Null
          /\ OfNode(path)[i] = IF path[i - 1] = Null THEN Null ELSE next[path[i - 1]]
      BY <1>2, <2>2
    <3>2. i - 1 <= n => i - 1 \in 1 .. n /\ (i - 1 = n <=> ~(i <= n)) /\ (i - 1) + 1 = i
      BY <1>1, <1>2, <2>2
    <3>3. ~(i - 1 <= n) => ~(i <= n)
      BY <1>1, <1>2
    <3> HIDE DEF OfNode, path
    <3> QED
      BY <1>1, <3>1, <3>2, <3>3
  <2> QED
    BY <2>1, <2>2
<1>4. Node(o) = OfNode(Node(o))
  <2>1. Node(o) = CHOOSE node : node = OfNode(node)
    BY DEF Node
  <2> HIDE DEF OfNode, path
  <2> QED
    BY <1>3, <2>1
<1>5. \A i \in 1 .. n : Node(o)[i] = q[i]
  <2> DEFINE Wrong == {i \in 1 .. n : Node(o)[i] # q[i]}
  <2> SUFFICES ASSUME Wrong # {} PROVE FALSE
    OBVIOUS
  <2>0. Wrong \subseteq Nat
    BY <1>1
  <2>1. PICK i \in Wrong : \A j \in Wrong : ~(j < i)
    BY <2>0, LeastIn
  <2>2. i \in 1 .. n /\ i \in 1 .. BlockNum /\ Node(o)[i] # q[i]
    BY <1>1, <1>2
  <2>3. Node(o)[i] = IF i = 1 THEN head[o]
                     ELSE IF Node(o)[i - 1] = Null THEN Null ELSE next[Node(o)[i - 1]]
    BY <1>4, <2>2
  <2>4. i # 1
    BY <1>1, <2>2, <2>3
  <2>5. i - 1 \in 1 .. n /\ i - 1 < i /\ i - 1 # n /\ (i - 1) + 1 = i
    BY <1>1, <2>2, <2>4
  <2>6. Node(o)[i - 1] = q[i - 1]
    BY <2>1, <2>5
  <2> QED
    BY <1>1, <2>2, <2>3, <2>4, <2>5, <2>6
<1>6. Chain(o) = [i \in 1 .. n |-> q[i]]
  BY <1>1, <1>5, ChainOfNodes
<1> QED
  BY <1>1, <1>6 DEF n

----------------------------------------------------------------------------
(* The strengthened invariant holds of the allocator.                      *)
THEOREM HeapInvariant == Spec => []HeapInv
  BY InitEstablishes, StepKeeps, PTL DEF Spec

(* Heads, tails and nodes point to blocks, and num_free stays within the   *)
(* number of blocks.                                                       *)
THEOREM HeapTypeCorrect == Spec => []TypeOK
<1>1. HeapInv => TypeOK
  <2> SUFFICES ASSUME HeapInv PROVE TypeOK
    OBVIOUS
  <2>1. \A o \in Order : numFree[o] \in 0 .. BlockNum
    <3> SUFFICES ASSUME NEW o \in Order PROVE numFree[o] \in 0 .. BlockNum
      OBVIOUS
    <3>1. PICK q : IsList(o, q)
      BY DEF HeapInv
    <3>2. Len(q) = numFree[o]
      BY <3>1 DEF IsList
    <3> QED
      BY <3>1, <3>2, ListsAreShort
  <2> QED
    BY <2>1 DEF HeapInv, Functions, TypeOK
<1> QED
  BY HeapInvariant, <1>1, PTL

(* Each list holds exactly the blocks of its size that are not in use.     *)
THEOREM HeapListIsFreeBlocks == Spec => []ListIsFreeBlocks
<1>1. HeapInv => ListIsFreeBlocks
  <2> SUFFICES ASSUME HeapInv, NEW o \in Order
               PROVE  LET c == Chain(o)
                          f == {b \in BlocksOf(o) : grant[b] = 0}
                      IN /\ Len(c) = Cardinality(f)
                         /\ {c[i] : i \in DOMAIN c} = f
                         /\ f = {} => head[o] = Null
                         /\ f # {} => tail[o] = c[Len(c)] /\ next[tail[o]] = Null
    BY DEF ListIsFreeBlocks
  <2> DEFINE f == {b \in BlocksOf(o) : grant[b] = 0}
  <2>1. PICK q : IsList(o, q)
    BY DEF HeapInv
  <2>2. Chain(o) = q
    BY <2>1, ListIsChain
  <2>3. Len(q) = Cardinality(f)
    BY <2>1, ListsAreShort
  <2>4. /\ q \in Seq(BlocksOf(o))
        /\ \A b \in BlocksOf(o) : grant[b] = 0 <=> \E i \in 1 .. Len(q) : q[i] = b
        /\ head[o] = IF Len(q) = 0 THEN Null ELSE q[1]
        /\ Len(q) # 0 => tail[o] = q[Len(q)]
        /\ \A i \in 1 .. Len(q) : next[q[i]] = IF i = Len(q) THEN Null ELSE q[i + 1]
    BY <2>1 DEF IsList
  <2>5. DOMAIN q = 1 .. Len(q) /\ Len(q) \in Nat /\ \A i \in 1 .. Len(q) : q[i] \in BlocksOf(o)
    BY <2>4
  <2>6. {q[i] : i \in DOMAIN q} = f
    <3>1. \A i \in 1 .. Len(q) : q[i] \in f
      BY <2>4, <2>5
    <3>2. \A b \in f : \E i \in 1 .. Len(q) : q[i] = b
      BY <2>4
    <3>3. DOMAIN q = 1 .. Len(q)
      BY <2>5
    <3> HIDE DEF f
    <3> QED
      BY <3>1, <3>2, <3>3, Zenon
  <2>7. f = {} => Len(q) = 0
    BY <2>5, <2>6
  <2>8. f # {} => Len(q) # 0 /\ Len(q) \in 1 .. Len(q)
    BY <2>5, <2>6
  <2> HIDE DEF f
  <2>9. /\ f = {} => head[o] = Null
        /\ f # {} => tail[o] = q[Len(q)] /\ next[tail[o]] = Null
    BY <2>4, <2>7, <2>8
  <2> QED
    BY <2>2, <2>3, <2>6, <2>9 DEF f
<1> QED
  BY HeapInvariant, <1>1, PTL

(* Requests that find_order gives a large enough block.                    *)
Small(n) == n <= 8192

LEMMA SmallGrantsFit ==
  ASSUME \A n \in Sizes : Small(n), HeapInv, NEW b \in Block, grant[b] # 0
  PROVE  /\ grant[b] <= FindSize(b)
         /\ FindSize(b) = MIN_BLOCK \/ FindSize(b) < 2 * grant[b]
<1>1. PICK o \in Order : b \in BlocksOf(o)
  BY BlockIsSomewhere
<1>2. o = FindOrder(grant[b]) /\ grant[b] \in Sizes
  BY <1>1 DEF HeapInv, GrantsInPlace, Functions
<1>3. grant[b] \in 1 .. MAX_BLOCK /\ Small(grant[b])
  BY <1>2, SizesAssumption
<1>4. FindSize(b) = SizeOf(FindOrder(grant[b]))
  BY <1>1, <1>2, SizeIsFound
<1>5. ASSUME NEW n \in 1 .. MAX_BLOCK, Small(n)
      PROVE  /\ n <= SizeOf(FindOrder(n))
             /\ SizeOf(FindOrder(n)) = MIN_BLOCK \/ SizeOf(FindOrder(n)) < 2 * n
  BY <1>5, OrderFits DEF Small
<1> QED
  BY <1>3, <1>4, <1>5

(* find_order sends a request of up to 8192 bytes to the blocks of the     *)
(* next power of two; beyond that its quotient does not fit a byte.        *)
THEOREM HeapNearestBlock == (\A n \in Sizes : Small(n)) => (Spec => []NearestBlock)
<1> SUFFICES ASSUME \A n \in Sizes : Small(n) PROVE Spec => []NearestBlock
  OBVIOUS
<1>1. HeapInv => NearestBlock
  BY SmallGrantsFit DEF NearestBlock
<1> QED
  BY HeapInvariant, <1>1, PTL

(* The queue of an order is the sequence of HeapInv.                       *)
ChainsAreLists == \A o \in Order : \A q : IsList(o, q) => Chain(o) = q

(* The linked lists behave as queues: kmalloc takes the block freed first, *)
(* kfree puts a block last on the list it came from.                       *)
THEOREM HeapImplementsFreeLists == Spec => ImplementsFreeLists
<1> DEFINE free == [o \in Order |-> Chain(o)]
           Initially == [o \in Order |-> [i \in 1 .. BlockNum |-> Base(o) + (i - 1) * SizeOf(o)]]
<1>1. HeapInv => ChainsAreLists
  BY ListIsChain DEF ChainsAreLists
<1>2. \A o \in Order : Initially[o] = Row(o)
  BY DEF Row
<1>3. Init /\ ChainsAreLists => Lists!Init
  <2> SUFFICES ASSUME Init, ChainsAreLists PROVE free = Initially
    BY DEF Lists!Init
  <2>1. \A o \in Order : Chain(o) = Row(o)
    BY InitLists DEF ChainsAreLists
  <2> QED
    BY <1>2, <2>1
<1>4. ASSUME HeapInv, HeapInv', ChainsAreLists, ChainsAreLists', NEW o \in Order, NEW q,
             IsList(o, q)', \A p \in Order : \A r : p # o /\ IsList(p, r) => IsList(p, r)'
      PROVE  free' = [free EXCEPT ![o] = q]
  <2>1. Chain(o)' = q
    BY <1>4 DEF ChainsAreLists
  <2>2. ASSUME NEW p \in Order, p # o PROVE Chain(p)' = Chain(p)
    <3>1. PICK r : IsList(p, r)
      BY <1>4 DEF HeapInv
    <3>2. IsList(p, r)'
      BY <1>4, <2>2, <3>1
    <3> QED
      BY <1>4, <3>1, <3>2 DEF ChainsAreLists
  <2> QED
    BY <2>1, <2>2
<1>5. ASSUME HeapInv, HeapInv', ChainsAreLists, ChainsAreLists', NEW size \in Sizes, Kmalloc(size)
      PROVE  Lists!Next
  <2> DEFINE o == FindOrder(size)
  <2>1. o \in Order
    BY SizesHaveOrders
  <2>2. PICK q : IsList(o, q)
    BY <1>5, <2>1 DEF HeapInv
  <2>3. q # <<>> /\ IsList(o, Tail(q))' /\ Chain(o) = q
    BY <1>5, <2>1, <2>2, TakeFromList DEF ChainsAreLists
  <2>4. \A p \in Order : \A r : p # o /\ IsList(p, r) => IsList(p, r)'
    BY <1>5, KmallocKeeps
  <2>5. free' = [free EXCEPT ![o] = Tail(q)]
    BY <1>4, <1>5, <2>1, <2>3, <2>4
  <2>6. free[o] = q
    BY <2>1, <2>3
  <2> HIDE DEF o, free
  <2>7. free[o] # <<>> /\ free' = [free EXCEPT ![o] = Tail(free[o])]
    BY <2>3, <2>5, <2>6
  <2>8. Lists!Take(o)
    BY <2>7 DEF Lists!Take, free
  <2> QED
    BY <2>1, <2>8 DEF Lists!Next
<1>6. ASSUME HeapInv, HeapInv', ChainsAreLists, ChainsAreLists', NEW b \in Block, Kfree(b)
      PROVE  Lists!Next
  <2> DEFINE o == FindOrder(FindSize(b))
  <2>1. o \in Order /\ b \in BlocksOf(o)
    BY <1>6, ListIsFound DEF Kfree
  <2>2. PICK q : IsList(o, q)
    BY <1>6, <2>1 DEF HeapInv
  <2>3. /\ IsList(o, Append(q, b))' /\ Chain(o) = q
        /\ \A i \in 1 .. Len(q) : q[i] # b
    BY <1>6, <2>1, <2>2, GiveToList DEF ChainsAreLists
  <2>4. \A p \in Order : \A r : p # o /\ IsList(p, r) => IsList(p, r)'
    BY <1>6, KfreeKeeps
  <2>5. free' = [free EXCEPT ![o] = Append(q, b)]
    BY <1>4, <1>6, <2>1, <2>3, <2>4
  <2>6. free[o] = q /\ DOMAIN q = 1 .. Len(q)
    BY <2>1, <2>2, <2>3 DEF IsList
  <2>7. PICK i \in 1 .. BlockNum : Row(o)[i] = b
    BY <2>1, BlocksInARow
  <2>8. i \in DOMAIN Initially[o] /\ Initially[o][i] = b
    <3>1. Initially[o] = Row(o)
      BY <1>2, <2>1
    <3>2. DOMAIN Row(o) = 1 .. BlockNum
      BY DEF Row
    <3> HIDE DEF Initially
    <3> QED
      BY <2>7, <3>1, <3>2
  <2> HIDE DEF o, free, Initially
  <2>9. \A j \in DOMAIN free[o] : free[o][j] # b
    BY <2>3, <2>6
  <2>10. free' = [free EXCEPT ![o] = Append(free[o], b)]
    BY <2>5, <2>6
  <2>11. Lists!Give(o, b)
    BY <2>8, <2>9, <2>10 DEF Lists!Give, free, Initially
  <2>12. Lists!Give(o, Initially[o][i])
    BY <2>8, <2>11
  <2> QED
    BY <2>1, <2>8, <2>12 DEF Lists!Next, Initially
<1>7. UNCHANGED vars => UNCHANGED free
  BY DEF vars, Chain
<1>8. HeapInv /\ HeapInv' /\ ChainsAreLists /\ ChainsAreLists' /\ [Next]_vars
        => [Lists!Next]_free
  BY <1>5, <1>6, <1>7 DEF Next
<1> HIDE DEF Initially
<1> QED
  BY HeapInvariant, <1>1, <1>3, <1>8, PTL DEF Spec, ImplementsFreeLists, Lists!Spec
=============================================================================
