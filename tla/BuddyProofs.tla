---------------------------- MODULE BuddyProofs ----------------------------
(* Proofs about Buddy for any number of orders and areas and any sizes of  *)
(* requests.                                                               *)
EXTENDS Buddy, WellFoundedInduction, FiniteSetTheorems, TLAPS

-----------------------------------------------------------------------------
(* Least and greatest orders.                                              *)

LEMMA LeastNatural ==
    ASSUME NEW S \in SUBSET Nat, S # {}
    PROVE  \E x \in S : \A y \in S : ~ (y < x)
<1>1. PICK x \in S : \A y \in S : ~ (<<y, x>> \in OpToRel(<, Nat))
  BY NatLessThanWellFounded, WFMin, Zenon
<1>2. QED BY <1>1, Zenon DEF OpToRel

LEMMA MinIsLeast ==
    ASSUME NEW S \in SUBSET Nat, S # {}
    PROVE  Min(S) \in S /\ \A y \in S : Min(S) =< y
<1>1. \E x \in S : \A y \in S : x =< y
  BY LeastNatural
<1>2. QED BY <1>1 DEF Min

LEMMA MaxIsGreatest ==
    ASSUME NEW n \in Int, NEW S \in SUBSET Int, S # {}, \A x \in S : x =< n
    PROVE  Max(S) \in S /\ \A y \in S : y =< Max(S)
<1> DEFINE T == {n - x : x \in S}
<1>1. T \in SUBSET Nat /\ T # {}
  <2>1. \A x \in S : n - x \in Nat
    OBVIOUS
  <2>2. PICK x \in S : TRUE
    OBVIOUS
  <2>3. n - x \in T
    OBVIOUS
  <2>4. QED BY <2>1, <2>3
<1> HIDE DEF T
<1>2. PICK t \in T : \A u \in T : ~ (u < t)
  BY <1>1, LeastNatural
<1>3. PICK x \in S : t = n - x
  BY DEF T
<1>4. \A y \in S : y =< x
  <2> TAKE y \in S
  <2>1. n - y \in T
    BY DEF T
  <2>2. ~ (n - y < n - x)
    BY <1>2, <1>3, <2>1
  <2>3. QED BY <2>2
<1>5. \E z \in S : \A y \in S : z >= y
  BY <1>4
<1>6. QED BY <1>5 DEF Max

Top == MAX_ORDER - 1

LEMMA OrderFacts ==
    /\ Top \in Nat /\ Top \in Order /\ 0 \in Order
    /\ Order \subseteq Nat /\ \A i \in Order : i =< Top
    /\ Top \in Int /\ \A i \in Order \cup {-1} : i \in Int /\ i =< Top
<1>1. Top \in Nat /\ Order = 0 .. Top
  BY OrderAssumption DEF Top, Order
<1>2. \A i \in Order : i \in Nat /\ i \in Int /\ i =< Top
  BY <1>1
<1>3. -1 \in Int /\ -1 =< Top
  BY <1>1
<1>4. Top \in Order /\ 0 \in Order
  BY <1>1
<1>5. QED BY <1>1, <1>2, <1>3, <1>4

LEMMA NonemptyOrders == \A blocks : Nonempty(blocks) \subseteq Order
  BY DEF Nonempty

\* The largest order with a block, or -1.
LEMMA LargestIsGreatest ==
    ASSUME NEW blocks
    PROVE  /\ Largest(blocks) \in Nonempty(blocks) \cup {-1}
           /\ \A i \in Nonempty(blocks) : i =< Largest(blocks)
<1> DEFINE S == Nonempty(blocks) \cup {-1}
<1>1. /\ S \in SUBSET Int /\ S # {} /\ Top \in Int
      /\ \A x \in S : x =< Top
  <2>1. S # {} /\ \A x \in S : x \in Order \cup {-1}
    BY NonemptyOrders
  <2> HIDE DEF S
  <2>2. QED BY <2>1, OrderFacts
<1>2. Nonempty(blocks) \subseteq S /\ Largest(blocks) = Max(S)
  BY DEF Largest
<1> HIDE DEF S
<1>3. Max(S) \in S /\ \A y \in S : y =< Max(S)
  BY <1>1, MaxIsGreatest
<1>4. QED BY <1>2, <1>3 DEF S

LEMMA FittingIsOrder ==
    ASSUME NEW size, size =< buddy_size[MAX_ORDER - 1]
    PROVE  Fitting(size) \in Order
<1> DEFINE S == {i \in Order : size =< buddy_size[i]}
<1>1. S \in SUBSET Nat /\ S # {} /\ S \subseteq Order
  BY OrderFacts DEF Top
<1> HIDE DEF S
<1>2. Min(S) \in S
  BY <1>1, MinIsLeast
<1>3. QED BY <1>1, <1>2 DEF Fitting, S

-----------------------------------------------------------------------------
(* Sizes and addresses.                                                    *)

\* Induction over the orders from j to n.
LEMMA Upwards ==
    ASSUME NEW S, NEW j \in Nat, NEW n \in Nat, j \in S,
           \A k \in j .. n - 1 : k \in S => k + 1 \in S
    PROVE  j .. n \subseteq S
<1> DEFINE Out == {k \in Nat : j =< k /\ k =< n /\ k \notin S}
<1>1. CASE Out = {}
  BY <1>1
<1>2. CASE Out # {}
  <2>1. PICK k \in Out : \A i \in Out : ~ (i < k)
    BY <1>2, LeastNatural
  <2>2. k \in Nat /\ j < k /\ k =< n /\ k \notin S
    BY <2>1
  <2>3. k - 1 \in j .. n - 1 /\ k - 1 \notin Out /\ (k - 1) + 1 = k
    BY <2>1, <2>2
  <2>4. k - 1 \in S
    BY <2>3
  <2>5. QED BY <2>2, <2>3, <2>4
<1>3. QED BY <1>1, <1>2

LEMMA OrderIs == /\ MAX_ORDER \in Nat /\ MAX_ORDER > 1 /\ Top = MAX_ORDER - 1
                 /\ Order = 0 .. Top /\ Top \in Nat /\ Top \in Order /\ 0 \in Order
  BY OrderAssumption, OrderFacts DEF Order, Top

\* Each size of the table is twice the one before.
LEMMA Doubles ==
    /\ buddy_size[0] = 1 /\ SINGLE_AREA_SIZE = 2 * buddy_size[Top]
    /\ \A i \in Order : buddy_size[i] \in Nat /\ buddy_size[i] > 0
    /\ \A i \in Order : i < Top => i + 1 \in Order /\ buddy_size[i + 1] = 2 * buddy_size[i]
<1>1. \A i \in Order : buddy_size[i] \in Nat
  BY BuddySizeAssumption DEF Order
<1>2. \A i \in Order : i < Top => i + 1 \in Order /\ buddy_size[i + 1] = 2 * buddy_size[i]
  BY BuddySizeAssumption, OrderIs
<1> DEFINE S == {i \in Order : buddy_size[i] > 0}
<1>3. 0 \in S
  BY BuddySizeAssumption, OrderIs
<1>4. \A k \in 0 .. Top - 1 : k \in S => k + 1 \in S
  BY <1>1, <1>2, OrderIs
<1> HIDE DEF S
<1>5. 0 .. Top \subseteq S
  BY <1>3, <1>4, Upwards, OrderIs
<1>6. QED BY <1>1, <1>2, <1>5, BuddySizeAssumption, OrderIs DEF S, SINGLE_AREA_SIZE

LEMMA Grows == \A i, j \in Order : i < j => 2 * buddy_size[i] =< buddy_size[j]
<1> TAKE i \in Order, j \in Order
<1> HAVE i < j
<1> DEFINE S == {k \in Order : 2 * buddy_size[i] =< buddy_size[k]}
<1>1. i \in Nat /\ j \in Nat /\ i + 1 =< j /\ j =< Top /\ i + 1 \in S
  BY Doubles, OrderIs
<1>2. \A k \in i + 1 .. j - 1 : k \in S => k + 1 \in S
  BY <1>1, Doubles, OrderIs
<1> HIDE DEF S
<1>3. i + 1 .. j \subseteq S
  BY <1>1, <1>2, Upwards
<1>4. QED BY <1>1, <1>3 DEF S

\* A block's order follows from its size.
LEMMA FittingSize == \A i \in Order : Fitting(buddy_size[i]) = i
<1> TAKE i \in Order
<1> DEFINE S == {k \in Order : buddy_size[i] =< buddy_size[k]}
<1>1. S \in SUBSET Nat /\ i \in S /\ i \in Nat
  BY OrderIs, Doubles
<1>2. Min(S) \in S /\ Min(S) =< i
  BY <1>1, MinIsLeast
<1>3. Min(S) \in Order /\ Min(S) \in Nat /\ ~ (Min(S) < i)
  BY <1>2, OrderIs, Doubles, Grows
<1>4. QED BY <1>1, <1>2, <1>3 DEF Fitting

Multiple(x, i) == \E q \in Nat : x = q * buddy_size[i]

LEMMA MultipleIsNat == \A i \in Order : \A x : Multiple(x, i) => x \in Nat
  BY Doubles DEF Multiple

LEMMA Product ==
    ASSUME NEW p \in Nat, NEW q \in Nat, NEW d \in Nat, p < q
    PROVE  p * d + d =< q * d
<1>1. PICK r \in Nat : q = p + 1 + r
  <2>1. q - p - 1 \in Nat /\ q = p + 1 + (q - p - 1)
    OBVIOUS
  <2>2. QED BY <2>1
<1>2. q * d = p * d + d + r * d
  BY <1>1
<1>3. p * d \in Nat /\ r * d \in Nat
  OBVIOUS
<1>4. QED BY <1>2, <1>3

\* The block of an order that an address is in.
LEMMA AtFacts ==
    ASSUME NEW i \in Order, NEW x \in Nat
    PROVE  /\ At(x, i) \in Nat /\ Multiple(At(x, i), i)
           /\ At(x, i) =< x /\ x < At(x, i) + buddy_size[i]
<1> DEFINE d == buddy_size[i]
<1>1. d \in Nat /\ d > 0
  BY Doubles
<1> HIDE DEF d
<1>2. /\ x \div d \in Nat /\ x % d \in Nat /\ x % d < d
      /\ x = d * (x \div d) + (x % d)
  <2>1. x \div d \in Int /\ x % d \in 0 .. d - 1
    BY <1>1
  <2>2. x = d * (x \div d) + (x % d)
    BY <1>1
  <2>3. x \div d >= 0
    BY <1>1
  <2>4. QED BY <1>1, <2>1, <2>2, <2>3
<1>3. x - (x % d) = (x \div d) * d
  BY <1>1, <1>2
<1>4. (x \div d) * d \in Nat
  BY <1>1, <1>2
<1>5. At(x, i) = (x \div d) * d /\ At(x, i) = x - (x % d)
  BY <1>3 DEF At, d
<1>6. Multiple(At(x, i), i)
  BY <1>2, <1>5 DEF Multiple, d
<1>7. At(x, i) \in Nat /\ At(x, i) =< x /\ x < At(x, i) + d
  BY <1>1, <1>2, <1>4, <1>5
<1>8. QED BY <1>6, <1>7 DEF d

LEMMA AtIsOnly ==
    ASSUME NEW i \in Order, NEW x \in Nat, NEW y, Multiple(y, i),
           y =< x, x < y + buddy_size[i]
    PROVE  y = At(x, i)
<1>1. PICK q \in Nat : y = q * buddy_size[i]
  BY DEF Multiple
<1>2. PICK p \in Nat : At(x, i) = p * buddy_size[i]
  BY AtFacts DEF Multiple
<1>3. At(x, i) \in Nat /\ At(x, i) =< x /\ x < At(x, i) + buddy_size[i]
  BY AtFacts
<1>4. y \in Nat /\ buddy_size[i] \in Nat
  BY Doubles, MultipleIsNat
<1>5. ~ (p < q)
  <2>1. p < q => At(x, i) + buddy_size[i] =< y
    BY <1>1, <1>2, <1>4, Product
  <2>2. QED BY <1>3, <1>4, <2>1
<1>6. ~ (q < p)
  <2>1. q < p => y + buddy_size[i] =< At(x, i)
    BY <1>1, <1>2, <1>4, Product
  <2>2. QED BY <1>3, <1>4, <2>1
<1>7. p = q
  BY <1>5, <1>6
<1>8. QED BY <1>1, <1>2, <1>7

LEMMA AtMultiple == \A i \in Order : \A x : Multiple(x, i) => At(x, i) = x
<1> TAKE i \in Order
<1> TAKE x
<1> HAVE Multiple(x, i)
<1>1. x \in Nat /\ x =< x /\ x < x + buddy_size[i]
  BY MultipleIsNat, Doubles
<1>2. QED BY <1>1, AtIsOnly

\* The block is one half of the block of the next order, its buddy the other.
LEMMA HalfFacts ==
    ASSUME NEW i \in Order, i < Top, NEW x \in Nat
    PROVE  /\ i + 1 \in Order /\ buddy_size[i + 1] = 2 * buddy_size[i]
           /\ Multiple(At(x, i + 1), i) /\ Multiple(At(x, i + 1) + buddy_size[i], i)
           /\ \/ /\ At(x, i) = At(x, i + 1)
                 /\ Buddy_(x, i) = At(x, i + 1) + buddy_size[i]
              \/ /\ At(x, i) = At(x, i + 1) + buddy_size[i]
                 /\ Buddy_(x, i) = At(x, i + 1)
<1> DEFINE d == buddy_size[i]
           y == At(x, i + 1)
           z == At(x, i)
<1>1. i + 1 \in Order /\ buddy_size[i + 1] = 2 * d /\ d \in Nat /\ d > 0
  BY Doubles
<1>2. y \in Nat /\ Multiple(y, i + 1) /\ y =< x /\ x < y + 2 * d
  BY <1>1, AtFacts
<1>3. Multiple(y, i) /\ Multiple(y + d, i)
  <2>1. PICK q \in Nat : y = q * (2 * d)
    BY <1>1, <1>2 DEF Multiple
  <2>2. y = (2 * q) * d /\ 2 * q \in Nat
    BY <1>1, <2>1
  <2>3. y + d = (2 * q + 1) * d /\ 2 * q + 1 \in Nat
    BY <1>1, <2>2
  <2>4. QED BY <2>2, <2>3 DEF Multiple
<1>a. z = x - (x % buddy_size[i]) /\ z \in Nat
  BY AtFacts DEF At
<1>4. z % buddy_size[i + 1] = z - At(z, i + 1)
  <2>1. At(z, i + 1) = z - (z % buddy_size[i + 1])
    BY DEF At
  <2>2. z % (2 * d) \in Int
    BY <1>1, <1>a
  <2>3. QED BY <1>1, <1>a, <2>1, <2>2
<1> HIDE DEF d, y, z
<1>5. CASE x < y + d
  <2>1. z = y
    BY <1>1, <1>2, <1>3, <1>5, AtIsOnly DEF d, z
  <2>2. At(z, i + 1) = z
    BY <1>1, <1>2, <2>1, AtMultiple
  <2>3. z % buddy_size[i + 1] = 0
    BY <1>4, <1>a, <2>2
  <2>4. Buddy_(x, i) = y + d
    BY <2>1, <2>3 DEF Buddy_, z, d
  <2>5. QED BY <1>1, <1>3, <2>1, <2>4 DEF y, z, d
<1>6. CASE ~ (x < y + d)
  <2>1. z = y + d
    <3>1. y + d =< x /\ x < (y + d) + d /\ Multiple(y + d, i)
      BY <1>1, <1>2, <1>3, <1>6
    <3>2. QED BY <3>1, AtIsOnly DEF d, z
  <2>2. At(z, i + 1) = y
    <3>1. y =< z /\ z < y + buddy_size[i + 1]
      BY <1>1, <1>2, <2>1
    <3>2. QED BY <1>1, <1>2, <1>a, <3>1, AtIsOnly
  <2>3. z % buddy_size[i + 1] # 0
    BY <1>1, <1>2, <1>4, <2>1, <2>2
  <2>4. Buddy_(x, i) = z - d
    BY <2>3 DEF Buddy_, z, d
  <2>5. Buddy_(x, i) = y
    BY <1>1, <1>2, <2>1, <2>4
  <2>6. QED BY <1>1, <1>3, <2>1, <2>5 DEF y, z, d
<1>7. QED BY <1>5, <1>6

\* Being buddies is mutual.
LEMMA BuddyFacts ==
    ASSUME NEW i \in Order, i < Top, NEW x \in Nat
    PROVE  /\ Buddy_(x, i) \in Nat /\ Multiple(Buddy_(x, i), i)
           /\ Buddy_(x, i) # At(x, i)
           /\ Buddy_(At(x, i), i) = Buddy_(x, i)
           /\ Buddy_(Buddy_(x, i), i) = At(x, i)
<1> DEFINE y == At(x, i + 1)
<1>1. /\ i + 1 \in Order /\ buddy_size[i + 1] = 2 * buddy_size[i]
      /\ Multiple(y, i) /\ Multiple(y + buddy_size[i], i)
      /\ \/ At(x, i) = y /\ Buddy_(x, i) = y + buddy_size[i]
         \/ At(x, i) = y + buddy_size[i] /\ Buddy_(x, i) = y
  BY HalfFacts
<1>2. y \in Nat /\ Multiple(y, i + 1)
  BY <1>1, AtFacts
<1>3. buddy_size[i] \in Nat /\ buddy_size[i] > 0
  BY Doubles
<1> HIDE DEF y
<1>4. At(y, i) = y /\ At(y + buddy_size[i], i) = y + buddy_size[i]
  BY <1>1, AtMultiple
<1>5. At(y, i + 1) = y /\ At(y + buddy_size[i], i + 1) = y
  <2>1. y =< y + buddy_size[i] /\ y + buddy_size[i] < y + buddy_size[i + 1]
    BY <1>1, <1>2, <1>3
  <2>2. y + buddy_size[i] \in Nat
    BY <1>2, <1>3
  <2>3. QED BY <1>1, <1>2, <2>1, <2>2, AtMultiple, AtIsOnly
<1>6. Buddy_(y, i) = y + buddy_size[i] /\ Buddy_(y + buddy_size[i], i) = y
  <2>1. y # y + buddy_size[i]
    BY <1>2, <1>3
  <2>2. y + buddy_size[i] \in Nat
    BY <1>2, <1>3
  <2>3. Buddy_(y, i) = y + buddy_size[i]
    BY <1>2, <1>4, <1>5, <2>1, HalfFacts
  <2>4. Buddy_(y + buddy_size[i], i) = y
    BY <1>4, <1>5, <2>1, <2>2, HalfFacts
  <2>5. QED BY <2>3, <2>4
<1>7. y + buddy_size[i] \in Nat /\ y + buddy_size[i] # y
  BY <1>2, <1>3
<1>8. QED BY <1>1, <1>2, <1>6, <1>7

-----------------------------------------------------------------------------
(* Sets of pieces that tile a range of addresses.                          *)

Piece(a, b, n) == [area |-> a, addr |-> b, length |-> n]

LEMMA PieceFacts ==
    /\ \A a, b, n : Piece(a, b, n).area = a /\ Piece(a, b, n).addr = b
                    /\ Piece(a, b, n).length = n
    /\ \A a, b, n, b2, n2 : Piece(a, b, n) = Piece(a, b2, n2) => b = b2 /\ n = n2
<1>1. \A a, b, n : Piece(a, b, n).area = a /\ Piece(a, b, n).addr = b
                   /\ Piece(a, b, n).length = n
  BY DEF Piece
<1>2. QED BY <1>1

LEMMA PieceOnly ==
    ASSUME NEW a, NEW b, NEW n, NEW c, NEW m, Piece(a, b, n) = Piece(a, c, m)
    PROVE  b = c /\ n = m
<1>1. Piece(a, b, n).addr = Piece(a, c, m).addr /\ Piece(a, b, n).length = Piece(a, c, m).length
  BY Zenon
<1>2. QED BY <1>1, PieceFacts

\* x is in the piece p.
In(x, p) == p.addr =< x /\ x < p.addr + p.length

Tiles(P, lo, hi) ==
    /\ \A p \in P : /\ p.addr \in Nat /\ p.length \in Nat /\ p.length > 0
                    /\ lo =< p.addr /\ p.addr + p.length =< hi
    /\ \A x \in lo .. hi - 1 : \E p \in P : In(x, p)
    /\ \A p, q \in P : \A x \in lo .. hi - 1 : In(x, p) /\ In(x, q) => p = q

LEMMA OneTile ==
    ASSUME NEW a, NEW b \in Nat, NEW n \in Nat, n > 0
    PROVE  Tiles({Piece(a, b, n)}, b, b + n)
<1> DEFINE p == Piece(a, b, n)
<1>1. p.addr = b /\ p.length = n
  BY PieceFacts
<1> HIDE DEF p
<1>2. QED BY <1>1 DEF Tiles, In, p

LEMMA Join ==
    ASSUME NEW P, NEW Q, NEW lo \in Nat, NEW mid \in Nat, NEW hi \in Nat,
           lo =< mid, mid =< hi, Tiles(P, lo, mid), Tiles(Q, mid, hi)
    PROVE  Tiles(P \cup Q, lo, hi)
<1>1. \A p \in P : /\ p.addr \in Nat /\ p.length \in Nat /\ p.length > 0
                   /\ lo =< p.addr /\ p.addr + p.length =< mid
  BY DEF Tiles
<1>2. \A p \in Q : /\ p.addr \in Nat /\ p.length \in Nat /\ p.length > 0
                   /\ mid =< p.addr /\ p.addr + p.length =< hi
  BY DEF Tiles
<1>3. \A p \in P \cup Q : /\ p.addr \in Nat /\ p.length \in Nat /\ p.length > 0
                          /\ lo =< p.addr /\ p.addr + p.length =< hi
  BY <1>1, <1>2
<1>4. \A x \in lo .. hi - 1 : \E p \in P \cup Q : In(x, p)
  <2> TAKE x \in lo .. hi - 1
  <2>1. CASE x < mid
    <3>1. x \in lo .. mid - 1
      BY <2>1
    <3>2. QED BY <3>1 DEF Tiles
  <2>2. CASE ~ (x < mid)
    <3>1. x \in mid .. hi - 1
      BY <2>2
    <3>2. QED BY <3>1 DEF Tiles
  <2>3. QED BY <2>1, <2>2
<1>5. \A p, q \in P \cup Q : \A x \in lo .. hi - 1 : In(x, p) /\ In(x, q) => p = q
  <2> TAKE p, q \in P \cup Q
  <2> TAKE x \in lo .. hi - 1
  <2> HAVE In(x, p) /\ In(x, q)
  <2>1. CASE x < mid
    <3>1. x \in lo .. mid - 1
      BY <2>1
    <3>2. p \in P /\ q \in P
      BY <1>2, <2>1 DEF In
    <3>3. QED BY <3>1, <3>2 DEF Tiles
  <2>2. CASE ~ (x < mid)
    <3>1. x \in mid .. hi - 1
      BY <2>2
    <3>2. p \in Q /\ q \in Q
      BY <1>1, <2>2 DEF In
    <3>3. QED BY <3>1, <3>2 DEF Tiles
  <2>3. QED BY <2>1, <2>2
<1>6. QED BY <1>3, <1>4, <1>5 DEF Tiles

\* Pieces of a range are replaced by others of the same range.
LEMMA Retile ==
    ASSUME NEW P, NEW R, NEW Q, NEW n \in Nat, NEW lo \in Nat, NEW hi \in Nat, hi =< n,
           Tiles(P, 0, n), R \subseteq P, Tiles(R, lo, hi), Tiles(Q, lo, hi)
    PROVE  Tiles((P \ R) \cup Q, 0, n) /\ (P \ R) \cap Q = {}
<1>1. \A p \in P : p.addr \in Nat /\ p.length \in Nat /\ p.length > 0 /\ p.addr + p.length =< n
  BY DEF Tiles
<1>2. \A p \in Q : /\ p.addr \in Nat /\ p.length \in Nat /\ p.length > 0
                   /\ lo =< p.addr /\ p.addr + p.length =< hi
  BY DEF Tiles
<1>3. ASSUME NEW p \in P \ R, NEW x \in lo .. hi - 1, In(x, p)
      PROVE  FALSE
  <2>1. PICK r \in R : In(x, r)
    BY DEF Tiles
  <2>2. x \in 0 .. n - 1
    OBVIOUS
  <2>3. r = p
    BY <1>3, <2>1, <2>2 DEF Tiles
  <2>4. QED BY <2>3
<1>4. ASSUME NEW x \in lo .. hi - 1, NEW p \in (P \ R) \cup Q, In(x, p)
      PROVE  p \in Q
  BY <1>3, <1>4
<1>5. ASSUME NEW x \in 0 .. n - 1, x \notin lo .. hi - 1, NEW p, In(x, p)
      PROVE  (p \in Q => FALSE) /\ (p \in R => FALSE)
  <2>1. \A q \in Q \cup R : q.addr \in Nat /\ q.length \in Nat
                            /\ lo =< q.addr /\ q.addr + q.length =< hi
    BY DEF Tiles
  <2>2. QED BY <1>5, <2>1 DEF In
<1>6. \A p \in (P \ R) \cup Q : /\ p.addr \in Nat /\ p.length \in Nat /\ p.length > 0
                                /\ 0 =< p.addr /\ p.addr + p.length =< n
  BY <1>1, <1>2
<1>7. \A x \in 0 .. n - 1 : \E p \in (P \ R) \cup Q : In(x, p)
  <2> TAKE x \in 0 .. n - 1
  <2>1. CASE x \in lo .. hi - 1
    BY <2>1 DEF Tiles
  <2>2. CASE x \notin lo .. hi - 1
    <3>1. PICK p \in P : In(x, p)
      BY DEF Tiles
    <3>2. p \notin R
      BY <1>5, <2>2, <3>1
    <3>3. QED BY <3>1, <3>2
  <2>3. QED BY <2>1, <2>2
<1>8. \A p, q \in (P \ R) \cup Q : \A x \in 0 .. n - 1 : In(x, p) /\ In(x, q) => p = q
  <2> TAKE p, q \in (P \ R) \cup Q
  <2> TAKE x \in 0 .. n - 1
  <2> HAVE In(x, p) /\ In(x, q)
  <2>1. CASE x \in lo .. hi - 1
    <3>1. p \in Q /\ q \in Q
      BY <1>4, <2>1
    <3>2. QED BY <2>1, <3>1 DEF Tiles
  <2>2. CASE x \notin lo .. hi - 1
    <3>1. p \in P /\ q \in P
      BY <1>5, <2>2
    <3>2. QED BY <3>1 DEF Tiles
  <2>3. QED BY <2>1, <2>2
<1>9. (P \ R) \cap Q = {}
  <2> SUFFICES ASSUME NEW p \in P \ R, p \in Q PROVE FALSE
    OBVIOUS
  <2>1. In(p.addr, p) /\ p.addr \in lo .. hi - 1
    BY <1>2 DEF In
  <2>2. QED BY <1>3, <2>1
<1>10. QED BY <1>6, <1>7, <1>8, <1>9 DEF Tiles

\* What dhmp_get_free_block makes of the first blocks of order k: the one that
\* is handed out and the right halves that are freed on the way.
Halves(a, b, j, k) == {Piece(a, b, buddy_size[j])}
                        \cup {Piece(a, b + buddy_size[i], buddy_size[i]) : i \in j .. k - 1}

LEMMA HalvesGrow ==
    ASSUME NEW a, NEW b, NEW j \in Nat, NEW k \in Nat, j =< k
    PROVE  Halves(a, b, j, k + 1)
             = Halves(a, b, j, k) \cup {Piece(a, b + buddy_size[k], buddy_size[k])}
<1>1. j .. (k + 1) - 1 = (j .. k - 1) \cup {k}
  OBVIOUS
<1>2. QED BY <1>1 DEF Halves

LEMMA HalvesTile ==
    ASSUME NEW a, NEW b \in Nat, NEW j \in Order, NEW k \in Order, j =< k
    PROVE  Tiles(Halves(a, b, j, k), b, b + buddy_size[k])
<1> DEFINE S == {i \in Order : Tiles(Halves(a, b, j, i), b, b + buddy_size[i])}
<1>1. j \in S
  <2>1. j .. j - 1 = {}
    BY OrderIs
  <2>2. Halves(a, b, j, j) = {Piece(a, b, buddy_size[j])}
    BY <2>1 DEF Halves
  <2>3. QED BY <2>2, OneTile, Doubles
<1>2. \A i \in j .. k - 1 : i \in S => i + 1 \in S
  <2> TAKE i \in j .. k - 1
  <2> HAVE i \in S
  <2>1. i \in Nat /\ j \in Nat /\ j =< i /\ i < Top /\ i \in Order /\ i + 1 \in Order
    BY OrderIs
  <2>2. /\ buddy_size[i + 1] = 2 * buddy_size[i] /\ buddy_size[i] \in Nat /\ buddy_size[i] > 0
    BY <2>1, Doubles
  <2> DEFINE d == buddy_size[i]
             r == {Piece(a, b + d, d)}
  <2>3. b + d \in Nat /\ d \in Nat /\ d > 0 /\ b + d + d = b + buddy_size[i + 1]
    BY <2>2
  <2>4. Tiles(r, b + d, b + buddy_size[i + 1])
    BY <2>3, OneTile
  <2>5. Halves(a, b, j, i + 1) = Halves(a, b, j, i) \cup r
    BY <2>1, HalvesGrow
  <2>6. Tiles(Halves(a, b, j, i), b, b + d)
    OBVIOUS
  <2> HIDE DEF d, r
  <2>7. Tiles(Halves(a, b, j, i + 1), b, b + buddy_size[i + 1])
    <3>1. b =< b + d /\ b + d =< b + buddy_size[i + 1] /\ b + buddy_size[i + 1] \in Nat
      BY <2>3
    <3>2. QED BY <2>3, <2>4, <2>5, <2>6, <3>1, Join
  <2>8. QED BY <2>1, <2>7
<1> HIDE DEF S
<1>3. j \in Nat /\ k \in Nat /\ k \in j .. k
  BY OrderIs
<1>4. j .. k \subseteq S
  BY <1>1, <1>2, <1>3, Upwards
<1>5. QED BY <1>3, <1>4 DEF S

\* What dhmp_recycle_free_block merges into the block of order k: the block
\* that is freed and its buddies.
Merged(a, addr, j, k) == {Piece(a, addr, buddy_size[j])}
                           \cup {Piece(a, Buddy_(addr, i), buddy_size[i]) : i \in j .. k - 1}

LEMMA MergedTile ==
    ASSUME NEW a, NEW addr, NEW j \in Order, NEW k \in Order, j =< k, Multiple(addr, j)
    PROVE  Tiles(Merged(a, addr, j, k), At(addr, k), At(addr, k) + buddy_size[k])
<1> DEFINE S == {i \in Order : Tiles(Merged(a, addr, j, i), At(addr, i), At(addr, i) + buddy_size[i])}
<1>0. addr \in Nat
  BY MultipleIsNat
<1>1. j \in S
  <2>1. j .. j - 1 = {} /\ At(addr, j) = addr
    BY OrderIs, AtMultiple
  <2>2. Merged(a, addr, j, j) = {Piece(a, addr, buddy_size[j])}
    BY <2>1 DEF Merged
  <2>3. Tiles({Piece(a, addr, buddy_size[j])}, addr, addr + buddy_size[j])
    BY <1>0, OneTile, Doubles
  <2>4. QED BY <2>1, <2>2, <2>3
<1>2. \A i \in j .. k - 1 : i \in S => i + 1 \in S
  <2> TAKE i \in j .. k - 1
  <2> HAVE i \in S
  <2>1. i \in Nat /\ j \in Nat /\ j =< i /\ i < Top /\ i \in Order /\ i + 1 \in Order
    BY OrderIs
  <2> DEFINE d == buddy_size[i]
             y == At(addr, i + 1)
             r == {Piece(a, Buddy_(addr, i), d)}
             M == Merged(a, addr, j, i)
  <2>2. buddy_size[i + 1] = 2 * d /\ d \in Nat /\ d > 0 /\ y \in Nat
    BY <1>0, <2>1, Doubles, AtFacts
  <2>3. \/ At(addr, i) = y /\ Buddy_(addr, i) = y + d
        \/ At(addr, i) = y + d /\ Buddy_(addr, i) = y
    BY <1>0, <2>1, HalfFacts
  <2>4. Merged(a, addr, j, i + 1) = M \cup r
    <3>1. j .. (i + 1) - 1 = (j .. i - 1) \cup {i}
      BY <2>1
    <3>2. QED BY <3>1 DEF Merged
  <2>5. Tiles(M, At(addr, i), At(addr, i) + d)
    OBVIOUS
  <2>6. \A z \in Nat : Tiles({Piece(a, z, d)}, z, z + d)
    BY <2>2, OneTile
  <2> HIDE DEF d, y, M
  <2>7. Tiles(M \cup r, y, y + 2 * d)
    <3>0. /\ y + d \in Nat /\ y + 2 * d \in Nat /\ y =< y + d /\ y + d =< y + 2 * d
          /\ (y + d) + d = y + 2 * d
      BY <2>2
    <3>1. CASE At(addr, i) = y /\ Buddy_(addr, i) = y + d
      <4>1. Tiles(r, y + d, y + 2 * d)
        BY <2>6, <3>0, <3>1
      <4>2. Tiles(M, y, y + d)
        BY <2>5, <3>1
      <4> HIDE DEF r
      <4>3. QED BY <2>2, <3>0, <4>1, <4>2, Join
    <3>2. CASE At(addr, i) = y + d /\ Buddy_(addr, i) = y
      <4>1. Tiles(r, y, y + d)
        BY <2>2, <2>6, <3>2
      <4>2. Tiles(M, y + d, y + 2 * d)
        BY <2>5, <3>0, <3>2
      <4> HIDE DEF r
      <4>3. Tiles(r \cup M, y, y + 2 * d)
        BY <2>2, <3>0, <4>1, <4>2, Join
      <4>4. r \cup M = M \cup r
        OBVIOUS
      <4>5. QED BY <4>3, <4>4
    <3>3. QED BY <2>3, <3>1, <3>2
  <2>8. QED BY <2>1, <2>2, <2>4, <2>7 DEF y
<1> HIDE DEF S
<1>3. j \in Nat /\ k \in Nat /\ k \in j .. k
  BY OrderIs
<1>4. j .. k \subseteq S
  BY <1>1, <1>2, <1>3, Upwards
<1>5. QED BY <1>3, <1>4 DEF S

-----------------------------------------------------------------------------
(* An area that is divided into free and held blocks.                      *)

Frees(a, blocks) ==
    UNION {{[area |-> a, addr |-> b, length |-> buddy_size[i]] : b \in blocks[i]} : i \in Order}

LEMMA FreesAre ==
    ASSUME NEW a, NEW blocks, NEW p
    PROVE  p \in Frees(a, blocks)
           <=> \E i \in Order : \E b \in blocks[i] : p = Piece(a, b, buddy_size[i])
  BY DEF Frees, Piece

LEMMA SizeOnly == \A i, k \in Order : buddy_size[i] = buddy_size[k] => i = k
<1> TAKE i, k \in Order
<1>1. i \in Nat /\ k \in Nat
  BY OrderIs
<1>2. \A m, n \in Order : m < n => buddy_size[m] # buddy_size[n]
  BY Doubles, Grows
<1>3. QED BY <1>1, <1>2

\* Free blocks that are buddies are the two that a new area begins with.
Lone(blocks) ==
    \A i \in 0 .. MAX_ORDER - 2 : \A b \in blocks[i] :
        Buddy_(b, i) \in blocks[i] => i = 0 /\ b \in {0, 1}

Laid(a, blocks, H) ==
    /\ blocks = [i \in Order |-> blocks[i]]
    /\ \A i \in Order : \A b \in blocks[i] : Multiple(b, i)
    /\ \A h \in H : \E i \in Order : \E b : Multiple(b, i) /\ h = Piece(a, b, buddy_size[i])
    /\ Frees(a, blocks) \cap H = {}
    /\ Tiles(Frees(a, blocks) \cup H, 0, SINGLE_AREA_SIZE)
    /\ Lone(blocks)

LEMMA LowerOrders == \A i \in 0 .. MAX_ORDER - 2 : i \in Order /\ i < Top
  BY OrderIs

\* A block of its own has no buddy.
LEMMA LoneOne ==
    ASSUME NEW i \in 0 .. MAX_ORDER - 2, NEW b, Multiple(b, i)
    PROVE  Buddy_(b, i) # b
<1>1. b \in Nat /\ At(b, i) = b
  BY LowerOrders, MultipleIsNat, AtMultiple
<1>2. QED BY <1>1, LowerOrders, BuddyFacts

LEMMA AreaSize == SINGLE_AREA_SIZE \in Nat /\ SINGLE_AREA_SIZE > 0
  BY Doubles, OrderIs

\* dhmp_buddy_system_build.
LEMMA LaidBuilt == ASSUME NEW a PROVE Laid(a, Built, {})
<1>0. /\ 0 \in Order /\ buddy_size[0] = 1 /\ Built[0] = {0, 1}
      /\ \A i \in Order : i # 0 => Built[i] = {buddy_size[i]}
  BY OrderIs, Doubles DEF Built
<1>1. ASSUME NEW i \in Order, NEW b \in Built[i] PROVE Multiple(b, i)
  <2>1. CASE i = 0
    <3>1. b \in {0, 1}
      BY <1>0, <2>1
    <3>2. b \in Nat /\ b = b * buddy_size[0]
      BY <1>0, <3>1
    <3>3. QED BY <2>1, <3>2 DEF Multiple
  <2>2. CASE i # 0
    <3>1. buddy_size[i] \in Nat /\ b = buddy_size[i]
      BY <1>0, <2>2, Doubles
    <3>2. b = 1 * buddy_size[i]
      BY <3>1
    <3>3. QED BY <3>2 DEF Multiple
  <2>3. QED BY <2>1, <2>2
<1>2. Frees(a, Built) = Halves(a, 0, 0, Top + 1)
  <2>1. 0 .. (Top + 1) - 1 = Order
    BY OrderIs
  <2>2. \A i \in Order : 0 + buddy_size[i] = buddy_size[i]
    BY Doubles
  <2>3. ASSUME NEW p \in Frees(a, Built) PROVE p \in Halves(a, 0, 0, Top + 1)
    <3>0. PICK i \in Order : \E b \in Built[i] : p = Piece(a, b, buddy_size[i])
      BY FreesAre
    <3>1. PICK b \in Built[i] : p = Piece(a, b, buddy_size[i])
      BY <3>0
    <3>2. b = buddy_size[i] \/ (i = 0 /\ b = 0)
      BY <1>0, <3>1
    <3>3. QED BY <2>1, <2>2, <3>1, <3>2 DEF Halves
  <2>4. ASSUME NEW p \in Halves(a, 0, 0, Top + 1) PROVE p \in Frees(a, Built)
    <3>1. p = Piece(a, 0, buddy_size[0]) \/ \E i \in Order : p = Piece(a, buddy_size[i], buddy_size[i])
      BY <2>1, <2>2 DEF Halves
    <3>2. 0 \in Built[0] /\ \A i \in Order : buddy_size[i] \in Built[i]
      BY <1>0
    <3>3. QED BY <1>0, <3>1, <3>2, FreesAre
  <2>5. QED BY <2>3, <2>4
<1>3. Tiles(Frees(a, Built), 0, SINGLE_AREA_SIZE)
  <2> DEFINE d == buddy_size[Top]
  <2>1. d \in Nat /\ d > 0 /\ SINGLE_AREA_SIZE = d + d /\ 0 + d = d
    BY Doubles, OrderIs
  <2>2. Top \in Nat /\ 0 \in Nat /\ 0 =< Top /\ 0 \in Order /\ Top \in Order
    BY OrderIs
  <2>3. Tiles(Halves(a, 0, 0, Top), 0, d)
    <3>1. Tiles(Halves(a, 0, 0, Top), 0, 0 + d)
      BY <2>2, HalvesTile
    <3>2. QED BY <2>1, <3>1
  <2>4. Halves(a, 0, 0, Top + 1) = Halves(a, 0, 0, Top) \cup {Piece(a, d, d)}
    <3>1. Halves(a, 0, 0, Top + 1) = Halves(a, 0, 0, Top) \cup {Piece(a, 0 + d, d)}
      BY <2>2, HalvesGrow
    <3>2. QED BY <2>1, <3>1
  <2>5. Tiles({Piece(a, d, d)}, d, d + d)
    BY <2>1, OneTile
  <2> HIDE DEF d
  <2>6. Tiles(Halves(a, 0, 0, Top + 1), 0, d + d)
    <3>1. 0 =< d /\ d =< d + d /\ d + d \in Nat
      BY <2>1
    <3>2. QED BY <2>1, <2>3, <2>4, <2>5, <3>1, Join
  <2>7. QED BY <1>2, <2>1, <2>6
<1>4. Lone(Built)
  <2> SUFFICES ASSUME NEW i \in 0 .. MAX_ORDER - 2, NEW b \in Built[i], Buddy_(b, i) \in Built[i]
               PROVE  i = 0 /\ b \in {0, 1}
    BY DEF Lone
  <2>1. i \in Order
    BY LowerOrders
  <2>2. Buddy_(b, i) # b
    BY <1>1, <2>1, LoneOne
  <2>3. CASE i = 0
    BY <1>0, <2>3
  <2>4. CASE i # 0
    BY <1>0, <2>1, <2>2, <2>4
  <2>5. QED BY <2>3, <2>4
<1>5. Built = [i \in Order |-> Built[i]]
  BY DEF Built
<1>6. QED BY <1>1, <1>3, <1>4, <1>5 DEF Laid

\* dhmp_get_free_block.
LEMMA LaidSplit ==
    ASSUME NEW a, NEW blocks, NEW H, Laid(a, blocks, H), NEW j \in Order, NEW k \in Order, j =< k,
           NEW b \in blocks[k], \A i \in Order : j =< i /\ i < k => blocks[i] = {}
    PROVE  Laid(a, Split(blocks, b, k, j), H \cup {Piece(a, b, buddy_size[j])})
<1> DEFINE left == Split(blocks, b, k, j)
           new == Piece(a, b, buddy_size[j])
           old == Piece(a, b, buddy_size[k])
           right == {Piece(a, b + buddy_size[i], buddy_size[i]) : i \in j .. k - 1}
           F == Frees(a, blocks)
           P == F \cup H
           Q == Halves(a, b, j, k)
<1>0. /\ Multiple(b, k) /\ b \in Nat /\ j \in Nat /\ k \in Nat /\ k =< Top
      /\ \A i \in j .. k - 1 : i \in Order /\ j =< i /\ i < k /\ i < Top
  <2>1. Multiple(b, k) /\ b \in Nat
    BY MultipleIsNat DEF Laid
  <2>2. QED BY <2>1, OrderIs
<1>1. \A i \in Order : IF j =< i /\ i < k THEN left[i] = {b + buddy_size[i]}
                         ELSE left[i] = IF i = k THEN blocks[i] \ {b} ELSE blocks[i]
  BY DEF Split
\* What is split off is aligned, as a right half.
<1>2. ASSUME NEW i \in Order, j =< i, i < k
      PROVE  /\ Multiple(b + buddy_size[i], i) /\ Multiple(b, i)
  <2>1. i \in Nat /\ i < Top
    BY <1>0, <1>2, OrderIs
  <2> DEFINE S == {m \in Order : \E q \in Nat : buddy_size[m] = q * buddy_size[i]}
  <2>2. i \in S
    <3>1. buddy_size[i] = 1 * buddy_size[i]
      BY Doubles
    <3>2. QED BY <3>1
  <2>3. \A m \in i .. k - 1 : m \in S => m + 1 \in S
    <3> TAKE m \in i .. k - 1
    <3> HAVE m \in S
    <3>1. m \in Order /\ m + 1 \in Order /\ buddy_size[m + 1] = 2 * buddy_size[m]
      BY <1>0, <2>1, OrderIs, Doubles
    <3>2. PICK q \in Nat : buddy_size[m] = q * buddy_size[i]
      OBVIOUS
    <3>3. buddy_size[i] \in Nat
      BY Doubles
    <3>4. buddy_size[m + 1] = (2 * q) * buddy_size[i] /\ 2 * q \in Nat
      BY <3>1, <3>2, <3>3
    <3>5. QED BY <3>1, <3>4
  <2> HIDE DEF S
  <2>4. i .. k \subseteq S
    BY <1>0, <2>1, <2>2, <2>3, Upwards
  <2>a. k \in i .. k
    BY <1>0, <1>2, <2>1
  <2>5. PICK q \in Nat : buddy_size[k] = q * buddy_size[i]
    BY <2>4, <2>a DEF S
  <2>6. PICK p \in Nat : b = p * buddy_size[k]
    BY <1>0 DEF Multiple
  <2>7. buddy_size[i] \in Nat
    BY Doubles
  <2>8. b = (p * q) * buddy_size[i] /\ p * q \in Nat
    BY <2>5, <2>6, <2>7
  <2>9. b + buddy_size[i] = (p * q + 1) * buddy_size[i] /\ p * q + 1 \in Nat
    BY <2>7, <2>8
  <2>10. QED BY <2>8, <2>9 DEF Multiple
<1>3. \A i \in Order : \A c \in left[i] : Multiple(c, i)
  <2> TAKE i \in Order
  <2> TAKE c \in left[i]
  <2>1. CASE j =< i /\ i < k
    BY <1>1, <1>2, <2>1
  <2>2. CASE ~ (j =< i /\ i < k)
    BY <1>1, <2>2 DEF Laid
  <2>3. QED BY <2>1, <2>2
<1>4. Multiple(b, j)
  <2>1. CASE j < k
    BY <1>0, <1>2, <2>1
  <2>2. CASE j = k
    BY <1>0, <2>2
  <2>3. QED BY <1>0, <2>1, <2>2
<1>5. \A h \in H \cup {new} : \E i \in Order : \E c : Multiple(c, i) /\ h = Piece(a, c, buddy_size[i])
  BY <1>4 DEF Laid
<1>a. left = [i \in Order |-> left[i]]
  BY DEF Split
<1> HIDE DEF left
<1>6. Frees(a, left) = (F \ {old}) \cup right
  <2>1. ASSUME NEW p \in Frees(a, left) PROVE p \in (F \ {old}) \cup right
    <3>0. PICK i \in Order : \E c \in left[i] : p = Piece(a, c, buddy_size[i])
      BY FreesAre
    <3>1. PICK c \in left[i] : p = Piece(a, c, buddy_size[i])
      BY <3>0
    <3>2. CASE j =< i /\ i < k
      <4>0. left[i] = {b + buddy_size[i]}
        BY <1>1, <3>2
      <4>1. c = b + buddy_size[i] /\ i \in j .. k - 1
        BY <1>0, <3>1, <3>2, <4>0, OrderIs
      <4>2. QED BY <3>1, <4>1
    <3>3. CASE ~ (j =< i /\ i < k)
      <4>1. c \in blocks[i] /\ (i = k => c # b)
        BY <1>1, <3>3
      <4>2. p \in F
        BY <3>1, <4>1, FreesAre
      <4>3. p # old
        BY <3>1, <4>1, PieceFacts, SizeOnly
      <4>4. QED BY <4>2, <4>3
    <3>4. QED BY <3>2, <3>3
  <2>2. ASSUME NEW p \in F, p # old PROVE p \in Frees(a, left)
    <3>0. PICK i \in Order : \E c \in blocks[i] : p = Piece(a, c, buddy_size[i])
      BY FreesAre
    <3>1. PICK c \in blocks[i] : p = Piece(a, c, buddy_size[i])
      BY <3>0
    <3>2. ~ (j =< i /\ i < k)
      OBVIOUS
    <3>3. c \in left[i]
      BY <1>1, <2>2, <3>1, <3>2
    <3>4. QED BY <3>1, <3>3, FreesAre
  <2>3. ASSUME NEW p \in right PROVE p \in Frees(a, left)
    <3>1. PICK i \in j .. k - 1 : p = Piece(a, b + buddy_size[i], buddy_size[i])
      OBVIOUS
    <3>2. i \in Order /\ b + buddy_size[i] \in left[i]
      BY <1>0, <1>1
    <3>3. QED BY <3>1, <3>2, FreesAre
  <2>4. QED BY <2>1, <2>2, <2>3
<1>7. old \in F
  BY FreesAre
<1>8. Q = {new} \cup right
  BY DEF Halves
<1>9. Tiles((P \ {old}) \cup Q, 0, SINGLE_AREA_SIZE) /\ (P \ {old}) \cap Q = {}
  <2>1. buddy_size[k] \in Nat /\ buddy_size[k] > 0
    BY Doubles
  <2>2. Tiles({old}, b, b + buddy_size[k])
    BY <1>0, <2>1, OneTile
  <2>3. Tiles(Q, b, b + buddy_size[k])
    BY <1>0, HalvesTile
  <2>4. Tiles(P, 0, SINGLE_AREA_SIZE) /\ {old} \subseteq P
    BY <1>7 DEF Laid
  <2>5. b + buddy_size[k] \in Nat /\ b + buddy_size[k] =< SINGLE_AREA_SIZE
    <3>1. old.addr + old.length =< SINGLE_AREA_SIZE
      BY <2>4 DEF Tiles
    <3>2. old.addr = b /\ old.length = buddy_size[k]
      BY PieceFacts
    <3>3. QED BY <1>0, <2>1, <3>1, <3>2
  <2> DEFINE hi == b + buddy_size[k]
             R == {old}
  <2>6. /\ Tiles(R, b, hi) /\ Tiles(Q, b, hi) /\ Tiles(P, 0, SINGLE_AREA_SIZE)
        /\ R \subseteq P /\ hi \in Nat /\ hi =< SINGLE_AREA_SIZE /\ b \in Nat
    BY <1>0, <2>2, <2>3, <2>4, <2>5
  <2> HIDE DEF P, Q, hi, R
  <2>7. Tiles((P \ R) \cup Q, 0, SINGLE_AREA_SIZE) /\ (P \ R) \cap Q = {}
    BY <2>6, AreaSize, Retile
  <2>8. QED BY <2>7 DEF R
<1>10. F \cap H = {}
  BY DEF Laid
<1>11. new \notin right
  <2> SUFFICES ASSUME NEW i \in j .. k - 1, new = Piece(a, b + buddy_size[i], buddy_size[i])
               PROVE  FALSE
    OBVIOUS
  <2>1. b = b + buddy_size[i]
    BY PieceFacts
  <2>2. buddy_size[i] \in Nat /\ buddy_size[i] > 0
    BY <1>0, Doubles
  <2>3. QED BY <1>0, <2>1, <2>2
<1>12. Lone(left)
  <2> SUFFICES ASSUME NEW i \in 0 .. MAX_ORDER - 2, NEW c \in left[i], Buddy_(c, i) \in left[i]
               PROVE  i = 0 /\ c \in {0, 1}
    BY DEF Lone
  <2>1. i \in Order
    BY LowerOrders
  <2>2. CASE j =< i /\ i < k
    <3>0. left[i] = {b + buddy_size[i]}
      BY <1>1, <2>1, <2>2
    <3>1. Buddy_(c, i) = c
      BY <3>0
    <3>2. Multiple(c, i)
      BY <1>3, <2>1
    <3>3. QED BY <3>1, <3>2, LoneOne
  <2>3. CASE ~ (j =< i /\ i < k)
    <3>1. c \in blocks[i] /\ Buddy_(c, i) \in blocks[i]
      BY <1>1, <2>1, <2>3
    <3>2. QED BY <3>1 DEF Laid, Lone
  <2>4. QED BY <2>2, <2>3
<1> HIDE DEF new, old, right, F, Q
<1>13. Frees(a, left) \cap (H \cup {new}) = {}
  BY <1>6, <1>7, <1>8, <1>9, <1>10, <1>11
<1>14. Frees(a, left) \cup (H \cup {new}) = (P \ {old}) \cup Q
  BY <1>6, <1>7, <1>8, <1>10
<1>15. Tiles(Frees(a, left) \cup (H \cup {new}), 0, SINGLE_AREA_SIZE)
  BY <1>9, <1>14
<1>16. Laid(a, left, H \cup {new})
  BY <1>a, <1>3, <1>5, <1>12, <1>13, <1>15 DEF Laid
<1>17. QED BY <1>16 DEF left, new

\* How far dhmp_recycle_free_block merges.
LEMMA MergeEnds ==
    ASSUME NEW blocks, NEW addr, NEW j \in Order
    PROVE  \E k \in Order :
             /\ j =< k /\ (k = Top \/ Buddy_(addr, k) \notin blocks[k])
             /\ \A i \in j .. k - 1 : i \in Order /\ i < Top /\ Buddy_(addr, i) \in blocks[i]
             /\ Merge(blocks, addr, j) =
                  [i \in Order |-> IF j =< i /\ i < k THEN blocks[i] \ {Buddy_(addr, i)}
                                   ELSE IF i = k THEN blocks[i] \cup {At(addr, i)} ELSE blocks[i]]
<1> DEFINE E == {i \in Order : i >= j /\ (i = MAX_ORDER - 1 \/ Buddy_(addr, i) \notin blocks[i])}
           k == Min(E)
<1>1. E \in SUBSET Nat /\ Top \in E
  BY OrderIs
<1>2. k \in E /\ \A i \in E : k =< i
  BY <1>1, MinIsLeast
<1>3. /\ k \in Order /\ k >= j /\ (k = Top \/ Buddy_(addr, k) \notin blocks[k])
      /\ k \in Nat /\ j \in Nat /\ k =< Top
  BY <1>2, OrderIs
<1>4. ASSUME NEW i \in j .. k - 1
      PROVE  i \in Order /\ i < Top /\ Buddy_(addr, i) \in blocks[i]
  <2>1. i \in Order /\ i < Top /\ i >= j /\ ~ (k =< i)
    BY <1>3, OrderIs
  <2>2. QED BY <1>2, <2>1
<1>5. Merge(blocks, addr, j) =
        [i \in Order |-> IF j =< i /\ i < k THEN blocks[i] \ {Buddy_(addr, i)}
                         ELSE IF i = k THEN blocks[i] \cup {At(addr, i)} ELSE blocks[i]]
  BY DEF Merge
<1> HIDE DEF k
<1>6. QED BY <1>3, <1>4, <1>5

\* dhmp_recycle_free_block.
LEMMA LaidMerge ==
    ASSUME NEW a, NEW blocks, NEW H, Laid(a, blocks, H), NEW j \in Order, NEW addr,
           Multiple(addr, j), Piece(a, addr, buddy_size[j]) \in H
    PROVE  Laid(a, Merge(blocks, addr, j), H \ {Piece(a, addr, buddy_size[j])})
<1>1. PICK k \in Order :
        /\ j =< k /\ (k = Top \/ Buddy_(addr, k) \notin blocks[k])
        /\ \A i \in j .. k - 1 : i \in Order /\ i < Top /\ Buddy_(addr, i) \in blocks[i]
        /\ Merge(blocks, addr, j) =
             [i \in Order |-> IF j =< i /\ i < k THEN blocks[i] \ {Buddy_(addr, i)}
                              ELSE IF i = k THEN blocks[i] \cup {At(addr, i)} ELSE blocks[i]]
  BY MergeEnds
<1> DEFINE after == Merge(blocks, addr, j)
           old == Piece(a, addr, buddy_size[j])
           new == Piece(a, At(addr, k), buddy_size[k])
           gone == {Piece(a, Buddy_(addr, i), buddy_size[i]) : i \in j .. k - 1}
           F == Frees(a, blocks)
           P == F \cup H
           R == Merged(a, addr, j, k)
<1>2. addr \in Nat /\ j \in Nat /\ k \in Nat
  BY MultipleIsNat, OrderIs
<1>3. \A i \in Order : IF j =< i /\ i < k THEN after[i] = blocks[i] \ {Buddy_(addr, i)}
                       ELSE after[i] = IF i = k THEN blocks[i] \cup {At(addr, i)} ELSE blocks[i]
  BY <1>1
<1>4. Multiple(At(addr, k), k) /\ At(addr, k) \in Nat
  BY <1>2, AtFacts
<1>a. after = [i \in Order |-> after[i]]
  BY <1>1
<1> HIDE DEF after
<1>5. ASSUME NEW i \in Order, NEW c \in after[i] PROVE c \in blocks[i] \/ (i = k /\ c = At(addr, k))
  BY <1>3
<1>6. \A i \in Order : \A c \in after[i] : Multiple(c, i)
  BY <1>4, <1>5 DEF Laid
<1>7. \A h \in H \ {old} : \E i \in Order : \E c : Multiple(c, i) /\ h = Piece(a, c, buddy_size[i])
  BY DEF Laid
<1>8. Frees(a, after) = (F \ gone) \cup {new}
  <2>1. ASSUME NEW p \in Frees(a, after) PROVE p \in (F \ gone) \cup {new}
    <3>0. PICK i \in Order : \E c \in after[i] : p = Piece(a, c, buddy_size[i])
      BY FreesAre
    <3>1. PICK c \in after[i] : p = Piece(a, c, buddy_size[i])
      BY <3>0
    <3>2. CASE i = k /\ c = At(addr, k)
      BY <3>1, <3>2
    <3>3. CASE ~ (i = k /\ c = At(addr, k))
      <4>1. c \in blocks[i]
        BY <1>5, <3>1, <3>3
      <4>2. p \in F
        BY <3>1, <4>1, FreesAre
      <4>3. ASSUME NEW m \in j .. k - 1, p = Piece(a, Buddy_(addr, m), buddy_size[m]) PROVE FALSE
        <5>a. Piece(a, c, buddy_size[i]) = Piece(a, Buddy_(addr, m), buddy_size[m])
          BY <3>1, <4>3
        <5>0. c = Buddy_(addr, m) /\ buddy_size[i] = buddy_size[m]
          BY <5>a, PieceOnly
        <5>1. c = Buddy_(addr, m) /\ i = m
          BY <1>1, <5>0, SizeOnly
        <5>2. j =< i /\ i < k
          BY <1>2, <5>1
        <5>3. QED BY <1>3, <3>1, <5>1, <5>2
      <4>4. QED BY <4>2, <4>3
    <3>4. QED BY <3>2, <3>3
  <2>2. ASSUME NEW p \in F, p \notin gone PROVE p \in Frees(a, after)
    <3>0. PICK i \in Order : \E c \in blocks[i] : p = Piece(a, c, buddy_size[i])
      BY FreesAre
    <3>1. PICK c \in blocks[i] : p = Piece(a, c, buddy_size[i])
      BY <3>0
    <3>2. j =< i /\ i < k => c # Buddy_(addr, i)
      <4>1. j =< i /\ i < k => i \in j .. k - 1
        BY <1>2, OrderIs
      <4>2. QED BY <2>2, <3>1, <4>1
    <3>3. c \in after[i]
      <4>1. CASE j =< i /\ i < k
        <5>1. after[i] = blocks[i] \ {Buddy_(addr, i)}
          BY <1>3, <4>1
        <5>2. QED BY <3>1, <3>2, <4>1, <5>1
      <4>2. CASE ~ (j =< i /\ i < k)
        BY <1>3, <3>1, <4>2
      <4>3. QED BY <4>1, <4>2
    <3>4. QED BY <3>1, <3>3, FreesAre
  <2>3. new \in Frees(a, after)
    <3>a. ~ (k < k)
      BY <1>2
    <3>1. At(addr, k) \in after[k]
      BY <1>3, <3>a
    <3>2. QED BY <3>1, FreesAre
  <2>4. QED BY <2>1, <2>2, <2>3
<1>9. R = {old} \cup gone
  BY DEF Merged
<1>10. gone \subseteq F
  BY <1>1, FreesAre
<1>11. F \cap H = {} /\ old \in H
  BY DEF Laid
<1>12. Tiles((P \ R) \cup {new}, 0, SINGLE_AREA_SIZE) /\ (P \ R) \cap {new} = {}
  <2> DEFINE lo == At(addr, k)
             hi == At(addr, k) + buddy_size[k]
             Q == {new}
  <2>1. buddy_size[k] \in Nat /\ buddy_size[k] > 0
    BY Doubles
  <2>2. lo \in Nat /\ hi \in Nat
    BY <1>4, <2>1
  <2>3. Tiles(Q, lo, hi)
    BY <1>4, <2>1, OneTile
  <2>4. Tiles(R, lo, hi)
    BY <1>1, MergedTile
  <2>5. Tiles(P, 0, SINGLE_AREA_SIZE) /\ R \subseteq P
    BY <1>9, <1>10, <1>11 DEF Laid
  <2>6. hi =< SINGLE_AREA_SIZE
    <3>1. hi - 1 \in lo .. hi - 1
      BY <1>4, <2>1
    <3> HIDE DEF hi, lo
    <3>2. PICK p \in R : In(hi - 1, p)
      BY <2>4, <3>1 DEF Tiles
    <3>3. /\ p.addr \in Nat /\ p.length \in Nat /\ p.addr + p.length =< SINGLE_AREA_SIZE
          /\ p.addr + p.length =< hi
      BY <2>4, <2>5, <3>2 DEF Tiles
    <3>4. QED BY <2>2, <3>2, <3>3, AreaSize DEF In
  <2> HIDE DEF P, R, lo, hi, Q
  <2>7. Tiles((P \ R) \cup Q, 0, SINGLE_AREA_SIZE) /\ (P \ R) \cap Q = {}
    BY <2>2, <2>3, <2>4, <2>5, <2>6, AreaSize, Retile
  <2>8. QED BY <2>7 DEF Q
\* The merged block has no free buddy, and buddies of others are as before.
<1>13. Lone(after)
  <2> SUFFICES ASSUME NEW i \in 0 .. MAX_ORDER - 2, NEW c \in after[i], Buddy_(c, i) \in after[i]
               PROVE  i = 0 /\ c \in {0, 1}
    BY DEF Lone
  <2>1. i \in Order /\ i < Top
    BY LowerOrders
  <2>2. c \in Nat /\ Multiple(c, i) /\ At(c, i) = c
    BY <1>6, <2>1, MultipleIsNat, AtMultiple
  <2>3. Buddy_(Buddy_(c, i), i) = c /\ Buddy_(c, i) # c
    BY <2>1, <2>2, BuddyFacts
  <2>4. CASE c \in blocks[i] /\ Buddy_(c, i) \in blocks[i]
    BY <2>4 DEF Laid, Lone
  <2>5. CASE i = k /\ (c = At(addr, k) \/ Buddy_(c, i) = At(addr, k))
    <3>1. Buddy_(At(addr, k), k) = Buddy_(addr, k) /\ Buddy_(addr, k) \notin blocks[k]
      BY <1>1, <1>2, <2>1, <2>5, BuddyFacts
    <3>2. CASE c = At(addr, k)
      <4>1. Buddy_(c, i) \in blocks[k]
        BY <1>5, <2>1, <2>3, <2>5, <3>2
      <4>2. QED BY <2>5, <3>1, <3>2, <4>1
    <3>3. CASE Buddy_(c, i) = At(addr, k)
      <4>1. c \in blocks[k]
        BY <1>5, <2>1, <2>3, <2>5, <3>3
      <4>2. c = Buddy_(addr, k)
        BY <2>3, <2>5, <3>1, <3>3
      <4>3. QED BY <3>1, <4>1, <4>2
    <3>4. QED BY <2>5, <3>2, <3>3
  <2>6. QED BY <1>5, <2>1, <2>4, <2>5
<1> HIDE DEF new, old, gone, F, R
<1>14. F \ gone = F \ R /\ H \ {old} = H \ R
  BY <1>9, <1>10, <1>11
<1>15. Frees(a, after) \cap (H \ {old}) = {}
  BY <1>8, <1>11, <1>12, <1>14
<1>16. Frees(a, after) \cup (H \ {old}) = (P \ R) \cup {new}
  BY <1>8, <1>14
<1>17. Tiles(Frees(a, after) \cup (H \ {old}), 0, SINGLE_AREA_SIZE)
  BY <1>12, <1>16
<1>18. Laid(a, after, H \ {old})
  BY <1>a, <1>6, <1>7, <1>13, <1>15, <1>17 DEF Laid
<1>19. QED BY <1>18 DEF after, old
-----------------------------------------------------------------------------
(* max_index.                                                              *)

Indexed == /\ kind = [a \in Area |-> kind[a]]
        /\ block_head = [a \in Area |-> block_head[a]]
        /\ max_index = [a \in Area |-> max_index[a]]
        /\ MaxIndexIsExact

LEMMA BuiltIsFull == Largest(Built) = MAX_ORDER - 1
<1>1. Nonempty(Built) = Order
  BY DEF Nonempty, Built
<1>2. /\ Largest(Built) \in Order \cup {-1}
      /\ \A i \in Order : i =< Largest(Built)
  BY <1>1, LargestIsGreatest
<1>3. Largest(Built) =< Top /\ Top =< Largest(Built) /\ Largest(Built) \in Int /\ Top \in Int
  BY <1>2, OrderFacts
<1>4. QED BY <1>3 DEF Top

LEMMA IndexedInit == Init => Indexed
  BY BuiltIsFull DEF Init, Indexed, MaxIndexIsExact

\* A block comes from the smallest order that has one, and no order above the
\* old max_index gets one: the search from there downwards misses none.
LEMMA BlockTaken ==
    ASSUME NEW a \in Area, NEW blocks, NEW old, old = Largest(blocks),
           NEW index \in Order, index =< old, dhmp_get_free_block(a, blocks, old, index)
    PROVE  \E left : /\ block_head' = [block_head EXCEPT ![a] = left]
                     /\ max_index' = [max_index EXCEPT ![a] = Largest(left)]
<1> DEFINE larger == {i \in Nonempty(blocks) : i >= index}
<1>1. /\ old \in Nonempty(blocks) \cup {-1} /\ \A i \in Nonempty(blocks) : i =< old
  BY LargestIsGreatest
<1>2. old \in larger /\ larger \in SUBSET Nat /\ larger \subseteq Order /\ larger # {}
  <2>1. index \in Nat /\ larger \subseteq Order
    BY OrderFacts, NonemptyOrders
  <2>2. old # -1
    BY <2>1
  <2>3. old \in Nonempty(blocks) /\ old \in Nat
    BY <1>1, <2>2, OrderFacts, NonemptyOrders
  <2>4. old >= index
    BY <2>1, <2>3
  <2>5. QED BY <2>1, <2>3, <2>4, OrderFacts
<1>3. PICK k : k = Min(larger)
  OBVIOUS
<1>4. PICK b, left :
        /\ left = Split(blocks, b, k, index)
        /\ block_head' = [block_head EXCEPT ![a] = left]
        /\ max_index' = [max_index EXCEPT ![a] = Max({i \in Nonempty(left) : i =< old} \cup {-1})]
  BY <1>3 DEF dhmp_get_free_block
<1> HIDE DEF larger
<1>5. k \in larger /\ \A i \in larger : k =< i
  BY <1>2, <1>3, MinIsLeast
<1>6. k =< old /\ k \in Nat /\ old \in Nat
  BY <1>1, <1>2, <1>5
<1>7. \A i \in Nonempty(left) : i =< old
  <2> TAKE i \in Nonempty(left)
  <2>1. i \in Order /\ left[i] # {} /\ i \in Nat
    BY OrderFacts DEF Nonempty
  <2>2. CASE i < k
    BY <1>6, <2>1, <2>2
  <2>3. CASE i = k
    BY <1>6, <2>3
  <2>4. CASE i > k
    <3>1. left[i] = blocks[i]
      BY <1>4, <1>6, <2>1, <2>4 DEF Split
    <3>2. QED BY <1>1, <2>1, <3>1 DEF Nonempty
  <2>5. QED BY <1>6, <2>1, <2>2, <2>3, <2>4
<1>8. {i \in Nonempty(left) : i =< old} = Nonempty(left)
  BY <1>7
<1>9. Max({i \in Nonempty(left) : i =< old} \cup {-1}) = Largest(left)
  BY <1>8 DEF Largest
<1>10. QED BY <1>4, <1>9

LEMMA IndexedNext == Indexed /\ [Next]_vars => Indexed'
<1> SUFFICES ASSUME Indexed, [Next]_vars PROVE Indexed'
  OBVIOUS
\* One area changes, and its max_index with it.
<1>a. ASSUME NEW a \in Area, NEW left,
             kind' = kind \/ kind' = [kind EXCEPT ![a] = "buddy"],
             block_head' = [block_head EXCEPT ![a] = left],
             max_index' = [max_index EXCEPT ![a] = Largest(left)]
      PROVE  Indexed'
  <2>1. /\ block_head'[a] = left /\ max_index'[a] = Largest(left)
        /\ \A b \in Area \ {a} : /\ block_head'[b] = block_head[b] /\ kind'[b] = kind[b]
                                 /\ max_index'[b] = max_index[b]
    BY <1>a DEF Indexed
  <2>2. /\ kind' = [b \in Area |-> kind'[b]] /\ block_head' = [b \in Area |-> block_head'[b]]
        /\ max_index' = [b \in Area |-> max_index'[b]]
    BY <1>a DEF Indexed
  <2>3. MaxIndexIsExact'
    <3> SUFFICES ASSUME NEW b \in Area, kind'[b] = "buddy"
                 PROVE  max_index'[b] = Largest(block_head'[b])
      BY DEF MaxIndexIsExact
    <3>1. CASE b = a
      BY <2>1, <3>1
    <3>2. CASE b # a
      BY <2>1, <3>2 DEF Indexed, MaxIndexIsExact
    <3>3. QED BY <3>1, <3>2
  <2>4. QED BY <2>2, <2>3 DEF Indexed
<1>1. ASSUME NEW size, size =< buddy_size[MAX_ORDER - 1], MallocBlock(size) PROVE Indexed'
  <2>1. PICK index : index = Fitting(size) /\ index \in Order
    BY <1>1, FittingIsOrder
  <2>2. PICK a \in Area :
            /\ kind[a] = "buddy" /\ max_index[a] >= index
            /\ dhmp_get_free_block(a, block_head[a], max_index[a], index) /\ kind' = kind
    BY <1>1, <2>1 DEF MallocBlock, Serves
  <2>3. max_index[a] = Largest(block_head[a])
    BY <2>2 DEF Indexed, MaxIndexIsExact
  <2>4. max_index[a] \in Int /\ index \in Int
    <3>1. max_index[a] \in Order \cup {-1}
      BY <2>3, LargestIsGreatest, NonemptyOrders
    <3>2. QED BY <2>1, <3>1, OrderFacts
  <2>5. index =< max_index[a]
    BY <2>2, <2>4
  <2>6. QED BY <1>a, <2>1, <2>2, <2>3, <2>5, BlockTaken
<1>2. ASSUME NEW size, size =< buddy_size[MAX_ORDER - 1], MallocNewArea(size) PROVE Indexed'
  <2>1. PICK index : index = Fitting(size) /\ index \in Order
    BY <1>2, FittingIsOrder
  <2>2. PICK a \in Area :
            /\ kind' = [kind EXCEPT ![a] = "buddy"]
            /\ dhmp_get_free_block(a, Built, MAX_ORDER - 1, index)
    BY <1>2, <2>1 DEF MallocNewArea
  <2>3. index =< MAX_ORDER - 1
    BY <2>1, OrderFacts DEF Top
  <2>4. QED BY <1>a, <2>1, <2>2, <2>3, BlockTaken, BuiltIsFull
<1>3. ASSUME NEW size, MallocArea(size) PROVE Indexed'
  BY <1>3 DEF MallocArea, Indexed, MaxIndexIsExact
<1>4. ASSUME NEW mr \in held, FreeBlock(mr) PROVE Indexed'
  <2>1. PICK a, left : /\ a = mr.area /\ kind' = kind
                       /\ block_head' = [block_head EXCEPT ![a] = left]
                       /\ max_index' = [max_index EXCEPT ![a] = Largest(left)]
    BY <1>4 DEF FreeBlock
  <2>2. CASE a \in Area
    BY <1>a, <2>1, <2>2
  <2>3. CASE a \notin Area
    BY <2>1, <2>3 DEF Indexed, MaxIndexIsExact
  <2>4. QED BY <2>2, <2>3
<1>5. ASSUME NEW mr \in held, FreeOneArea(mr) PROVE Indexed'
  <2>1. PICK a : /\ a = mr.area /\ kind' = [kind EXCEPT ![a] = "buddy"]
                 /\ block_head' = [block_head EXCEPT ![a] = Built]
                 /\ max_index' = [max_index EXCEPT ![a] = Largest(Built)]
    BY <1>5, BuiltIsFull DEF FreeOneArea
  <2>2. CASE a \in Area
    BY <1>a, <2>1, <2>2
  <2>3. CASE a \notin Area
    BY <2>1, <2>3 DEF Indexed, MaxIndexIsExact
  <2>4. QED BY <2>2, <2>3
<1>6. ASSUME NEW mr \in held, FreeMoreArea(mr) PROVE Indexed'
  BY <1>6 DEF FreeMoreArea, Indexed, MaxIndexIsExact
<1>7. CASE UNCHANGED vars
  BY <1>7 DEF vars, Indexed, MaxIndexIsExact
<1>8. CASE Malloc
  BY <1>1, <1>2, <1>3, <1>8 DEF Malloc
<1>9. CASE Free
  BY <1>4, <1>5, <1>6, <1>9 DEF Free
<1>10. QED BY <1>7, <1>8, <1>9 DEF Next

-----------------------------------------------------------------------------
(* Areas.                                                                  *)

Parted(a) ==
    /\ kind[a] \in {"free", "buddy", "more"}
    /\ kind[a] = "buddy" => Laid(a, block_head[a], Held(a))
    /\ kind[a] # "buddy" => block_head[a] = NoBlocks /\ max_index[a] = -2
    /\ kind[a] = "free" => Held(a) = {}
    /\ kind[a] = "more" => \E n \in Nat : n >= SINGLE_AREA_SIZE /\ Held(a) = {Piece(a, 0, n)}

Divided == /\ \A mr \in held : mr.area \in Area
           /\ cur_area \in Area /\ kind[cur_area] = "buddy"
           /\ \A a \in Area : Parted(a)

IInv == Indexed /\ Divided

LEMMA DividedInit == Init => Divided
<1> SUFFICES ASSUME Init PROVE Divided
  OBVIOUS
<1>1. \A a \in Area : Held(a) = {}
  BY DEF Init, Held
<1>2. held = {} /\ cur_area \in Area /\ kind[cur_area] = "buddy"
  BY DEF Init
<1>3. ASSUME NEW a \in Area PROVE Parted(a)
  <2>1. CASE a = cur_area
    <3>1. kind[a] = "buddy" /\ block_head[a] = Built
      BY <2>1 DEF Init
    <3>2. Laid(a, block_head[a], Held(a))
      BY <1>1, <3>1, LaidBuilt
    <3>3. QED BY <3>1, <3>2 DEF Parted
  <2>2. CASE a # cur_area
    <3>1. kind[a] = "free" /\ block_head[a] = NoBlocks /\ max_index[a] = -2
      BY <2>2 DEF Init
    <3>2. QED BY <1>1, <3>1 DEF Parted
  <2>3. QED BY <2>1, <2>2
<1>4. QED BY <1>2, <1>3 DEF Divided

\* A step changes one area.
LEMMA OneArea ==
    ASSUME IInv, NEW a \in Area, NEW k,
           kind' = kind \/ kind' = [kind EXCEPT ![a] = k],
           block_head' = block_head \/ \E left : block_head' = [block_head EXCEPT ![a] = left],
           max_index' = max_index \/ \E m : max_index' = [max_index EXCEPT ![a] = m],
           held' \subseteq held \cup {mr \in held' : mr.area = a},
           held \subseteq held' \cup {mr \in held : mr.area = a},
           cur_area' = cur_area \/ cur_area' = a, kind'[cur_area'] = "buddy", Parted(a)'
    PROVE  Divided'
<1>1. \A b \in Area \ {a} : /\ block_head'[b] = block_head[b] /\ kind'[b] = kind[b]
                            /\ max_index'[b] = max_index[b]
  BY DEF IInv, Indexed
<1>2. \A b \in Area \ {a} : Held(b)' = Held(b)
  BY DEF Held
<1>3. \A b \in Area \ {a} : Parted(b)'
  BY <1>1, <1>2 DEF IInv, Divided, Parted
<1>4. \A mr \in held' : mr.area \in Area
  BY DEF IInv, Divided
<1>5. QED BY <1>3, <1>4 DEF IInv, Divided

\* dhmp_get_free_block takes a block of the smallest order that has one.
LEMMA SmallestOrder ==
    ASSUME NEW blocks, NEW index \in Order, index =< Largest(blocks), NEW k,
           k = Min({i \in Nonempty(blocks) : i >= index})
    PROVE  /\ k \in Order /\ index =< k
           /\ \A i \in Order : index =< i /\ i < k => blocks[i] = {}
<1> DEFINE larger == {i \in Nonempty(blocks) : i >= index}
<1>1. index \in Nat /\ Nonempty(blocks) \subseteq Order /\ Order \subseteq Nat
  BY OrderFacts, NonemptyOrders
<1>2. Largest(blocks) \in Nonempty(blocks) \cup {-1}
  BY LargestIsGreatest
<1>3. Largest(blocks) # -1
  BY <1>1
<1>4. Largest(blocks) \in larger
  BY <1>1, <1>2, <1>3
<1>5. larger \in SUBSET Nat /\ larger # {}
  BY <1>1, <1>4
<1>6. Min(larger) \in larger /\ \A i \in larger : Min(larger) =< i
  BY <1>5, MinIsLeast
<1>7. k \in Nonempty(blocks) /\ k >= index /\ \A i \in larger : k =< i
  BY <1>6
<1>8. ASSUME NEW i \in Order, index =< i, i < k PROVE blocks[i] = {}
  <2>1. i \in Nat /\ k \in Nat
    BY <1>1, <1>7
  <2>a. i >= index /\ ~ (k =< i)
    BY <1>1, <1>8, <2>1
  <2>2. i \notin larger
    BY <1>7, <2>a
  <2>3. QED BY <2>a, <2>2 DEF Nonempty
<1>9. QED BY <1>1, <1>7, <1>8

LEMMA BlockLaid ==
    ASSUME NEW a \in Area, NEW blocks, NEW old, NEW index \in Order, index =< Largest(blocks),
           Laid(a, blocks, Held(a)), dhmp_get_free_block(a, blocks, old, index)
    PROVE  \E left, new :
             /\ block_head' = [block_head EXCEPT ![a] = left]
             /\ \E m : max_index' = [max_index EXCEPT ![a] = m]
             /\ held' = held \cup {new} /\ new.area = a
             /\ Held(a)' = Held(a) \cup {new} /\ Laid(a, left, Held(a)')
<1> DEFINE k == Min({i \in Nonempty(blocks) : i >= index})
<1>1. PICK b \in blocks[k] :
         /\ block_head' = [block_head EXCEPT ![a] = Split(blocks, b, k, index)]
         /\ \E m : max_index' = [max_index EXCEPT ![a] = m]
         /\ held' = held \cup {Piece(a, b, buddy_size[index])}
  BY DEF dhmp_get_free_block, Piece
<1>2. k \in Order /\ index =< k /\ \A i \in Order : index =< i /\ i < k => blocks[i] = {}
  BY SmallestOrder
<1> HIDE DEF k
<1> DEFINE new == Piece(a, b, buddy_size[index])
           left == Split(blocks, b, k, index)
<1>3. Laid(a, left, Held(a) \cup {new})
  BY <1>1, <1>2, LaidSplit
<1>4. new.area = a
  BY PieceFacts
<1> HIDE DEF new, left
<1>5. Held(a)' = Held(a) \cup {new}
  BY <1>1, <1>4 DEF Held, new
<1>6. QED BY <1>1, <1>3, <1>4, <1>5 DEF new, left

LEMMA DividedNext == IInv /\ [Next]_vars => Divided'
<1> SUFFICES ASSUME IInv, [Next]_vars PROVE Divided'
  OBVIOUS
<1>0. /\ \A mr \in held : mr.area \in Area /\ mr \in Held(mr.area) /\ Parted(mr.area)
      /\ \A a \in Area : Parted(a)
      /\ cur_area \in Area /\ kind[cur_area] = "buddy"
  BY DEF IInv, Divided, Held
<1>k. \A a \in Area : \A k : [kind EXCEPT ![a] = k][a] = k
  BY DEF IInv, Indexed
<1>b. \A a \in Area : \A left : [block_head EXCEPT ![a] = left][a] = left
  BY DEF IInv, Indexed
<1>1. ASSUME NEW size, size =< buddy_size[MAX_ORDER - 1], MallocBlock(size) PROVE Divided'
  <2>1. PICK index : index = Fitting(size) /\ index \in Order
    BY <1>1, FittingIsOrder
  <2>2. PICK a \in Area :
            /\ kind[a] = "buddy" /\ max_index[a] >= index /\ cur_area' = a
            /\ dhmp_get_free_block(a, block_head[a], max_index[a], index) /\ kind' = kind
    BY <1>1, <2>1 DEF MallocBlock, Serves
  <2>3. index =< Largest(block_head[a])
    <3>1. max_index[a] = Largest(block_head[a])
      BY <2>2 DEF IInv, Indexed, MaxIndexIsExact
    <3>2. Largest(block_head[a]) \in Order \cup {-1}
      BY LargestIsGreatest, NonemptyOrders
    <3>3. Largest(block_head[a]) \in Int /\ index \in Int
      BY <2>1, <3>2, OrderFacts
    <3>4. QED BY <2>2, <3>1, <3>3
  <2>4. Laid(a, block_head[a], Held(a))
    BY <1>0, <2>2 DEF Parted
  <2>5. PICK left, new :
             /\ block_head' = [block_head EXCEPT ![a] = left]
             /\ \E m : max_index' = [max_index EXCEPT ![a] = m]
             /\ held' = held \cup {new} /\ new.area = a
             /\ Held(a)' = Held(a) \cup {new} /\ Laid(a, left, Held(a)')
    BY <2>1, <2>2, <2>3, <2>4, BlockLaid
  <2>6. block_head'[a] = left /\ kind'[a] = "buddy"
    BY <1>b, <2>2, <2>5
  <2>7. Parted(a)'
    BY <2>5, <2>6 DEF Parted
  <2>8. QED BY <2>2, <2>5, <2>6, <2>7, OneArea
<1>2. ASSUME NEW size, size =< buddy_size[MAX_ORDER - 1], MallocNewArea(size) PROVE Divided'
  <2>1. PICK index : index = Fitting(size) /\ index \in Order
    BY <1>2, FittingIsOrder
  <2>2. PICK a \in Area :
            /\ kind[a] = "free" /\ kind' = [kind EXCEPT ![a] = "buddy"] /\ cur_area' = a
            /\ dhmp_get_free_block(a, Built, MAX_ORDER - 1, index)
    BY <1>2, <2>1 DEF MallocNewArea
  <2>3. index =< Largest(Built)
    BY <2>1, OrderFacts, BuiltIsFull DEF Top
  <2>4. Laid(a, Built, Held(a))
    <3>1. Held(a) = {}
      BY <1>0, <2>2 DEF Parted
    <3>2. QED BY <3>1, LaidBuilt
  <2>5. PICK left, new :
             /\ block_head' = [block_head EXCEPT ![a] = left]
             /\ \E m : max_index' = [max_index EXCEPT ![a] = m]
             /\ held' = held \cup {new} /\ new.area = a
             /\ Held(a)' = Held(a) \cup {new} /\ Laid(a, left, Held(a)')
    BY <2>1, <2>2, <2>3, <2>4, BlockLaid
  <2>6. block_head'[a] = left /\ kind'[a] = "buddy"
    BY <1>b, <1>k, <2>2, <2>5
  <2>7. Parted(a)'
    BY <2>5, <2>6 DEF Parted
  <2>8. QED BY <2>2, <2>5, <2>6, <2>7, OneArea
<1>3. ASSUME NEW size \in Nat, size >= SINGLE_AREA_SIZE, MallocArea(size) PROVE Divided'
  <2>1. PICK a \in Area :
            /\ kind[a] = "free" /\ kind' = [kind EXCEPT ![a] = "more"]
            /\ held' = held \cup {Piece(a, 0, size)}
            /\ block_head' = block_head /\ max_index' = max_index /\ cur_area' = cur_area
    BY <1>3 DEF MallocArea, Piece
  <2>2. Held(a) = {} /\ block_head[a] = NoBlocks /\ max_index[a] = -2 /\ Piece(a, 0, size).area = a
    BY <1>0, <2>1, PieceFacts DEF Parted
  <2>3. Held(a)' = {Piece(a, 0, size)}
    BY <2>1, <2>2 DEF Held
  <2>4. kind'[a] = "more" /\ block_head'[a] = NoBlocks /\ max_index'[a] = -2
    BY <1>k, <2>1, <2>2
  <2>5. Parted(a)'
    BY <1>3, <2>3, <2>4 DEF Parted
  <2>6. kind'[cur_area'] = "buddy"
    BY <1>0, <2>1 DEF IInv, Indexed
  <2>7. QED BY <2>1, <2>2, <2>5, <2>6, OneArea
<1>4. ASSUME NEW mr \in held, held' = held \ {mr}, FreeBlock(mr) PROVE Divided'
  <2>1. PICK a \in Area : a = mr.area /\ mr \in Held(a) /\ Parted(a)
    BY <1>0
  <2>2. kind[a] = "buddy" /\ Laid(a, block_head[a], Held(a))
    BY <1>4, <2>1 DEF FreeBlock, Parted
  <2>3. PICK i \in Order, addr \in Nat : Multiple(addr, i) /\ mr = Piece(a, addr, buddy_size[i])
    BY <2>1, <2>2, MultipleIsNat DEF Laid
  <2>4. mr.addr = addr /\ Fitting(mr.length) = i
    BY <2>3, PieceFacts, FittingSize
  <2> DEFINE left == Merge(block_head[a], addr, i)
  <2>5. /\ kind' = kind /\ block_head' = [block_head EXCEPT ![a] = left]
        /\ max_index' = [max_index EXCEPT ![a] = Largest(left)] /\ cur_area' = cur_area
    BY <1>4, <2>1, <2>4 DEF FreeBlock
  <2>6. Held(a)' = Held(a) \ {mr}
    BY <1>4 DEF Held
  <2>7. Laid(a, left, Held(a)')
    BY <2>1, <2>2, <2>3, <2>6, LaidMerge
  <2> HIDE DEF left
  <2>8. block_head'[a] = left /\ kind'[a] = "buddy" /\ kind'[cur_area'] = "buddy"
    BY <1>0, <1>b, <2>2, <2>5
  <2>9. Parted(a)'
    BY <2>7, <2>8 DEF Parted
  <2>10. QED BY <1>4, <2>1, <2>5, <2>8, <2>9, OneArea
<1>5. ASSUME NEW mr \in held, held' = held \ {mr}, FreeOneArea(mr) PROVE Divided'
  <2>1. PICK a \in Area : a = mr.area /\ mr \in Held(a) /\ Parted(a)
    BY <1>0
  <2>2. /\ kind[a] = "more" /\ kind' = [kind EXCEPT ![a] = "buddy"]
        /\ block_head' = [block_head EXCEPT ![a] = Built]
        /\ max_index' = [max_index EXCEPT ![a] = MAX_ORDER - 1] /\ cur_area' = cur_area
    BY <1>5, <2>1 DEF FreeOneArea
  <2>3. Held(a) = {mr}
    BY <2>1, <2>2 DEF Parted
  <2>4. Held(a)' = {}
    BY <1>5, <2>3 DEF Held
  <2>5. block_head'[a] = Built /\ kind'[a] = "buddy"
    BY <1>b, <1>k, <2>2
  <2>6. Parted(a)'
    BY <2>4, <2>5, LaidBuilt DEF Parted
  <2>7. kind'[cur_area'] = "buddy"
    BY <1>0, <2>2 DEF IInv, Indexed
  <2>8. QED BY <1>5, <2>1, <2>2, <2>6, <2>7, OneArea
<1>6. ASSUME NEW mr \in held, held' = held \ {mr}, FreeMoreArea(mr) PROVE Divided'
  <2>1. PICK a \in Area : a = mr.area /\ mr \in Held(a) /\ Parted(a)
    BY <1>0
  <2>2. /\ kind[a] = "more" /\ kind' = [kind EXCEPT ![a] = "free"]
        /\ block_head' = block_head /\ max_index' = max_index /\ cur_area' = cur_area
    BY <1>6, <2>1 DEF FreeMoreArea
  <2>3. Held(a) = {mr} /\ block_head[a] = NoBlocks /\ max_index[a] = -2
    BY <2>1, <2>2 DEF Parted
  <2>4. Held(a)' = {}
    BY <1>6, <2>3 DEF Held
  <2>5. kind'[a] = "free"
    BY <1>k, <2>2
  <2>6. Parted(a)'
    BY <2>2, <2>3, <2>4, <2>5 DEF Parted
  <2>7. kind'[cur_area'] = "buddy"
    BY <1>0, <2>2 DEF IInv, Indexed
  <2>8. QED BY <1>6, <2>1, <2>2, <2>6, <2>7, OneArea
<1>7. CASE UNCHANGED vars
  <2>1. \A a \in Area : Parted(a)'
    BY <1>0, <1>7 DEF vars, Parted, Held
  <2>2. QED BY <1>7, <2>1 DEF vars, IInv, Divided
<1>8. CASE Malloc
  <2>1. PICK size \in Size : IF size =< buddy_size[MAX_ORDER - 1]
                             THEN MallocBlock(size) \/ MallocNewArea(size)
                             ELSE MallocArea(IF size =< SINGLE_AREA_SIZE
                                             THEN SINGLE_AREA_SIZE ELSE size)
    BY <1>8 DEF Malloc
  <2>2. size \in Nat
    BY SizeAssumption
  <2>3. CASE size =< buddy_size[MAX_ORDER - 1]
    BY <1>1, <1>2, <2>1, <2>3
  <2>4. CASE ~ (size =< buddy_size[MAX_ORDER - 1]) /\ size =< SINGLE_AREA_SIZE
    <3>1. MallocArea(SINGLE_AREA_SIZE) /\ SINGLE_AREA_SIZE >= SINGLE_AREA_SIZE
      BY <2>1, <2>4, AreaSize
    <3>2. QED BY <1>3, <3>1, AreaSize
  <2>5. CASE ~ (size =< buddy_size[MAX_ORDER - 1]) /\ ~ (size =< SINGLE_AREA_SIZE)
    <3>1. MallocArea(size) /\ size >= SINGLE_AREA_SIZE
      BY <2>1, <2>2, <2>5, AreaSize
    <3>2. QED BY <1>3, <2>2, <3>1
  <2>6. QED BY <2>3, <2>4, <2>5
<1>9. CASE Free
  BY <1>4, <1>5, <1>6, <1>9 DEF Free
<1>10. QED BY <1>7, <1>8, <1>9 DEF Next

-----------------------------------------------------------------------------
(* The invariant, and what follows from it.                                *)

\* max_index is exact, and free and held blocks tile each buddy area, lie at
\* multiples of their sizes, and are no free buddies of each other.
THEOREM Invariant == Spec => []IInv
<1>1. Init => IInv
  BY IndexedInit, DividedInit DEF IInv
<1>2. IInv /\ [Next]_vars => IInv'
  BY IndexedNext, DividedNext DEF IInv
<1>3. QED BY <1>1, <1>2, PTL DEF Spec

LEMMA TilesAre ==
    ASSUME NEW P, Tiles(P, 0, SINGLE_AREA_SIZE)
    PROVE  /\ UNION {Bytes(p) : p \in P} = Addr
           /\ \A p, q \in P : p.addr \in Bytes(q) => p = q
<1>1. \A p \in P : /\ p.addr \in Nat /\ p.length \in Nat /\ p.length > 0
                   /\ p.addr + p.length =< SINGLE_AREA_SIZE
  BY DEF Tiles
<1>2. \A p \in P : \A x \in Int : x \in Bytes(p) <=> In(x, p)
  BY <1>1 DEF Bytes, In
<1>3. \A p \in P : \A x \in Bytes(p) : x \in Addr
  BY <1>1, AreaSize DEF Bytes, Addr
<1>4. \A x \in Addr : \E p \in P : x \in Bytes(p)
  BY <1>2 DEF Tiles, Addr
<1>5. ASSUME NEW p \in P, NEW q \in P, p.addr \in Bytes(q) PROVE p = q
  <2>1. p.addr \in Addr /\ In(p.addr, p) /\ In(p.addr, q)
    BY <1>1, <1>2, <1>3, <1>5 DEF In
  <2>2. QED BY <2>1 DEF Tiles, Addr
<1>6. QED BY <1>3, <1>4, <1>5

\* No byte of a buddy area is lost or given twice, whatever is split and
\* merged, and an area outside the buddy system has one owner: free blocks and
\* what clients hold tile each area that dhmp_buddy_system_build divided.
THEOREM NoByteIsLost == Spec => []Partition
<1>1. IInv => Partition
  <2> SUFFICES ASSUME IInv, NEW a \in Area
               PROVE  IF kind[a] = "buddy"
                      THEN /\ FreeBlocks(a) \cap Held(a) = {}
                           /\ UNION {Bytes(p) : p \in Pieces(a)} = Addr
                           /\ \A p, q \in Pieces(a) : p.addr \in Bytes(q) => p = q
                      ELSE Cardinality(Held(a)) = IF kind[a] = "free" THEN 0 ELSE 1
    BY DEF Partition
  <2>1. Parted(a)
    BY DEF IInv, Divided
  <2>2. CASE kind[a] = "buddy"
    <3>1. Laid(a, block_head[a], Held(a))
      BY <2>1, <2>2 DEF Parted
    <3>2. FreeBlocks(a) = Frees(a, block_head[a])
      BY DEF FreeBlocks, Frees
    <3>3. FreeBlocks(a) \cap Held(a) = {} /\ Tiles(Pieces(a), 0, SINGLE_AREA_SIZE)
      BY <3>1, <3>2 DEF Laid, Pieces
    <3>4. QED BY <2>2, <3>3, TilesAre
  <2>3. CASE kind[a] = "free"
    BY <2>1, <2>3, FS_EmptySet DEF Parted
  <2>4. CASE kind[a] = "more"
    <3>1. PICK mr : Held(a) = {mr}
      BY <2>1, <2>4 DEF Parted
    <3>2. Cardinality(Held(a)) = 1
      BY <3>1, FS_Singleton
    <3>3. QED BY <2>4, <3>2
  <2>5. QED BY <2>1, <2>2, <2>3, <2>4 DEF Parted
<1>2. QED BY <1>1, Invariant, PTL

\* dhmp_recycle_free_block leaves no two buddies free side by side, but for the
\* two blocks of order 0 that a new area begins with.
THEOREM BuddiesAreMerged == Spec => []Coalesced
<1>1. IInv => Coalesced
  <2> SUFFICES ASSUME IInv, NEW a \in Area, NEW i \in 0 .. MAX_ORDER - 2,
                      NEW b \in block_head[a][i], Buddy_(b, i) \in block_head[a][i]
               PROVE  i = 0 /\ b \in {0, 1}
    BY DEF Coalesced
  <2>1. Parted(a) /\ i \in Order
    BY LowerOrders DEF IInv, Divided
  <2>2. kind[a] = "buddy"
    BY <2>1 DEF Parted, NoBlocks
  <2>3. Lone(block_head[a])
    BY <2>1, <2>2 DEF Parted, Laid
  <2>4. QED BY <2>3 DEF Lone
<1>2. QED BY <1>1, Invariant, PTL

\* Blocks lie inside their area, max_index is an order or says that there is
\* none, and cur_area is an area of the buddy system.
THEOREM TypeCorrect == Spec => []TypeOK
<1>1. IInv => TypeOK
  <2> SUFFICES ASSUME IInv PROVE TypeOK
    OBVIOUS
  <2>1. \A a \in Area : Parted(a)
    BY DEF IInv, Divided
  <2>2. kind \in [Area -> {"free", "buddy", "more"}]
    BY <2>1 DEF IInv, Indexed, Parted
  <2>3. block_head \in [Area -> [Order -> SUBSET Addr]]
    <3>1. ASSUME NEW a \in Area PROVE block_head[a] \in [Order -> SUBSET Addr]
      <4>1. CASE kind[a] # "buddy"
        BY <2>1, <4>1 DEF Parted, NoBlocks
      <4>2. CASE kind[a] = "buddy"
        <5>1. Laid(a, block_head[a], Held(a))
          BY <2>1, <4>2 DEF Parted
        <5>2. ASSUME NEW i \in Order, NEW b \in block_head[a][i] PROVE b \in Addr
          <6>1. Piece(a, b, buddy_size[i]) \in Frees(a, block_head[a])
            BY FreesAre
          <6>2. b \in Nat /\ buddy_size[i] > 0 /\ b + buddy_size[i] =< SINGLE_AREA_SIZE
            BY <5>1, <6>1, PieceFacts DEF Laid, Tiles
          <6>3. QED BY <6>2, Doubles, AreaSize DEF Addr
        <5>3. block_head[a] = [i \in Order |-> block_head[a][i]]
          BY <5>1 DEF Laid
        <5>4. QED BY <5>2, <5>3
      <4>3. QED BY <4>1, <4>2
    <3>2. QED BY <3>1 DEF IInv, Indexed
  <2>4. max_index \in [Area -> -2 .. MAX_ORDER - 1]
    <3>1. ASSUME NEW a \in Area PROVE max_index[a] \in -2 .. MAX_ORDER - 1
      <4>1. CASE kind[a] # "buddy"
        BY <2>1, <4>1, OrderIs DEF Parted
      <4>2. CASE kind[a] = "buddy"
        <5>1. max_index[a] \in Order \cup {-1}
          BY <4>2, LargestIsGreatest, NonemptyOrders DEF IInv, Indexed, MaxIndexIsExact
        <5>2. QED BY <5>1, OrderIs
      <4>3. QED BY <4>1, <4>2
    <3>2. QED BY <3>1 DEF IInv, Indexed
  <2>5. cur_area \in Area /\ kind[cur_area] = "buddy"
    BY DEF IInv, Divided
  <2>6. held \subseteq [area : Area, addr : Addr, length : Nat \ {0}]
    <3> SUFFICES ASSUME NEW mr \in held PROVE mr \in [area : Area, addr : Addr, length : Nat \ {0}]
      OBVIOUS
    <3>1. PICK a \in Area : a = mr.area /\ mr \in Held(a) /\ Parted(a)
      BY <2>1 DEF IInv, Divided, Held
    <3>2. \E b \in Addr, n \in Nat \ {0} : mr = Piece(a, b, n)
      <4>1. CASE kind[a] = "buddy"
        <5>1. Laid(a, block_head[a], Held(a))
          BY <3>1, <4>1 DEF Parted
        <5>2. PICK i \in Order : \E b : mr = Piece(a, b, buddy_size[i])
          BY <3>1, <5>1 DEF Laid
        <5>3. PICK b : mr = Piece(a, b, buddy_size[i])
          BY <5>2
        <5>4. b \in Nat /\ buddy_size[i] > 0 /\ b + buddy_size[i] =< SINGLE_AREA_SIZE
          BY <3>1, <5>1, <5>3, PieceFacts DEF Laid, Tiles
        <5>5. b \in Addr /\ buddy_size[i] \in Nat \ {0}
          BY <5>4, Doubles, AreaSize DEF Addr
        <5>6. QED BY <5>3, <5>5
      <4>2. CASE kind[a] = "more"
        <5>1. PICK n \in Nat : n >= SINGLE_AREA_SIZE /\ mr = Piece(a, 0, n)
          BY <3>1, <4>2 DEF Parted
        <5>2. 0 \in Addr /\ n \in Nat \ {0}
          BY <5>1, AreaSize DEF Addr
        <5>3. QED BY <5>1, <5>2
      <4>3. QED BY <3>1, <4>1, <4>2 DEF Parted
    <3>3. QED BY <3>1, <3>2 DEF Piece
  <2>7. QED BY <2>2, <2>3, <2>4, <2>5, <2>6 DEF TypeOK
<1>2. QED BY <1>1, Invariant, PTL

\* max_index of an area is the largest order that has a block, whatever was
\* split and merged: dhmp_get_free_block searches for the new one only from
\* the old one downwards.
THEOREM MaxIndexHolds == Spec => []MaxIndexIsExact
<1>1. IInv => MaxIndexIsExact
  BY DEF IInv, Indexed
<1>2. QED BY <1>1, Invariant, PTL

\* dhmp_malloc_one_block, which goes by max_index, chooses an area if and only
\* if that area has a block of the order asked for or of a larger one: the
\* list that it then takes the first block of is not empty, and no area is
\* made while an old one would do.
ChoosesRight ==
    \A a \in Area, index \in Order :
        kind[a] = "buddy" =>
            (Serves(a, index) <=> \E i \in Order : i >= index /\ block_head[a][i] # {})

THEOREM AreasAreChosenRight == Spec => []ChoosesRight
<1>1. MaxIndexIsExact => ChoosesRight
  <2> SUFFICES ASSUME MaxIndexIsExact, NEW a \in Area, NEW index \in Order, kind[a] = "buddy"
               PROVE  max_index[a] >= index
                      <=> \E i \in Order : i >= index /\ block_head[a][i] # {}
    BY DEF ChoosesRight, Serves
  <2>1. max_index[a] = Largest(block_head[a])
    BY DEF MaxIndexIsExact
  <2>2. /\ max_index[a] \in Nonempty(block_head[a]) \cup {-1}
        /\ \A i \in Nonempty(block_head[a]) : i =< max_index[a]
    BY <2>1, LargestIsGreatest
  <2>3. index \in Nat /\ Order \subseteq Nat
    BY OrderFacts
  <2>4. ASSUME max_index[a] >= index PROVE \E i \in Order : i >= index /\ block_head[a][i] # {}
    <3>1. max_index[a] # -1
      BY <2>3, <2>4
    <3>2. max_index[a] \in Order /\ block_head[a][max_index[a]] # {}
      BY <2>2, <3>1 DEF Nonempty
    <3>3. QED BY <2>4, <3>2
  <2>5. ASSUME NEW i \in Order, i >= index, block_head[a][i] # {} PROVE max_index[a] >= index
    <3>1. i =< max_index[a]
      BY <2>2, <2>5 DEF Nonempty
    <3>2. max_index[a] \in Int /\ i \in Int /\ index \in Int
      BY <2>2, <2>3, NonemptyOrders, OrderFacts
    <3>3. QED BY <2>5, <3>1, <3>2
  <2>6. QED BY <2>4, <2>5
<1>2. QED BY <1>1, MaxIndexHolds, PTL
=============================================================================
