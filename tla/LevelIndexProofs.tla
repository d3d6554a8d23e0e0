-------------------------- MODULE LevelIndexProofs --------------------------
(* Proofs about LevelIndex for any sizes of the tables and of a chunk and  *)
(* any number of threads and chunks.                                       *)
EXTENDS LevelIndex, TLAPS

-----------------------------------------------------------------------------
(* Arithmetic of the places.                                               *)

LEMMA Division ==
    ASSUME NEW a \in Nat, NEW b \in Nat \ {0}
    PROVE  /\ a \div b \in Nat /\ a % b \in 0 .. b - 1
           /\ a = b * (a \div b) + (a % b)
  OBVIOUS

LEMMA Monotone ==
    ASSUME NEW x \in Nat, NEW y \in Nat, NEW b \in Nat, x =< y
    PROVE  b * x =< b * y
<1>1. b * y = b * x + b * (y - x)
  OBVIOUS
<1>2. b * (y - x) \in Nat
  OBVIOUS
<1>3. b * x \in Nat /\ b * y \in Nat
  OBVIOUS
<1>4. QED BY <1>1, <1>2, <1>3

LEMMA QuotientBound ==
    ASSUME NEW a \in Nat, NEW b \in Nat \ {0}, NEW n \in Nat, a < b * n
    PROVE  a \div b \in 0 .. n - 1
<1> DEFINE q == a \div b
<1>1. q \in Nat /\ a % b \in Nat /\ a = b * q + (a % b)
  BY Division
<1>2. ASSUME n =< q PROVE FALSE
  <2>1. b * n =< b * q
    BY <1>1, <1>2, Monotone
  <2>2. b * q \in Nat /\ b * n \in Nat
    BY <1>1
  <2>3. QED BY <1>1, <2>1, <2>2
<1>3. QED BY <1>1, <1>2

\* Digits are unique.
LEMMA Digits ==
    ASSUME NEW n \in Nat, NEW x \in Nat, NEW y \in Nat,
           NEW i \in 0 .. n - 1, NEW j \in 0 .. n - 1, x * n + i = y * n + j
    PROVE  x = y /\ i = j
<1>1. ASSUME NEW u \in Nat, NEW v \in Nat, NEW k \in 0 .. n - 1, NEW l \in 0 .. n - 1,
             u * n + k = v * n + l, u < v
      PROVE  FALSE
  <2>1. n * (u + 1) =< n * v
    BY <1>1, Monotone
  <2>2. n * (u + 1) = u * n + n /\ n * v = v * n
    OBVIOUS
  <2>3. u * n \in Nat /\ v * n \in Nat
    OBVIOUS
  <2>4. QED BY <1>1, <2>1, <2>2, <2>3
<1>2. x = y
  BY <1>1
<1>3. x * n \in Nat
  OBVIOUS
<1>4. QED BY <1>2, <1>3

\* Whole chunks in front of an offset only add to its quotient.
LEMMA Shift ==
    ASSUME NEW b \in Nat \ {0}, NEW k \in Nat, NEW a \in Nat
    PROVE  /\ (b * k + a) \div b = k + (a \div b)
           /\ (b * k + a) % b = a % b
<1> DEFINE o == b * k + a
           q == o \div b
           t == a \div b
<1>1. b * k \in Nat /\ o \in Nat
  OBVIOUS
<1>2. q \in Nat /\ o % b \in 0 .. b - 1 /\ o = b * q + (o % b)
  BY <1>1, Division
<1>3. t \in Nat /\ a % b \in 0 .. b - 1 /\ a = b * t + (a % b)
  BY Division
<1>4. b * k + b * t = b * (k + t)
  BY <1>3
<1>5. q * b + (o % b) = (k + t) * b + (a % b)
  <2>1. q * b = b * q /\ (k + t) * b = b * (k + t)
    BY <1>2, <1>3
  <2>2. b * q \in Nat /\ b * t \in Nat /\ o % b \in Nat /\ a % b \in Nat
    BY <1>2, <1>3
  <2>3. o = b * k + (b * t + (a % b))
    BY <1>3
  <2>4. b * k + (b * t + (a % b)) = (b * k + b * t) + (a % b)
    BY <1>1, <2>2
  <2>5. q * b + (o % b) = o
    BY <1>2, <2>1
  <2>6. (k + t) * b + (a % b) = (b * k + b * t) + (a % b)
    BY <1>4, <2>1
  <2> HIDE DEF o, q, t
  <2>7. QED BY <2>3, <2>4, <2>5, <2>6
<1>6. q = k + t /\ o % b = a % b
  <2> DEFINE u == k + t
             r == o % b
             v == a % b
  <2>1. u \in Nat /\ b \in Nat
    BY <1>3
  <2>2. q \in Nat /\ r \in 0 .. b - 1 /\ v \in 0 .. b - 1 /\ q * b + r = u * b + v
    BY <1>2, <1>3, <1>5
  <2> HIDE DEF o, q, t, u, r, v
  <2>3. q = u /\ r = v
    BY <2>1, <2>2, Digits
  <2>4. QED BY <2>3 DEF u, r, v
<1>7. QED BY <1>6

-----------------------------------------------------------------------------
(* The places of level3_local_index.                                       *)

LEMMA Sizes ==
    /\ D \in Nat \ {0} /\ N \in Nat \ {0} /\ CHUNK_SIZE \in Nat \ {0}
    /\ N * N \in Nat \ {0} /\ N * N * N \in Nat \ {0}
    /\ CHUNK_SIZE * N \in Nat \ {0} /\ CHUNK_SIZE * N * N \in Nat \ {0}
    /\ Places \in Nat
<1>1. D \in Nat \ {0} /\ N \in Nat \ {0} /\ CHUNK_SIZE \in Nat \ {0}
  BY SizeAssumption DEF D, N
<1>2. \A x, y \in Nat \ {0} : x * y \in Nat \ {0}
  OBVIOUS
<1>3. N * N \in Nat \ {0} /\ CHUNK_SIZE * N \in Nat \ {0}
  BY <1>1, <1>2
<1>4. N * N * N \in Nat \ {0} /\ CHUNK_SIZE * N * N \in Nat \ {0}
  BY <1>1, <1>2, <1>3
<1>5. Places \in Nat
  BY <1>1, <1>3, <1>4 DEF Places
<1>6. QED BY <1>1, <1>3, <1>4, <1>5

\* The levels end after as many chunks as they and those before have places.
LEMMA Ends ==
    /\ SIZE_DIRECT_END = CHUNK_SIZE * D
    /\ SIZE_FIRST_DIRECT_END = CHUNK_SIZE * (D + N)
    /\ SIZE_SECOND_DIRECT_END = CHUNK_SIZE * (D + N + N * N)
    /\ SIZE_THIRD_DIRECT_END = CHUNK_SIZE * Places
<1>1. \A x, y, z \in Nat : x * y + z * x = x * (y + z) /\ x * y = y * x
  OBVIOUS
<1>2. D \in Nat /\ N \in Nat /\ CHUNK_SIZE \in Nat /\ N * N \in Nat /\ N * N * N \in Nat
  BY Sizes
<1>3. SIZE_DIRECT_END = CHUNK_SIZE * D
  BY <1>1, <1>2 DEF SIZE_DIRECT_END
<1>4. SIZE_FIRST_DIRECT_END = CHUNK_SIZE * (D + N)
  BY <1>1, <1>2, <1>3 DEF SIZE_FIRST_DIRECT_END
<1>5. SIZE_SECOND_DIRECT_END = CHUNK_SIZE * (D + N + N * N)
  BY <1>1, <1>2, <1>4 DEF SIZE_SECOND_DIRECT_END
<1>6. SIZE_THIRD_DIRECT_END = CHUNK_SIZE * Places
  BY <1>1, <1>2, <1>5 DEF SIZE_THIRD_DIRECT_END, Places
<1>7. QED BY <1>3, <1>4, <1>5, <1>6

LEMMA Place0 ==
    ASSUME NEW o \in Nat, o < SIZE_DIRECT_END
    PROVE  /\ Where0(o).at \in Direct
           /\ Number(Where0(o).at) = o \div CHUNK_SIZE
           /\ Where0(o).rest = o % CHUNK_SIZE
<1>1. o \div CHUNK_SIZE \in 0 .. D - 1
  BY Sizes, Ends, QuotientBound
<1>2. QED BY <1>1 DEF Where0, Direct, Number

LEMMA ShiftedBy ==
    ASSUME NEW b \in Nat \ {0}, NEW k \in Nat, NEW a \in Nat, NEW x, x = b * k + a
    PROVE  x \div b = k + (a \div b) /\ x % b = a % b
  BY Shift

LEMMA Shifted ==
    \A k, a \in Nat : \A o : o = CHUNK_SIZE * k + a =>
        o \div CHUNK_SIZE = k + (a \div CHUNK_SIZE) /\ o % CHUNK_SIZE = a % CHUNK_SIZE
<1>1. CHUNK_SIZE \in Nat \ {0}
  BY Sizes
<1>2. QED BY <1>1, ShiftedBy

LEMMA Place1 ==
    ASSUME NEW o \in Nat, SIZE_DIRECT_END =< o, o < SIZE_FIRST_DIRECT_END
    PROVE  /\ Where1(o).at \in Under1
           /\ Number(Where1(o).at) = o \div CHUNK_SIZE
           /\ Where1(o).rest = o % CHUNK_SIZE
<1> DEFINE p == o - SIZE_DIRECT_END
<1>1. CHUNK_SIZE * D \in Nat /\ CHUNK_SIZE * (D + N) = CHUNK_SIZE * D + CHUNK_SIZE * N
      /\ CHUNK_SIZE * N \in Nat
  BY Sizes
<1>2. p \in Nat /\ p < CHUNK_SIZE * N /\ o = CHUNK_SIZE * D + p
  BY <1>1, Ends
<1>3. p \div CHUNK_SIZE \in Index
  BY <1>2, Sizes, QuotientBound DEF Index
<1>4. o \div CHUNK_SIZE = D + (p \div CHUNK_SIZE) /\ o % CHUNK_SIZE = p % CHUNK_SIZE
  <2>1. CHUNK_SIZE \in Nat \ {0} /\ D \in Nat
    BY Sizes
  <2> HIDE DEF p
  <2>2. QED BY <1>2, <2>1, Shifted
<1>5. Where1(o) = [at |-> <<1, p \div CHUNK_SIZE>>, rest |-> p % CHUNK_SIZE]
  BY DEF Where1, SIZE_FIRST_DIRECT_UNIT
<1> HIDE DEF p
<1>6. QED BY <1>3, <1>4, <1>5 DEF Under1, Number

LEMMA Place2 ==
    ASSUME NEW o \in Nat, SIZE_FIRST_DIRECT_END =< o, o < SIZE_SECOND_DIRECT_END
    PROVE  /\ Where2(o).at \in Under2
           /\ Number(Where2(o).at) = o \div CHUNK_SIZE
           /\ Where2(o).rest = o % CHUNK_SIZE
<1> DEFINE p == o - SIZE_FIRST_DIRECT_END
           u == CHUNK_SIZE * N
           b == p \div u
           q == p % u
           a == q \div CHUNK_SIZE
           k == D + N + b * N
<1>1. CHUNK_SIZE * (D + N) \in Nat /\ u \in Nat \ {0} /\ N \in Nat \ {0} /\ D \in Nat
      /\ CHUNK_SIZE \in Nat \ {0}
      /\ CHUNK_SIZE * (D + N + N * N) = CHUNK_SIZE * (D + N) + u * N /\ u * N \in Nat
  BY Sizes
<1>2. p \in Nat /\ p < u * N /\ o = CHUNK_SIZE * (D + N) + p
  BY <1>1, Ends
<1> HIDE DEF p, u
<1>3. b \in Index
  BY <1>1, <1>2, QuotientBound DEF Index
<1>4. q \in 0 .. u - 1 /\ p = u * b + q /\ b \in Nat
  BY <1>1, <1>2, Division
<1> HIDE DEF b, q
<1>5. q \in Nat /\ q < CHUNK_SIZE * N
  BY <1>1, <1>4 DEF u
<1>6. a \in Index
  BY <1>1, <1>5, QuotientBound DEF Index
<1>7. o = CHUNK_SIZE * k + q /\ k \in Nat
  <2>1. u * b = CHUNK_SIZE * (b * N) /\ b * N \in Nat
    BY <1>1, <1>4 DEF u
  <2>2. CHUNK_SIZE * k = CHUNK_SIZE * (D + N) + CHUNK_SIZE * (b * N)
    BY <1>1, <2>1
  <2>3. CHUNK_SIZE * (b * N) \in Nat
    BY <1>1, <2>1
  <2>4. o = CHUNK_SIZE * (D + N) + (CHUNK_SIZE * (b * N) + q)
    BY <1>2, <1>4, <2>1
  <2>5. k \in Nat
    BY <1>1, <2>1
  <2> HIDE DEF k
  <2>6. QED BY <1>1, <1>5, <2>2, <2>3, <2>4, <2>5
<1> HIDE DEF k
<1>8. o \div CHUNK_SIZE = k + a /\ o % CHUNK_SIZE = q % CHUNK_SIZE
  BY <1>1, <1>5, <1>7, Shifted
<1>9. Where2(o) = [at |-> <<2, b, a>>, rest |-> q % CHUNK_SIZE]
  BY DEF Where2, SIZE_FIRST_DIRECT_UNIT, SIZE_SECOND_DIRECT_UNIT, p, u, b, q
<1> HIDE DEF a
<1>10. QED BY <1>3, <1>6, <1>8, <1>9 DEF Under2, Number, k

LEMMA Place3 ==
    ASSUME NEW o \in Nat, SIZE_SECOND_DIRECT_END =< o, o < SIZE_THIRD_DIRECT_END
    PROVE  /\ Where3(o).at \in Under3
           /\ Number(Where3(o).at) = o \div CHUNK_SIZE
           /\ Where3(o).rest = o % CHUNK_SIZE
<1> DEFINE p == o - SIZE_SECOND_DIRECT_END
           s == D + N + N * N
           u == CHUNK_SIZE * N
           v == CHUNK_SIZE * N * N
           c == p \div v
           q == p % v
           b == q \div u
           r == q % u
           a == r \div CHUNK_SIZE
           d == (c * N + b) * N
           k == s + d
<1>1. /\ N \in Nat \ {0} /\ CHUNK_SIZE \in Nat \ {0} /\ s \in Nat
      /\ u \in Nat \ {0} /\ v \in Nat \ {0} /\ v = u * N
  BY Sizes
<1>2. CHUNK_SIZE * s \in Nat /\ v * N \in Nat
      /\ SIZE_SECOND_DIRECT_END = CHUNK_SIZE * s
      /\ SIZE_THIRD_DIRECT_END = CHUNK_SIZE * s + v * N
  <2>1. SIZE_SECOND_DIRECT_END = CHUNK_SIZE * s
    BY Ends
  <2>2. SIZE_THIRD_DIRECT_END = CHUNK_SIZE * (s + N * N * N)
    BY Ends DEF Places
  <2>3. N * N * N \in Nat /\ CHUNK_SIZE * (N * N * N) = v * N
    BY <1>1
  <2> HIDE DEF s, v
  <2>4. CHUNK_SIZE * (s + N * N * N) = CHUNK_SIZE * s + CHUNK_SIZE * (N * N * N)
    BY <1>1, <2>3
  <2>5. CHUNK_SIZE * s \in Nat /\ v * N \in Nat
    BY <1>1
  <2>6. QED BY <2>1, <2>2, <2>3, <2>4, <2>5
<1>3. p \in Nat /\ p < v * N /\ o = CHUNK_SIZE * s + p
  BY <1>1, <1>2
<1> HIDE DEF p, s, u, v
<1>4. c \in Index
  BY <1>1, <1>3, QuotientBound DEF Index
<1>5. q \in 0 .. v - 1 /\ p = v * c + q /\ c \in Nat
  BY <1>1, <1>3, Division
<1> HIDE DEF c, q
<1>6. q \in Nat /\ q < u * N
  BY <1>1, <1>5
<1>7. b \in Index
  BY <1>1, <1>6, QuotientBound DEF Index
<1>8. r \in 0 .. u - 1 /\ q = u * b + r /\ b \in Nat
  BY <1>1, <1>6, Division
<1> HIDE DEF b, r
<1>9. r \in Nat /\ r < CHUNK_SIZE * N
  BY <1>1, <1>8 DEF u
<1>10. a \in Index
  BY <1>1, <1>9, QuotientBound DEF Index
<1>11. o = CHUNK_SIZE * k + r /\ k \in Nat
  <2>1. v * c + u * b = CHUNK_SIZE * d
    BY <1>1, <1>5, <1>8 DEF u, v
  <2>2. d \in Nat
    BY <1>1, <1>5, <1>8
  <2> HIDE DEF d
  <2>3. CHUNK_SIZE * k = CHUNK_SIZE * s + CHUNK_SIZE * d /\ k \in Nat
    BY <1>1, <2>2
  <2>4. CHUNK_SIZE * s \in Nat /\ CHUNK_SIZE * d \in Nat
    BY <1>1, <2>2
  <2>5. v * c \in Nat /\ u * b \in Nat
    BY <1>1, <1>5, <1>8
  <2>6. o = CHUNK_SIZE * s + ((v * c + u * b) + r)
    BY <1>3, <1>5, <1>8, <1>9, <2>4, <2>5
  <2> HIDE DEF k
  <2>7. QED BY <1>9, <2>1, <2>3, <2>4, <2>6
<1> HIDE DEF k
<1>12. o \div CHUNK_SIZE = k + a /\ o % CHUNK_SIZE = r % CHUNK_SIZE
  BY <1>9, <1>11, Shifted
<1>13. Where3(o) = [at |-> <<3, c, b, a>>, rest |-> r % CHUNK_SIZE]
  BY DEF Where3, SIZE_FIRST_DIRECT_UNIT, SIZE_SECOND_DIRECT_UNIT, SIZE_THIRD_DIRECT_UNIT,
         p, u, v, c, q, b, r
<1> HIDE DEF a
<1>14. QED BY <1>4, <1>7, <1>10, <1>12, <1>13 DEF Under3, Number, k, s, d

LEMMA EndsAscend ==
    /\ SIZE_DIRECT_END \in Nat /\ SIZE_FIRST_DIRECT_END \in Nat
    /\ SIZE_SECOND_DIRECT_END \in Nat /\ SIZE_THIRD_DIRECT_END \in Nat
    /\ SIZE_DIRECT_END =< SIZE_FIRST_DIRECT_END
    /\ SIZE_FIRST_DIRECT_END =< SIZE_SECOND_DIRECT_END
    /\ SIZE_SECOND_DIRECT_END =< SIZE_THIRD_DIRECT_END
<1> DEFINE e0 == SIZE_DIRECT_END
           e1 == SIZE_FIRST_DIRECT_END
           e2 == SIZE_SECOND_DIRECT_END
           e3 == SIZE_THIRD_DIRECT_END
<1>1. /\ e0 = D * CHUNK_SIZE /\ e1 = e0 + N * CHUNK_SIZE
      /\ e2 = e1 + N * N * CHUNK_SIZE /\ e3 = e2 + N * N * N * CHUNK_SIZE
  BY DEF SIZE_DIRECT_END, SIZE_FIRST_DIRECT_END, SIZE_SECOND_DIRECT_END, SIZE_THIRD_DIRECT_END
<1>2. \A x, y \in Nat : x * y \in Nat
  OBVIOUS
<1>3. D * CHUNK_SIZE \in Nat /\ N * CHUNK_SIZE \in Nat /\ N * N * CHUNK_SIZE \in Nat
      /\ N * N * N * CHUNK_SIZE \in Nat
  BY <1>2, Sizes
<1> HIDE DEF e0, e1, e2, e3
<1>4. e0 \in Nat /\ e1 \in Nat /\ e2 \in Nat /\ e3 \in Nat /\ e0 =< e1 /\ e1 =< e2 /\ e2 =< e3
  BY <1>1, <1>3
<1>5. QED BY <1>4 DEF e0, e1, e2, e3

\* level3_local_index finds the place whose number is offset / CHUNK_SIZE.
LEMMA FoundPlace ==
    ASSUME NEW o \in Nat, Level(o) # 4
    PROVE  /\ Level(o) \in 0 .. 3
           /\ Where(o).at \in Place /\ Where(o).at[1] = Level(o)
           /\ Number(Where(o).at) = o \div CHUNK_SIZE
           /\ Where(o).rest = o % CHUNK_SIZE /\ o % CHUNK_SIZE \in Nat
           /\ o \div CHUNK_SIZE \in 0 .. Places - 1
<1> DEFINE e0 == SIZE_DIRECT_END
           e1 == SIZE_FIRST_DIRECT_END
           e2 == SIZE_SECOND_DIRECT_END
           e3 == SIZE_THIRD_DIRECT_END
<1>1. e0 \in Nat /\ e1 \in Nat /\ e2 \in Nat /\ e3 \in Nat /\ e0 =< e1 /\ e1 =< e2 /\ e2 =< e3
  BY EndsAscend
<1>2. /\ o % CHUNK_SIZE \in Nat
      /\ o < e3 => o \div CHUNK_SIZE \in 0 .. Places - 1
  <2>1. CHUNK_SIZE \in Nat \ {0} /\ Places \in Nat /\ e3 = CHUNK_SIZE * Places
    BY Sizes, Ends
  <2>2. o % CHUNK_SIZE \in Nat
    BY <2>1, Division
  <2> HIDE DEF e3
  <2>3. o < e3 => o \div CHUNK_SIZE \in 0 .. Places - 1
    BY <2>1, QuotientBound
  <2>4. QED BY <2>2, <2>3
<1>3. CASE o < e0
  <2>1. Level(o) = 0
    BY <1>1, <1>3 DEF Level
  <2>2. Where(o) = Where0(o) /\ Where(o).at \in Direct /\ Number(Where(o).at) = o \div CHUNK_SIZE
        /\ Where(o).rest = o % CHUNK_SIZE
    BY <1>3, <2>1, Place0 DEF Where
  <2> HIDE DEF e0, e1, e2, e3
  <2>3. QED BY <1>1, <1>2, <1>3, <2>1, <2>2 DEF Place, Direct
<1>4. CASE e0 =< o /\ o < e1
  <2>1. Level(o) = 1
    BY <1>1, <1>4 DEF Level
  <2>2. Where(o) = Where1(o) /\ Where(o).at \in Under1 /\ Number(Where(o).at) = o \div CHUNK_SIZE
        /\ Where(o).rest = o % CHUNK_SIZE
    BY <1>4, <2>1, Place1 DEF Where
  <2> HIDE DEF e0, e1, e2, e3
  <2>3. QED BY <1>1, <1>2, <1>4, <2>1, <2>2 DEF Place, Under1
<1>5. CASE e1 =< o /\ o < e2
  <2>1. Level(o) = 2
    BY <1>1, <1>5 DEF Level
  <2>2. Where(o) = Where2(o) /\ Where(o).at \in Under2 /\ Number(Where(o).at) = o \div CHUNK_SIZE
        /\ Where(o).rest = o % CHUNK_SIZE
    BY <1>5, <2>1, Place2 DEF Where
  <2> HIDE DEF e0, e1, e2, e3
  <2>3. QED BY <1>1, <1>2, <1>5, <2>1, <2>2 DEF Place, Under2
<1>6. CASE e2 =< o /\ o < e3
  <2>1. Level(o) = 3
    BY <1>1, <1>6 DEF Level
  <2>2. Where(o) = Where3(o) /\ Where(o).at \in Under3 /\ Number(Where(o).at) = o \div CHUNK_SIZE
        /\ Where(o).rest = o % CHUNK_SIZE
    BY <1>6, <2>1, Place3 DEF Where
  <2> HIDE DEF e0, e1, e2, e3
  <2>3. QED BY <1>1, <1>2, <1>6, <2>1, <2>2 DEF Place, Under3
<1>7. CASE e3 =< o
  <2>1. Level(o) = 4
    BY <1>1, <1>7 DEF Level
  <2>2. QED BY <2>1
<1>8. QED BY <1>1, <1>3, <1>4, <1>5, <1>6, <1>7

LEMMA NoPlace ==
    ASSUME NEW o \in Nat, Level(o) = 4
    PROVE  o \div CHUNK_SIZE >= Places
<1> DEFINE e3 == SIZE_THIRD_DIRECT_END
           q == o \div CHUNK_SIZE
<1>1. ASSUME o < e3 PROVE FALSE
  BY <1>1, EndsAscend DEF Level
<1>2. e3 = CHUNK_SIZE * Places /\ CHUNK_SIZE \in Nat \ {0} /\ Places \in Nat /\ CHUNK_SIZE * Places \in Nat
  BY Ends, Sizes
<1>3. CHUNK_SIZE * Places =< o
  <2> HIDE DEF e3
  <2>1. QED BY <1>1, <1>2
<1>4. q \in Nat /\ o % CHUNK_SIZE \in 0 .. CHUNK_SIZE - 1 /\ o = CHUNK_SIZE * q + (o % CHUNK_SIZE)
  BY <1>2, Division
<1> HIDE DEF q
<1>5. ASSUME q < Places PROVE FALSE
  <2>1. CHUNK_SIZE * (q + 1) =< CHUNK_SIZE * Places
    BY <1>2, <1>4, <1>5, Monotone
  <2>2. CHUNK_SIZE * (q + 1) = CHUNK_SIZE * q + CHUNK_SIZE /\ CHUNK_SIZE * q \in Nat
    BY <1>2, <1>4
  <2>3. QED BY <1>2, <1>3, <1>4, <2>1, <2>2
<1>6. QED BY <1>2, <1>4, <1>5 DEF q

\* Two digits below n make a number below m * n.
LEMMA TwoDigits ==
    ASSUME NEW m \in Nat, NEW n \in Nat, NEW i \in 0 .. m - 1, NEW j \in 0 .. n - 1
    PROVE  i * n + j \in 0 .. m * n - 1
<1>1. n * (i + 1) =< n * m
  BY Monotone
<1>2. n * (i + 1) = i * n + n /\ n * m = m * n /\ i * n \in Nat /\ m * n \in Nat
  OBVIOUS
<1>3. QED BY <1>1, <1>2

\* The numbers of a level start where those of the level before end.
LEMMA NumberBounds ==
    /\ \A p \in Direct : Number(p) \in 0 .. D - 1
    /\ \A p \in Under1 : Number(p) \in D .. D + N - 1
    /\ \A p \in Under2 : Number(p) \in D + N .. D + N + N * N - 1
    /\ \A p \in Under3 : Number(p) \in D + N + N * N .. Places - 1
<1>1. D \in Nat /\ N \in Nat /\ N * N \in Nat /\ N * N * N \in Nat
  BY Sizes
<1>2. ASSUME NEW p \in Direct PROVE Number(p) \in 0 .. D - 1
  BY <1>1 DEF Direct, Number
<1>3. ASSUME NEW p \in Under1 PROVE Number(p) \in D .. D + N - 1
  BY <1>1 DEF Under1, Number, Index
<1>4. ASSUME NEW p \in Under2 PROVE Number(p) \in D + N .. D + N + N * N - 1
  <2>1. PICK b \in 0 .. N - 1, a \in 0 .. N - 1 : p = <<2, b, a>>
    BY DEF Under2, Index
  <2>2. b * N + a \in 0 .. N * N - 1 /\ b * N \in Nat
    BY <1>1, TwoDigits
  <2>3. Number(p) = D + N + b * N + a
    BY <2>1 DEF Number
  <2> DEFINE x == b * N
             y == N * N
  <2>4. x \in Nat /\ y \in Nat /\ x + a \in 0 .. y - 1 /\ Number(p) = D + N + x + a
    BY <1>1, <2>2, <2>3
  <2> HIDE DEF x, y
  <2>5. Number(p) \in D + N .. D + N + y - 1
    BY <1>1, <2>4
  <2>6. QED BY <2>5 DEF y
<1>5. ASSUME NEW p \in Under3 PROVE Number(p) \in D + N + N * N .. Places - 1
  <2>1. PICK c \in 0 .. N - 1, b \in 0 .. N - 1, a \in 0 .. N - 1 : p = <<3, c, b, a>>
    BY DEF Under3, Index
  <2> DEFINE x == c * N + b
             y == x * N
             z == N * N
             w == z * N
  <2>2. x \in 0 .. z - 1
    BY <1>1, TwoDigits
  <2>3. Number(p) = D + N + z + y + a
    BY <2>1 DEF Number
  <2>4. w = N * N * N /\ z \in Nat
    BY <1>1
  <2> HIDE DEF x, z
  <2>5. y + a \in 0 .. w - 1
    BY <1>1, <2>2, <2>4, TwoDigits
  <2>6. y \in Nat /\ w \in Nat
    BY <1>1, <2>2, <2>4
  <2> HIDE DEF y, w
  <2>7. Number(p) \in D + N + z .. D + N + z + w - 1
    BY <1>1, <2>3, <2>4, <2>5, <2>6
  <2>8. Places = D + N + z + w
    BY <2>4 DEF Places, z
  <2>9. Number(p) \in D + N + z .. Places - 1
    BY <1>1, <2>4, <2>6, <2>7, <2>8
  <2>10. QED BY <2>9 DEF z
<1>6. QED BY <1>2, <1>3, <1>4, <1>5

\* No two places have one number.
LEMMA NumberInjective ==
    ASSUME NEW p \in Place, NEW r \in Place, Number(p) = Number(r)
    PROVE  p = r
<1>1. D \in Nat /\ N \in Nat /\ N * N \in Nat /\ Places \in Nat
  BY Sizes
<1>2. \/ p \in Direct /\ r \in Direct
      \/ p \in Under1 /\ r \in Under1
      \/ p \in Under2 /\ r \in Under2
      \/ p \in Under3 /\ r \in Under3
  <2> DEFINE z == N * N
  <2>1. /\ p \in Direct => Number(p) \in 0 .. D - 1
        /\ p \in Under1 => Number(p) \in D .. D + N - 1
        /\ p \in Under2 => Number(p) \in D + N .. D + N + z - 1
        /\ p \in Under3 => Number(p) \in D + N + z .. Places - 1
    BY NumberBounds
  <2>2. /\ r \in Direct => Number(r) \in 0 .. D - 1
        /\ r \in Under1 => Number(r) \in D .. D + N - 1
        /\ r \in Under2 => Number(r) \in D + N .. D + N + z - 1
        /\ r \in Under3 => Number(r) \in D + N + z .. Places - 1
    BY NumberBounds
  <2>3. z \in Nat
    BY <1>1
  <2> HIDE DEF z
  <2>4. QED BY <1>1, <2>1, <2>2, <2>3 DEF Place
<1>3. CASE p \in Direct /\ r \in Direct
  BY <1>3 DEF Direct, Number
<1>4. CASE p \in Under1 /\ r \in Under1
  BY <1>1, <1>4 DEF Under1, Number, Index
<1>5. CASE p \in Under2 /\ r \in Under2
  <2>1. PICK b \in 0 .. N - 1, a \in 0 .. N - 1 : p = <<2, b, a>>
    BY <1>5 DEF Under2, Index
  <2>2. PICK d \in 0 .. N - 1, e \in 0 .. N - 1 : r = <<2, d, e>>
    BY <1>5 DEF Under2, Index
  <2>3. Number(p) = D + N + b * N + a /\ Number(r) = D + N + d * N + e
    BY <2>1, <2>2 DEF Number
  <2> DEFINE x == b * N
             y == d * N
  <2>4. x \in Nat /\ y \in Nat
    BY <1>1
  <2> HIDE DEF x, y
  <2>5. D + N + x + a = D + N + y + e
    BY <2>3 DEF x, y
  <2>6. x + a = y + e
    BY <1>1, <2>4, <2>5
  <2>7. b = d /\ a = e
    BY <1>1, <2>6, Digits DEF x, y
  <2>8. QED BY <2>1, <2>2, <2>7
<1>6. CASE p \in Under3 /\ r \in Under3
  <2>1. PICK c \in 0 .. N - 1, b \in 0 .. N - 1, a \in 0 .. N - 1 : p = <<3, c, b, a>>
    BY <1>6 DEF Under3, Index
  <2>2. PICK f \in 0 .. N - 1, d \in 0 .. N - 1, e \in 0 .. N - 1 : r = <<3, f, d, e>>
    BY <1>6 DEF Under3, Index
  <2> DEFINE x == c * N + b
             y == f * N + d
             s == D + N + N * N
  <2>3. Number(p) = s + x * N + a /\ Number(r) = s + y * N + e
    BY <2>1, <2>2 DEF Number
  <2>4. x \in Nat /\ y \in Nat /\ s \in Nat
    BY <1>1
  <2> HIDE DEF x, y, s
  <2> DEFINE u == x * N
             v == y * N
  <2>5. u \in Nat /\ v \in Nat
    BY <1>1, <2>4
  <2> HIDE DEF u, v
  <2>6. s + u + a = s + v + e
    BY <2>3 DEF u, v
  <2>7. u + a = v + e
    BY <2>4, <2>5, <2>6
  <2>8. x = y /\ a = e
    BY <1>1, <2>4, <2>7, Digits DEF u, v
  <2>9. c = f /\ b = d
    BY <1>1, <2>8, Digits DEF x, y
  <2>10. QED BY <2>1, <2>2, <2>8, <2>9
<1>7. QED BY <1>2, <1>3, <1>4, <1>5, <1>6

\* Every number below Places is that of exactly one place.
LEMMA PlaceOfNumber ==
    ASSUME NEW k \in 0 .. Places - 1
    PROVE  PlaceAt(k) \in Place /\ Number(PlaceAt(k)) = k
<1> DEFINE o == CHUNK_SIZE * k
<1>1. CHUNK_SIZE \in Nat \ {0} /\ Places \in Nat /\ k \in Nat /\ k < Places
  BY Sizes
<1>2. o \in Nat /\ o = CHUNK_SIZE * k + 0
  BY <1>1
<1>3. o \div CHUNK_SIZE = k
  <2>1. o \div CHUNK_SIZE = k + (0 \div CHUNK_SIZE)
    BY <1>1, <1>2, Shifted
  <2>2. 0 \div CHUNK_SIZE = 0
    BY <1>1
  <2> HIDE DEF o
  <2>3. QED BY <1>1, <2>1, <2>2
<1> HIDE DEF o
<1>4. Level(o) # 4
  BY <1>1, <1>2, <1>3, NoPlace
<1>5. \E p \in Place : Number(p) = k
  BY <1>2, <1>3, <1>4, FoundPlace
<1>6. QED BY <1>5 DEF PlaceAt

LEMMA NumberOfPlace ==
    ASSUME NEW p \in Place
    PROVE  Number(p) \in 0 .. Places - 1 /\ PlaceAt(Number(p)) = p
<1>1. Number(p) \in 0 .. Places - 1
  <2> DEFINE z == N * N
             w == N * N * N
  <2>1. D \in Nat /\ N \in Nat /\ z \in Nat /\ w \in Nat /\ Places = D + N + z + w
    BY Sizes DEF Places
  <2>2. /\ p \in Direct => Number(p) \in 0 .. D - 1
        /\ p \in Under1 => Number(p) \in D .. D + N - 1
        /\ p \in Under2 => Number(p) \in D + N .. D + N + z - 1
        /\ p \in Under3 => Number(p) \in D + N + z .. Places - 1
    BY NumberBounds
  <2> HIDE DEF z, w
  <2>3. QED BY <2>1, <2>2 DEF Place
<1>2. QED BY <1>1, PlaceOfNumber, NumberInjective

-----------------------------------------------------------------------------
(* What threads in level3_local_index know.                                *)

\* A thread is idle exactly when it asks for nothing, and done when it has
\* its answer; past the test of the table its level has a table; only writers
\* make what is missing; a thread that loads a pointer finds one.
Placed(w) ==
    /\ asked[w] = None <=> pc[w] = "idle"
    /\ answer[w] # None <=> pc[w] = "done"
    /\ pc[w] \in {"make", "cell", "fill", "load"} => Level(Off(w)) # 4
    /\ pc[w] \in {"cell", "fill", "load"} => Level(Off(w)) \in made
    /\ pc[w] \in {"make", "fill"} => ~asked[w].read
    /\ pc[w] = "load" => cell[At(w)] # None

IInv ==
    /\ TypeOK
    /\ BackPointers
    /\ NothingHidden
    /\ \A w \in Worker : Placed(w)

LEMMA NoneIsOther ==
    /\ None \notin Chunk
    /\ \A o \in Nat, r \in BOOLEAN : [off |-> o, read |-> r] # None
    /\ \A c \in Chunk \union {None}, n \in Nat : [cnt |-> c, rest |-> n] # None
  BY NoneAssumption

\* The place a thread works on lies in the table of its level.
LEMMA Working ==
    ASSUME TypeOK, NEW w \in Worker, Placed(w), pc[w] \in {"make", "cell", "fill", "load"}
    PROVE  /\ asked[w] \in [off : Nat, read : BOOLEAN] /\ Off(w) \in Nat
           /\ Level(Off(w)) \in 0 .. 3
           /\ At(w) \in Place /\ At(w)[1] = Level(Off(w))
           /\ Number(At(w)) = Off(w) \div CHUNK_SIZE
           /\ Where(Off(w)).rest = Off(w) % CHUNK_SIZE /\ Off(w) % CHUNK_SIZE \in Nat
           /\ Off(w) \div CHUNK_SIZE \in 0 .. Places - 1
<1>1. asked[w] \in [off : Nat, read : BOOLEAN] /\ Off(w) \in Nat
  BY DEF TypeOK, Placed, Off
<1>2. Level(Off(w)) # 4
  BY DEF Placed
<1>3. QED BY <1>1, <1>2, FoundPlace DEF At

LEMMA PlacedAlone ==
    ASSUME NEW w \in Worker, Placed(w), made \subseteq made',
           pc'[w] = pc[w], asked'[w] = asked[w], answer'[w] = answer[w],
           pc[w] = "load" => cell'[At(w)] # None
    PROVE  Placed(w)'
  BY DEF Placed, Off, At

LEMMA InitInv == Init => IInv
<1> SUFFICES ASSUME Init PROVE IInv
  OBVIOUS
<1>1. TypeOK
  BY DEF Init, TypeOK
<1>2. BackPointers /\ NothingHidden
  BY DEF Init, BackPointers, NothingHidden
<1>3. \A w \in Worker : Placed(w)
  BY DEF Init, Placed
<1>4. QED BY <1>1, <1>2, <1>3 DEF IInv

\* The steps that only move one thread.
Quiet(w) ==
    \/ Call(w) \/ TooFar(w) \/ TestTable(w) \/ TestCell(w) \/ Load(w) \/ Return(w)

LEMMA QuietType ==
    ASSUME IInv, NEW w \in Worker, Quiet(w)
    PROVE  TypeOK'
<1>1. /\ UNCHANGED <<made, cell, which, context>>
      /\ \E p \in {"idle", "table", "make", "cell", "fill", "load", "done"} : Goto(w, p)
  BY DEF Quiet, Call, TooFar, TestTable, TestCell, Load, Return, Result
<1>2. pc' \in [Worker -> {"idle", "table", "make", "cell", "fill", "load", "done"}]
  BY <1>1 DEF Goto, IInv, TypeOK
<1>3. asked' \in [Worker -> [off : Nat, read : BOOLEAN] \union {None}]
  <2>1. CASE Call(w)
    BY <2>1, OffsetAssumption DEF Call, IInv, TypeOK
  <2>2. CASE Return(w)
    BY <2>2 DEF Return, IInv, TypeOK
  <2>3. CASE UNCHANGED asked
    BY <2>3 DEF IInv, TypeOK
  <2>4. QED BY <2>1, <2>2, <2>3 DEF Quiet, TooFar, TestTable, TestCell, Load
<1>4. answer' \in [Worker -> [cnt : Chunk \union {None}, rest : Nat] \union {None}]
  <2>1. ASSUME NEW c \in Chunk \union {None}, NEW n \in Nat, Result(w, c, n)
        PROVE  answer' \in [Worker -> [cnt : Chunk \union {None}, rest : Nat] \union {None}]
    BY <2>1 DEF Result, IInv, TypeOK
  <2>2. CASE TooFar(w)
    <3>1. Off(w) \in Nat
      BY <2>2 DEF TooFar, IInv, Placed, TypeOK, Off
    <3>2. QED BY <2>1, <2>2, <3>1 DEF TooFar
  <2>3. CASE TestTable(w)
    <3>1. Off(w) \in Nat
      BY <2>3 DEF TestTable, IInv, Placed, TypeOK, Off
    <3>2. QED BY <2>1, <2>3, <3>1 DEF TestTable, IInv, TypeOK
  <2>4. CASE TestCell(w)
    <3>1. Where(Off(w)).rest \in Nat
      BY <2>4, Working DEF TestCell, IInv
    <3>2. QED BY <2>1, <2>4, <3>1 DEF TestCell, IInv, TypeOK
  <2>5. CASE Load(w)
    <3>1. Where(Off(w)).rest \in Nat /\ At(w) \in Place
      BY <2>5, Working DEF Load, IInv
    <3>2. cell[At(w)] \in Chunk \union {None}
      BY <3>1 DEF IInv, TypeOK
    <3>3. QED BY <2>1, <2>5, <3>1, <3>2 DEF Load
  <2>6. CASE Return(w)
    BY <2>6 DEF Return, IInv, TypeOK
  <2>7. CASE Call(w)
    BY <2>7 DEF Call, IInv, TypeOK
  <2>8. QED BY <2>2, <2>3, <2>4, <2>5, <2>6, <2>7 DEF Quiet
<1>5. QED BY <1>1, <1>2, <1>3, <1>4 DEF IInv, TypeOK

LEMMA QuietPlaced ==
    ASSUME IInv, NEW w \in Worker, Quiet(w)
    PROVE  \A v \in Worker : Placed(v)'
<1> USE DEF IInv
<1>1. UNCHANGED <<made, cell>>
  BY DEF Quiet, Call, TooFar, TestTable, TestCell, Load, Return
<1>2. ASSUME NEW v \in Worker, v # w PROVE Placed(v)'
  <2>1. pc'[v] = pc[v] /\ asked'[v] = asked[v] /\ answer'[v] = answer[v]
    BY <1>2 DEF Quiet, Call, TooFar, TestTable, TestCell, Load, Return, Result, Goto, TypeOK
  <2>2. pc[v] = "load" => cell'[At(v)] # None
    BY <1>1 DEF Placed
  <2>3. QED BY <1>1, <2>1, <2>2, PlacedAlone
<1>3. Placed(w)'
  <2>1. ASSUME NEW c \in Chunk \union {None}, NEW n \in Nat, Result(w, c, n), UNCHANGED asked,
               pc[w] # "idle"
        PROVE  Placed(w)'
    BY <2>1, NoneIsOther DEF Result, Goto, TypeOK, Placed
  <2>2. CASE TooFar(w)
    <3>1. Off(w) \in Nat
      BY <2>2 DEF TooFar, Placed, TypeOK, Off
    <3>2. QED BY <2>1, <2>2, <3>1 DEF TooFar
  <2>3. CASE TestTable(w)
    <3>1. Off(w) \in Nat
      BY <2>3 DEF TestTable, Placed, TypeOK, Off
    <3>2. CASE Result(w, None, Off(w))
      BY <2>1, <2>3, <3>1, <3>2 DEF TestTable
    <3>3. CASE Level(Off(w)) \in made /\ Goto(w, "cell") /\ UNCHANGED answer
      BY <2>3, <3>3 DEF TestTable, Goto, TypeOK, Placed, Off
    <3>4. CASE ~asked[w].read /\ Goto(w, "make") /\ UNCHANGED answer
      BY <2>3, <3>4 DEF TestTable, Goto, TypeOK, Placed, Off
    <3>5. QED BY <2>3, <3>2, <3>3, <3>4 DEF TestTable
  <2>4. CASE TestCell(w)
    <3>1. Where(Off(w)).rest \in Nat
      BY <2>4, Working DEF TestCell
    <3>2. CASE Result(w, None, Where(Off(w)).rest)
      BY <2>1, <2>4, <3>1, <3>2 DEF TestCell
    <3>3. CASE cell[At(w)] # None /\ Goto(w, "load") /\ UNCHANGED answer
      BY <2>4, <3>3, <1>1 DEF TestCell, Goto, TypeOK, Placed, Off, At
    <3>4. CASE ~asked[w].read /\ Goto(w, "fill") /\ UNCHANGED answer
      BY <2>4, <3>4 DEF TestCell, Goto, TypeOK, Placed, Off
    <3>5. QED BY <2>4, <3>2, <3>3, <3>4 DEF TestCell
  <2>5. CASE Load(w)
    <3>1. Where(Off(w)).rest \in Nat /\ At(w) \in Place
      BY <2>5, Working DEF Load
    <3>2. cell[At(w)] \in Chunk \union {None}
      BY <3>1 DEF TypeOK
    <3>3. QED BY <2>1, <2>5, <3>1, <3>2 DEF Load
  <2>6. CASE Return(w)
    BY <2>6 DEF Return, Goto, TypeOK, Placed
  <2>7. CASE Call(w)
    <3>1. PICK o \in Offsets, r \in BOOLEAN : asked' = [asked EXCEPT ![w] = [off |-> o, read |-> r]]
      BY <2>7 DEF Call
    <3>2. asked'[w] # None
      BY <3>1, NoneIsOther, OffsetAssumption DEF TypeOK
    <3>3. QED BY <2>7, <3>2 DEF Call, Goto, TypeOK, Placed
  <2>8. QED BY <2>2, <2>3, <2>4, <2>5, <2>6, <2>7 DEF Quiet
<1>4. QED BY <1>2, <1>3

LEMMA QuietInv ==
    ASSUME IInv, NEW w \in Worker, Quiet(w)
    PROVE  IInv'
<1>1. UNCHANGED <<made, cell, which, context>>
  BY DEF Quiet, Call, TooFar, TestTable, TestCell, Load, Return
<1>2. BackPointers' /\ NothingHidden'
  BY <1>1 DEF IInv, BackPointers, NothingHidden
<1>3. QED BY <1>2, QuietType, QuietPlaced DEF IInv

\* Making a table drops nothing: its places are empty before.
LEMMA MakeTableInv ==
    ASSUME IInv, NEW w \in Worker, MakeTable(w)
    PROVE  IInv' /\ UNCHANGED <<cell, which, context, asked, answer>>
<1> USE DEF IInv
<1>1. Level(Off(w)) \in 0 .. 3
  BY Working DEF MakeTable
<1>2. cell' = cell
  <2>1. CASE UNCHANGED <<made, cell>>
    BY <2>1
  <2>2. CASE /\ Level(Off(w)) \notin made
             /\ cell' = [p \in Place |-> IF p[1] = Level(Off(w)) THEN None ELSE cell[p]]
    <3>1. \A p \in Place : cell'[p] = cell[p]
      BY <2>2 DEF NothingHidden
    <3>2. QED BY <2>2, <3>1 DEF TypeOK
  <2>3. QED BY <2>1, <2>2 DEF MakeTable
<1>3. /\ UNCHANGED <<which, context, asked, answer>>
      /\ made \subseteq made' /\ Level(Off(w)) \in made' /\ made' \subseteq made \union {Level(Off(w))}
      /\ Goto(w, "cell") /\ pc[w] = "make"
  BY DEF MakeTable
<1>4. TypeOK'
  <2>1. pc' \in [Worker -> {"idle", "table", "make", "cell", "fill", "load", "done"}]
    BY <1>3 DEF Goto, TypeOK
  <2>2. QED BY <1>1, <1>2, <1>3, <2>1 DEF TypeOK
<1>5. BackPointers' /\ NothingHidden'
  BY <1>2, <1>3 DEF BackPointers, NothingHidden
<1>6. ASSUME NEW v \in Worker PROVE Placed(v)'
  <2>1. CASE v = w
    BY <1>3, <2>1 DEF Placed, Goto, TypeOK, Off
  <2>2. CASE v # w
    <3>1. pc'[v] = pc[v]
      BY <1>3, <2>2 DEF Goto, TypeOK
    <3>2. pc[v] = "load" => cell'[At(v)] # None
      BY <1>2 DEF Placed
    <3>3. QED BY <1>3, <3>1, <3>2, PlacedAlone
  <2>3. QED BY <2>1, <2>2
<1>7. QED BY <1>2, <1>3, <1>4, <1>5, <1>6

LEMMA FillInv ==
    ASSUME IInv, NEW w \in Worker, Fill(w)
    PROVE  IInv'
<1> USE DEF IInv
<1>1. At(w) \in Place /\ At(w)[1] = Level(Off(w)) /\ pc[w] = "fill" /\ Goto(w, "load")
      /\ UNCHANGED <<made, asked, answer>>
  BY Working DEF Fill
<1>2. Level(Off(w)) \in made
  BY <1>1 DEF Placed
<1>3. TypeOK' /\ BackPointers' /\ NothingHidden' /\ cell'[At(w)] # None
      /\ \A p \in Place : cell[p] # None => cell'[p] # None
  <2>1. pc' \in [Worker -> {"idle", "table", "make", "cell", "fill", "load", "done"}]
    BY <1>1 DEF Goto, TypeOK
  <2>2. CASE cell[At(w)] # None /\ UNCHANGED <<cell, which, context>>
    BY <1>1, <2>1, <2>2 DEF TypeOK, BackPointers, NothingHidden
  <2>3. ASSUME cell[At(w)] = None, NEW c \in Chunk \ context,
               cell' = [cell EXCEPT ![At(w)] = c], which' = [which EXCEPT ![c] = At(w)],
               context' = context \union {c}
        PROVE  TypeOK' /\ BackPointers' /\ NothingHidden' /\ cell'[At(w)] # None
               /\ \A p \in Place : cell[p] # None => cell'[p] # None
    <3>1. TypeOK'
      BY <1>1, <2>1, <2>3 DEF TypeOK
    <3>2. cell'[At(w)] = c /\ which'[c] = At(w) /\ c # None
          /\ (\A p \in Place : p # At(w) => cell'[p] = cell[p])
          /\ \A d \in Chunk : d # c => which'[d] = which[d]
      BY <1>1, <2>3, NoneIsOther DEF TypeOK
    <3>3. \A d \in context : d # c /\ d \in Chunk /\ which[d] # At(w)
      BY <1>1, <2>3, NoneIsOther DEF BackPointers, TypeOK
    <3>4. \A d \in context' : which'[d] \in Place /\ cell'[which'[d]] = d
      BY <1>1, <2>3, <3>2, <3>3 DEF BackPointers
    <3>5. \A p \in Place : cell'[p] # None => cell'[p] \in context' /\ which'[cell'[p]] = p
      BY <1>1, <2>3, <3>2, <3>3 DEF BackPointers
    <3>6. NothingHidden'
      BY <1>1, <1>2, <3>2 DEF NothingHidden
    <3>7. QED BY <1>1, <3>1, <3>2, <3>4, <3>5, <3>6 DEF BackPointers
  <2>4. QED BY <2>2, <2>3 DEF Fill
<1>4. ASSUME NEW v \in Worker PROVE Placed(v)'
  <2>1. CASE v = w
    BY <1>1, <1>3, <2>1 DEF Placed, Goto, TypeOK, Off, At
  <2>2. CASE v # w
    <3>1. pc'[v] = pc[v]
      BY <1>1, <2>2 DEF Goto, TypeOK
    <3>2. pc[v] = "load" => cell'[At(v)] # None
      BY <1>3, Working DEF Placed
    <3>3. QED BY <1>1, <3>1, <3>2, PlacedAlone
  <2>3. QED BY <2>1, <2>2
<1>5. QED BY <1>3, <1>4

\* Taking the chunks out through their back pointers empties every place.
LEMMA ResetInv ==
    ASSUME IInv, Reset
    PROVE  IInv' /\ \A p \in Place : cell'[p] = None
<1> USE DEF IInv
<1>1. ASSUME NEW p \in Place PROVE cell'[p] = None
  <2>1. CASE cell[p] = None
    BY <2>1 DEF Reset
  <2>2. CASE cell[p] # None
    <3>1. cell[p] \in context /\ which[cell[p]] = p
      BY <2>2 DEF BackPointers
    <3>2. QED BY <3>1 DEF Reset
  <2>3. QED BY <2>1, <2>2
<1>2. TypeOK'
  <2>1. cell' \in [Place -> Chunk \union {None}]
    BY DEF Reset, TypeOK
  <2>2. which' \in [Chunk -> Place \union {None}]
    BY DEF Reset, TypeOK
  <2>3. QED BY <2>1, <2>2 DEF Reset, TypeOK
<1>3. BackPointers' /\ NothingHidden'
  BY <1>1 DEF Reset, BackPointers, NothingHidden
<1>4. ASSUME NEW v \in Worker PROVE Placed(v)'
  BY PlacedAlone DEF Reset
<1>5. QED BY <1>1, <1>2, <1>3, <1>4

LEMMA StepInv == IInv /\ [Next]_vars => IInv'
<1> SUFFICES ASSUME IInv, [Next]_vars PROVE IInv'
  OBVIOUS
<1>1. ASSUME NEW w \in Worker, Step(w) PROVE IInv'
  BY <1>1, QuietInv, MakeTableInv, FillInv DEF Step, Quiet
<1>2. CASE Reset
  BY <1>2, ResetInv
<1>3. CASE UNCHANGED vars
  BY <1>3 DEF vars, IInv, TypeOK, BackPointers, NothingHidden, Placed, Off, At
<1>4. QED BY <1>1, <1>2, <1>3 DEF Next

(* The invariant holds in every reachable state.                           *)
THEOREM Invariant == Spec => []IInv
  BY InitInv, StepInv, PTL DEF Spec

(* Back pointers and places name each other, in whatever order threads     *)
(* test, lock, test again and fill (level3_local_index).                   *)
THEOREM BackPointersHold == Spec => []BackPointers
<1>1. IInv => BackPointers
  BY DEF IInv
<1>2. QED BY <1>1, Invariant, PTL

(* init_indirect_class3 drops no chunk when two threads find the table     *)
(* missing at once.                                                        *)
THEOREM NothingHiddenHolds == Spec => []NothingHidden
<1>1. IInv => NothingHidden
  BY DEF IInv
<1>2. QED BY <1>1, Invariant, PTL

-----------------------------------------------------------------------------
(* The levels are one array.                                               *)

LEMMA CellOf ==
    ASSUME NEW p \in Place
    PROVE  Cells[Number(p)] = cell[p] /\ Cells'[Number(p)] = cell'[p]
  BY NumberOfPlace DEF Cells

\* A thread's place in the array is the place level3_local_index works on.
LEMMA SamePlace ==
    ASSUME IInv, NEW w \in Worker, pc[w] \in {"make", "cell", "fill", "load"}
    PROVE  /\ Flat!Place(w) \in 0 .. Places - 1
           /\ Flat!Place(w) < Places
           /\ Flat!Place(w) = Number(At(w))
           /\ Cells[Flat!Place(w)] = cell[At(w)]
<1>1. At(w) \in Place /\ Number(At(w)) = Flat!Place(w) /\ Flat!Place(w) \in 0 .. Places - 1
  BY Working DEF IInv, Flat!Place, Off
<1>2. Flat!Place(w) < Places
  BY <1>1, Sizes
<1>3. QED BY <1>1, <1>2, CellOf

LEMMA CallAsks ==
    ASSUME IInv, NEW w \in Worker, Call(w)
    PROVE  Flat!Ask(w)
<1>1. PICK o \in Offsets, r \in BOOLEAN : asked' = [asked EXCEPT ![w] = [off |-> o, read |-> r]]
  BY DEF Call
<1>2. asked[w] = None /\ asked'[w] = [off |-> o, read |-> r] /\ o \in Nat
  BY <1>1, OffsetAssumption DEF Call, IInv, TypeOK, Placed
<1>3. asked' = [asked EXCEPT ![w] = asked'[w]]
  BY <1>1, <1>2
<1>4. UNCHANGED <<Cells, answer>>
  BY DEF Call, Cells
<1>5. QED BY <1>2, <1>3, <1>4 DEF Flat!Ask

\* A result is what the array has at the place.
LEMMA ResultTells ==
    ASSUME IInv, NEW w \in Worker, pc[w] \in {"cell", "load"},
           UNCHANGED <<cell, asked>>,
           asked[w].read \/ cell[At(w)] # None,
           Result(w, cell[At(w)], Where(Off(w)).rest)
    PROVE  Flat!Tell(w)
<1>1. asked[w] # None /\ answer[w] = None
  BY DEF IInv, Placed
<1>2. /\ Flat!Place(w) < Places
      /\ Cells[Flat!Place(w)] = cell[At(w)]
  BY SamePlace
<1>3. Where(Off(w)).rest = asked[w].off % CHUNK_SIZE /\ Where(Off(w)).rest \in Nat
  BY Working DEF IInv, Off
<1>4. /\ answer' = [answer EXCEPT ![w] = [cnt |-> cell[At(w)], rest |-> Where(Off(w)).rest]]
      /\ answer'[w] = [cnt |-> cell[At(w)], rest |-> Where(Off(w)).rest]
  BY DEF Result, IInv, TypeOK
<1>5. answer' = [answer EXCEPT ![w] = answer'[w]]
  BY <1>4
<1>6. UNCHANGED <<Cells, asked>>
  BY DEF Cells
<1>7. /\ answer'[w] \in [cnt : {Cells[Flat!Place(w)]}, rest : Nat]
      /\ answer'[w].rest = asked[w].off % CHUNK_SIZE
      /\ asked[w].read \/ Cells[Flat!Place(w)] # None
  BY <1>2, <1>3, <1>4
<1>8. QED BY <1>1, <1>2, <1>5, <1>6, <1>7 DEF Flat!Tell

LEMMA TooFarTells ==
    ASSUME IInv, NEW w \in Worker, TooFar(w)
    PROVE  Flat!Tell(w)
<1>1. asked[w] # None /\ answer[w] = None /\ Off(w) \in Nat /\ Level(Off(w)) = 4
  BY DEF TooFar, IInv, Placed, TypeOK, Off
<1>2. Flat!Place(w) >= Places
  BY <1>1, NoPlace DEF Flat!Place, Off
<1>3. answer' = [answer EXCEPT ![w] = [cnt |-> None, rest |-> asked[w].off]]
  BY DEF TooFar, Result, Off
<1>4. UNCHANGED <<Cells, asked>>
  BY DEF TooFar, Cells
<1>5. QED BY <1>1, <1>2, <1>3, <1>4 DEF Flat!Tell

\* Without a table there is nothing at the place.
LEMMA NoTableTells ==
    ASSUME IInv, NEW w \in Worker, pc[w] = "table", Level(Off(w)) # 4, Level(Off(w)) \notin made,
           asked[w].read, Result(w, None, Off(w)), UNCHANGED <<cell, asked>>
    PROVE  Flat!Tell(w)
<1>1. asked[w] # None /\ answer[w] = None /\ Off(w) \in Nat
  BY DEF IInv, Placed, TypeOK, Off
<1>2. At(w) \in Place /\ At(w)[1] = Level(Off(w)) /\ Number(At(w)) = Flat!Place(w)
      /\ Flat!Place(w) \in 0 .. Places - 1
  BY <1>1, FoundPlace DEF At, Flat!Place, Off
<1>3. Cells[Flat!Place(w)] = None
  BY <1>2, CellOf DEF IInv, NothingHidden
<1>4. Flat!Place(w) < Places
  BY <1>2, Sizes
<1>5. /\ answer' = [answer EXCEPT ![w] = [cnt |-> None, rest |-> Off(w)]]
      /\ answer'[w] = [cnt |-> None, rest |-> Off(w)]
  BY DEF Result, IInv, TypeOK
<1>6. answer' = [answer EXCEPT ![w] = answer'[w]]
  BY <1>5
<1>7. answer'[w] \in [cnt : {Cells[Flat!Place(w)]}, rest : Nat]
  BY <1>1, <1>3, <1>5
<1>8. UNCHANGED <<Cells, asked>>
  BY DEF Cells
<1>9. QED BY <1>1, <1>3, <1>4, <1>6, <1>7, <1>8 DEF Flat!Tell

LEMMA FillMakes ==
    ASSUME IInv, NEW w \in Worker, Fill(w)
    PROVE  Flat!Make(w) \/ UNCHANGED Flat!fvars
<1>1. /\ pc[w] = "fill" /\ UNCHANGED <<asked, answer>> /\ ~asked[w].read
      /\ asked[w] # None /\ answer[w] = None
  BY DEF Fill, IInv, Placed
<1>2. At(w) \in Place
  BY <1>1, Working DEF IInv
<1>3. /\ Flat!Place(w) \in 0 .. Places - 1 /\ Flat!Place(w) < Places
      /\ Flat!Place(w) = Number(At(w)) /\ Cells[Flat!Place(w)] = cell[At(w)]
  BY <1>1, SamePlace
<1>4. CASE cell[At(w)] # None
  <2>1. UNCHANGED cell
    BY <1>4 DEF Fill
  <2>2. UNCHANGED <<Cells, asked, answer>>
    BY <1>1, <2>1 DEF Cells
  <2>3. QED BY <2>2 DEF Flat!fvars
<1>5. CASE cell[At(w)] = None
  <2>1. PICK c \in Chunk \ context : cell' = [cell EXCEPT ![At(w)] = c]
    BY <1>5 DEF Fill
  <2>2. \A k \in 0 .. Places - 1 : Cells[k] # c
    <3>1. \A p \in Place : cell[p] # c
      BY <2>1, NoneIsOther DEF IInv, BackPointers
    <3>2. QED BY <3>1, PlaceOfNumber DEF Cells
  <2>3. Cells' = [Cells EXCEPT ![Flat!Place(w)] = c]
    <3>1. ASSUME NEW k \in 0 .. Places - 1
          PROVE  Cells'[k] = IF k = Flat!Place(w) THEN c ELSE Cells[k]
      <4>1. PlaceAt(k) \in Place /\ Number(PlaceAt(k)) = k
        BY PlaceOfNumber
      <4>2. Cells[k] = cell[PlaceAt(k)] /\ Cells'[k] = cell'[PlaceAt(k)]
        BY DEF Cells
      <4>3. PlaceAt(k) = At(w) <=> k = Flat!Place(w)
        BY <1>2, <1>3, <4>1, NumberInjective
      <4>4. cell'[PlaceAt(k)] = IF PlaceAt(k) = At(w) THEN c ELSE cell[PlaceAt(k)]
        BY <1>2, <2>1, <4>1 DEF IInv, TypeOK
      <4>5. QED BY <4>2, <4>3, <4>4
    <3>2. /\ Cells' = [k \in 0 .. Places - 1 |-> Cells'[k]]
          /\ Cells = [k \in 0 .. Places - 1 |-> Cells[k]]
      BY DEF Cells
    <3>3. QED BY <1>3, <3>1, <3>2
  <2>4. Flat!Make(w)
    BY <1>1, <1>3, <1>5, <2>1, <2>2, <2>3 DEF Flat!Make
  <2>5. QED BY <2>4
<1>6. QED BY <1>4, <1>5

LEMMA ReturnLeaves ==
    ASSUME IInv, NEW w \in Worker, Return(w)
    PROVE  Flat!Leave(w)
<1>1. answer[w] # None
  BY DEF Return, IInv, Placed
<1>2. UNCHANGED Cells
  BY DEF Return, Cells
<1>3. QED BY <1>1, <1>2 DEF Return, Flat!Leave

LEMMA ResetEmpties ==
    ASSUME IInv, Reset
    PROVE  Flat!Empty
<1>1. \A w \in Worker : asked[w] = None
  BY DEF Reset, IInv, Placed
<1>2. Cells' = [k \in 0 .. Places - 1 |-> None]
  BY ResetInv, PlaceOfNumber DEF Cells
<1>3. QED BY <1>1, <1>2 DEF Reset, Flat!Empty

LEMMA FlatStep == IInv /\ [Next]_vars => [Flat!FlatNext]_Flat!fvars
<1> SUFFICES ASSUME IInv, [Next]_vars PROVE Flat!FlatNext \/ UNCHANGED Flat!fvars
  OBVIOUS
<1>1. ASSUME NEW w \in Worker, Step(w) PROVE Flat!FlatNext \/ UNCHANGED Flat!fvars
  <2>1. CASE Call(w)
    BY <2>1, CallAsks DEF Flat!FlatNext
  <2>2. CASE TooFar(w)
    BY <2>2, TooFarTells DEF Flat!FlatNext
  <2>3. CASE TestTable(w)
    <3>1. CASE UNCHANGED answer
      BY <2>3, <3>1 DEF TestTable, Cells, Flat!fvars
    <3>2. CASE Level(Off(w)) \notin made /\ asked[w].read /\ Result(w, None, Off(w))
      BY <2>3, <3>2, NoTableTells DEF TestTable, Flat!FlatNext
    <3>3. QED BY <2>3, <3>1, <3>2 DEF TestTable
  <2>4. CASE MakeTable(w)
    <3>1. UNCHANGED <<cell, asked, answer>>
      BY <2>4, MakeTableInv
    <3>2. QED BY <3>1 DEF Cells, Flat!fvars
  <2>5. CASE TestCell(w)
    <3>1. CASE UNCHANGED answer
      BY <2>5, <3>1 DEF TestCell, Cells, Flat!fvars
    <3>2. CASE cell[At(w)] = None /\ asked[w].read /\ Result(w, None, Where(Off(w)).rest)
      BY <2>5, <3>2, ResultTells DEF TestCell, Flat!FlatNext
    <3>3. QED BY <2>5, <3>1, <3>2 DEF TestCell
  <2>6. CASE Fill(w)
    BY <2>6, FillMakes DEF Flat!FlatNext
  <2>7. CASE Load(w)
    <3>1. cell[At(w)] # None
      BY <2>7 DEF Load, IInv, Placed
    <3>2. QED BY <2>7, <3>1, ResultTells DEF Load, Flat!FlatNext
  <2>8. CASE Return(w)
    BY <2>8, ReturnLeaves DEF Flat!FlatNext
  <2>9. QED BY <1>1, <2>1, <2>2, <2>3, <2>4, <2>5, <2>6, <2>7, <2>8 DEF Step
<1>2. CASE Reset
  BY <1>2, ResetEmpties DEF Flat!FlatNext
<1>3. CASE UNCHANGED vars
  BY <1>3 DEF vars, Cells, Flat!fvars
<1>4. QED BY <1>1, <1>2, <1>3 DEF Next

(* level3_local_index over its four levels, with its tests outside the     *)
(* lock, is an array indexed by offset / CHUNK_SIZE, for any sizes.        *)
THEOREM LevelsAreOneArray == Spec => OneArray
<1>1. Init => Flat!FlatInit
  BY PlaceOfNumber DEF Init, Flat!FlatInit, Cells
<1>2. IInv /\ [Next]_vars => [Flat!FlatNext]_Flat!fvars
  BY FlatStep
<1>3. QED BY <1>1, <1>2, Invariant, PTL DEF Spec, OneArray, Flat!FlatSpec
=============================================================================
