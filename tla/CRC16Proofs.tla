---------------------------- MODULE CRC16Proofs ----------------------------
(***************************************************************************)
(* Proofs about CRC16 for frames of any length: verify() accepts exactly   *)
(* the frames the Modbus protocol calls valid, append() makes one, and no  *)
(* burst of up to 16 bits turns one into another.                          *)
(***************************************************************************)
EXTENDS CRC16, TLAPS, WellFoundedInduction

Bytes     == SUBSET (0..7)
Registers == SUBSET (0..15)
Frames    == Seq(Bytes)
Positions == SUBSET Nat

-----------------------------------------------------------------------------
\* Induction and recursion on the natural numbers, for sets and functions that
\* are values: a smallest counterexample has a predecessor.

Below == {p \in Nat \X Nat : p[1] < p[2]}

LEMMA BelowWellFounded == IsWellFoundedOn(Below, Nat)
<1>1. Below = OpToRel(<, Nat)
  BY DEF OpToRel, Below
<1> QED
  BY <1>1, NatLessThanWellFounded

LEMMA Induction ==
    ASSUME NEW S, 0 \in S, \A n \in Nat : n \in S => n + 1 \in S
    PROVE  Nat \subseteq S
<1> DEFINE T == Nat \ S
<1>1. SUFFICES ASSUME T # {} PROVE FALSE
  OBVIOUS
<1>2. PICK x \in T : \A y \in T : <<y, x>> \notin Below
  BY <1>1, BelowWellFounded, WFMin
<1>3. x \in Nat /\ x \notin S
  OBVIOUS
<1>4. x - 1 \in Nat /\ x - 1 < x /\ x - 1 + 1 = x
  BY <1>3
<1>5. <<x - 1, x>> \in Below
  BY <1>3, <1>4 DEF Below
<1>6. x - 1 \in S
  BY <1>2, <1>4, <1>5
<1> QED
  BY <1>3, <1>4, <1>6

\* The same up to a bound.
LEMMA InductionUpTo ==
    ASSUME NEW n \in Nat, NEW S, 0 \in S,
           \A i \in 0..n - 1 : i \in S => i + 1 \in S
    PROVE  0..n \subseteq S
<1> DEFINE T == {i \in Nat : i <= n => i \in S}
<1>1. 0 \in T
  OBVIOUS
<1>2. ASSUME NEW i \in Nat, i \in T PROVE i + 1 \in T
  <2>1. i + 1 \in Nat
    BY <1>2
  <2>2. ASSUME i + 1 <= n PROVE i + 1 \in S
    <3>1. i \in S /\ i \in 0..n - 1
      BY <1>2, <2>2
    <3> QED
      BY <3>1
  <2> QED
    BY <2>1, <2>2
<1>3. Nat \subseteq T
  <2> HIDE DEF T
  <2> QED
    BY <1>1, <1>2, Induction
<1> QED
  BY <1>3

\* The functions on 0..n that start with `a` and go on by F: there is one.
Iterations(S, a, F, n) ==
    {g \in [0..n -> S] :
        g[0] = a /\ \A i \in 1..n : g[i] = F[<<i - 1, g[i - 1]>>]}

LEMMA Recursion ==
    ASSUME NEW S, NEW a \in S, NEW F \in [Nat \X S -> S], NEW n \in Nat
    PROVE  \E g : g \in Iterations(S, a, F, n)
<1> DEFINE Good(m, g) ==
             g[0] = a /\ \A i \in 1..m : g[i] = F[<<i - 1, g[i - 1]>>]
           T == {m \in Nat : \E g \in [0..m -> S] : Good(m, g)}
<1>1. 0 \in T
  <2>1. [i \in 0..0 |-> a] \in [0..0 -> S] /\ Good(0, [i \in 0..0 |-> a])
    OBVIOUS
  <2> QED
    BY <2>1
<1>2. ASSUME NEW m \in Nat, m \in T PROVE m + 1 \in T
  <2>1. PICK g \in [0..m -> S] : Good(m, g)
    BY <1>2
  <2> DEFINE h == [i \in 0..m + 1 |-> IF i <= m THEN g[i] ELSE F[<<m, g[m]>>]]
  <2>2. g[m] \in S /\ F[<<m, g[m]>>] \in S
    BY <2>1
  <2>3. h \in [0..m + 1 -> S]
    BY <2>1, <2>2
  <2>4. h[0] = a
    BY <2>1
  <2>5. ASSUME NEW i \in 1..m + 1 PROVE h[i] = F[<<i - 1, h[i - 1]>>]
    <3>1. CASE i <= m
      <4>1. i \in 1..m /\ h[i] = g[i] /\ h[i - 1] = g[i - 1]
        BY <3>1
      <4> QED
        BY <2>1, <4>1
    <3>2. CASE i = m + 1
      <4>1. h[i] = F[<<m, g[m]>>] /\ i - 1 = m /\ h[m] = g[m]
        BY <3>2
      <4> QED
        BY <4>1
    <3> QED
      BY <3>1, <3>2
  <2> HIDE DEF h
  <2>6. Good(m + 1, h)
    BY <2>4, <2>5
  <2> QED
    BY <2>3, <2>6
<1>3. Nat \subseteq T
  <2> HIDE DEF T
  <2> QED
    BY <1>1, <1>2, Induction
<1> QED
  BY <1>3 DEF Iterations

-----------------------------------------------------------------------------
\* The three recursive definitions of CRC16, step by step.

LEMMA XorType == \A r \in Registers, d \in Bytes : Xor(r, d) \in Registers
BY DEF Xor, Registers, Bytes

LEMMA ShiftType == \A r \in Registers : Shift[r] \in Registers
<1> SUFFICES ASSUME NEW r \in Registers PROVE Shift[r] \in Registers
  OBVIOUS
<1> DEFINE half == {k - 1 : k \in r \ {0}}
<1>1. half \in Registers
  BY DEF Registers
<1>2. Xor(half, Poly) \in Registers
  BY <1>1 DEF Xor, Poly, Registers
<1> QED
  BY <1>1, <1>2 DEF Shift, Registers

\* The inner loop of calculate().
LEMMA ByteSteps ==
    ASSUME NEW crc \in Registers, NEW d \in Bytes
    PROVE  \E bits \in [0..8 -> Registers] :
              /\ bits[0] = Xor(crc, d)
              /\ \A j \in 1..8 : bits[j] = Shift[bits[j - 1]]
              /\ Byte(crc, d) = bits[8]
<1> DEFINE F == [p \in Nat \X Registers |-> Shift[p[2]]]
           bits[j \in 0..8] ==
               IF j = 0 THEN Xor(crc, d) ELSE Shift[bits[j - 1]]
<1>1. Xor(crc, d) \in Registers
  BY XorType
<1>2. F \in [Nat \X Registers -> Registers]
  BY ShiftType
<1>3. PICK g : g \in Iterations(Registers, Xor(crc, d), F, 8)
  <2> HIDE DEF F, bits
  <2>1. 8 \in Nat
    OBVIOUS
  <2> QED
    BY <1>1, <1>2, <2>1, Recursion, Zenon
<1>4. g[0] = Xor(crc, d) /\ \A j \in 1..8 : g[j] = Shift[g[j - 1]]
  BY <1>3 DEF Iterations
<1>5. g = [j \in 0..8 |-> IF j = 0 THEN Xor(crc, d) ELSE Shift[g[j - 1]]]
  BY <1>3, <1>4 DEF Iterations
<1>6. bits = [j \in 0..8 |-> IF j = 0 THEN Xor(crc, d) ELSE Shift[bits[j - 1]]]
  BY <1>5, Zenon
<1>7. Byte(crc, d) = bits[8]
  BY DEF Byte
<1> HIDE DEF bits, F
<1>8. bits[0] = Xor(crc, d) /\ \A j \in 1..8 : bits[j] = Shift[bits[j - 1]]
  BY <1>6
<1>9. bits \in [0..8 -> Registers]
  <2> DEFINE T == {j \in 0..8 : bits[j] \in Registers}
  <2>1. 0 \in T
    BY <1>1, <1>8
  <2>2. ASSUME NEW j \in 0..8 - 1, j \in T PROVE j + 1 \in T
    <3>1. j + 1 \in 1..8 /\ j + 1 - 1 = j
      OBVIOUS
    <3> QED
      BY <1>8, <2>2, <3>1, ShiftType
  <2>3. 0..8 \subseteq T
    <3> HIDE DEF T
    <3> QED
      BY <2>1, <2>2, InductionUpTo
  <2> QED
    BY <1>6, <2>3
<1> QED
  BY <1>7, <1>8, <1>9

LEMMA ByteType ==
    \A crc \in Registers, d \in Bytes : Byte(crc, d) \in Registers
<1> SUFFICES ASSUME NEW crc \in Registers, NEW d \in Bytes
             PROVE  Byte(crc, d) \in Registers
  OBVIOUS
<1>1. PICK bits \in [0..8 -> Registers] : Byte(crc, d) = bits[8]
  BY ByteSteps
<1> QED
  BY <1>1

\* The outer loop of calculate().
LEMMA CalculateSteps ==
    ASSUME NEW data \in Frames
    PROVE  \E crc \in [0..Len(data) -> Registers] :
              /\ crc[0] = 0..15
              /\ \A i \in 1..Len(data) : crc[i] = Byte(crc[i - 1], data[i])
              /\ Calculate(data) = crc[Len(data)]
<1> DEFINE n == Len(data)
           F == [p \in Nat \X Registers |->
                   IF p[1] < n THEN Byte(p[2], data[p[1] + 1]) ELSE p[2]]
           crc[i \in 0..n] ==
               IF i = 0 THEN 0..15 ELSE Byte(crc[i - 1], data[i])
<1>1. n \in Nat /\ \A i \in 1..n : data[i] \in Bytes
  BY DEF Frames
<1>2. 0..15 \in Registers
  BY DEF Registers
<1>3. F \in [Nat \X Registers -> Registers]
  <2> SUFFICES ASSUME NEW i \in Nat, NEW r \in Registers
               PROVE  F[<<i, r>>] \in Registers
    OBVIOUS
  <2>1. i < n => i + 1 \in 1..n
    BY <1>1
  <2> QED
    BY <1>1, <2>1, ByteType
<1>4. PICK g : g \in Iterations(Registers, 0..15, F, n)
  <2> HIDE DEF F, crc, n
  <2> QED
    BY <1>1, <1>2, <1>3, Recursion
<1>5. g \in [0..n -> Registers] /\ g[0] = 0..15
  BY <1>4 DEF Iterations
<1>6. ASSUME NEW i \in 1..n PROVE g[i] = Byte(g[i - 1], data[i])
  <2>1. i - 1 \in Nat /\ i - 1 < n /\ i - 1 + 1 = i /\ g[i - 1] \in Registers
    BY <1>1, <1>5
  <2>2. g[i] = F[<<i - 1, g[i - 1]>>]
    BY <1>4 DEF Iterations
  <2> QED
    BY <2>1, <2>2
<1>7. g = [i \in 0..n |-> IF i = 0 THEN 0..15 ELSE Byte(g[i - 1], data[i])]
  BY <1>1, <1>5, <1>6
<1>8. crc = [i \in 0..n |-> IF i = 0 THEN 0..15 ELSE Byte(crc[i - 1], data[i])]
  BY <1>7
<1>9. Calculate(data) = crc[n]
  BY DEF Calculate
<1> HIDE DEF crc, F, n
<1>10. crc[0] = 0..15 /\ \A i \in 1..n : crc[i] = Byte(crc[i - 1], data[i])
  <2>1. 0 \in 0..n /\ \A i \in 1..n : i \in 0..n /\ i # 0
    BY <1>1
  <2> QED
    BY <1>8, <2>1, Zenon
<1>11. crc \in [0..n -> Registers]
  <2> DEFINE T == {i \in 0..n : crc[i] \in Registers}
  <2>1. 0 \in 0..n /\ 0 \in T
    BY <1>1, <1>2, <1>10
  <2>2. ASSUME NEW i \in 0..n - 1, i \in T PROVE i + 1 \in T
    <3>1. i + 1 \in 1..n /\ i + 1 - 1 = i /\ i + 1 \in 0..n
      BY <1>1
    <3> QED
      BY <1>1, <1>10, <2>2, <3>1, ByteType
  <2>3. 0..n \subseteq T
    <3> HIDE DEF T
    <3> QED
      BY <1>1, <2>1, <2>2, InductionUpTo
  <2> QED
    BY <1>8, <2>3
<1> QED
  BY <1>9, <1>10, <1>11 DEF n

LEMMA CalculateType == \A data \in Frames : Calculate(data) \in Registers
<1> SUFFICES ASSUME NEW data \in Frames PROVE Calculate(data) \in Registers
  OBVIOUS
<1>1. PICK crc \in [0..Len(data) -> Registers] : Calculate(data) = crc[Len(data)]
  BY CalculateSteps
<1>2. Len(data) \in 0..Len(data)
  BY DEF Frames
<1> QED
  BY <1>1, <1>2

\* The remainders after the bits first + 1 to last, one from the other.
Division(rest, first, last) ==
    \A b \in first + 1..last : rest[b] = Reduced(rest[b - 1], b - 1)

\* The division.
LEMMA ReducedType ==
    \A q \in Positions, b \in Nat : Reduced(q, b) \in Positions
BY DEF Reduced, Xor, Positions

LEMMA RemainderSteps ==
    ASSUME NEW sent \in Positions, NEW length \in Nat, length >= 16
    PROVE  \E rest \in [0..length - 16 -> Positions] :
              /\ rest[0] = sent
              /\ Division(rest, 0, length - 16)
              /\ Remainder(sent, length) = rest[length - 16]
<1> DEFINE n == length - 16
           F == [p \in Nat \X Positions |-> Reduced(p[2], p[1])]
           rest[b \in 0..n] ==
               IF b = 0 THEN sent ELSE Reduced(rest[b - 1], b - 1)
<1>1. n \in Nat
  OBVIOUS
<1>2. F \in [Nat \X Positions -> Positions]
  BY ReducedType
<1>3. PICK g : g \in Iterations(Positions, sent, F, n)
  <2> HIDE DEF F, rest, n
  <2> QED
    BY <1>1, <1>2, Recursion
<1>4. g \in [0..n -> Positions] /\ g[0] = sent
  BY <1>3 DEF Iterations
<1>5. ASSUME NEW b \in 1..n PROVE g[b] = Reduced(g[b - 1], b - 1)
  <2>1. b - 1 \in Nat /\ g[b - 1] \in Positions
    BY <1>1, <1>4
  <2>2. g[b] = F[<<b - 1, g[b - 1]>>]
    BY <1>3 DEF Iterations
  <2> QED
    BY <2>1, <2>2
<1>6. g = [b \in 0..n |-> IF b = 0 THEN sent ELSE Reduced(g[b - 1], b - 1)]
  BY <1>1, <1>4, <1>5
<1>7. rest = [b \in 0..n |->
                IF b = 0 THEN sent ELSE Reduced(rest[b - 1], b - 1)]
  BY <1>6
<1>8. Remainder(sent, length) = rest[n]
  BY DEF Remainder
<1> HIDE DEF rest, F, n
<1>9. /\ rest[0] = sent
      /\ \A b \in 1..n : rest[b] = Reduced(rest[b - 1], b - 1)
  BY <1>1, <1>7
<1>10. rest \in [0..n -> Positions]
  <2> DEFINE T == {b \in 0..n : rest[b] \in Positions}
  <2>1. 0 \in 0..n /\ 0 \in T
    BY <1>1, <1>9
  <2>2. ASSUME NEW b \in 0..n - 1, b \in T PROVE b + 1 \in T
    <3>1. b + 1 \in 1..n /\ b + 1 - 1 = b /\ b + 1 \in 0..n /\ b \in Nat
      BY <1>1
    <3> QED
      BY <1>1, <1>9, <2>2, <3>1, ReducedType
  <2>3. 0..n \subseteq T
    <3> HIDE DEF T
    <3> QED
      BY <1>1, <2>1, <2>2, InductionUpTo
  <2> QED
    BY <1>7, <2>3
<1>11. Division(rest, 0, n)
  BY <1>9 DEF Division
<1> QED
  BY <1>8, <1>9, <1>10, <1>11 DEF n

-----------------------------------------------------------------------------
\* The register and the division.  Before bit b is divided, what is left of
\* the polynomial is the register, from b on, and the bits not yet read.

From(r, b) == {b + k : k \in r}

LEMMA FromMember ==
    ASSUME NEW r \in Registers, NEW b \in Nat
    PROVE  \A x : x \in From(r, b) <=> x \in Int /\ x - b \in r
BY DEF From, Registers

LEMMA XorMember == \A p, q, x : x \in Xor(p, q) <=> ~(x \in p <=> x \in q)
BY DEF Xor

LEMMA FromType ==
    ASSUME NEW r \in Registers, NEW b \in Nat
    PROVE  From(r, b) \in Positions
BY DEF From, Registers, Positions

LEMMA ShiftMember ==
    ASSUME NEW r \in Registers
    PROVE  \A k : k \in Shift[r] <=>
              /\ k \in 0..15
              /\ ~(k + 1 \in r <=> (0 \in r /\ k \in {0, 13, 15}))
<1> DEFINE half == {k - 1 : k \in r \ {0}}
<1>1. \A k : k \in half <=> k \in 0..15 /\ k + 1 \in r
  BY DEF Registers
<1>2. Shift[r] = IF 0 \in r THEN Xor(half, Poly) ELSE half
  BY DEF Shift, Registers
<1> HIDE DEF half
<1>3. CASE 0 \in r
  BY <1>1, <1>2, <1>3, XorMember DEF Poly
<1>4. CASE 0 \notin r
  BY <1>1, <1>2, <1>4
<1> QED
  BY <1>3, <1>4

\* One turn of the inner loop is one step of the division.
LEMMA BitStep ==
    ASSUME NEW r \in Registers, NEW b \in Nat, NEW later \in Positions,
           \A x \in later : x > b
    PROVE  Reduced(Xor(From(r, b), later), b) =
              Xor(From(Shift[r], b + 1), later)
<1> DEFINE q == Xor(From(r, b), later)
<1>1. \A x : x \in From(r, b) <=> x \in Int /\ x - b \in r
  BY FromMember
<1>2. \A x : x \in From(Shift[r], b + 1) <=>
                x \in Int /\ x - (b + 1) \in Shift[r]
  BY FromMember, ShiftType
<1>3. b \in q <=> 0 \in r
  BY <1>1, XorMember
<1>4. ASSUME NEW x \in Int
      PROVE  x \in From(Shift[r], b + 1) <=>
                /\ x > b
                /\ ~(x - b \in r <=> (0 \in r /\ x \in {b + 1, b + 14, b + 16}))
  <2>1. x - (b + 1) + 1 = x - b
    OBVIOUS
  <2>2. x - (b + 1) \in {0, 13, 15} <=> x \in {b + 1, b + 14, b + 16}
    OBVIOUS
  <2>3. x - b \in r => x - b <= 15
    BY DEF Registers
  <2> QED
    BY <1>2, <2>1, <2>2, <2>3, ShiftMember
<1>5. ASSUME NEW x
      PROVE  x \in Reduced(q, b) <=> x \in Xor(From(Shift[r], b + 1), later)
  <2>1. x \in Reduced(q, b) <=>
           ~(x \in q <=> (0 \in r /\ x \in {b, b + 1, b + 14, b + 16}))
    BY <1>3, XorMember DEF Reduced
  <2>2. CASE x \notin Int
    BY <1>1, <1>2, <2>1, <2>2, XorMember
  <2>3. CASE x \in Int
    <3>1. x - b \in r => x >= b
      BY <2>3 DEF Registers
    <3>2. CASE x = b
      BY <1>1, <1>4, <2>1, <2>3, <3>2, XorMember
    <3>3. CASE x # b
      BY <1>1, <1>4, <2>1, <2>3, <3>1, <3>3, XorMember
    <3> QED
      BY <3>2, <3>3
  <2> QED
    BY <2>2, <2>3
<1> QED
  BY <1>5

\* The eight turns for a byte.
LEMMA ByteStep ==
    ASSUME NEW crc \in Registers, NEW d \in Bytes, NEW a \in Nat,
           NEW later \in Positions, \A x \in later : x >= a + 8,
           NEW rest,
           rest[a] = Xor(From(Xor(crc, d), a), later),
           Division(rest, a, a + 8)
    PROVE  rest[a + 8] = Xor(From(Byte(crc, d), a + 8), later)
<1>1. PICK bits \in [0..8 -> Registers] :
          /\ bits[0] = Xor(crc, d)
          /\ \A j \in 1..8 : bits[j] = Shift[bits[j - 1]]
          /\ Byte(crc, d) = bits[8]
  BY ByteSteps
<1> DEFINE T == {j \in 0..8 : rest[a + j] = Xor(From(bits[j], a + j), later)}
<1>2. 0 \in T
  BY <1>1
<1>3. ASSUME NEW j \in 0..8 - 1, j \in T PROVE j + 1 \in T
  <2>1. bits[j] \in Registers /\ a + j \in Nat /\ \A x \in later : x > a + j
    BY <1>1 DEF Positions
  <2>2. Reduced(rest[a + j], a + j) =
           Xor(From(Shift[bits[j]], a + j + 1), later)
    BY <1>3, <2>1, BitStep
  <2>3. bits[j + 1] = Shift[bits[j]]
    <3>1. j + 1 \in 1..8 /\ j + 1 - 1 = j
      OBVIOUS
    <3> QED
      BY <1>1, <3>1
  <2>4. rest[a + (j + 1)] = Reduced(rest[a + j], a + j)
    <3>1. a + (j + 1) \in a + 1..a + 8 /\ a + (j + 1) - 1 = a + j
      OBVIOUS
    <3> QED
      BY <3>1 DEF Division
  <2>5. a + j + 1 = a + (j + 1) /\ j + 1 \in 0..8
    OBVIOUS
  <2> QED
    BY <2>2, <2>3, <2>4, <2>5
<1>4. 0..8 \subseteq T
  <2> HIDE DEF T
  <2> QED
    BY <1>2, <1>3, InductionUpTo
<1> QED
  BY <1>1, <1>4

\* The bits of a frame from its byte i + 1 on.
Unread(frame, i) == {x \in Sent(frame) : x >= 8 * i}

\* The byte that calculate() takes up is the next eight bits of the frame.
LEMMA TakeUp ==
    ASSUME NEW frame \in Frames, NEW i \in 0..Len(frame) - 1,
           NEW crc \in Registers
    PROVE  Xor(From(crc, 8 * i), Unread(frame, i)) =
              Xor(From(Xor(crc, frame[i + 1]), 8 * i), Unread(frame, i + 1))
<1> DEFINE a == 8 * i
<1>1. Len(frame) \in Nat /\ frame[i + 1] \in Bytes /\ a \in Nat
  BY DEF Frames
<1>2. Xor(crc, frame[i + 1]) \in Registers
  BY <1>1, XorType
<1>3. \A x : x \in From(crc, a) <=> x \in Int /\ x - a \in crc
  BY <1>1, FromMember
<1>4. \A x : x \in From(Xor(crc, frame[i + 1]), a) <=>
                x \in Int /\ x - a \in Xor(crc, frame[i + 1])
  BY <1>1, <1>2, FromMember
<1>5. ASSUME NEW x \in Int
      PROVE  x \in Sent(frame) /\ x >= a /\ ~(x >= 8 * (i + 1)) <=>
                x - a \in frame[i + 1]
  <2>1. CASE x \in a..a + 7
    <3>1. x \div 8 + 1 = i + 1 /\ x % 8 = x - a /\ x \in 0..8 * Len(frame) - 1
      BY <1>1, <2>1
    <3> QED
      BY <2>1, <3>1 DEF Sent
  <2>2. CASE x \notin a..a + 7
    BY <1>1, <2>2 DEF Bytes
  <2> QED
    BY <2>1, <2>2
<1>6. /\ Sent(frame) \subseteq Int /\ a < 8 * (i + 1)
      /\ \A x : x \in Unread(frame, i) <=> x \in Sent(frame) /\ x >= a
      /\ \A x : x \in Unread(frame, i + 1) <=>
                   x \in Sent(frame) /\ x >= 8 * (i + 1)
  BY <1>1 DEF Sent, Unread
<1> HIDE DEF a
<1>7. ASSUME NEW x
      PROVE  x \in Xor(From(crc, a), Unread(frame, i)) <=>
             x \in Xor(From(Xor(crc, frame[i + 1]), a), Unread(frame, i + 1))
  <2>1. CASE x \notin Int
    BY <1>3, <1>4, <1>6, <2>1, XorMember
  <2>2. CASE x \in Int
    <3>1. x >= 8 * (i + 1) => x >= a
      BY <1>1, <1>6, <2>2
    <3> QED
      BY <1>3, <1>4, <1>5, <1>6, <2>2, <3>1, XorMember
  <2> QED
    BY <2>1, <2>2
<1> QED
  BY <1>7 DEF a

\* At every byte the register is what the division has come to.
LEMMA Agreement ==
    ASSUME NEW frame \in Frames, NEW n \in Nat, n <= Len(frame),
           NEW crc \in [0..n -> Registers], crc[0] = 0..15,
           \A i \in 1..n : crc[i] = Byte(crc[i - 1], frame[i]),
           NEW rest, rest[0] = Xor(Sent(frame), 0..15),
           Division(rest, 0, 8 * n)
    PROVE  rest[8 * n] = Xor(From(crc[n], 8 * n), Unread(frame, n))
<1> DEFINE T == {i \in 0..n :
                    rest[8 * i] = Xor(From(crc[i], 8 * i), Unread(frame, i))}
<1>1. Len(frame) \in Nat /\ \A i \in 1..n : frame[i] \in Bytes
  BY DEF Frames
<1>2. Sent(frame) \in Positions
  BY DEF Sent, Positions, Frames
<1>3. 0 \in T
  <2>1. From(crc[0], 0) = 0..15
    BY DEF From
  <2>2. Unread(frame, 0) = Sent(frame)
    BY <1>2 DEF Positions, Unread
  <2>3. Xor(Sent(frame), 0..15) = Xor(0..15, Sent(frame))
    BY DEF Xor
  <2>4. 8 * 0 = 0 /\ 0 \in 0..n
    OBVIOUS
  <2> QED
    BY <2>1, <2>2, <2>3, <2>4
<1>4. ASSUME NEW i \in 0..n - 1, i \in T PROVE i + 1 \in T
  <2> DEFINE a == 8 * i
  <2>1. /\ a \in Nat /\ 8 * (i + 1) = a + 8
        /\ i + 1 \in 1..n /\ i + 1 \in 1..Len(frame) /\ i + 1 - 1 = i
    BY <1>1
  <2>2. crc[i] \in Registers /\ frame[i + 1] \in Bytes
    BY <1>1, <2>1
  <2>3. rest[a] = Xor(From(crc[i], a), Unread(frame, i))
    BY <1>4
  <2>4. rest[a] = Xor(From(Xor(crc[i], frame[i + 1]), a), Unread(frame, i + 1))
    <3> HIDE DEF T
    <3> QED
      BY <2>1, <2>2, <2>3, TakeUp
  <2>5. /\ Unread(frame, i + 1) \in Positions
        /\ \A x \in Unread(frame, i + 1) : x >= a + 8
    BY <1>2, <2>1 DEF Positions, Unread
  <2>6. Division(rest, a, a + 8)
    <3>1. \A b \in a + 1..a + 8 : b \in 0 + 1..8 * n
      BY <2>1
    <3> QED
      BY <3>1 DEF Division
  <2>7. rest[a + 8] =
           Xor(From(Byte(crc[i], frame[i + 1]), a + 8), Unread(frame, i + 1))
    <3> HIDE DEF T, a
    <3> QED
      BY <2>1, <2>2, <2>4, <2>5, <2>6, ByteStep
  <2>8. crc[i + 1] = Byte(crc[i], frame[i + 1])
    BY <2>1
  <2> QED
    BY <2>1, <2>7, <2>8
<1>5. 0..n \subseteq T
  <2> HIDE DEF T
  <2> QED
    BY <1>3, <1>4, InductionUpTo
<1> QED
  BY <1>5

-----------------------------------------------------------------------------
\* The results.

\* The last two bytes of a frame are its last sixteen bits.
LEMMA LastBits ==
    ASSUME NEW frame \in Frames, NEW n \in Nat, Len(frame) = n + 2,
           NEW r \in Registers
    PROVE  Low(r) = frame[n + 1] /\ High(r) = frame[n + 2] <=>
              From(r, 8 * n) = Unread(frame, n)
<1> DEFINE a == 8 * n
<1>1. frame[n + 1] \in Bytes /\ frame[n + 2] \in Bytes /\ a \in Nat
  BY DEF Frames
<1>2. \A x : x \in From(r, a) <=> x \in Int /\ x - a \in r
  BY <1>1, FromMember
<1>3. \A x : x \in Unread(frame, n) <=>
                /\ x \in a..a + 15
                /\ x \in Sent(frame)
  BY DEF Unread, Sent
<1>4. ASSUME NEW k \in 0..7
      PROVE  /\ a + k \in Sent(frame) <=> k \in frame[n + 1]
             /\ a + k + 8 \in Sent(frame) <=> k \in frame[n + 2]
  <2>1. /\ (a + k) \div 8 + 1 = n + 1 /\ (a + k) % 8 = k
        /\ (a + k + 8) \div 8 + 1 = n + 2 /\ (a + k + 8) % 8 = k
        /\ {a + k, a + k + 8} \subseteq 0..8 * Len(frame) - 1
    OBVIOUS
  <2> QED
    BY <2>1 DEF Sent
<1> HIDE DEF a
<1>5. /\ Low(r) = frame[n + 1] <=>
            \A k \in 0..7 : k \in r <=> a + k \in Sent(frame)
      /\ High(r) = frame[n + 2] <=>
            \A k \in 0..7 : k + 8 \in r <=> a + k + 8 \in Sent(frame)
  <2>1. Low(r) \in Bytes /\ High(r) \in Bytes
    BY DEF Low, High, Bytes
  <2>2. \A p, q \in Bytes : p = q <=> \A k \in 0..7 : k \in p <=> k \in q
    BY DEF Bytes
  <2>3. \A k \in 0..7 : (k \in Low(r) <=> k \in r)
                           /\ (k \in High(r) <=> k + 8 \in r)
    BY DEF Low, High
  <2>4. Low(r) = frame[n + 1] <=>
           \A k \in 0..7 : k \in Low(r) <=> k \in frame[n + 1]
    BY <1>1, <2>1, <2>2, Zenon
  <2>5. High(r) = frame[n + 2] <=>
           \A k \in 0..7 : k \in High(r) <=> k \in frame[n + 2]
    BY <1>1, <2>1, <2>2, Zenon
  <2> QED
    BY <1>4, <2>3, <2>4, <2>5, Zenon
<1>6. From(r, a) = Unread(frame, n) <=>
         \A k \in 0..15 : k \in r <=> a + k \in Sent(frame)
  <2>1. ASSUME From(r, a) = Unread(frame, n), NEW k \in 0..15
        PROVE  k \in r <=> a + k \in Sent(frame)
    <3>1. a + k \in Int /\ a + k - a = k /\ a + k \in a..a + 15
      BY <1>1
    <3>2. a + k \in From(r, a) <=> k \in r
      BY <1>1, <1>2, <3>1
    <3>3. a + k \in Unread(frame, n) <=> a + k \in Sent(frame)
      BY <1>3, <3>1
    <3> QED
      BY <2>1, <3>2, <3>3
  <2>2. ASSUME \A k \in 0..15 : k \in r <=> a + k \in Sent(frame), NEW x
        PROVE  x \in From(r, a) <=> x \in Unread(frame, n)
    <3>1. CASE x \in a..a + 15
      <4>1. x - a \in 0..15 /\ a + (x - a) = x /\ x \in Int
        BY <1>1, <3>1
      <4> QED
        BY <1>2, <1>3, <2>2, <3>1, <4>1
    <3>2. CASE x \notin a..a + 15
      BY <1>1, <1>2, <1>3, <3>2 DEF Registers
    <3> QED
      BY <3>1, <3>2
  <2> QED
    BY <2>1, <2>2
<1>7. (\A k \in 0..15 : k \in r <=> a + k \in Sent(frame)) <=>
         /\ \A k \in 0..7 : k \in r <=> a + k \in Sent(frame)
         /\ \A k \in 0..7 : k + 8 \in r <=> a + k + 8 \in Sent(frame)
  <2>1. \A k \in 0..7 : k + 8 \in 0..15 /\ a + (k + 8) = a + k + 8
    BY <1>1
  <2>2. \A k \in 0..15 :
           k \in 0..7 \/ (k - 8 \in 0..7 /\ k - 8 + 8 = k
                             /\ a + (k - 8) + 8 = a + k)
    BY <1>1
  <2> QED
    BY <2>1, <2>2
<1> QED
  BY <1>5, <1>6, <1>7 DEF a

\* verify() accepts exactly the frames that the protocol calls valid: its
\* register, which shifts to the right, a byte at a time, divides by the
\* protocol's polynomial, and comparing the two last bytes with it, the low one
\* first, asks whether the remainder is zero.
THEOREM VerifyIsCodeword ==
    ASSUME NEW frame \in Frames
    PROVE  Verify(frame) <=> Codeword(frame)
<1> DEFINE n == Len(frame) - 2
           prefix == SubSeq(frame, 1, n)
           first == Xor(Sent(frame), 0..15)
<1>1. CASE ~(Len(frame) >= 3)
  BY <1>1 DEF Verify, Codeword
<1>2. CASE Len(frame) >= 3
  <2>1. /\ n \in Nat /\ n <= Len(frame) /\ Len(frame) = n + 2
        /\ Len(frame) - 1 = n + 1
    BY <1>2 DEF Frames
  <2>2. /\ prefix \in Frames /\ Len(prefix) = n
        /\ \A i \in 1..n : prefix[i] = frame[i]
    BY <1>2 DEF Frames
  <2>3. first \in Positions
    BY DEF Xor, Sent, Positions, Frames
  <2> HIDE DEF n, prefix, first
  <2>4. PICK crc \in [0..n -> Registers] :
            /\ crc[0] = 0..15
            /\ \A i \in 1..n : crc[i] = Byte(crc[i - 1], prefix[i])
            /\ Calculate(prefix) = crc[n]
    BY <2>2, CalculateSteps
  <2>5. PICK rest \in [0..8 * n -> Positions] :
            /\ rest[0] = first
            /\ Division(rest, 0, 8 * n)
            /\ Remainder(first, 8 * Len(frame)) = rest[8 * n]
    <3>1. 8 * Len(frame) \in Nat /\ 8 * Len(frame) >= 16
          /\ 8 * Len(frame) - 16 = 8 * n
      BY <2>1
    <3> QED
      BY <2>3, <3>1, RemainderSteps
  <2>6. \A i \in 1..n : crc[i] = Byte(crc[i - 1], frame[i])
    BY <2>2, <2>4
  <2>7. rest[8 * n] = Xor(From(crc[n], 8 * n), Unread(frame, n))
    BY <2>1, <2>4, <2>5, <2>6, Agreement DEF first
  <2>8. Codeword(frame) <=> From(crc[n], 8 * n) = Unread(frame, n)
    <3>1. \A p, q : Xor(p, q) = {} <=> p = q
      BY DEF Xor
    <3> QED
      BY <1>2, <2>5, <2>7, <3>1 DEF Codeword, first
  <2>9. Verify(frame) <=>
           Low(crc[n]) = frame[n + 1] /\ High(crc[n]) = frame[n + 2]
    BY <1>2, <2>1, <2>4 DEF Verify, n, prefix
  <2>10. crc[n] \in Registers
    BY <2>1, <2>4
  <2> QED
    BY <2>1, <2>8, <2>9, <2>10, LastBits
<1> QED
  BY <1>1, <1>2

\* append() makes a frame that the protocol calls valid.
THEOREM AppendMakesCodeword ==
    ASSUME NEW data \in Frames, data # <<>>
    PROVE  Appended(data) \in Frames /\ Codeword(Appended(data))
<1> DEFINE r == Calculate(data)
           frame == Appended(data)
<1>1. r \in Registers
  BY CalculateType
<1>2. Low(r) \in Bytes /\ High(r) \in Bytes
  BY DEF Low, High, Bytes
<1>3. frame = data \o <<Low(r), High(r)>>
  BY DEF Appended
<1> HIDE DEF r, frame
<1>4. /\ frame \in Frames
      /\ Len(data) >= 1 /\ Len(frame) = Len(data) + 2
      /\ SubSeq(frame, 1, Len(frame) - 2) = data
      /\ frame[Len(frame) - 1] = Low(r) /\ frame[Len(frame)] = High(r)
  BY <1>2, <1>3 DEF Frames
<1>5. Verify(frame)
  <2>1. Len(frame) >= 3
    BY <1>4 DEF Frames
  <2> QED
    BY <1>4, <2>1 DEF Verify, r
<1> QED
  BY <1>4, <1>5, VerifyIsCodeword DEF frame

\* The bits determine the bytes.
LEMMA SentInjective ==
    ASSUME NEW frame \in Frames, NEW other \in Frames,
           Len(frame) = Len(other), Sent(frame) = Sent(other)
    PROVE  frame = other
<1>1. ASSUME NEW i \in 1..Len(frame), NEW k \in 0..7
      PROVE  k \in frame[i] <=> k \in other[i]
  <2> DEFINE b == 8 * (i - 1) + k
  <2>1. /\ b \div 8 + 1 = i /\ b % 8 = k
        /\ b \in 0..8 * Len(frame) - 1
    BY DEF Frames
  <2> QED
    BY <2>1 DEF Sent
<1>2. \A i \in 1..Len(frame) : frame[i] \in Bytes /\ other[i] \in Bytes
  BY DEF Frames
<1>3. \A i \in 1..Len(frame) : frame[i] = other[i]
  BY <1>1, <1>2 DEF Bytes
<1> QED
  BY <1>3 DEF Frames

\* Division is linear: how two polynomials differ is divided as they are.
LEMMA Linear ==
    \A p, q, b : Xor(Reduced(p, b), Reduced(q, b)) = Reduced(Xor(p, q), b)
BY DEF Reduced, Xor

\* What a burst can leave behind: it starts at b or later and is short.
Burst(d, b) ==
    /\ d # {}
    /\ \A x \in d : x >= b
    /\ \A x, y \in d : x - y < 16

\* It can be divided on and on and does not vanish.
LEMMA BurstStep ==
    ASSUME NEW b \in Nat, NEW d \in Positions, Burst(d, b)
    PROVE  Burst(Reduced(d, b), b + 1)
<1> DEFINE p == {b, b + 1, b + 14, b + 16}
<1>1. CASE b \in d
  <2>1. \A x \in d : x \in b..b + 15
    <3> SUFFICES ASSUME NEW x \in d PROVE x \in b..b + 15
      OBVIOUS
    <3>1. x \in Nat /\ x >= b /\ x - b < 16
      BY <1>1 DEF Burst, Positions
    <3> QED
      BY <3>1
  <2>2. \A x : x \in Xor(d, p) <=> ~(x \in d <=> x \in p)
    BY XorMember
  <2>3. \A x \in Xor(d, p) : x \in b + 1..b + 16
    <3> SUFFICES ASSUME NEW x \in Xor(d, p) PROVE x \in b + 1..b + 16
      OBVIOUS
    <3>1. x \in d => x \in b..b + 15
      BY <2>1
    <3>2. x # b
      BY <1>1, <2>2
    <3> QED
      BY <2>2, <3>1, <3>2
  <2>4. b + 16 \in Xor(d, p)
    <3>1. b + 16 \notin b..b + 15
      OBVIOUS
    <3> QED
      BY <2>1, <2>2, <3>1
  <2>5. Reduced(d, b) = Xor(d, p)
    BY <1>1 DEF Reduced
  <2> HIDE DEF p
  <2> QED
    BY <2>3, <2>4, <2>5 DEF Burst
<1>2. CASE b \notin d
  <2>1. \A x \in d : x >= b + 1
    <3> SUFFICES ASSUME NEW x \in d PROVE x >= b + 1
      OBVIOUS
    <3>1. x \in Nat /\ x >= b /\ x # b
      BY <1>2 DEF Burst, Positions
    <3> QED
      BY <3>1
  <2>2. Reduced(d, b) = d
    BY <1>2 DEF Reduced
  <2> QED
    BY <2>1, <2>2 DEF Burst
<1> QED
  BY <1>1, <1>2

\* Two valid frames differ nowhere or in bits more than 15 apart: what a burst
\* of up to 16 bits makes of a valid frame is not valid.
THEOREM BurstsDetected ==
    ASSUME NEW frame \in Frames, NEW other \in Frames,
           Len(frame) = Len(other), Codeword(frame), Codeword(other),
           \A a, b \in Xor(Sent(frame), Sent(other)) : a - b < 16
    PROVE  other = frame
<1> DEFINE length == 8 * Len(frame)
           n == length - 16
           first == Xor(Sent(frame), 0..15)
           second == Xor(Sent(other), 0..15)
           noise == Xor(Sent(frame), Sent(other))
<1>1. length \in Nat /\ length >= 16 /\ n \in Nat
  BY DEF Codeword, Frames
<1>2. Sent(frame) \in Positions /\ Sent(other) \in Positions
  BY DEF Sent, Positions, Frames
<1>3. first \in Positions /\ second \in Positions /\ noise \in Positions
  BY <1>2 DEF Xor, Positions
<1>4. Xor(first, second) = noise
  BY DEF Xor
<1>5. Remainder(first, length) = {} /\ Remainder(second, length) = {}
  BY DEF Codeword
<1>6. \A a, b \in noise : a - b < 16
  OBVIOUS
<1>7. SUFFICES ASSUME noise # {} PROVE FALSE
  <2>1. noise = {} => Sent(frame) = Sent(other)
    BY DEF Xor
  <2> HIDE DEF noise
  <2> QED
    BY <2>1, SentInjective
<1> HIDE DEF first, second, length, noise
<1>8. PICK f \in [0..n -> Positions] :
          f[0] = first /\ Division(f, 0, n) /\ f[n] = {}
  <2>1. PICK f \in [0..n -> Positions] :
            /\ f[0] = first
            /\ Division(f, 0, n)
            /\ Remainder(first, length) = f[n]
    BY <1>1, <1>3, RemainderSteps
  <2> QED
    BY <1>5, <2>1
<1>9. PICK g \in [0..n -> Positions] :
          g[0] = second /\ Division(g, 0, n) /\ g[n] = {}
  <2>1. PICK g \in [0..n -> Positions] :
            /\ g[0] = second
            /\ Division(g, 0, n)
            /\ Remainder(second, length) = g[n]
    BY <1>1, <1>3, RemainderSteps
  <2> QED
    BY <1>5, <2>1
<1> DEFINE T == {b \in 0..n : Burst(Xor(f[b], g[b]), b)}
<1> HIDE DEF n
<1>10. 0 \in T
  <2>1. \A x \in noise : x >= 0
    BY <1>3 DEF Positions
  <2>2. Burst(noise, 0)
    BY <1>6, <1>7, <2>1 DEF Burst
  <2> QED
    BY <1>1, <1>4, <1>8, <1>9, <2>2
<1>11. ASSUME NEW b \in 0..n - 1, b \in T PROVE b + 1 \in T
  <2>1. /\ b + 1 \in 0 + 1..n /\ b + 1 \in 0..n /\ b + 1 - 1 = b /\ b \in Nat
        /\ f[b] \in Positions /\ g[b] \in Positions
    BY <1>1
  <2>2. f[b + 1] = Reduced(f[b], b) /\ g[b + 1] = Reduced(g[b], b)
    BY <1>8, <1>9, <2>1 DEF Division
  <2>3. Xor(f[b], g[b]) \in Positions /\ Burst(Xor(f[b], g[b]), b)
    BY <1>11, <2>1 DEF Xor, Positions
  <2>4. Burst(Reduced(Xor(f[b], g[b]), b), b + 1)
    BY <2>1, <2>3, BurstStep
  <2> QED
    BY <2>1, <2>2, <2>4, Linear
<1>12. 0..n \subseteq T
  <2> HIDE DEF T
  <2> QED
    BY <1>1, <1>10, <1>11, InductionUpTo
<1>13. Xor(f[n], g[n]) # {}
  BY <1>1, <1>12 DEF Burst
<1> QED
  BY <1>8, <1>9, <1>13 DEF Xor

=============================================================================
