---------------------------- MODULE SHT35Proofs ----------------------------
(***************************************************************************)
(* Proofs about SHT35 for any well-formed register map and any word size:  *)
(* the loop of initialize() computes exactly the range of the map.         *)
(***************************************************************************)
EXTENDS SHT35, TLAPS

\* What the loop knows of the entries it has seen.
RangeInv ==
    /\ minAddr \in 0..Word - 1
    /\ maxAddr \in 0..Word - 1
    /\ i \in 1..Len(configs) + 1
    /\ i = 1 => minAddr = Word - 1 /\ maxAddr = 0
    /\ \A k \in 1..i - 1 : /\ minAddr <= configs[k].address
                           /\ configs[k].address + Width(configs[k]) - 1
                                 <= maxAddr
    /\ i > 1 => /\ \E k \in 1..i - 1 : configs[k].address = minAddr
                /\ \E k \in 1..i - 1 :
                      configs[k].address + Width(configs[k]) - 1 = maxAddr

IInv ==
    /\ configs \in Maps
    /\ startAddress \in Int
    /\ totalRegisters \in Int
    /\ pc = "range" => RangeInv
    /\ Covered
    /\ Tight

LEMMA SmallMod ==
    ASSUME NEW x \in Nat, NEW n \in Nat, x < n
    PROVE  x % n = x
OBVIOUS

\* What is known of each entry of a map.
LEMMA MapFacts ==
    ASSUME configs \in Maps
    PROVE  /\ Len(configs) \in Nat /\ Len(configs) >= 1
           /\ DOMAIN configs = 1..Len(configs)
           /\ \A k \in 1..Len(configs) :
                 /\ configs[k].address \in 0..Word - 1
                 /\ Width(configs[k]) \in 1..2
                 /\ EndAddr(configs[k])
                       = configs[k].address + Width(configs[k]) - 1
                 /\ configs[k].address + Width(configs[k]) <= Word
           /\ \A k, l \in 1..Len(configs) :
                 configs[l].address + Width(configs[l]) - configs[k].address
                     < Word
<1>1. configs \in Seq(Entries) /\ WellFormed(configs)
  BY MapsAssumption
<1>2. Len(configs) \in Nat /\ DOMAIN configs = 1..Len(configs)
  BY <1>1
<1>3. Len(configs) >= 1
  BY <1>1, <1>2 DEF WellFormed
<1>4. ASSUME NEW k \in 1..Len(configs)
      PROVE  /\ configs[k].address \in 0..Word - 1
             /\ Width(configs[k]) \in 1..2
             /\ EndAddr(configs[k])
                   = configs[k].address + Width(configs[k]) - 1
             /\ configs[k].address + Width(configs[k]) <= Word
  <2>1. configs[k] \in Entries
    BY <1>1
  <2>2. configs[k].address \in 0..Word - 1 /\ Width(configs[k]) \in 1..2
    BY <2>1 DEF Entries, Width
  <2>3. configs[k].address + Width(configs[k]) <= Word
    BY <1>1, <1>2 DEF WellFormed
  <2>4. /\ configs[k].address + Width(configs[k]) - 1 \in Nat
        /\ configs[k].address + Width(configs[k]) - 1 < Word
    BY <2>2, <2>3, WordAssumption
  <2>5. EndAddr(configs[k]) = configs[k].address + Width(configs[k]) - 1
    BY <2>4, SmallMod, WordAssumption DEF EndAddr
  <2> QED
    BY <2>2, <2>3, <2>5
<1>5. \A k, l \in 1..Len(configs) :
         configs[l].address + Width(configs[l]) - configs[k].address < Word
  BY <1>1, <1>2 DEF WellFormed
<1> QED
  BY <1>2, <1>3, <1>4, <1>5

\* One more entry has been looked at.
LEMMA RangeStep == IInv /\ Range => RangeInv'
<1> SUFFICES ASSUME IInv, Range PROVE RangeInv'
  OBVIOUS
<1> USE MapFacts, WordAssumption DEF IInv
<1>1. i \in 1..Len(configs) /\ RangeInv /\ configs' = configs /\ i' = i + 1
  BY DEF Range, RangeInv
<1> DEFINE c == configs[i]
           last == c.address + Width(c) - 1
<1>2. /\ c.address \in 0..Word - 1
      /\ last \in 0..Word - 1
      /\ EndAddr(c) = last
  <2>1. /\ c.address \in 0..Word - 1
        /\ Width(c) \in 1..2
        /\ EndAddr(c) = last
        /\ c.address + Width(c) <= Word
    BY <1>1
  <2> QED
    BY <2>1
<1>3. /\ minAddr' = IF c.address < minAddr THEN c.address ELSE minAddr
      /\ maxAddr' = IF last > maxAddr THEN last ELSE maxAddr
  BY <1>2 DEF Range
<1>4. ASSUME NEW k \in 1..i
      PROVE  /\ configs[k].address \in Int
             /\ configs[k].address + Width(configs[k]) - 1 \in Int
             /\ minAddr' <= configs[k].address
             /\ configs[k].address + Width(configs[k]) - 1 <= maxAddr'
  <2>1. k \in 1..Len(configs)
    BY <1>1
  <2>2. CASE k = i
    BY <2>1, <2>2, <1>1, <1>2, <1>3 DEF RangeInv
  <2>3. CASE k # i
    <3>1. /\ minAddr \in Int /\ maxAddr \in Int
          /\ minAddr <= configs[k].address
          /\ configs[k].address + Width(configs[k]) - 1 <= maxAddr
      BY <2>3, <1>1 DEF RangeInv
    <3>2. configs[k].address \in Int /\ Width(configs[k]) \in Int
      BY <2>1
    <3>3. minAddr' <= minAddr /\ maxAddr <= maxAddr'
      BY <3>1, <1>2, <1>3
    <3>4. minAddr' \in Int /\ maxAddr' \in Int
      BY <3>1, <1>2, <1>3
    <3> QED
      BY <3>1, <3>2, <3>3, <3>4
  <2> QED
    BY <2>2, <2>3
<1>5. \E k \in 1..i : configs[k].address = minAddr'
  <2>1. CASE c.address <= minAddr
    BY <2>1, <1>1, <1>2, <1>3 DEF RangeInv
  <2>2. CASE c.address > minAddr
    <3>1. i > 1 /\ minAddr' = minAddr
      BY <2>2, <1>1, <1>2, <1>3 DEF RangeInv
    <3> QED
      BY <3>1, <1>1 DEF RangeInv
  <2> QED
    BY <2>1, <2>2, <1>1, <1>2 DEF RangeInv
<1>6. \E k \in 1..i : configs[k].address + Width(configs[k]) - 1 = maxAddr'
  <2>1. CASE last >= maxAddr
    BY <2>1, <1>1, <1>2, <1>3 DEF RangeInv
  <2>2. CASE last < maxAddr
    <3>1. i > 1 /\ maxAddr' = maxAddr
      BY <2>2, <1>1, <1>2, <1>3 DEF RangeInv
    <3> QED
      BY <3>1, <1>1 DEF RangeInv
  <2> QED
    BY <2>1, <2>2, <1>1, <1>2 DEF RangeInv
<1>7. minAddr' \in 0..Word - 1 /\ maxAddr' \in 0..Word - 1
  BY <1>1, <1>2, <1>3 DEF RangeInv
<1>8. i' - 1 = i /\ i' > 1 /\ i' \in 1..Len(configs) + 1
  BY <1>1
<1>9. /\ \A k \in 1..i' - 1 : /\ minAddr' <= configs'[k].address
                              /\ configs'[k].address + Width(configs'[k]) - 1
                                    <= maxAddr'
      /\ \E k \in 1..i' - 1 : configs'[k].address = minAddr'
      /\ \E k \in 1..i' - 1 :
            configs'[k].address + Width(configs'[k]) - 1 = maxAddr'
  BY <1>1, <1>4, <1>5, <1>6, <1>8
<1>10. i' # 1 /\ Len(configs') = Len(configs)
  BY <1>1
<1> HIDE MapFacts, WordAssumption
<1> QED
  BY <1>7, <1>8, <1>9, <1>10 DEF RangeInv, Width

\* The loop is over: what it knows of all entries is the range.
LEMMA InitializedStep == IInv /\ Initialized => Covered' /\ Tight'
<1> SUFFICES ASSUME IInv, Initialized PROVE Covered' /\ Tight'
  OBVIOUS
<1> USE MapFacts, WordAssumption DEF IInv
<1>1. /\ RangeInv /\ i = Len(configs) + 1 /\ configs' = configs
      /\ startAddress' = minAddr
      /\ totalRegisters' = (maxAddr - minAddr + 1) % Word
  BY DEF Initialized, RangeInv
<1>2. i > 1 /\ i - 1 = Len(configs)
  BY <1>1
<1>3. PICK a \in 1..Len(configs) : configs[a].address = minAddr
  BY <1>1, <1>2 DEF RangeInv
<1>4. PICK b \in 1..Len(configs) :
         configs[b].address + Width(configs[b]) - 1 = maxAddr
  BY <1>1, <1>2 DEF RangeInv
<1>5. maxAddr - minAddr + 1 \in Nat /\ maxAddr - minAddr + 1 < Word
  <2>1. /\ minAddr \in Int /\ maxAddr \in Int
        /\ configs[a].address + Width(configs[a]) - 1 <= maxAddr
    BY <1>1, <1>2 DEF RangeInv
  <2>2. configs[b].address + Width(configs[b]) - configs[a].address < Word
    OBVIOUS
  <2>3. Width(configs[a]) \in 1..2 /\ Width(configs[b]) \in 1..2
    OBVIOUS
  <2>4. configs[b].address \in Int /\ Word \in Nat
    OBVIOUS
  <2> HIDE MapFacts, WordAssumption
  <2>5. configs[a].address = minAddr
    BY <1>3
  <2>6. maxAddr + 1 = configs[b].address + Width(configs[b])
    BY <1>4, <2>1, <2>3, <2>4
  <2>7. maxAddr + 1 - minAddr < Word
    BY <2>1, <2>2, <2>3, <2>4, <2>5, <2>6
  <2>8. maxAddr >= minAddr
    BY <2>1, <2>3, <2>5
  <2> QED
    BY <2>1, <2>4, <2>7, <2>8
<1>6. totalRegisters' = maxAddr - minAddr + 1
  BY <1>1, <1>5, SmallMod
<1>7. ASSUME NEW k \in 1..Len(configs)
      PROVE  /\ configs[k].address - minAddr >= 0
             /\ configs[k].address - minAddr + Width(configs[k])
                   <= totalRegisters'
  <2>1. /\ minAddr <= configs[k].address
        /\ configs[k].address + Width(configs[k]) - 1 <= maxAddr
        /\ minAddr \in Int /\ maxAddr \in Int
    BY <1>1, <1>2 DEF RangeInv
  <2>2. configs[k].address \in Int /\ Width(configs[k]) \in Int
    OBVIOUS
  <2> HIDE MapFacts, WordAssumption
  <2>3. /\ configs[k].address - minAddr >= 0
        /\ configs[k].address - minAddr + Width(configs[k])
               <= maxAddr - minAddr + 1
    BY <2>1, <2>2
  <2> QED
    BY <2>3, <1>6
<1>8. Covered'
  BY <1>1, <1>7 DEF Covered, Offset, Width
<1>9. /\ configs[a].address = startAddress'
      /\ configs[b].address + Width(configs[b])
             = startAddress' + totalRegisters'
  <2>1. configs[b].address \in Int /\ Width(configs[b]) \in Int
    OBVIOUS
  <2>2. minAddr \in Int /\ maxAddr \in Int
    BY <1>1 DEF RangeInv
  <2> HIDE MapFacts, WordAssumption
  <2>3. configs[b].address + Width(configs[b]) = maxAddr + 1
    BY <2>1, <2>2, <1>4
  <2> QED
    BY <2>2, <2>3, <1>1, <1>3, <1>6
<1>10. Tight'
  BY <1>1, <1>9 DEF Tight, Width
<1> QED
  BY <1>8, <1>10

LEMMA Inductive == Spec => []IInv
<1>1. Init => IInv
  BY MapFacts, WordAssumption DEF Init, IInv, RangeInv, Covered, Tight
<1>2. ASSUME IInv, [Next]_vars PROVE IInv'
  <2>1. CASE Range
    <3>1. RangeInv'
      BY <1>2, <2>1, RangeStep
    <3> QED
      BY <1>2, <2>1, <3>1 DEF Range, IInv, Covered, Tight
  <2>2. CASE Initialized
    <3>1. Covered' /\ Tight'
      BY <1>2, <2>2, InitializedStep
    <3>2. minAddr \in Int /\ maxAddr \in Int
      BY <1>2, <2>2, WordAssumption DEF Initialized, IInv, RangeInv
    <3>3. (maxAddr - minAddr + 1) % Word \in Int
      BY <3>2, WordAssumption
    <3> QED
      BY <1>2, <2>2, <3>1, <3>2, <3>3 DEF Initialized, IInv
  <2>3. CASE ReadFails \/ ReadHoldingRegisters \/ Decode \/ Return
    BY <1>2, <2>3 DEF IInv, Covered, Tight, Offset, Width, ReadFails,
                      ReadHoldingRegisters, Decode, Return
  <2>4. CASE UNCHANGED vars
    BY <1>2, <2>4 DEF IInv, RangeInv, Covered, Tight, Offset, Width, vars
  <2> QED
    BY <1>2, <2>1, <2>2, <2>3, <2>4 DEF Next
<1> QED
  BY <1>1, <1>2, PTL DEF Spec

-----------------------------------------------------------------------------
\* The results.

\* The range initialize() stores covers every register of every entry.
THEOREM RangeCovers == Spec => []Covered
BY Inductive, PTL DEF IInv

\* It reads no register in front of the first entry or behind the last.
THEOREM RangeTight == Spec => []Tight
BY Inductive, PTL DEF IInv

-----------------------------------------------------------------------------
\* What readAll() decodes.

LEMMA NegMod ==
    ASSUME NEW x \in Nat, NEW n \in Nat, x < n
    PROVE  (x - n) % n = x
OBVIOUS

\* The signed number of a given size with given digits.
LEMMA SignedFacts ==
    ASSUME NEW x \in Nat, NEW n \in Nat, n > 1, n % 2 = 0, x < n
    PROVE  /\ Signed(x, n) \in Int
           /\ Signed(x, n) % n = x
           /\ -n <= 2 * Signed(x, n) /\ 2 * Signed(x, n) < n
<1>1. n \div 2 \in Nat /\ 2 * (n \div 2) = n
  OBVIOUS
<1>2. CASE x < n \div 2
  BY <1>1, <1>2, SmallMod DEF Signed
<1>3. CASE ~(x < n \div 2)
  BY <1>1, <1>3, NegMod DEF Signed
<1> QED
  BY <1>2, <1>3

\* The square of an even number is even.
LEMMA Square ==
    ASSUME NEW n \in Nat, n > 1, n % 2 = 0
    PROVE  n * n \in Nat /\ n * n > 1 /\ (n * n) % 2 = 0
<1>1. PICK m \in Nat : n = 2 * m
  <2>1. n \div 2 \in Nat /\ n = 2 * (n \div 2)
    OBVIOUS
  <2> QED
    BY <2>1
<1>2. n * n = 2 * (m * n) /\ m * n \in Nat
  BY <1>1
<1>3. \A k \in Nat : (2 * k) % 2 = 0
  OBVIOUS
<1>4. n * n \in Nat /\ n * n > 1
  OBVIOUS
<1> QED
  BY <1>2, <1>3, <1>4

\* Two digits to a base.
LEMMA TwoDigits ==
    ASSUME NEW n \in Nat, NEW a \in 0..n - 1, NEW b \in 0..n - 1
    PROVE  a * n + b \in Nat /\ a * n + b < n * n
<1>1. a * n \in Nat /\ a * n <= (n - 1) * n /\ n * n \in Nat
  OBVIOUS
<1>2. (n - 1) * n = n * n - n
  OBVIOUS
<1> QED
  BY <1>1, <1>2

\* The entry in hand is decoded to the number it stands for.
LEMMA Decodes ==
    ASSUME IInv, TypeOK, pc = "decode", NEW k \in 1..Len(configs)
    PROVE  /\ RawValue(configs[k]) \in Int
           /\ Represents(RawValue(configs[k]), configs[k])
<1> DEFINE c == configs[k]
           o == Offset(c)
<1>1. c.type \in DataTypes /\ c.address \in 0..Word - 1 /\ k \in DOMAIN configs
  <2>1. configs \in Seq(Entries)
    BY MapsAssumption DEF TypeOK
  <2>2. configs[k] \in Entries /\ k \in DOMAIN configs
    BY <2>1
  <2> QED
    BY <2>2 DEF Entries
<1>2. o \in Nat /\ o + Width(c) <= totalRegisters
      /\ totalRegisters \in Int
  BY <1>1, WordAssumption DEF IInv, TypeOK, Covered, Offset
<1>3. buffer \in [0..totalRegisters - 1 -> 0..Word - 1]
      /\ Word \in Nat /\ Word > 1 /\ Word % 2 = 0
  BY WordAssumption DEF TypeOK
<1> HIDE DEF c
<1>4. ASSUME c.type \in Wide
      PROVE  RawValue(c) \in Int /\ Represents(RawValue(c), c)
  <2>1. Width(c) = 2 /\ o \in 0..totalRegisters - 1
        /\ o + 1 \in 0..totalRegisters - 1 /\ o + 1 < totalRegisters
    BY <1>2, <1>4 DEF Width
  <2>2. buffer[o] \in 0..Word - 1 /\ buffer[o + 1] \in 0..Word - 1
    BY <1>3, <2>1
  <2>3. Combined(c) \in Nat /\ Combined(c) < Word * Word
    BY <1>3, <2>2, TwoDigits DEF Combined
  <2>4. Word * Word \in Nat /\ Word * Word > 1 /\ (Word * Word) % 2 = 0
    BY <1>3, Square
  <2>5. CASE c.type = "INT32"
    <3>1. RawValue(c) = Signed(Combined(c), Word * Word)
      BY <1>4, <2>1, <2>5 DEF RawValue
    <3> DEFINE v == Signed(Combined(c), Word * Word)
    <3>2. /\ v \in Int /\ v % (Word * Word) = Combined(c)
          /\ -(Word * Word) <= 2 * v /\ 2 * v < Word * Word
      BY <2>3, <2>4, SignedFacts
    <3> HIDE DEF v
    <3> QED
      BY <1>4, <2>5, <3>1, <3>2 DEF Represents, v
  <2>6. CASE c.type # "INT32"
    <3>1. RawValue(c) = Combined(c)
      BY <1>1, <1>4, <2>1, <2>6 DEF RawValue, Wide
    <3>2. Combined(c) % (Word * Word) = Combined(c)
      BY <2>3, <2>4, SmallMod
    <3> QED
      BY <1>4, <2>3, <2>6, <3>1, <3>2 DEF Represents, Wide
  <2> QED
    BY <2>5, <2>6
<1>5. ASSUME c.type \notin Wide
      PROVE  RawValue(c) \in Int /\ Represents(RawValue(c), c)
  <2>1. buffer[o] \in 0..Word - 1
    BY <1>2, <1>3, <1>5 DEF Width
  <2>2. CASE c.type = "INT16"
    <3>1. RawValue(c) = Signed(buffer[o], Word)
      BY <2>2 DEF RawValue, Wide
    <3>2. /\ RawValue(c) \in Int /\ RawValue(c) % Word = buffer[o]
          /\ -Word <= 2 * RawValue(c) /\ 2 * RawValue(c) < Word
      <4>1. ASSUME NEW x \in 0..Word - 1
            PROVE  /\ Signed(x, Word) \in Int /\ Signed(x, Word) % Word = x
                   /\ -Word <= 2 * Signed(x, Word)
                   /\ 2 * Signed(x, Word) < Word
        BY <1>3, SignedFacts
      <4> QED
        BY <2>1, <3>1, <4>1
    <3> QED
      BY <1>5, <2>2, <3>2 DEF Represents
  <2>3. CASE c.type = "UINT16"
    <3>1. RawValue(c) = buffer[o]
      BY <2>3 DEF RawValue, Wide
    <3>2. buffer[o] % Word = buffer[o] /\ buffer[o] \in Nat /\ buffer[o] < Word
      BY <1>3, <2>1, SmallMod
    <3> QED
      BY <1>5, <2>3, <3>1, <3>2 DEF Represents
  <2> QED
    BY <1>1, <1>5, <2>2, <2>3 DEF DataTypes, Wide
<1> QED
  BY <1>4, <1>5 DEF c

\* What the loop of readAll() has decoded.
DecodeInv ==
    /\ TypeOK
    /\ pc = "range" => readings = <<>>
    /\ pc = "decode" =>
          /\ Len(readings) = i - 1
          /\ \A k \in 1..i - 1 : Represents(readings[k], configs[k])
    /\ AllOrNothing

LEMMA DecodeStep == IInv /\ DecodeInv /\ [Next]_vars => DecodeInv'
<1> SUFFICES ASSUME IInv, DecodeInv, [Next]_vars PROVE DecodeInv'
  OBVIOUS
<1>0. /\ configs \in Maps /\ Len(configs) \in Nat
      /\ DOMAIN configs = 1..Len(configs)
      /\ i \in 1..Len(configs) + 1
      /\ readings \in Seq(Int)
      /\ Word \in Nat /\ Word > 1
  BY MapFacts, WordAssumption DEF DecodeInv, TypeOK
<1>1. CASE Range
  <2>1. RangeInv'
    BY <1>1, RangeStep
  <2>2. UNCHANGED <<configs, startAddress, totalRegisters, buffer, readings, pc>>
        /\ pc = "range"
    BY <1>1 DEF Range
  <2> QED
    BY <2>1, <2>2 DEF DecodeInv, TypeOK, RangeInv, AllOrNothing
<1>2. CASE Initialized
  <2>1. (maxAddr - minAddr + 1) % Word \in 0..Word - 1
    BY <1>0 DEF DecodeInv, TypeOK
  <2>2. readings = <<>>
    BY <1>2 DEF Initialized, DecodeInv
  <2> QED
    BY <1>0, <1>2, <2>1, <2>2 DEF Initialized, DecodeInv, TypeOK, AllOrNothing
<1>3. CASE ReadFails
  BY <1>3 DEF ReadFails, DecodeInv, TypeOK, AllOrNothing
<1>4. CASE ReadHoldingRegisters
  BY <1>0, <1>4 DEF ReadHoldingRegisters, DecodeInv, TypeOK, AllOrNothing
<1>5. CASE Decode
  <2>1. /\ i \in 1..Len(configs) /\ pc = "decode"
        /\ i' = i + 1
        /\ readings' = Append(readings, RawValue(configs[i]))
        /\ UNCHANGED <<configs, minAddr, maxAddr, startAddress,
                       totalRegisters, buffer, pc>>
    BY <1>0, <1>5 DEF Decode
  <2>2. /\ RawValue(configs[i]) \in Int
        /\ Represents(RawValue(configs[i]), configs[i])
    BY <2>1, Decodes DEF DecodeInv
  <2>3. /\ readings' \in Seq(Int)
        /\ Len(readings') = i
        /\ readings'[i] = RawValue(configs[i])
        /\ \A k \in 1..i - 1 : readings'[k] = readings[k]
    BY <1>0, <2>1, <2>2 DEF DecodeInv
  <2>4. \A k \in 1..i : Represents(readings'[k], configs[k])
    BY <1>0, <2>1, <2>2, <2>3 DEF DecodeInv
  <2>5. \A v, c : Represents(v, c)' <=> Represents(v, c)
    BY <2>1 DEF Represents, Combined, Offset
  <2>6. TypeOK'
    BY <1>0, <2>1, <2>3 DEF DecodeInv, TypeOK
  <2>7. i' - 1 = i
    BY <1>0, <2>1
  <2> QED
    BY <2>1, <2>3, <2>4, <2>6, <2>7
    DEF DecodeInv, AllOrNothing, Represents, Combined, Offset
<1>6. CASE Return
  <2>1. /\ i = Len(configs) + 1 /\ pc = "decode" /\ pc' = "idle"
        /\ UNCHANGED <<configs, minAddr, maxAddr, startAddress,
                       totalRegisters, buffer, readings, i>>
    BY <1>0, <1>6 DEF Return
  <2>2. /\ Len(readings) = Len(configs)
        /\ \A k \in 1..Len(configs) : Represents(readings[k], configs[k])
    BY <1>0, <2>1 DEF DecodeInv
  <2> QED
    BY <1>0, <2>1, <2>2
    DEF DecodeInv, TypeOK, AllOrNothing, Represents, Combined, Offset
<1>7. CASE UNCHANGED vars
  BY <1>7
  DEF vars, DecodeInv, TypeOK, AllOrNothing, Represents, Combined, Offset
<1> QED
  BY <1>1, <1>2, <1>3, <1>4, <1>5, <1>6, <1>7 DEF Next

LEMMA Decoding == Spec => []DecodeInv
<1>1. Init => DecodeInv
  BY MapFacts, WordAssumption DEF Init, DecodeInv, TypeOK, AllOrNothing
<1> QED
  BY <1>1, Inductive, DecodeStep, PTL DEF Spec

\* The type invariant.
THEOREM TypeCorrect == Spec => []TypeOK
BY Decoding, PTL DEF DecodeInv

\* readAll() returns all readings, each the value of its own entry, or none
\* (SHT35::readAll and decodeRegister, SHT35.cpp).
THEOREM AllDecoded == Spec => []AllOrNothing
BY Decoding, PTL DEF DecodeInv

=============================================================================
