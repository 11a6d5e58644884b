------------------------------- MODULE SHT35 -------------------------------
(***************************************************************************)
(* iot::SHT35 (src/sensors/SHT35.cpp): initialize() works out the range of *)
(* registers that covers the register map, readAll() reads that range in   *)
(* one transaction and decodes each entry from the buffer.  The loops over *)
(* the map are steps, so that what they compute is stated as an invariant. *)
(* Scaling, a product of floats, and the unit's name are left out.         *)
(***************************************************************************)
EXTENDS Integers, Sequences

CONSTANTS
    Word,       \* how many addresses there are, and values of a register
    Maps        \* the register maps: DEFAULT_CONFIGS, and others like it

DataTypes == {"INT16", "UINT16", "INT32", "UINT32", "FLOAT"}
Wide      == {"INT32", "UINT32", "FLOAT"}         \* these take 2 registers
Entries   == [address : 0..Word - 1, type : DataTypes]

Width(c) == IF c.type \in Wide THEN 2 ELSE 1

\* Every register an entry needs exists, and a range fits its counter.
WellFormed(map) ==
    /\ map # <<>>
    /\ \A i \in DOMAIN map : map[i].address + Width(map[i]) <= Word
    /\ \A i, j \in DOMAIN map :
          map[j].address + Width(map[j]) - map[i].address < Word

ASSUME WordAssumption == Word \in Nat /\ Word > 1 /\ Word % 2 = 0
ASSUME MapsAssumption == \A map \in Maps : map \in Seq(Entries) /\ WellFormed(map)

VARIABLES
    configs,               \* DEFAULT_CONFIGS
    minAddr, maxAddr,      \* the locals of initialize()
    startAddress, totalRegisters,
    buffer,                \* the registers of the last successful transaction
    readings,              \* what readAll() returns
    i,                     \* the entry the loop is at
    pc

vars == <<configs, minAddr, maxAddr, startAddress, totalRegisters, buffer,
          readings, i, pc>>

\* Mutant: the search for the minimum starts at the lowest address.
InitLow ==
    /\ configs \in Maps
    /\ minAddr = 0
    /\ maxAddr = 0
    /\ startAddress = 0
    /\ totalRegisters = 0
    /\ buffer = [k \in {} |-> 0]
    /\ readings = <<>>
    /\ i = 1
    /\ pc = "range"

\* Mutant: it starts at a number that is no uint16_t.
InitHigh ==
    /\ configs \in Maps
    /\ minAddr = Word
    /\ maxAddr = 0
    /\ startAddress = 0
    /\ totalRegisters = 0
    /\ buffer = [k \in {} |-> 0]
    /\ readings = <<>>
    /\ i = 1
    /\ pc = "range"

Init ==
    /\ configs \in Maps
    /\ minAddr = Word - 1
    /\ maxAddr = 0
    /\ startAddress = 0
    /\ totalRegisters = 0
    /\ buffer = [k \in {} |-> 0]
    /\ readings = <<>>
    /\ i = 1
    /\ pc = "range"

-----------------------------------------------------------------------------
\* initialize()

\* Mutant: every entry is taken for one register.
EndAddrNarrow(c) == c.address

\* The last register of an entry, as a uint16_t.
EndAddr(c) == (c.address + Width(c) - 1) % Word

Range ==
    /\ pc = "range"
    /\ i <= Len(configs)
    /\ minAddr' = IF configs[i].address < minAddr
                    THEN configs[i].address ELSE minAddr
    /\ maxAddr' = IF EndAddr(configs[i]) > maxAddr
                    THEN EndAddr(configs[i]) ELSE maxAddr
    /\ i' = i + 1
    /\ UNCHANGED <<configs, startAddress, totalRegisters, buffer, readings, pc>>

\* Mutant: the last register is not counted.
InitializedShort ==
    /\ pc = "range"
    /\ i > Len(configs)
    /\ startAddress' = minAddr
    /\ totalRegisters' = (maxAddr - minAddr) % Word
    /\ pc' = "idle"
    /\ UNCHANGED <<configs, minAddr, maxAddr, buffer, readings, i>>

Initialized ==
    /\ pc = "range"
    /\ i > Len(configs)
    /\ startAddress' = minAddr
    /\ totalRegisters' = (maxAddr - minAddr + 1) % Word
    /\ pc' = "idle"
    /\ UNCHANGED <<configs, minAddr, maxAddr, buffer, readings, i>>

-----------------------------------------------------------------------------
\* readAll()

\* The line is closed or the slave does not answer: no reading at all.
ReadFails ==
    /\ pc = "idle"
    /\ readings' = <<>>
    /\ UNCHANGED <<configs, minAddr, maxAddr, startAddress, totalRegisters,
                   buffer, i, pc>>

ReadHoldingRegisters ==
    /\ pc = "idle"
    /\ buffer' \in [0..totalRegisters - 1 -> 0..Word - 1]
    /\ readings' = <<>>
    /\ i' = 1
    /\ pc' = "decode"
    /\ UNCHANGED <<configs, minAddr, maxAddr, startAddress, totalRegisters>>

Offset(c) == c.address - startAddress

\* A conversion to a signed integer of the given size.
Signed(x, size) == IF x < size \div 2 THEN x ELSE x - size

\* The two registers as one number, the first one in front.
Combined(c) == buffer[Offset(c)] * Word + buffer[Offset(c) + 1]

\* Mutant: INT32 is decoded as if it had no sign.
RawValueUnsigned(c) ==
    CASE c.type = "INT16"  -> Signed(buffer[Offset(c)], Word)
      [] c.type = "UINT16" -> buffer[Offset(c)]
      [] OTHER -> IF Offset(c) + 1 < totalRegisters THEN Combined(c) ELSE 0

\* raw_val.  A wide entry that is cut off yields 0; a FLOAT is its bits.
RawValue(c) ==
    CASE c.type = "INT16"  -> Signed(buffer[Offset(c)], Word)
      [] c.type = "UINT16" -> buffer[Offset(c)]
      [] c.type \in Wide /\ Offset(c) + 1 >= totalRegisters -> 0
      [] c.type = "INT32" /\ Offset(c) + 1 < totalRegisters ->
            Signed(Combined(c), Word * Word)
      [] c.type \in {"UINT32", "FLOAT"} /\ Offset(c) + 1 < totalRegisters ->
            Combined(c)

Decode ==
    /\ pc = "decode"
    /\ i <= Len(configs)
    /\ readings' = Append(readings, RawValue(configs[i]))
    /\ i' = i + 1
    /\ UNCHANGED <<configs, minAddr, maxAddr, startAddress, totalRegisters,
                   buffer, pc>>

\* Mutant: the loop stops one entry early.
ReturnEarly ==
    /\ pc = "decode"
    /\ i >= Len(configs)
    /\ pc' = "idle"
    /\ UNCHANGED <<configs, minAddr, maxAddr, startAddress, totalRegisters,
                   buffer, readings, i>>

Return ==
    /\ pc = "decode"
    /\ i > Len(configs)
    /\ pc' = "idle"
    /\ UNCHANGED <<configs, minAddr, maxAddr, startAddress, totalRegisters,
                   buffer, readings, i>>

Next ==
    \/ Range \/ Initialized
    \/ ReadFails \/ ReadHoldingRegisters \/ Decode \/ Return

Spec == Init /\ [][Next]_vars

-----------------------------------------------------------------------------
\* Properties

\* The types of the variables.
TypeOK ==
    /\ configs \in Maps
    /\ minAddr \in 0..Word - 1
    /\ maxAddr \in 0..Word - 1
    /\ startAddress \in 0..Word - 1
    /\ totalRegisters \in 0..Word - 1
    /\ pc \in {"range", "idle", "decode"}
    /\ i \in 1..Len(configs) + 1
    /\ readings \in Seq(Int)
    /\ pc = "decode" => buffer \in [0..totalRegisters - 1 -> 0..Word - 1]

\* "Read all configured registers in one Modbus call": the range covers every
\* register of every entry, so that no access is outside the buffer (the one
\* of a narrow entry is not guarded) and no wide entry is cut off.
Covered ==
    pc # "range" =>
        \A k \in DOMAIN configs :
            /\ Offset(configs[k]) >= 0
            /\ Offset(configs[k]) + Width(configs[k]) <= totalRegisters

\* The range is the smallest: its first and its last register are wanted.
Tight ==
    pc # "range" =>
        /\ \E k \in DOMAIN configs : configs[k].address = startAddress
        /\ \E k \in DOMAIN configs :
              configs[k].address + Width(configs[k])
                  = startAddress + totalRegisters

\* What an entry stands for: an integer of its width and sign that has, modulo
\* that width, the digits in its registers.
Represents(v, c) ==
    LET size == IF c.type \in Wide THEN Word * Word ELSE Word
        digits == IF c.type \in Wide THEN Combined(c) ELSE buffer[Offset(c)]
    IN  /\ v % size = digits
        /\ IF c.type \in {"INT16", "INT32"}
             THEN -size <= 2 * v /\ 2 * v < size
             ELSE 0 <= v /\ v < size

\* readAll() returns all readings or none, each of them the value of its own
\* entry, and all from the same transaction.
AllOrNothing ==
    pc = "idle" /\ readings # <<>> =>
        /\ Len(readings) = Len(configs)
        /\ \A k \in DOMAIN configs : Represents(readings[k], configs[k])

=============================================================================
