------------------------------- MODULE CRC16 -------------------------------
(***************************************************************************)
(* iot::CRC16 (include/utils/crc16.h): the checksum of a Modbus RTU frame. *)
(* A byte or a register is the set of the positions of its ones, and a     *)
(* frame is a sequence of bytes.                                           *)
(***************************************************************************)
EXTENDS Integers, Sequences

Xor(a, b) == (a \ b) \cup (b \ a)
High(w)   == {k \in 0..7 : k + 8 \in w}
Low(w)    == w \cap (0..7)

PolyForward == {0, 2, 15}   \* mutant: 0x8005, for a register that shifts left
Poly == {0, 13, 15}         \* 0xA001

\* crc >>= 1, and the polynomial if a one fell out.
Shift[crc \in SUBSET (0..15)] ==
    LET half == {k - 1 : k \in crc \ {0}}
    IN  IF 0 \in crc THEN Xor(half, Poly) ELSE half

\* calculate(): the inner loop over the bits of a byte, and the outer one.
Byte(crc, d) ==
    LET bits[j \in 0..8] == IF j = 0 THEN Xor(crc, d) ELSE Shift[bits[j - 1]]
    IN  bits[8]

Calculate(data) ==
    LET crc[i \in 0..Len(data)] ==
            IF i = 0 THEN 0..15 ELSE Byte(crc[i - 1], data[i])
    IN  crc[Len(data)]

\* append(): the low byte is first.
Appended(data) == data \o <<Low(Calculate(data)), High(Calculate(data))>>

\* verify()
Verify(frame) ==
    LET n == Len(frame)
        crc == Calculate(SubSeq(frame, 1, n - 2))
    IN  /\ n >= 3
        /\ Low(crc) = frame[n - 1]
        /\ High(crc) = frame[n]

-----------------------------------------------------------------------------
\* What the Modbus protocol says: the bits of a frame in the order in which
\* they are sent, the first 16 inverted, are the coefficients of a polynomial,
\* the highest power first, that x^16 + x^15 + x^2 + 1 divides.

\* A step of the division: the leading coefficient, if it is not zero, goes.
Reduced(sent, b) ==
    IF b \in sent THEN Xor(sent, {b, b + 1, b + 14, b + 16}) ELSE sent

\* What is left of a polynomial when only its last 16 coefficients can be.
Remainder(sent, length) ==
    LET rest[b \in 0..length - 16] ==
            IF b = 0 THEN sent ELSE Reduced(rest[b - 1], b - 1)
    IN  rest[length - 16]

Sent(frame) == {b \in 0..8 * Len(frame) - 1 : b % 8 \in frame[b \div 8 + 1]}

Codeword(frame) ==
    /\ Len(frame) >= 3
    /\ Remainder(Xor(Sent(frame), 0..15), 8 * Len(frame)) = {}

=============================================================================
