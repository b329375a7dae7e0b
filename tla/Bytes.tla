--------------------------------- MODULE Bytes ---------------------------------
(*****************************************************************************)
(* Bytes of any power of two B of values, their bits and their two readings   *)
(* as numbers: what u8, its operators and `as i8` are for the CPU.            *)
(*****************************************************************************)
EXTENDS Integers

CONSTANT B   \* the number of values of a byte

\* A power of two, up to that of u8.
ASSUME SizeAssumption == B \in {4, 8, 16, 32, 64, 128, 256}

Byte == 0..(B - 1)

\* wrapping_add(1) and wrapping_sub(1)
Up(b) == (b + 1) % B
Down(b) == (b + B - 1) % B

Half == B \div 2
Negative(b) == b >= Half
Signed(b) == IF Negative(b) THEN b - B ELSE b

\* A byte is the sum of these, for each of its bits that is set.
Weights == {1, 2, 4, 8, 16, 32, 64, 128}
Bit(b, weight) == (b \div weight) % 2
OfBits(bits) ==
  bits[1] + 2 * bits[2] + 4 * bits[4] + 8 * bits[8]
    + 16 * bits[16] + 32 * bits[32] + 64 * bits[64] + 128 * bits[128]

\* Tables, so that a run computes them once.
AndTable == [p \in Byte \X Byte |-> OfBits([w \in Weights |-> Bit(p[1], w) * Bit(p[2], w)])]
XorTable == [p \in Byte \X Byte |->
  OfBits([w \in Weights |-> (Bit(p[1], w) + Bit(p[2], w)) % 2])]

BitAnd(m, n) == AndTable[m, n]
BitXor(m, n) == XorTable[m, n]
BitOr(m, n) == m + n - BitAnd(m, n)
BitNot(b) == B - 1 - b

================================================================================
