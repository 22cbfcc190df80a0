------------------------------- MODULE Bytes -------------------------------
(* The fixed-width integers of the code, u8 and u16, and their bits.       *)
EXTENDS Integers

MaxByte == 255
MaxWord == 65535

Byte == 0 .. MaxByte
Word == 0 .. MaxWord

Wrap8(n)  == n % (MaxByte + 1)
Wrap16(n) == n % (MaxWord + 1)

Lo(w)       == w % 256
Hi(w)       == w \div 256
Join(lo, hi) == hi * 256 + lo

(* `data as i8`.                                                           *)
Signed(b) == IF b < 128 THEN b ELSE b - 256

(* A byte as the set of its bits that are 1, and back.                     *)
Bit == 0 .. 7

Bits(b) == {i \in Bit : (b \div 2^i) % 2 = 1}

FromBits(S) ==
  LET Weight(i, w) == IF i \in S THEN w ELSE 0
  IN Weight(0, 1) + Weight(1, 2) + Weight(2, 4) + Weight(3, 8)
       + Weight(4, 16) + Weight(5, 32) + Weight(6, 64) + Weight(7, 128)

And(a, b) == FromBits(Bits(a) \cap Bits(b))
Or(a, b)  == FromBits(Bits(a) \cup Bits(b))
Bit7(b)   == b >= 128
Bit0(b)   == b % 2 = 1
=============================================================================
