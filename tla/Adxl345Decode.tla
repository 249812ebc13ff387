--------------------------- MODULE Adxl345Decode ---------------------------
(***************************************************************************)
(* The arithmetic of a sample, from the accelerometer's data registers to *)
(* the noise filter of fileops.rs.                                         *)
(*                                                                         *)
(* The ADXL345 in full resolution, right justified (DATA_FORMAT = 0x0B,    *)
(* written by set_default_config) presents each axis as a 13-bit two's    *)
(* complement value, sign-extended to 16 bits, low byte first.  read_data *)
(* rebuilds it with i16::from_le_bytes and shifts it left by two; the     *)
(* filter subtracts two such values and takes the absolute value, in i16. *)
(***************************************************************************)
EXTENDS Integers, TLAPS

\* The ranges are written by their bounds, not as literal intervals, so
\* that the SMT backend reasons about them arithmetically.
Byte == {v \in Int : 0 <= v /\ v <= 255}
I16 == {v \in Int : -32768 <= v /\ v <= 32767}

\* The raw values the device presents in full resolution at +-16 g.
FullRes == {v \in Int : -4096 <= v /\ v <= 4095}

\* Reduction of an integer to i16, the way Rust's wrapping arithmetic
\* (and the bits a shift pushes out) leave it.
Wrap16(n) == ((n + 32768) % 65536) - 32768

\* The two data register bytes holding raw value r, as the device drives
\* them: the 16-bit two's complement pattern, low byte first.
LowByte(r) == ((r + 65536) % 65536) % 256
HighByte(r) == ((r + 65536) % 65536) \div 256

\* i16::from_le_bytes([lo, hi]).
FromLeBytes(lo, hi) == Wrap16(lo + 256 * hi)

\* v << 2 on an i16: the product by four, reduced to 16 bits.
Shl2(v) == Wrap16(v * 4)

\* Mutant of DecodeAxis: << 3, as if the reading were left justified.
DecodeAxisShl3(lo, hi) == Wrap16(FromLeBytes(lo, hi) * 8)

\* One axis of read_data: i16::from_le_bytes([d0, d1]) << 2.
DecodeAxis(lo, hi) == Shl2(FromLeBytes(lo, hi))

\* What the sample is meant to be: the raw value in units of 1/4 LSB,
\* i.e. four times the raw reading.
Scaled(r) == 4 * r

\* The filter's per-axis difference (new.x - last.x) in i16 arithmetic
\* does not overflow, and neither does its .abs().
DiffFits(a, b) == -32767 <= a - b /\ a - b <= 32767

-----------------------------------------------------------------------------
(***************************************************************************)
(* Facts about the decoding, for every raw value.                         *)
(***************************************************************************)

\* The device's byte split of an i16 yields two bytes whose little-endian
\* combination is the value's 16-bit two's complement pattern.
LEMMA BytesAreBytes ==
    ASSUME NEW r \in I16
    PROVE  /\ LowByte(r) \in Byte /\ HighByte(r) \in Byte
           /\ LowByte(r) + 256 * HighByte(r) = IF r >= 0 THEN r ELSE r + 65536
BY SMT DEF LowByte, HighByte, Byte, I16

\* i16::from_le_bytes undoes the device's little-endian byte split of every
\* i16 value: read_data reassembles exactly the value the device presents.
LEMMA FromLeBytesInverse ==
    ASSUME NEW r \in I16
    PROVE  FromLeBytes(LowByte(r), HighByte(r)) = r
<1>1. LowByte(r) + 256 * HighByte(r) = IF r >= 0 THEN r ELSE r + 65536
  BY BytesAreBytes
<1>2. Wrap16(IF r >= 0 THEN r ELSE r + 65536) = r
  BY SMT DEF Wrap16, I16
<1> QED
  BY <1>1, <1>2 DEF FromLeBytes

\* read_data's decoding (fileops/utility/structures/mod.rs:265-267) returns
\* four times the raw reading of every full-resolution value: the shift by
\* two never pushes a significant bit out of the i16.
THEOREM DecodeScales ==
    ASSUME NEW r \in FullRes
    PROVE  DecodeAxis(LowByte(r), HighByte(r)) = Scaled(r)
<1>1. r \in I16
  BY DEF FullRes, I16
<1>2. FromLeBytes(LowByte(r), HighByte(r)) = r
  BY <1>1, FromLeBytesInverse
<1>4. Shl2(r) = 4 * r
  BY SMT DEF Shl2, Wrap16, FullRes
<1> QED
  BY <1>2, <1>4 DEF DecodeAxis, Scaled

\* The noise filter of fileops.rs:55-69 subtracts two decoded samples and
\* takes .abs() in i16; on decoded full-resolution values neither the
\* difference nor its absolute value overflows, whichever two are compared
\* (the baseline starts at 0 = Scaled(0)).
THEOREM FilterNoOverflow ==
    ASSUME NEW r1 \in FullRes, NEW r2 \in FullRes
    PROVE  DiffFits(Scaled(r1), Scaled(r2))
BY SMT DEF DiffFits, Scaled, FullRes

=============================================================================
