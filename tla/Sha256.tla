-------------------------------- MODULE Sha256 --------------------------------
(***************************************************************************)
(* The padding of ModuleRegistry::ComputeSha256 and its walk over the      *)
(* padded buffer.  A digest can stand for one file only if no two files    *)
(* are padded to the same blocks, and the boundaries are where a length of *)
(* 55, 56, 63 or 64 bytes needs one block, or one more.  The rounds that   *)
(* compress a block are not modelled.                                      *)
(***************************************************************************)
EXTENDS Integers, Sequences

VARIABLE payload  \* binary_payload: the bytes of the file, set once

(* Slip: a buffer that is full already gets another block. *)
PaddingZeros_NoWrap(length) == 64 - ((length + 1 + 8) % 64)

PaddingZeros(length) == (64 - ((length + 1 + 8) % 64)) % 64

PaddedLength(length) == length + 1 + 8 + PaddingZeros(length)

(* The low byte of bit_len >> (8 * k), for k up to 7. *)
LengthByte(bit_len, k) ==
  LET shifted[i \in 0..7] == IF i = 0 THEN bit_len ELSE shifted[i - 1] \div 256
  IN shifted[k] % 256

(* The buffer: the file, 0x80, zeros, the length in bits, high byte first. *)
Buffer(bytes) ==
  bytes \o <<128>> \o [i \in 1..PaddingZeros(Len(bytes)) |-> 0]
    \o [i \in 1..8 |-> LengthByte(8 * Len(bytes), 8 - i)]

(* The offsets of the loop, and the indices its body reads for one block.  *)
Offsets(padded_length) == {o \in 0..(padded_length - 1) : o % 64 = 0}
ReadAt(offset) == {offset + 4 * i + j : i \in 0..15, j \in 0..3}

-----------------------------------------------------------------------------
(* The padded length is the least multiple of a block that has room for    *)
(* the file, the mark and the length.                                      *)
PaddedExactly(length) ==
  /\ PaddedLength(length) % 64 = 0
  /\ length + 9 <= PaddedLength(length)
  /\ PaddedLength(length) < length + 9 + 64

(* The number of eight bytes, the highest first, and the length in bytes   *)
(* that the last eight bytes of the buffer name.                           *)
BigEndian(byte) ==
  LET number[i \in 0..8] == IF i = 0 THEN 0 ELSE 256 * number[i - 1] + byte[i]
  IN number[8]

NamedLength(buffer) ==
  BigEndian(SubSeq(buffer, Len(buffer) - 7, Len(buffer))) \div 8

(* The blocks that are compressed are the padded file, each byte of it     *)
(* read, none beyond it, and no other file has the same: it can be read    *)
(* back from the blocks, also one that ends as if it were padded already.  *)
BlocksHoldTheFile ==
  LET length == Len(payload)
      buffer == Buffer(payload)
  IN /\ PaddedExactly(length)
     /\ Len(buffer) = PaddedLength(length)
     /\ UNION {ReadAt(o) : o \in Offsets(PaddedLength(length))} = 0..(Len(buffer) - 1)
     /\ SubSeq(buffer, 1, NamedLength(buffer)) = payload
===============================================================================
