----------------------------- MODULE PinFormat -----------------------------
(***************************************************************************)
(* What the two index-file (.pin) readers share: the byte layout of        *)
(* spec.md 6 and the width of its integers.                                *)
(*                                                                         *)
(* A 32-bit field is four bytes, most significant first.  TLC's integers   *)
(* are 32-bit signed, so a uint32 (0 .. 2^32-1) cannot be represented.     *)
(* The model keeps the four-byte layout and scales the byte: a byte is a   *)
(* value of 0 .. Radix-1 (256 in the code), a 32-bit word is               *)
(* Word(buf, off) < Radix^4, and uint32 arithmetic is modulo UInt32Range   *)
(* = Radix^4.  The wrap of the code at 2^32 is the wrap here at Radix^4.   *)
(*                                                                         *)
(* total_residues (64 bits) is never used in arithmetic by either reader:  *)
(* it is kept as its eight bytes in order of significance, most            *)
(* significant first, so that a reader's byte order is what it keeps.      *)
(***************************************************************************)
EXTENDS Integers, Sequences, SequencesExt

CONSTANT Radix
ASSUME Radix \in 2..128

UInt32Range == Radix ^ 4
MaxUInt32 == UInt32Range - 1

Ok(off, val) == [st |-> "ok", off |-> off, val |-> val]
\* A throw; the message is abstracted to its spec.md 7 error kind.
Err(off, kind) == [st |-> "err", off |-> off, val |-> kind]
Failed(r) == r.st # "ok"

\* The big-endian value of the four bytes of buf at 0-based offset off.
Word(buf, off) ==
    FoldLeft(LAMBDA acc, b : acc * Radix + b, 0, SubSeq(buf, off + 1, off + 4))

\* The n bytes of buf at 0-based offset off.
Bytes(buf, off, n) == SubSeq(buf, off + 1, off + n)

\* The four bytes of a 32-bit value, most significant first.
WordBytes(v) == [i \in 1..4 |-> (v \div Radix ^ (4 - i)) % Radix]

ErrorKinds == {"Truncated", "UnsupportedVersion", "CorruptIndex",
               "UnsupportedDatabase"}
=============================================================================
