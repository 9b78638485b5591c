----------------------------- MODULE QcowAdler32 -----------------------------
(***************************************************************************)
(* The words of libqcow_deflate_calculate_adler32: they are added up in 32 *)
(* bits, and taken modulo 65521 once in 5552 bytes.                        *)
(***************************************************************************)
EXTENDS Integers

BytesPerReduction == 5552   \* 0x15b0

FirstWords == [lower_word |-> 1, upper_word |-> 0]

AddedByte(w, byte) ==
  [lower_word |-> w.lower_word + byte,
   upper_word |-> w.upper_word + (w.lower_word + byte)]

(* The "optimized equivalent" of a remainder: 65536 is 15 more than 65521. *)
Folded(v) == (v % 65536) + ((v \div 65536) * 15)

FoldedTwice(v) == IF Folded(v) > 65521 THEN Folded(Folded(v)) ELSE Folded(v)

Reduced(v) ==
  IF FoldedTwice(v) >= 65521 THEN FoldedTwice(v) - 65521 ELSE FoldedTwice(v)

ReducedWords(w) ==
  [lower_word |-> Reduced(w.lower_word), upper_word |-> Reduced(w.upper_word)]
=============================================================================
