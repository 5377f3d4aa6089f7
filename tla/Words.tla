------------------------------- MODULE Words -------------------------------
(***************************************************************************)
(* Machine words.  A word has WordBits bits where the machine has 32: four *)
(* bytes of a quarter of it, and immediates of half of it.  Arithmetic is  *)
(* unsigned and wraps.                                                     *)
(***************************************************************************)
EXTENDS Integers, Bitwise

CONSTANT WordBits       \* 32

ASSUME WordAssumption == WordBits \in Nat /\ WordBits > 0 /\ WordBits % 4 = 0

Word == 2 ^ WordBits
Half == 2 ^ (WordBits \div 2)
Byte == 2 ^ (WordBits \div 4)

Truth(condition) == IF condition THEN 1 ELSE 0

\* What the arithmetic unit computes.
Arithmetic(operation, a, b) ==
    CASE operation = "add"  -> (a + b) % Word
      [] operation = "sub"  -> (a - b) % Word
      [] operation = "and"  -> a & b
      [] operation = "or"   -> a | b
      [] operation = "xor"  -> a ^^ b
      [] operation = "nand" -> Word - 1 - (a & b)
      [] operation = "lsl"  -> IF b < WordBits THEN (a * 2 ^ b) % Word ELSE 0
      [] operation = "lsr"  -> IF b < WordBits THEN a \div 2 ^ b ELSE 0
=============================================================================
