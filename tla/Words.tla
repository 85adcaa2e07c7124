------------------------------- MODULE Words -------------------------------
(***************************************************************************)
(* Machine words as the sets of their bit positions.  A word of any width  *)
(* is such a set, so the codecs keep the widths of the code (8, 31, 32,    *)
(* 64) where the integers of the tools would not reach.                    *)
(***************************************************************************)
EXTENDS Integers, FiniteSetsExt

\* The k low bits.
Ones(k) == 0..k-1

\* x << k in a word of the given width, x >> k, and x & (2^k - 1).
ShiftLeft(x, k, width) == {b + k : b \in {c \in x : c + k < width}}
ShiftRight(x, k) == {b - k : b \in {c \in x : c >= k}}
LowBits(x, k) == x \cap Ones(k)

\* The number a word stands for, and the word of a number below 2^width.
Number(x) == SumSet({2^b : b \in x})
Word(n, width) == {b \in Ones(width) : (n \div 2^b) % 2 = 1}

\* DivideRoundUp of math.h.
DivideRoundUp(a, b) == (a + b - 1) \div b
=============================================================================
