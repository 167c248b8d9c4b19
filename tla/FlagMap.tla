------------------------------ MODULE FlagMap ------------------------------
(***************************************************************************)
(* FlagMap of lib/utils/flagmap.h: a set of the enumerators of an enum, in *)
(* a std::bitset of 32 bits.  The bit of an enumerator is 1 << f, as if    *)
(* the bitset were a number, so it has room for five of them.  A map is    *)
(* here the set of its bits.                                               *)
(***************************************************************************)
EXTENDS Integers

Bits == 32

Position(f) == 2 ^ f

(* Every operation with this enumerator throws std::out_of_range.          *)
Throws(f) == Position(f) >= Bits

(* operator | and operator +, and set.                                     *)
Plus(m, f) == m \cup {Position(f)}

(* operator -, and reset.                                                  *)
Minus(m, f) == m \ {Position(f)}

Test(m, f) == Position(f) \in m
=============================================================================
