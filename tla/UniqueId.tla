------------------------------ MODULE UniqueId ------------------------------
(***************************************************************************)
(* Identifiers of solids (UniqueId.h): the numbers that describe a solid   *)
(* are rounded and packed side by side into one word, so that a solid can  *)
(* be recognised after it was written to a file and read back.             *)
(*                                                                         *)
(* A number is the bit pattern of its half precision value: a sign bit     *)
(* above a magnitude that grows with the value up to that of infinity.     *)
(* The program has 4 numbers of 16 bits, so a width of 2^16, the mask 8,   *)
(* and the pattern 31744 of infinity.                                      *)
(***************************************************************************)
EXTENDS Integers, Sequences, SequencesExt

CONSTANTS Width,                \* 2 ^ ID_ITEM_BITS, how many patterns a number can have
          ID_ITEM_COUNT,        \* how many numbers: size, then the centre of mass
          ROUND_PRECISION_MASK, \* patterns are rounded to its multiples
          ZERO_THRESHOLD,       \* the pattern of the smallest value that is not zero
          INFINITY              \* the pattern of values that are too large

SignBit == Width \div 2

ASSUME UniqueIdAssumption ==
  /\ Width \in Nat /\ Width = 2 * SignBit
  /\ ID_ITEM_COUNT \in Nat \ {0}
  /\ ROUND_PRECISION_MASK \in Nat /\ ROUND_PRECISION_MASK > 1
  /\ ZERO_THRESHOLD \in Nat \ {0}
  /\ INFINITY \in Nat /\ INFINITY + ROUND_PRECISION_MASK <= SignBit

\* The patterns of a solid: its scaled size (the cubic root of the volume, which is
\* positive) and the coordinates of its centre of mass.
Magnitude(pattern) == pattern % SignBit
Patterns == 0 .. INFINITY \cup SignBit .. SignBit + INFINITY
Geometries == [1 .. ID_ITEM_COUNT -> Patterns]

\* To the nearest multiple, in the arithmetic of the unsigned type.
round(value, tol) ==
  (tol * (value \div tol + (IF value % tol >= tol \div 2 THEN 1 ELSE 0))) % Width

\* Both zeros and what is near them have the pattern of zero.
double2uint16(pattern) ==
  round(IF Magnitude(pattern) < ZERO_THRESHOLD THEN 0 ELSE pattern, ROUND_PRECISION_MASK)

\* Mutant: the numbers are put on top of each other.
uniqueIdUnshifted(values) ==
  LET word[n \in 0 .. ID_ITEM_COUNT] ==
        IF n = 0 THEN 0 ELSE double2uint16(values[ID_ITEM_COUNT + 1 - n]) + word[n - 1]
  IN  word[ID_ITEM_COUNT]

\* Each number above the bits of those before it: word[n] has the last n of them.
uniqueId(values) ==
  LET word[n \in 0 .. ID_ITEM_COUNT] ==
        IF n = 0 THEN 0 ELSE double2uint16(values[ID_ITEM_COUNT + 1 - n]) + Width * word[n - 1]
  IN  word[ID_ITEM_COUNT]

\* The numbers of a solid are given scaled, as their patterns.
geometryUniqueId(geometry) == uniqueId(geometry)

\* A volume below one cubic millimetre is one whose scaled size, a tenth of the
\* cubic root, is below the threshold of zero: GeometryPropertyBuilder compares
\* with the first, double2uint16 with the second.
VolumeTooSmall(geometry) == geometry[1] < ZERO_THRESHOLD
=============================================================================
