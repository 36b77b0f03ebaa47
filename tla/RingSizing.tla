----------------------------- MODULE RingSizing -----------------------------
(***************************************************************************)
(* nextPow2 of core/buffer/ring.go, over Width-bit signed integers: the    *)
(* capacity NewRingBuffer gives a ring and the mask its counters are       *)
(* reduced with.  It is what lets module ByteRing index by "% Cap".        *)
(* Width is 64 in the code; the smearing shifts are 1, 2, ..., Width/2.    *)
(***************************************************************************)
EXTENDS Integers, Bitwise

CONSTANT Width

ASSUME WidthAssumption == Width \in {4, 8, 16}

VARIABLES size,     \* the argument of nextPow2
          n,        \* its working variable
          shift     \* the shift of the next smearing step

sizing == <<size, n, shift>>

Int_Width == -(2^(Width - 1))..(2^(Width - 1) - 1)

\* Two's complement: what a Width-bit addition leaves.
Wrapped(x) == ((x + 2^(Width - 1)) % 2^Width) - 2^(Width - 1)

Done == shift = Width

\* The early return of sizes up to 1, and n--.
SizingInit == /\ size \in Int_Width
              /\ IF size <= 1 THEN n = 0 /\ shift = Width
                              ELSE n = size - 1 /\ shift = 1

\* Mutant: stops before the last shift.
SmearShort == /\ ~Done
              /\ n' = n | shiftR(n, shift)
              /\ shift' = IF 4 * shift = Width THEN Width ELSE 2 * shift
              /\ UNCHANGED size

\* n |= n >> shift
Smear == /\ ~Done
         /\ n' = n | shiftR(n, shift)
         /\ shift' = 2 * shift
         /\ UNCHANGED size

-----------------------------------------------------------------------------
Capacity == Wrapped(n + 1)

Mask == Capacity - 1

Powers == {2^k : k \in 0..(Width - 2)}

\* A requested size that some power of two covers gets the least such power
\* as its capacity, and then "& mask" is "% capacity" for every counter value,
\* which the wrap of the counters does not disturb (nextPow2, NewRingBuffer).
CapacityFits ==
  Done /\ size <= 2^(Width - 2) =>
    /\ Capacity \in Powers
    /\ size <= Capacity
    /\ \A p \in Powers : p < Capacity => p < size
    /\ 2^Width % Capacity = 0
    /\ \A x \in 0..(2^Width - 1) : (x & Mask) = x % Capacity
=============================================================================
