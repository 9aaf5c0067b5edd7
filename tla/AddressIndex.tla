---------------------------- MODULE AddressIndex ----------------------------
(***************************************************************************)
(* generateIndex (operator/wga.go): the number, within a network, of the   *)
(* address a peer or a Service is given. "Fill the top bits with time, and *)
(* the bottom with at least 16 random bits."                               *)
(***************************************************************************)
EXTENDS Integers

CONSTANT Mask   \* maskBits: the bits of an address that the network leaves open

ASSUME MaskTyped == Mask \in 0..127

\* Random bits: what 64 bits of time leave of the mask, but at least 16.
RandSize == IF Mask > 16 + 64 THEN Mask - 64 ELSE 16
RandSpan == 2 ^ RandSize

\* bigMax.
HostSpan == 2 ^ Mask

\* rand.Int64N(n) is less than n, here 2^RandSize - 1. (For a mask of 127 bits
\* the shift overflows, and subtracting 1 makes it right again.)
Rands == 0..(RandSpan - 2)

\* The time in nanoseconds is shifted; the random bits are put in its place
\* with Or, and then added once more.
Index(t, r) ==
  LET ored == t * RandSpan + r
  IN (ored + r) % HostSpan
=============================================================================
