--------------------------- MODULE DepthQuantizer ---------------------------
(***************************************************************************)
(* Q10Clip4: depths in millimetres, of 16 bits, in ten, with 0 for a pixel *)
(* without a depth; and their place in a P010 sample.                      *)
(***************************************************************************)
EXTENDS Integers

Clamp(x, low, high) == IF x < low THEN low ELSE IF x > high THEN high ELSE x

Quantize(max, depth) ==
  IF depth = 0 \/ depth > max THEN 0
  ELSE Clamp((depth * 1023 + max \div 2) \div max, 1, 1023)

Dequantize(max, q) == IF q = 0 THEN 0 ELSE ((q * max + 511) \div 1023) % 65536

(* Ten bits are kept in the upper ones of a P010 sample, and in the lower
   ones of the planar formats.                                             *)
Packed(q) == q * 64
Unpacked(pix_fmt, sample) == IF pix_fmt = "p010le" THEN sample \div 64 ELSE sample % 1024

-----------------------------------------------------------------------------
(* What is promised of a depth that comes back: a missing one and one out of
   range are missing, any other is there and within half a step, rounded to
   millimetres.  The error is counted in 1023rds of a millimetre.           *)
HalfAStep(max) == (max + 1) \div 2 + 511

(* Less than half a step is made a whole one: the documented bound does not
   hold there.                                                              *)
Smallest(max, depth) == depth * 1023 + max \div 2 < max

Kept(max, depth, back) ==
  IF depth = 0 \/ depth > max THEN back = 0
  ELSE /\ back \in 1 .. max
       /\ IF Smallest(max, depth) THEN back = (max + 511) \div 1023
          ELSE (back - depth) * 1023 \in -HalfAStep(max) .. HalfAStep(max)
=============================================================================
