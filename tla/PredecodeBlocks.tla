--------------------------- MODULE PredecodeBlocks ---------------------------
(***************************************************************************)
(* How PredecodeBlock::Initialize() splits an address over decoders of 1,  *)
(* 2 and 3 bits and over one or two stages of NAND gates, and how          *)
(* Mat::Initialize() gives a part of the address to each of two blocks.    *)
(* Every count of outputs in the code is a power of two; here it is its    *)
(* exponent, the number of address bits decoded so far.                    *)
(***************************************************************************)
EXTENDS Integers, Figures

MaxBits == 27   \* a block with more address bits ends the program

Decoder12(n) == IF n = 1 THEN 1 ELSE 0

(* Slip: the remainders 1 and 2 are swapped.                                *)
Decoder24Swapped(n) ==
  IF n = 1 THEN 0
  ELSE IF n % 3 = 1 THEN 1 ELSE IF n % 3 = 2 THEN 2 ELSE 0

(* 2-to-4 decoders, so that three divides what is left.                     *)
Decoder24(n) ==
  IF n = 1 THEN 0
  ELSE IF n % 3 = 2 THEN 1 ELSE IF n % 3 = 1 THEN 2 ELSE 0

Decoder38(n) == IF n = 1 THEN 0 ELSE (n - 2 * Decoder24(n)) \div 3

(* numBasicDecoder                                                          *)
Decoders(n) == Decoder12(n) + Decoder24(n) + Decoder38(n)

OneStage(n)    == Decoders(n) \in 2..3
TwoStages(n)   == Decoders(n) > 3
ThreeGroups(n) == Decoders(n) > 6

(* numNandInputStage1A, 1B and 1C: the decoders each group takes.           *)
InputsB(n) ==
  IF ThreeGroups(n) THEN IF Decoders(n) = 7 THEN 2 ELSE 3
  ELSE IF TwoStages(n) THEN Decoders(n) \div 2 ELSE 0

InputsC(n) ==
  IF ThreeGroups(n) THEN IF Decoders(n) = 9 THEN 3 ELSE 2 ELSE 0

InputsA(n) ==
  IF ThreeGroups(n) THEN 3
  ELSE IF TwoStages(n) THEN Decoders(n) - InputsB(n)
  ELSE IF OneStage(n) THEN Decoders(n) ELSE 0

(* The bits behind the outputs of each group, as their first stages are     *)
(* told.  The 2-to-4 decoders are in group A.  With three groups the code   *)
(* shifts numAddressBitStage1A, which it never set: any number of outputs.  *)
GroupA(n) == IF ThreeGroups(n) THEN Garbage ELSE 3 * InputsA(n) - Decoder24(n)
GroupB(n) == 3 * InputsB(n)
GroupC(n) == 3 * InputsC(n)

(* numBasicDecoderA1 and A2: first the 2-to-4 decoders, then the others.    *)
CountA1(n) ==
  IF ~OneStage(n) /\ ~TwoStages(n) THEN 1
  ELSE IF Decoder24(n) = 0 THEN InputsA(n) ELSE Decoder24(n)
CountA2(n) ==
  IF ~OneStage(n) /\ ~TwoStages(n) THEN 0 ELSE InputsA(n) - CountA1(n)

(* Address bits of one decoder A1, and of all of A1 and A2.                 *)
BitsA1(n) ==
  IF Decoder12(n) = 1 THEN 1 ELSE IF Decoder24(n) > 0 THEN 2 ELSE 3
DecodedA(n) == CountA1(n) * BitsA1(n) + 3 * CountA2(n)

(* Slip: the outputs of the other decoders of its kind are forgotten.       *)
LoadA2Alone(n) == IF Decoder24(n) = 1 THEN 2 ELSE 4

(* Gates one output of a decoder drives.                                    *)
LoadA1(n) ==
  CASE Decoder24(n) = 0 -> 3 * (InputsA(n) - 1)
    [] Decoder24(n) = 1 -> 3 * CountA2(n)
    [] OTHER            -> IF InputsA(n) = 2 THEN 2 ELSE 5
LoadA2(n) ==
  IF Decoder24(n) = 1 THEN 2 + 3 * (CountA2(n) - 1) ELSE 4
LoadBC(inputs) == IF inputs = 2 THEN 3 ELSE 6

(* Gates one output of a group drives in the second stage: the outputs of   *)
(* the other groups.  For B with two groups these are those of A; for B and *)
(* C with three, a product with the unset outputs of A, as unset as they.   *)
LoadStage1A(n) == GroupB(n) + GroupC(n)
LoadStage1B(n) == GroupA(n)
LoadStage1C(n) == GroupA(n)

(* RowDecoder::Initialize(): inputs of the NAND gates behind 2^bits         *)
(* outputs.                                                                 *)
NandInputs(bits, multiple) ==
  IF bits <= 3 THEN IF multiple THEN 2 ELSE 0
  ELSE IF multiple THEN 3 ELSE 2

-----------------------------------------------------------------------------
(* Mat::Initialize(): a second block takes half of more than 3 bits.        *)
Block2(n) == IF n > 3 THEN n \div 2 ELSE 0
Block1(n) == n - Block2(n)
=============================================================================
