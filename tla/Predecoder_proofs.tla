------------------------- MODULE Predecoder_proofs -------------------------
(***************************************************************************)
(* That a predecoder block decodes all of its address, whatever the number *)
(* of its bits (its first stages up to 18 of them, beyond which they rest   *)
(* on an unset member), and that the two blocks of a Mat never come near the limit *)
(* of one.  There is no recursion here and no induction: every fact is one *)
(* about quotients and remainders, split on the remainder by 3 and on the  *)
(* number of decoders.                                                     *)
(***************************************************************************)
EXTENDS Predecoder, Figures_proofs

(* The 2-to-4 decoders, in the terms of the remainder they make up for.     *)
LEMMA Remainders ==
  ASSUME NEW k \in Nat, k > 1
  PROVE  /\ Decoder12(k) = 0
         /\ Decoder24(k) \in 0..2
         /\ Decoder38(k) \in Nat
         /\ 2 * Decoder24(k) + 3 * Decoder38(k) = k
<1>1. k % 3 \in 0..2 /\ k = 3 * (k \div 3) + (k % 3) /\ k \div 3 \in Nat
  OBVIOUS
<1>2. CASE k % 3 = 0
  <2>1. Decoder24(k) = 0  BY <1>2 DEF Decoder24
  <2>2. Decoder38(k) = k \div 3  BY <2>1 DEF Decoder38
  <2> QED BY <1>1, <1>2, <2>1, <2>2 DEF Decoder12
<1>3. CASE k % 3 = 1
  <2>1. Decoder24(k) = 2  BY <1>3 DEF Decoder24
  <2>2. Decoder38(k) = (k - 4) \div 3  BY <2>1 DEF Decoder38
  <2>3. k >= 4 /\ (k - 4) \div 3 = (k \div 3) - 1  BY <1>1, <1>3
  <2> QED BY <1>1, <1>3, <2>1, <2>2, <2>3 DEF Decoder12
<1>4. CASE k % 3 = 2
  <2>1. Decoder24(k) = 1  BY <1>4 DEF Decoder24
  <2>2. Decoder38(k) = (k - 2) \div 3  BY <2>1 DEF Decoder38
  <2>3. (k - 2) \div 3 = k \div 3  BY <1>1, <1>4
  <2> QED BY <1>1, <1>4, <2>1, <2>2, <2>3 DEF Decoder12
<1> QED BY <1>1, <1>2, <1>3, <1>4

(* The decoders of a block decode every bit of its address once.            *)
THEOREM SplitCovers ==
  ASSUME NEW k \in Nat, k > 0
  PROVE  Decoder12(k) + 2 * Decoder24(k) + 3 * Decoder38(k) = k
<1>1. CASE k = 1  BY <1>1 DEF Decoder12, Decoder24, Decoder38
<1>2. CASE k > 1  BY <1>2, Remainders DEF Decoder12
<1> QED BY <1>1, <1>2

(* Nine decoders are enough for the largest block, and more than one take   *)
(* at least two per group.                                                  *)
LEMMA DecodersBounded ==
  ASSUME NEW k \in Nat, k > 1, k <= MaxBits
  PROVE  /\ Decoders(k) = Decoder24(k) + Decoder38(k)
         /\ Decoders(k) \in 1..9
         /\ Decoders(k) = 1 => k \in 2..3
         /\ Decoder24(k) <= Decoders(k)
         /\ Decoder24(k) = 2 => Decoders(k) > 1
<1>1. /\ Decoder12(k) = 0 /\ Decoder24(k) \in 0..2 /\ Decoder38(k) \in Nat
      /\ 2 * Decoder24(k) + 3 * Decoder38(k) = k
  BY Remainders
<1>2. Decoders(k) = Decoder24(k) + Decoder38(k)  BY <1>1 DEF Decoders
<1> QED BY <1>1, <1>2 DEF MaxBits

(* The groups of the first stage share the decoders out, two or three each. *)
LEMMA GroupsShare ==
  ASSUME NEW k \in Nat, k > 1, k <= MaxBits, Decoders(k) > 1
  PROVE  /\ InputsA(k) \in 2..3 /\ InputsB(k) \in {0, 2, 3} /\ InputsC(k) \in {0, 2, 3}
         /\ InputsA(k) + InputsB(k) + InputsC(k) = Decoders(k)
         /\ InputsB(k) > 0 <=> TwoStages(k)
         /\ InputsC(k) > 0 <=> ThreeGroups(k)
         /\ OneStage(k) \/ TwoStages(k)
<1>1. Decoders(k) \in 2..9  BY DecodersBounded
<1>2. CASE Decoders(k) \in 2..3
  BY <1>2 DEF InputsA, InputsB, InputsC, OneStage, TwoStages, ThreeGroups
<1>3. CASE Decoders(k) \in 4..6
  <2>1. Decoders(k) \div 2 \in 2..3 /\ Decoders(k) - (Decoders(k) \div 2) \in 2..3
    BY <1>3
  <2> QED BY <1>3, <2>1 DEF InputsA, InputsB, InputsC, OneStage, TwoStages, ThreeGroups
<1>4. CASE Decoders(k) \in 7..9
  BY <1>4 DEF InputsA, InputsB, InputsC, OneStage, TwoStages, ThreeGroups
<1> QED BY <1>1, <1>2, <1>3, <1>4

(* A block within the 18 bits Mat asks for has no third group, a larger one *)
(* has, and its first stages with it.                                       *)
LEMMA ThirdGroup ==
  ASSUME NEW k \in Nat, k <= MaxBits
  PROVE  ThreeGroups(k) <=> k > 18
<1>1. CASE k = 0
  <2>1. k % 3 = 0 /\ (k - 2 * 0) \div 3 = 0  BY <1>1
  <2> QED BY <1>1, <2>1 DEF ThreeGroups, Decoders, Decoder12, Decoder24, Decoder38
<1>2. CASE k = 1
  BY <1>2 DEF ThreeGroups, Decoders, Decoder12, Decoder24, Decoder38
<1>3. CASE k > 1
  <2>1. /\ 2 * Decoder24(k) + 3 * Decoder38(k) = k /\ Decoder24(k) \in 0..2
        /\ Decoder38(k) \in Nat
    BY <1>3, Remainders
  <2>2. Decoders(k) = Decoder24(k) + Decoder38(k)
    BY <1>3, DecodersBounded
  <2> QED
    BY <2>1, <2>2 DEF ThreeGroups
<1> QED
  BY <1>1, <1>2, <1>3

(* Basic decoders A1 and A2 are those of group A.                           *)
LEMMA GroupAShares ==
  ASSUME NEW k \in Nat, k > 1, k <= MaxBits, Decoders(k) > 1
  PROVE  /\ CountA1(k) + CountA2(k) = InputsA(k)
         /\ DecodedA(k) = 3 * InputsA(k) - Decoder24(k)
         /\ CountA1(k) \in 1..3 /\ CountA2(k) \in 0..2
<1>1. /\ Decoder12(k) = 0 /\ Decoder24(k) \in 0..2
  BY Remainders
<1>2. InputsA(k) \in 2..3 /\ (OneStage(k) \/ TwoStages(k))
  BY GroupsShare
<1>3. /\ CountA1(k) = IF Decoder24(k) = 0 THEN InputsA(k) ELSE Decoder24(k)
      /\ CountA2(k) = InputsA(k) - CountA1(k)
      /\ BitsA1(k) = IF Decoder24(k) > 0 THEN 2 ELSE 3
  BY <1>1, <1>2 DEF CountA1, CountA2, BitsA1
<1>4. CASE Decoder24(k) = 0  BY <1>2, <1>3, <1>4 DEF DecodedA
<1>5. CASE Decoder24(k) = 1  BY <1>2, <1>3, <1>5 DEF DecodedA
<1>6. CASE Decoder24(k) = 2  BY <1>2, <1>3, <1>6 DEF DecodedA
<1> QED BY <1>1, <1>4, <1>5, <1>6

(* The decoders of the groups decode the address between them, and no bit   *)
(* of it twice.                                                             *)
THEOREM GroupsCover ==
  ASSUME NEW k \in Nat, k > 1, k <= MaxBits, Decoders(k) > 1
  PROVE  DecodedA(k) + GroupB(k) + GroupC(k) = k
<1>1. 2 * Decoder24(k) + 3 * Decoder38(k) = k /\ Decoder24(k) \in 0..2
        /\ Decoder38(k) \in Nat
  BY Remainders
<1>2. Decoders(k) = Decoder24(k) + Decoder38(k)  BY DecodersBounded
<1>3. /\ InputsA(k) + InputsB(k) + InputsC(k) = Decoders(k)
      /\ InputsA(k) \in 2..3 /\ InputsB(k) \in {0, 2, 3} /\ InputsC(k) \in {0, 2, 3}
  BY GroupsShare
<1>4. DecodedA(k) = 3 * InputsA(k) - Decoder24(k)  BY GroupAShares
<1> QED BY <1>1, <1>2, <1>3, <1>4 DEF GroupB, GroupC

-----------------------------------------------------------------------------
(* A Mat splits the address of its rows, and of each multiplexer, over two  *)
(* blocks.  No split of the 31 bits an int can count reaches the limit at   *)
(* which a block ends the program, nor the third group, in which one of its *)
(* members is shifted without ever having been set.                         *)
THEOREM MatSplits ==
  ASSUME NEW k \in 0..31
  PROVE  /\ Block1(k) + Block2(k) = k
         /\ Block1(k) \in 0..18 /\ Block2(k) \in 0..18
         /\ ~ThreeGroups(Block1(k)) /\ ~ThreeGroups(Block2(k))
<1>1. /\ Block1(k) + Block2(k) = k /\ Block1(k) \in 0..16 /\ Block2(k) \in 0..16
  BY DEF Block1, Block2
<1>2. ASSUME NEW b \in 0..18
      PROVE  ~ThreeGroups(b)
  BY ThirdGroup DEF MaxBits
<1> QED BY <1>1, <1>2

-----------------------------------------------------------------------------
(* Initialize() lets no block through that has more address bits than it    *)
(* can decode.                                                              *)
Accepted ==
  /\ n \in Nat
  /\ next \notin {"Initialize", "exit"} => n <= MaxBits

LEMMA AcceptedInvariant == Spec => []Accepted
<1>1. Init => Accepted
  BY BitsAssumption DEF Init, Accepted, n
<1>2. Accepted /\ [Next]_vars => Accepted'
  <2> SUFFICES ASSUME Accepted, [Next]_vars
               PROVE  Accepted'
    OBVIOUS
  <2>1. CASE Initialize  BY <2>1 DEF Initialize, Accepted, n
  <2>2. CASE Exit  BY <2>2 DEF Exit, Accepted, n
  <2>3. CASE CalculateArea  BY <2>3 DEF CalculateArea, Accepted, n
  <2>4. CASE CalculateRC  BY <2>4 DEF CalculateRC, Accepted, n
  <2>5. CASE CalculateLatency
    <3>1. next = "CalculateLatency" /\ UNCHANGED numAddressBit
      BY <2>5 DEF CalculateLatency
    <3> QED BY <3>1 DEF Accepted, n
  <2>6. CASE CalculatePower
    <3>1. next = "CalculatePower" /\ UNCHANGED numAddressBit
      BY <2>6 DEF CalculatePower
    <3> QED BY <3>1 DEF Accepted, n
  <2>7. CASE UNCHANGED vars  BY <2>7 DEF vars, Accepted, n
  <2> QED BY <2>1, <2>2, <2>3, <2>4, <2>5, <2>6, <2>7 DEF Next
<1> QED BY <1>1, <1>2, PTL DEF Spec

(* A block of one decoder has no groups.                                    *)
LEMMA OneDecoder ==
  ASSUME NEW k \in Nat, k > 0, k <= MaxBits, ~(k > 1 /\ Decoders(k) > 1)
  PROVE  /\ InputsA(k) = 0 /\ InputsB(k) = 0 /\ InputsC(k) = 0
         /\ ~TwoStages(k)
         /\ DecodedA(k) = k
<1>1. CASE k = 1
  BY <1>1 DEF InputsA, InputsB, InputsC, TwoStages, OneStage, ThreeGroups, Decoders,
              Decoder12, Decoder24, Decoder38, CountA1, CountA2, BitsA1, DecodedA
<1>2. CASE k > 1
  <2>1. Decoders(k) = 1 /\ k \in 2..3  BY <1>2, DecodersBounded
  <2>2. InputsA(k) = 0 /\ InputsB(k) = 0 /\ InputsC(k) = 0
          /\ ~TwoStages(k) /\ ~OneStage(k)
    BY <2>1 DEF InputsA, InputsB, InputsC, TwoStages, OneStage, ThreeGroups
  <2>3. CountA1(k) = 1 /\ CountA2(k) = 0  BY <2>2 DEF CountA1, CountA2
  <2>4. BitsA1(k) = k
    <3>1. 2 * Decoder24(k) + 3 * Decoder38(k) = k /\ Decoder24(k) \in 0..2
            /\ Decoder38(k) \in Nat /\ Decoder12(k) = 0
      BY <1>2, Remainders
    <3> QED BY <2>1, <3>1 DEF BitsA1
  <2> QED BY <1>2, <2>1, <2>2, <2>3, <2>4 DEF DecodedA
<1> QED BY <1>1, <1>2

(* Two or three groups behind gates of as many inputs.                      *)
LEMMA GatesFit ==
  ASSUME NEW k \in Nat, k > 1, k <= MaxBits, Decoders(k) > 1
  PROVE  /\ ~ThreeGroups(k) => NandInputs(GroupA(k), InputsA(k) = 3) = InputsA(k)
         /\ InputsB(k) > 0 => NandInputs(GroupB(k), InputsB(k) = 3) = InputsB(k)
         /\ InputsC(k) > 0 => NandInputs(GroupC(k), InputsC(k) = 3) = InputsC(k)
         /\ TwoStages(k) =>
              NandInputs(k, ThreeGroups(k)) = IF ThreeGroups(k) THEN 3 ELSE 2
<1>1. InputsA(k) \in 2..3 /\ InputsB(k) \in {0, 2, 3} /\ InputsC(k) \in {0, 2, 3}
  BY GroupsShare
<1>2. 2 * Decoder24(k) + 3 * Decoder38(k) = k /\ Decoder24(k) \in 0..2
        /\ Decoder38(k) \in Nat
  BY Remainders
<1>3. Decoders(k) = Decoder24(k) + Decoder38(k) /\ Decoders(k) \in 1..9
  BY DecodersBounded
<1>4. ASSUME ~ThreeGroups(k)
      PROVE  NandInputs(GroupA(k), InputsA(k) = 3) = InputsA(k)
  <2>1. GroupA(k) = 3 * InputsA(k) - Decoder24(k)  BY <1>4 DEF GroupA
  <2>2. GroupA(k) \in Int /\ GroupA(k) > 3  BY <1>1, <1>2, <2>1
  <2> QED BY <1>1, <2>2 DEF NandInputs
<1>5. InputsB(k) > 0 => NandInputs(GroupB(k), InputsB(k) = 3) = InputsB(k)
  BY <1>1 DEF NandInputs, GroupB
<1>6. InputsC(k) > 0 => NandInputs(GroupC(k), InputsC(k) = 3) = InputsC(k)
  BY <1>1 DEF NandInputs, GroupC
<1>7. TwoStages(k) => NandInputs(k, ThreeGroups(k)) = IF ThreeGroups(k) THEN 3 ELSE 2
  BY <1>2, <1>3 DEF NandInputs, TwoStages, ThreeGroups
<1> QED BY <1>4, <1>5, <1>6, <1>7

(* A block that Initialize() accepts decodes its whole address: the split   *)
(* over decoders and groups loses no bit, for every number of bits, and the *)
(* first stages have the rows for it up to 18 of them.                      *)
THEOREM AddressDecoded == Spec => []DecodesAddress
<1>1. Accepted => DecodesAddress
  <2> SUFFICES ASSUME Accepted, next \notin {"Initialize", "exit"}, n > 0
               PROVE  DecodesAddress
    BY DEF DecodesAddress
  <2>1. n \in Nat /\ n <= MaxBits  BY DEF Accepted
  <2>2. CASE ~(n > 1 /\ Decoders(n) > 1)
    <3>1. /\ InputsA(n) = 0 /\ InputsB(n) = 0 /\ InputsC(n) = 0 /\ ~TwoStages(n)
          /\ DecodedA(n) = n
      BY <2>1, <2>2, OneDecoder
    <3>2. GroupB(n) = 0 /\ GroupC(n) = 0  BY <3>1 DEF GroupB, GroupC
    <3> QED BY <2>1, <3>1, <3>2 DEF DecodesAddress
  <2>3. CASE n > 1 /\ Decoders(n) > 1
    <3>1. /\ CountA1(n) + CountA2(n) = InputsA(n)
          /\ DecodedA(n) = 3 * InputsA(n) - Decoder24(n)
      BY <2>1, <2>3, GroupAShares
    <3>2. DecodedA(n) + GroupB(n) + GroupC(n) = n  BY <2>1, <2>3, GroupsCover
    <3>3. /\ ~ThreeGroups(n) => NandInputs(GroupA(n), InputsA(n) = 3) = InputsA(n)
          /\ InputsB(n) > 0 => NandInputs(GroupB(n), InputsB(n) = 3) = InputsB(n)
          /\ InputsC(n) > 0 => NandInputs(GroupC(n), InputsC(n) = 3) = InputsC(n)
          /\ TwoStages(n) =>
               NandInputs(n, ThreeGroups(n)) = IF ThreeGroups(n) THEN 3 ELSE 2
      BY <2>1, <2>3, GatesFit
    <3>4. n <= 18 => ~ThreeGroups(n)  BY <2>1, ThirdGroup
    <3>5. n <= 18 => GroupA(n) = DecodedA(n)  BY <3>1, <3>4 DEF GroupA
    <3> QED BY <3>1, <3>2, <3>3, <3>4, <3>5 DEF DecodesAddress
  <2> QED BY <2>2, <2>3
<1> QED BY <1>1, AcceptedInvariant, PTL

(* What one output of a decoder drives.                                     *)
LEMMA LoadsFit ==
  ASSUME NEW k \in Nat, k > 1, k <= MaxBits, Decoders(k) > 1
  PROVE  /\ LoadA1(k) = DecodedA(k) - BitsA1(k)
         /\ CountA2(k) > 0 => LoadA2(k) = DecodedA(k) - 3
         /\ InputsB(k) > 0 => LoadBC(InputsB(k)) = GroupB(k) - 3
         /\ InputsC(k) > 0 => LoadBC(InputsC(k)) = GroupC(k) - 3
<1>1. Decoder12(k) = 0 /\ Decoder24(k) \in 0..2
  BY Remainders
<1>2. /\ InputsA(k) \in 2..3 /\ InputsB(k) \in {0, 2, 3} /\ InputsC(k) \in {0, 2, 3}
      /\ OneStage(k) \/ TwoStages(k)
  BY GroupsShare
<1>3. /\ CountA1(k) = IF Decoder24(k) = 0 THEN InputsA(k) ELSE Decoder24(k)
      /\ CountA2(k) = InputsA(k) - CountA1(k)
      /\ BitsA1(k) = IF Decoder24(k) > 0 THEN 2 ELSE 3
      /\ DecodedA(k) = 3 * InputsA(k) - Decoder24(k)
  BY <1>1, <1>2, GroupAShares DEF CountA1, CountA2, BitsA1
<1>4. LoadA1(k) = DecodedA(k) - BitsA1(k)
  <2>1. CASE Decoder24(k) = 0  BY <1>2, <1>3, <2>1 DEF LoadA1
  <2>2. CASE Decoder24(k) = 1  BY <1>2, <1>3, <2>2 DEF LoadA1
  <2>3. CASE Decoder24(k) = 2  BY <1>2, <1>3, <2>3 DEF LoadA1
  <2> QED BY <1>1, <2>1, <2>2, <2>3
<1>5. CountA2(k) > 0 => LoadA2(k) = DecodedA(k) - 3
  <2>1. CASE Decoder24(k) = 0  BY <1>2, <1>3, <2>1
  <2>2. CASE Decoder24(k) = 1  BY <1>2, <1>3, <2>2 DEF LoadA2
  <2>3. CASE Decoder24(k) = 2  BY <1>2, <1>3, <2>3 DEF LoadA2
  <2> QED BY <1>1, <2>1, <2>2, <2>3
<1>6. InputsB(k) > 0 => LoadBC(InputsB(k)) = GroupB(k) - 3
  BY <1>2 DEF LoadBC, GroupB
<1>7. InputsC(k) > 0 => LoadBC(InputsC(k)) = GroupC(k) - 3
  BY <1>2 DEF LoadBC, GroupC
<1> QED BY <1>4, <1>5, <1>6, <1>7

(* In every accepted block, an output is loaded with the gates that differ  *)
(* in the bits decoded by others, and with no more: all decoders and stage  *)
(* 1A for every number of bits, stage 1B up to 18 of them.                  *)
THEOREM LoadsRight == Spec => []FanOut
<1>1. Accepted => FanOut
  <2> SUFFICES ASSUME Accepted, next \notin {"Initialize", "exit"}, InputsA(n) > 0
               PROVE  FanOut
    BY DEF FanOut
  <2>1. n \in Nat /\ n <= MaxBits  BY DEF Accepted
  <2>2. n > 1 /\ Decoders(n) > 1
    <3>1. n # 0
      <4> SUFFICES ASSUME n = 0 PROVE FALSE
        OBVIOUS
      <4>1. 0 % 3 = 0 /\ (0 - 2 * 0) \div 3 = 0  OBVIOUS
      <4> QED BY <4>1 DEF InputsA, OneStage, TwoStages, ThreeGroups, Decoders,
                          Decoder12, Decoder24, Decoder38
    <3> QED BY <2>1, <3>1, OneDecoder
  <2>3. DecodedA(n) + GroupB(n) + GroupC(n) = n  BY <2>1, <2>2, GroupsCover
  <2>4. DecodedA(n) \in Int /\ GroupB(n) \in Int /\ GroupC(n) \in Int
    <3>1. InputsA(n) \in 2..3 /\ InputsB(n) \in {0, 2, 3} /\ InputsC(n) \in {0, 2, 3}
      BY <2>1, <2>2, GroupsShare
    <3>2. Decoder24(n) \in 0..2  BY <2>1, <2>2, Remainders
    <3>3. DecodedA(n) = 3 * InputsA(n) - Decoder24(n)  BY <2>1, <2>2, GroupAShares
    <3> QED BY <3>1, <3>2, <3>3 DEF GroupB, GroupC
  <2>5. LoadStage1A(n) = n - DecodedA(n)
    BY <2>1, <2>3, <2>4 DEF LoadStage1A
  <2>6. n <= 18 => LoadStage1B(n) = n - GroupB(n)
    <3>1. n <= 18 => ~ThreeGroups(n)  BY <2>1, ThirdGroup
    <3>2. DecodedA(n) = 3 * InputsA(n) - Decoder24(n)  BY <2>1, <2>2, GroupAShares
    <3>3. n <= 18 => LoadStage1B(n) = DecodedA(n)  BY <3>1, <3>2 DEF LoadStage1B, GroupA
    <3>4. n <= 18 => GroupC(n) = 0  BY <3>1 DEF GroupC, InputsC
    <3> QED BY <2>1, <2>3, <2>4, <3>3, <3>4
  <2>7. /\ LoadA1(n) = DecodedA(n) - BitsA1(n)
        /\ CountA2(n) > 0 => LoadA2(n) = DecodedA(n) - 3
        /\ InputsB(n) > 0 => LoadBC(InputsB(n)) = GroupB(n) - 3
        /\ InputsC(n) > 0 => LoadBC(InputsC(n)) = GroupC(n) - 3
    BY <2>1, <2>2, LoadsFit
  <2> QED BY <2>5, <2>6, <2>7 DEF FanOut
<1> QED BY <1>1, AcceptedInvariant, PTL

-----------------------------------------------------------------------------
(* What the figures of a block are made of, call by call.  Inner and Whole  *)
(* are the parts behind the block, and all of them.                         *)
Inner == Parts \cup {Driver(p) : p \in Parts}
Whole == Inner \cup {"block"}

(* The value of the unset numAddressBitStage1A, in the gates of the first   *)
(* stages.                                                                  *)
Unset == IF ThreeGroups(n) THEN {Garbage} ELSE {}

(* The gates of a part, and its share: they and its driver.                 *)
Gates(p) ==
  CASE p = "stage2"     -> {p}
    [] p \in Stages \ {"stage2"} -> {p} \cup Unset
    [] p = "A1"         -> IF BitsA1(n) \in {0, 1} THEN {} ELSE {p}
    [] OTHER            -> {p}
Share(p) == {Driver(p)} \cup Gates(p)

LEMMA NamesDiffer ==
  /\ \A p \in Parts : /\ Driver(p) \in Whole /\ p \in Whole /\ Driver(p) \in Inner
                      /\ Driver(p) \notin Parts /\ Driver(p) \notin Marks
                      /\ Driver(p) # "block" /\ p # "block" /\ p \notin Marks
  /\ \A p, q \in Parts : Driver(p) = Driver(q) => p = q
  /\ "block" \notin Inner /\ "block" \in Whole
BY DEF Parts, Basic, Stages, Whole, Inner, Driver, DriverNames, Marks, Garbage, Worst, Twice

LEMMA WholeIs == Whole = Parts \cup {"block"} \cup {Driver(q) : q \in Parts}
BY DEF Whole, Inner

(* Initialize(): the parts in S are through.                                *)
Begun(t, S) ==
  /\ IsState(Whole, t) /\ t.bad = {} /\ t.complaints = {}
  /\ t.made = (S \cap Present) \cup {Driver(p) : p \in S \cap Present}
  /\ \A p \in Whole, f \in Figure : Fig(t, p, f) = {}
  /\ \A p \in S \cap Present : Fig(t, p, "gates") = Gates(p)
  /\ \A p \in S \cap Present \cap Stages :
       Fig(t, p, "cap") = {} /\ Fig(t, Driver(p), "cap") = {}

LEMMA BegunUndone ==
  ASSUME NEW t, NEW S, S \subseteq Parts, Begun(t, S), NEW p \in Parts, p \notin S
  PROVE  Undone(Whole, t, p)
<1>1. p \notin t.made
  BY NamesDiffer DEF Begun
<1>2. Driver(p) \notin t.made
  BY NamesDiffer DEF Begun
<1> QED
  BY <1>1, <1>2, NamesDiffer DEF Begun, Undone

LEMMA FigureNames ==
  /\ Fields = Figure \cup Loose
  /\ \A f \in Figure : f \notin {"ramp", "cap", "gates"}
  /\ "cap" \in Fields /\ "gates" \in Fields /\ "ramp" \in Fields
BY DEF Fields, Figure, Loose

LEMMA MakeStageBegun ==
  ASSUME NEW t, NEW S, S \subseteq Parts, Begun(t, S), NEW p \in Stages, p \notin S
  PROVE  Begun(MakeStage(t, p), S \cup {p})
<1> DEFINE gates == {p} \cup (IF ThreeGroups(n) /\ p # "stage2" THEN {Garbage} ELSE {})
           v == RowDecoderInitialize(t, p, gates, TRUE)
           u == RowDecoderRC(v, p)
<1>1. CASE p \notin Present
  <2>1. (S \cup {p}) \cap Present = S \cap Present
    BY <1>1
  <2> QED
    BY <1>1, <2>1 DEF MakeStage, Begun
<1>2. CASE p \in Present
  <2>1. MakeStage(t, p) = u
    BY <1>2 DEF MakeStage
  <2>2. gates = Gates(p)
    BY DEF Gates, Unset, Stages
  <2>3. p \in Parts
    BY DEF Parts
  <2>4. Undone(Whole, t, p)
    BY <2>3, BegunUndone
  <2> HIDE DEF gates
  <2>5. Prepares(Whole, t, v, p, gates)
    BY <2>4, RowDecoderInitializeGives
  <2> HIDE DEF v
  <2>6. Decodes(Whole, v, p)
    BY <2>4, <2>5 DEF Prepares, Decodes, Undone, Initializes, Begun
  <2>7. /\ Works(Whole, v, u, {p, Driver(p)}, {"cap"})
        /\ Fig(u, p, "cap") = {} /\ Fig(u, Driver(p), "cap") = {}
    BY <2>6, RowDecoderRCGives
  <2> HIDE DEF u
  <2>8. IsState(Whole, u) /\ u.bad = {} /\ u.complaints = {}
    BY <2>5, <2>7 DEF Prepares, Works, Computes, Initializes, Begun
  <2>9. u.made = t.made \cup {p, Driver(p)}
    BY <2>5, <2>7 DEF Prepares, Works, Computes, Initializes
  <2>10. (S \cup {p}) \cap Present = (S \cap Present) \cup {p}
    BY <1>2
  <2>11. u.made = ((S \cup {p}) \cap Present) \cup {Driver(q) : q \in (S \cup {p}) \cap Present}
    BY <2>9, <2>10 DEF Begun
  <2>12. \A q \in Whole, f \in Figure : Fig(u, q, f) = {}
    BY <2>5, <2>7, FigureNames DEF Prepares, Works, Begun
  <2>13. \A q \in (S \cup {p}) \cap Present : Fig(u, q, "gates") = Gates(q)
    BY <2>2, <2>3, <2>5, <2>7, FigureNames, NamesDiffer DEF Prepares, Works, Begun
  <2>14. ASSUME NEW q \in (S \cup {p}) \cap Present \cap Stages
         PROVE  Fig(u, q, "cap") = {} /\ Fig(u, Driver(q), "cap") = {}
    <3>1. CASE q = p
      BY <2>7, <3>1
    <3>2. CASE q # p
      <4>1. q \in Parts /\ Fig(t, q, "cap") = {} /\ Fig(t, Driver(q), "cap") = {}
        BY <3>2 DEF Begun, Parts
      <4>2. q \in Whole /\ Driver(q) \in Whole /\ {q, Driver(q)} \cap {p, Driver(p)} = {}
        BY <2>3, <3>2, <4>1, NamesDiffer
      <4> QED
        BY <2>5, <2>7, <4>1, <4>2, FigureNames DEF Prepares, Works
    <3> QED
      BY <3>1, <3>2
  <2> QED
    BY <2>1, <2>8, <2>11, <2>12, <2>13, <2>14 DEF Begun
<1> QED
  BY <1>1, <1>2

LEMMA MakeBasicBegun ==
  ASSUME NEW t, NEW S, S \subseteq Parts, Begun(t, S), NEW p \in Basic, p \notin S
  PROVE  Begun(MakeBasic(t, p), S \cup {p})
<1> DEFINE bits   == IF p = "A1" THEN BitsA1(n) ELSE 3
           inputs == IF bits = 1 THEN 0 ELSE bits
           u      == BasicDecoderInitialize(t, p, inputs)
<1>1. CASE p \notin Present
  <2>1. (S \cup {p}) \cap Present = S \cap Present
    BY <1>1
  <2> QED
    BY <1>1, <2>1 DEF MakeBasic, Begun
<1>2. CASE p \in Present
  <2>1. MakeBasic(t, p) = u
    BY <1>2 DEF MakeBasic
  <2>2. p \in Parts /\ p \notin Stages
    BY DEF Parts, Basic, Stages
  <2>3. Gates(p) = IF inputs = 0 THEN {} ELSE {p}
    BY <2>2 DEF Gates, Stages
  <2>4. Undone(Whole, t, p)
    BY <2>2, BegunUndone
  <2> HIDE DEF inputs
  <2>5. Prepares(Whole, t, u, p, Gates(p))
    BY <2>3, <2>4, BasicDecoderInitializeGives
  <2> HIDE DEF u
  <2>6. (S \cup {p}) \cap Present = (S \cap Present) \cup {p}
    BY <1>2
  <2>7. u.made = ((S \cup {p}) \cap Present) \cup {Driver(q) : q \in (S \cup {p}) \cap Present}
    BY <2>5, <2>6 DEF Prepares, Begun, Initializes
  <2>8. IsState(Whole, u) /\ u.bad = {} /\ u.complaints = {}
    BY <2>5 DEF Prepares, Initializes, Begun
  <2>9. \A q \in Whole, f \in Figure : Fig(u, q, f) = {}
    BY <2>5, FigureNames DEF Prepares, Begun
  <2>10. \A q \in (S \cup {p}) \cap Present : Fig(u, q, "gates") = Gates(q)
    BY <2>2, <2>5, FigureNames, NamesDiffer DEF Prepares, Begun
  <2>11. ASSUME NEW q \in (S \cup {p}) \cap Present \cap Stages
         PROVE  Fig(u, q, "cap") = {} /\ Fig(u, Driver(q), "cap") = {}
    <3>1. q \in S \cap Present \cap Stages /\ q \in Parts
      BY <2>2 DEF Parts
    <3> QED
      BY <2>5, <3>1, FigureNames, NamesDiffer DEF Prepares, Begun
  <2> QED
    BY <2>1, <2>7, <2>8, <2>9, <2>10, <2>11 DEF Begun
<1> QED
  BY <1>1, <1>2

(* An initialized block, whose stages have their capacitances worked out.   *)
Readied(t) ==
  /\ IsState(Whole, t) /\ t.bad = {} /\ t.complaints = {}
  /\ t.made = {"block"} \cup Present \cup {Driver(p) : p \in Present}
  /\ \A p \in Present : Fig(t, p, "gates") = Gates(p)
  /\ \A p \in Present \cap Stages :
       Fig(t, p, "cap") = {} /\ Fig(t, Driver(p), "cap") = {}
  /\ "stage2" \in Present =>
       \A f \in Energies \cup {"leakage"} : Fig(t, "stage2", f) = {}

Ready == Readied(s)

LEMMA PresentParts == Present \subseteq Parts /\ Basic \subseteq Parts /\ Stages \subseteq Parts
                        /\ Basic \cap Stages = {}
BY DEF Present, Parts, Basic, Stages

(* Calls on its parts leave it so.                                          *)
LEMMA WorkingDecodes ==
  ASSUME Ready, NEW t, NEW F, Works(Whole, s, t, Inner, F), "gates" \notin F,
         NEW p \in Present
  PROVE  Decodes(Whole, t, p) /\ Fig(t, p, "gates") = Gates(p)
<1>1. p \in Parts /\ p \in Whole /\ Driver(p) \in Whole /\ Driver(p) # p
  BY PresentParts, NamesDiffer
<1> QED
  BY <1>1, FigureNames DEF Ready, Readied, Works, Computes, Decodes

(* A part's own figures, and its driver's, are no other part's.             *)
LEMMA WorksInside ==
  ASSUME NEW t, NEW u, NEW p \in Parts, NEW F, NEW G,
         Works(Whole, s, t, Inner, G), Works(Whole, t, u, {p, Driver(p)}, F), F \subseteq G
  PROVE  /\ Works(Whole, s, u, Inner, G)
         /\ \A q \in Parts \ {p}, f \in Fields :
              /\ Fig(u, q, f) = Fig(t, q, f)
              /\ Fig(u, Driver(q), f) = Fig(t, Driver(q), f)
<1>1. {p, Driver(p)} \subseteq Inner
  BY DEF Inner
<1>2. Works(Whole, s, u, Inner, G)
  BY <1>1, WorksOn
<1>3. \A q \in Parts \ {p} : {q, Driver(q)} \cap {p, Driver(p)} = {} /\ q \in Whole
                               /\ Driver(q) \in Whole
  BY NamesDiffer
<1> QED
  BY <1>2, <1>3 DEF Works

LEMMA WorksNot == ASSUME IsState(Whole, s), NEW Q, NEW F
                  PROVE  Works(Whole, s, s, Q, F)
BY DEF Works, Computes

(* The driver of a part is beside its gates.                                *)
LEMMA ShareIs ==
  ASSUME NEW p \in Parts
  PROVE  /\ {Driver(p)} \oplus Gates(p) = Share(p)
         /\ ({Driver(p)} \cup {}) \oplus Gates(p) = Share(p)
         /\ Gates(p) \subseteq {p, Garbage}
<1>1. Gates(p) \subseteq {p, Garbage}
  BY DEF Gates, Unset
<1>2. Driver(p) # p /\ Driver(p) # Garbage
  BY NamesDiffer DEF Marks
<1>3. {Driver(p)} \cap Gates(p) = {}
  BY <1>1, <1>2
<1>4. {Driver(p)} \cup {} = {Driver(p)}
  OBVIOUS
<1> QED
  BY <1>1, <1>3, <1>4 DEF \oplus, Share

-----------------------------------------------------------------------------
(* CalculateArea(): the parts in S are through.                             *)
Areas(t, S) ==
  /\ Works(Whole, s, t, Inner, {"area"})
  /\ \A p \in S \cap Present : Fig(t, p, "area") = Share(p)

LEMMA AreaOfGives ==
  ASSUME Ready, NEW t, NEW S, Areas(t, S), NEW p \in Parts
  PROVE  Areas(AreaOf(t, p), S \cup {p})
<1>1. CASE p \notin Present
  BY <1>1 DEF AreaOf, Areas
<1>2. CASE p \in Present
  <2> DEFINE u == RowDecoderArea(t, p)
  <2>1. AreaOf(t, p) = u
    BY <1>2 DEF AreaOf, BasicDecoderArea
  <2>2. Decodes(Whole, t, p) /\ Fig(t, p, "gates") = Gates(p)
    BY <1>2, WorkingDecodes DEF Areas
  <2>3. /\ Works(Whole, t, u, {p, Driver(p)}, {"area"})
        /\ Fig(u, p, "area") = {Driver(p)} \oplus Fig(t, p, "gates")
    BY <2>2, RowDecoderAreaGives
  <2> HIDE DEF u
  <2>4. Fig(u, p, "area") = Share(p)
    BY <2>2, <2>3, ShareIs
  <2>5. /\ Works(Whole, s, u, Inner, {"area"})
        /\ \A q \in Parts \ {p}, f \in Fields : Fig(u, q, f) = Fig(t, q, f)
    BY <2>3, WorksInside DEF Areas
  <2>6. "area" \in Fields
    BY Names
  <2> QED
    BY <2>1, <2>4, <2>5, <2>6, PresentParts DEF Areas
<1> QED
  BY <1>1, <1>2

-----------------------------------------------------------------------------
(* CalculateRC().                                                           *)
Capacitances(t, S) ==
  /\ Works(Whole, s, t, Inner, {"cap"})
  /\ \A p \in Present : (p \in S \/ p \in Stages) =>
       /\ Fig(t, Driver(p), "cap") = {}
       /\ Gates(p) # {} => Fig(t, p, "cap") = {}

LEMMA RCOfGives ==
  ASSUME Ready, NEW t, NEW S, Capacitances(t, S), NEW p \in Parts
  PROVE  Capacitances(RCOf(t, p), S \cup {p})
<1>1. CASE p \notin Present
  BY <1>1 DEF RCOf, Capacitances
<1>2. CASE p \in Present
  <2> DEFINE u == BasicDecoderRC(t, p)
  <2>1. RCOf(t, p) = u
    BY <1>2 DEF RCOf
  <2>2. Decodes(Whole, t, p) /\ Fig(t, p, "gates") = Gates(p)
    BY <1>2, WorkingDecodes DEF Capacitances
  <2>3. /\ Works(Whole, t, u, {p, Driver(p)}, {"cap"})
        /\ Fig(u, Driver(p), "cap") = {}
        /\ Gates(p) # {} => Fig(u, p, "cap") = {}
    BY <2>2, BasicDecoderRCGives
  <2> HIDE DEF u
  <2>4. /\ Works(Whole, s, u, Inner, {"cap"})
        /\ \A q \in Parts \ {p} : /\ Fig(u, q, "cap") = Fig(t, q, "cap")
                                  /\ Fig(u, Driver(q), "cap") = Fig(t, Driver(q), "cap")
    BY <2>3, WorksInside, Names DEF Capacitances
  <2> QED
    BY <2>1, <2>3, <2>4, PresentParts DEF Capacitances
<1> QED
  BY <1>1, <1>2

-----------------------------------------------------------------------------
(* CalculatePower().                                                        *)
Powers(t, S) ==
  /\ Works(Whole, s, t, Inner, Energies \cup {"leakage"})
  /\ \A p \in S \cap Present, f \in Energies \cup {"leakage"} : Fig(t, p, f) = Share(p)
  /\ \A p \in Present \ S, f \in Energies \cup {"leakage"} : Fig(t, p, f) = Fig(s, p, f)

(* All capacitances are worked out.                                         *)
Loaded ==
  \A p \in Present : /\ Fig(s, Driver(p), "cap") = {}
                     /\ Gates(p) # {} => Fig(s, p, "cap") = {}

LEMMA OwnIs ==
  ASSUME Ready, Loaded, NEW t, NEW F, Works(Whole, s, t, Inner, F),
         F \cap {"gates", "cap"} = {}, NEW p \in Present
  PROVE  Own(t, p) = Gates(p) /\ Fig(t, Driver(p), "cap") = {}
<1>1. p \in Parts /\ p \in Whole /\ Driver(p) \in Whole
  BY PresentParts, NamesDiffer
<1>2. Fig(t, p, "gates") = Gates(p) /\ Fig(t, p, "cap") = Fig(s, p, "cap")
        /\ Fig(t, Driver(p), "cap") = Fig(s, Driver(p), "cap")
  BY <1>1, FigureNames DEF Ready, Readied, Works
<1>3. CASE Gates(p) = {}
  BY <1>2, <1>3 DEF Own, Loaded
<1>4. CASE Gates(p) # {}
  <2>1. Own(t, p) = Gates(p) \cup {}
    BY <1>2, <1>4 DEF Own, Loaded
  <2> QED
    BY <2>1, <1>2 DEF Loaded
<1> QED
  BY <1>3, <1>4

LEMMA PowerOfGives ==
  ASSUME Ready, Loaded, NEW t, NEW S, Powers(t, S), NEW p \in Parts, p \notin S
  PROVE  Powers(PowerOf(t, p), S \cup {p})
<1>1. CASE p \notin Present
  BY <1>1 DEF PowerOf, Powers
<1>2. CASE p \in Present
  <2> DEFINE u == RowDecoderPower(t, p)
             G == Energies \cup {"leakage"}
  <2>1. PowerOf(t, p) = u
    BY <1>2 DEF PowerOf, BasicDecoderPower
  <2>2. "gates" \notin G /\ "cap" \notin G /\ G \subseteq Fields
    BY Names DEF Energies
  <2>3. Decodes(Whole, t, p) /\ Fig(t, p, "gates") = Gates(p)
    BY <1>2, <2>2, WorkingDecodes DEF Powers
  <2>4. Own(t, p) = Gates(p) /\ Fig(t, Driver(p), "cap") = {}
    BY <1>2, <2>2, OwnIs DEF Powers
  <2>5. /\ Works(Whole, t, u, {p, Driver(p)}, G)
        /\ \A f \in Energies : Fig(u, p, f) = ({Driver(p)} \cup {}) \oplus Gates(p)
        /\ Fig(u, p, "leakage") = {Driver(p)} \oplus Gates(p)
    BY <2>3, <2>4, RowDecoderPowerGives
  <2> HIDE DEF u, G
  <2>6. \A f \in G : Fig(u, p, f) = Share(p)
    BY <2>5, ShareIs DEF G
  <2>7. Works(Whole, s, t, Inner, G)
    BY DEF Powers, G
  <2>8. /\ Works(Whole, s, u, Inner, G)
        /\ \A q \in Parts \ {p}, f \in Fields : Fig(u, q, f) = Fig(t, q, f)
    BY <2>5, <2>7, WorksInside
  <2>9. \A q \in (S \cup {p}) \cap Present, f \in G : Fig(u, q, f) = Share(q)
    BY <2>2, <2>6, <2>8, PresentParts DEF Powers, G
  <2>10. \A q \in Present \ (S \cup {p}), f \in G : Fig(u, q, f) = Fig(s, q, f)
    BY <2>2, <2>8, PresentParts DEF Powers, G
  <2> QED
    BY <2>1, <2>8, <2>9, <2>10 DEF Powers, G
<1> QED
  BY <1>1, <1>2

-----------------------------------------------------------------------------
(* CalculateLatency().                                                      *)
Timing == Latencies \cup {"ramp"}

LEMMA TimingNames == Timing \subseteq Fields /\ Timing \cap {"gates", "cap"} = {}
                       /\ "readLatency" \in Latencies /\ "ramp" \in Timing
                       /\ Latencies \subseteq Timing
BY Names DEF Timing, Latencies

(* A call that computes the latencies of one decoder, behind such a ramp.   *)
Delayed(t, u, p, ramp) ==
  /\ Works(Whole, s, u, Inner, Timing)
  /\ Works(Whole, t, u, {p, Driver(p)}, Timing)
  /\ \A f \in Latencies : Fig(u, p, f) = Share(p) \cup ramp
  /\ Fig(u, p, "ramp") = ramp \cup (Gates(p) \ {p})

(* One decoder behind an input that has no origin but the unset member.     *)
LEMMA LatencyGives ==
  ASSUME Ready, Loaded, NEW t, Works(Whole, s, t, Inner, Timing),
         NEW p \in Present, NEW ramp, ramp \subseteq {Garbage}
  PROVE  Delayed(t, RowDecoderLatency(t, p, ramp), p, ramp)
<1> DEFINE u     == RowDecoderLatency(t, p, ramp)
           delay == {Driver(p)} \cup {} \cup (ramp \cup (Gates(p) \ {p}))
<1>1. p \in Parts /\ Driver(p) # p /\ Driver(p) # Garbage
  BY PresentParts, NamesDiffer DEF Marks
<1>2. Decodes(Whole, t, p)
  BY TimingNames, WorkingDecodes
<1>3. Own(t, p) = Gates(p) /\ Fig(t, Driver(p), "cap") = {}
  BY TimingNames, OwnIs
<1>4. delay = {Driver(p)} \cup Fig(t, Driver(p), "cap") \cup (ramp \cup (Own(t, p) \ {p}))
  BY <1>3
<1> HIDE DEF delay
<1>5. DelaysRow(Whole, t, u, p, delay)
  BY <1>2, <1>4, RowDecoderLatencyGives
<1> HIDE DEF u
<1>6. Works(Whole, t, u, {p, Driver(p)}, Timing)
  BY <1>5 DEF Timing, DelaysRow
<1>7. Works(Whole, s, u, Inner, Timing)
  BY <1>1, <1>6, WorksInside
<1>8. Gates(p) \subseteq {p, Garbage}
  BY <1>1, ShareIs
<1>9. (delay \cap Gates(p)) \subseteq {Garbage, Worst}
  BY <1>1, <1>8 DEF delay
<1>10. delay \oplus Gates(p) = Share(p) \cup ramp
  BY <1>1, <1>8, <1>9 DEF \oplus, delay, Share
<1>11. delay \ {Driver(p)} = ramp \cup (Gates(p) \ {p})
  BY <1>1, <1>8 DEF delay
<1> QED
  BY <1>3, <1>5, <1>6, <1>7, <1>10, <1>11 DEF u, Delayed, DelaysRow

(* A block with a second stage has the first stage of group A, and those of *)
(* the other groups that have a decoder.                                    *)
StageOf(p) == CASE p \in {"A1", "A2"} -> "stage1A" [] p = "B" -> "stage1B"
                [] OTHER -> "stage1C"

LEMMA StagesPresent ==
  ASSUME Accepted, n <= MaxBits
  PROVE  /\ Present # {} => "A1" \in Present
         /\ \A p \in Basic \cap Present : "stage2" \in Present => StageOf(p) \in Present
         /\ \A p \in Basic : StageOf(p) \in Present => p \in Present \/ p = "A2"
         /\ "stage1A" \in Present \/ "stage2" \in Present => "A1" \in Present
<1>1. "stage2" \in Present => InputsA(n) > 0
  <2> SUFFICES ASSUME n # 0, TwoStages(n)
               PROVE  InputsA(n) > 0
    BY DEF Present
  <2>1. n \in Nat /\ n > 0 /\ n <= MaxBits
    BY DEF Accepted
  <2>2. n > 1 /\ Decoders(n) > 1
    BY <2>1, OneDecoder
  <2> QED
    BY <2>1, <2>2, GroupsShare
<1>2. "stage2" \in Present \/ "stage1A" \in Present => "A1" \in Present
  BY DEF Present
<1>3. "A1" \notin Present => Present = {}
  BY DEF Present
<1>4. "stage1A" \in Present <=> n # 0 /\ InputsA(n) > 0
  BY DEF Present
<1>5. /\ "B" \in Present <=> "stage1B" \in Present
      /\ "C" \in Present <=> "stage1C" \in Present
      /\ "stage2" \in Present => n # 0
  BY DEF Present
<1> QED
  BY <1>1, <1>2, <1>3, <1>4, <1>5 DEF Basic, StageOf

(* The stages behind a basic decoder.                                       *)
Along(p) == UNION {Share(r) : r \in {StageOf(p), "stage2"} \cap Present}

Behind(p) == {p, Driver(p), StageOf(p), Driver(StageOf(p)), "stage2", Driver("stage2")}

LEMMA PathGives ==
  ASSUME Ready, Loaded, Accepted, n <= MaxBits,
         NEW t, Works(Whole, s, t, Inner, Timing), NEW p \in Basic \cap Present
  PROVE  LET u == Path(t, p, StageOf(p))
         IN  /\ Works(Whole, s, u, Inner, Timing)
             /\ Works(Whole, t, u, Behind(p), Timing)
             /\ Fig(u, p, "readLatency") = Share(p)
             /\ Total(u, {StageOf(p), "stage2"} \cap Present, "readLatency") = Along(p)
             /\ RampOf(u, p, StageOf(p)) \subseteq Unset
<1> DEFINE stage   == StageOf(p)
           decoder == RowDecoderLatency(t, p, {})
           first   == StageLatency(decoder, stage, p)
           u       == StageLatency(first, "stage2", stage)
<1>1. Path(t, p, stage) = u
  BY DEF Path, BasicDecoderLatency
<1>2. /\ stage \in Stages \ {"stage2"} /\ stage \in Parts /\ p \in Parts /\ p # stage
      /\ p # "stage2" /\ stage # "stage2" /\ "stage2" \in Parts
  BY DEF StageOf, Stages, Parts, Basic
<1>3. Gates(p) \ {p} = {} /\ Gates(stage) = {stage} \cup Unset
        /\ Gates("stage2") = {"stage2"}
  BY <1>2 DEF Gates, Basic, Stages
<1>4. Unset \subseteq {Garbage} /\ stage # Garbage /\ "stage2" # Garbage
  BY <1>2, NamesDiffer DEF Unset, Marks
<1>5. Delayed(t, decoder, p, {})
  BY LatencyGives
<1> HIDE DEF decoder, stage
<1>6. /\ Works(Whole, s, decoder, Inner, Timing)
      /\ Works(Whole, t, decoder, {p, Driver(p)}, Timing)
      /\ Fig(decoder, p, "readLatency") = Share(p) /\ Fig(decoder, p, "ramp") = {}
  BY <1>3, <1>5, TimingNames DEF Delayed
<1>7. /\ Works(Whole, s, first, Inner, Timing)
      /\ Works(Whole, decoder, first, {stage, Driver(stage)}, Timing)
      /\ stage \in Present => Fig(first, stage, "readLatency") = Share(stage)
                                /\ Fig(first, stage, "ramp") = Unset
  <2>1. CASE stage \in Present
    <3> DEFINE v == RowDecoderLatency(decoder, stage, {})
    <3>1. first = v
      BY <1>6, <2>1 DEF StageLatency
    <3>2. Delayed(decoder, v, stage, {})
      BY <1>6, <2>1, LatencyGives
    <3> HIDE DEF v
    <3>3. Gates(stage) \ {stage} = Unset
      BY <1>3, <1>4
    <3> QED
      BY <3>1, <3>2, <3>3, TimingNames DEF Delayed
  <2>2. CASE stage \notin Present
    <3>1. first = decoder
      BY <2>2 DEF StageLatency
    <3>2. Works(Whole, decoder, decoder, {stage, Driver(stage)}, Timing)
      BY <1>6 DEF Works, Computes
    <3> QED
      BY <1>6, <2>2, <3>1, <3>2
  <2> QED
    BY <2>1, <2>2
<1> HIDE DEF first
<1>8. /\ Works(Whole, s, u, Inner, Timing)
      /\ Works(Whole, first, u, {"stage2", Driver("stage2")}, Timing)
      /\ "stage2" \in Present =>
           /\ stage \in Present
           /\ Fig(u, "stage2", "readLatency") = Share("stage2") \cup Unset
           /\ Fig(u, "stage2", "ramp") = Unset
  <2>1. CASE "stage2" \in Present
    <3> DEFINE v == RowDecoderLatency(first, "stage2", Unset)
    <3>1. stage \in Present
      BY <2>1, StagesPresent DEF stage
    <3>2. u = v
      BY <1>7, <2>1, <3>1 DEF StageLatency
    <3>3. Delayed(first, v, "stage2", Unset)
      BY <1>4, <1>7, <2>1, LatencyGives
    <3> HIDE DEF v
    <3>4. Unset \cup (Gates("stage2") \ {"stage2"}) = Unset
      BY <1>3
    <3> QED
      BY <3>1, <3>2, <3>3, <3>4, TimingNames DEF Delayed
  <2>2. CASE "stage2" \notin Present
    <3>1. u = first
      BY <2>2 DEF StageLatency
    <3>2. Works(Whole, first, first, {"stage2", Driver("stage2")}, Timing)
      BY <1>7 DEF Works, Computes
    <3> QED
      BY <1>7, <2>2, <3>1, <3>2
  <2> QED
    BY <2>1, <2>2
<1> HIDE DEF u
<1>9. /\ {p, Driver(p)} \cap {stage, Driver(stage)} = {}
      /\ {p, Driver(p)} \cap {"stage2", Driver("stage2")} = {}
      /\ {stage, Driver(stage)} \cap {"stage2", Driver("stage2")} = {}
      /\ {p, Driver(p), stage, Driver(stage), "stage2", Driver("stage2")} \subseteq Whole
  BY <1>2, NamesDiffer
<1>10. "readLatency" \in Fields /\ "ramp" \in Fields
  BY TimingNames
<1>11. Fig(u, p, "readLatency") = Share(p) /\ Fig(u, p, "ramp") = {}
  <2>1. p \in Whole /\ p \notin {stage, Driver(stage)} /\ p \notin {"stage2", Driver("stage2")}
    BY <1>9
  <2>2. \A f \in Fields : Fig(first, p, f) = Fig(decoder, p, f)
    BY <1>7, <2>1 DEF Works
  <2>3. \A f \in Fields : Fig(u, p, f) = Fig(first, p, f)
    BY <1>8, <2>1 DEF Works
  <2> QED
    BY <1>6, <1>10, <2>2, <2>3
<1>12. stage \in Present => Fig(u, stage, "readLatency") = Share(stage)
                              /\ Fig(u, stage, "ramp") = Unset
  BY <1>7, <1>8, <1>9, <1>10 DEF Works
<1>13. Works(Whole, t, u, Behind(p), Timing)
  <2>1. /\ {p, Driver(p)} \subseteq Behind(p) /\ {stage, Driver(stage)} \subseteq Behind(p)
        /\ {"stage2", Driver("stage2")} \subseteq Behind(p)
    BY DEF Behind, stage
  <2> QED
    BY <1>6, <1>7, <1>8, <2>1 DEF Works, Computes
<1>14. Total(u, {stage, "stage2"} \cap Present, "readLatency") = Along(p)
  <2>1. CASE "stage2" \in Present
    <3>1. {stage, "stage2"} \cap Present = {stage, "stage2"}
      BY <1>8, <2>1
    <3>2. /\ Total(u, {stage, "stage2"}, "readLatency")
               = Share(stage) \cup (Share("stage2") \cup Unset)
          /\ UNION {Share(r) : r \in {stage, "stage2"}} = Share(stage) \cup Share("stage2")
      BY <1>8, <1>12, <2>1 DEF Total
    <3>3. Unset \subseteq Share(stage)
      BY <1>3 DEF Share
    <3> QED
      BY <3>1, <3>2, <3>3 DEF Along, stage
  <2>2. CASE "stage2" \notin Present /\ stage \in Present
    <3>1. {stage, "stage2"} \cap Present = {stage}
      BY <2>2
    <3> QED
      BY <1>12, <2>2, <3>1 DEF Along, Total, stage
  <2>3. CASE "stage2" \notin Present /\ stage \notin Present
    <3>1. {stage, "stage2"} \cap Present = {}
      BY <2>3
    <3> QED
      BY <3>1 DEF Along, Total, stage
  <2> QED
    BY <2>1, <2>2, <2>3
<1>15. RampOf(u, p, stage) \subseteq Unset
  BY <1>8, <1>11, <1>12 DEF RampOf
<1> QED
  BY <1>1, <1>8, <1>11, <1>13, <1>14, <1>15 DEF stage

-----------------------------------------------------------------------------
(* The shares of several parts.                                             *)
Sum(parts) == UNION {Share(p) : p \in parts}

(* Initialize().                                                            *)
LEMMA InitializeGives ==
  ASSUME Begun(s, {}),
         NEW t, t = Made(Each4(Each4(s, MakeStage, "stage2", "stage1A", "stage1B", "stage1C"),
                               MakeBasic, "C", "B", "A1", "A2"), "block")
  PROVE  Readied(t)
<1> DEFINE t1 == MakeStage(s, "stage2")
           t2 == MakeStage(t1, "stage1A")
           t3 == MakeStage(t2, "stage1B")
           t4 == MakeStage(t3, "stage1C")
           u1 == MakeBasic(t4, "C")
           u2 == MakeBasic(u1, "B")
           u3 == MakeBasic(u2, "A1")
           u4 == MakeBasic(u3, "A2")
<1>1. t = Made(u4, "block")
  BY DEF Each4, Each3
<1>2. Begun(t1, {} \cup {"stage2"})
  BY MakeStageBegun DEF Stages
<1> HIDE DEF t1
<1>3. Begun(t2, ({} \cup {"stage2"}) \cup {"stage1A"})
  BY <1>2, MakeStageBegun DEF Stages, Parts
<1> HIDE DEF t2
<1>4. Begun(t3, {"stage2", "stage1A"} \cup {"stage1B"})
  <2>1. ({} \cup {"stage2"}) \cup {"stage1A"} = {"stage2", "stage1A"}
    OBVIOUS
  <2> QED
    BY <1>3, <2>1, MakeStageBegun DEF Stages, Parts
<1> HIDE DEF t3
<1>5. Begun(t4, {"stage2", "stage1A", "stage1B"} \cup {"stage1C"})
  <2>1. {"stage2", "stage1A"} \cup {"stage1B"} = {"stage2", "stage1A", "stage1B"}
    OBVIOUS
  <2> QED
    BY <1>4, <2>1, MakeStageBegun DEF Stages, Parts
<1> HIDE DEF t4
<1>6. Begun(u1, Stages \cup {"C"})
  <2>1. {"stage2", "stage1A", "stage1B"} \cup {"stage1C"} = Stages
    BY DEF Stages
  <2> QED
    BY <1>5, <2>1, MakeBasicBegun DEF Stages, Parts, Basic
<1> HIDE DEF u1
<1>7. Begun(u2, (Stages \cup {"C"}) \cup {"B"})
  BY <1>6, MakeBasicBegun DEF Stages, Parts, Basic
<1> HIDE DEF u2
<1>8. Begun(u3, ((Stages \cup {"C"}) \cup {"B"}) \cup {"A1"})
  BY <1>7, MakeBasicBegun DEF Stages, Parts, Basic
<1> HIDE DEF u3
<1>9. Begun(u4, Parts)
  <2>1. (((Stages \cup {"C"}) \cup {"B"}) \cup {"A1"}) \cup {"A2"} = Parts
    BY DEF Parts, Basic
  <2>2. Begun(u4, (((Stages \cup {"C"}) \cup {"B"}) \cup {"A1"}) \cup {"A2"})
    BY <1>8, MakeBasicBegun DEF Stages, Parts, Basic
  <2> QED
    BY <2>1, <2>2
<1> HIDE DEF u4
<1>10. Parts \cap Present = Present
  BY PresentParts
<1>11. u4.made = Present \cup {Driver(p) : p \in Present} /\ "block" \notin u4.made
  BY <1>9, <1>10, NamesDiffer, PresentParts DEF Begun
<1>12. /\ IsState(Whole, t) /\ t.made = u4.made \cup {"block"} /\ t.bad = {}
       /\ t.complaints = {}
       /\ \A q \in Whole, f \in Fields : Fig(t, q, f) = Fig(u4, q, f)
  <2>1. IsState(Whole, u4) /\ u4.bad = {} /\ u4.complaints = {} /\ "block" \in Whole
    BY <1>9, NamesDiffer DEF Begun
  <2> QED
    BY <1>1, <1>11, <2>1, MadeGives
<1>13. t.made = {"block"} \cup Present \cup {Driver(p) : p \in Present}
  BY <1>11, <1>12
<1>14. \A p \in Present : p \in Whole /\ Driver(p) \in Whole /\ p \in Parts
  BY NamesDiffer, PresentParts
<1>15. \A p \in Present : Fig(t, p, "gates") = Gates(p)
  BY <1>9, <1>10, <1>12, <1>14, FigureNames DEF Begun
<1>16. \A p \in Present \cap Stages : Fig(t, p, "cap") = {} /\ Fig(t, Driver(p), "cap") = {}
  BY <1>9, <1>10, <1>12, <1>14, FigureNames DEF Begun
<1>17. "stage2" \in Present => \A f \in Energies \cup {"leakage"} : Fig(t, "stage2", f) = {}
  <2>1. Energies \cup {"leakage"} \subseteq Figure
    BY DEF Energies, Figure
  <2> QED
    BY <1>9, <1>12, <1>14, <2>1, FigureNames DEF Begun
<1> QED
  BY <1>12, <1>13, <1>15, <1>16, <1>17 DEF Readied

(* What a call has to leave alone for a block to stay ready.                *)
LEMMA StaysReady ==
  ASSUME Ready, NEW t, NEW F, Works(Whole, s, t, Whole, F), "gates" \notin F,
         \A p \in Present \cap Stages :
           /\ Fig(t, p, "cap") = {} /\ Fig(t, Driver(p), "cap") = {},
         "stage2" \in Present =>
           \A f \in Energies \cup {"leakage"} : Fig(t, "stage2", f) = {}
  PROVE  Readied(t)
<1>1. \A p \in Present : p \in Whole
  BY NamesDiffer, PresentParts
<1> QED
  BY <1>1, FigureNames DEF Ready, Readied, Works, Computes

LEMMA AreaGives ==
  ASSUME Ready,
         NEW u, u = Each4(Each4(s, AreaOf, "A1", "A2", "B", "C"),
                          AreaOf, "stage1A", "stage1B", "stage1C", "stage2"),
         NEW t, t = Put(u, "block", [area |-> Total(u, Present, "area")])
  PROVE  /\ Readied(t)
         /\ Fig(t, "block", "area") = Sum(Present)
<1> DEFINE t1 == AreaOf(s, "A1")
           t2 == AreaOf(t1, "A2")
           t3 == AreaOf(t2, "B")
           t4 == AreaOf(t3, "C")
           t5 == AreaOf(t4, "stage1A")
           t6 == AreaOf(t5, "stage1B")
           t7 == AreaOf(t6, "stage1C")
           t8 == AreaOf(t7, "stage2")
<1>1. u = t8
  BY DEF Each4, Each3
<1>2. Areas(s, {})
  BY WorksNot DEF Areas, Ready, Readied
<1>3. Areas(t1, {} \cup {"A1"})
  BY <1>2, AreaOfGives DEF Parts, Basic
<1> HIDE DEF t1
<1>4. Areas(t2, ({} \cup {"A1"}) \cup {"A2"})
  BY <1>3, AreaOfGives DEF Parts, Basic
<1> HIDE DEF t2
<1>5. Areas(t3, (({} \cup {"A1"}) \cup {"A2"}) \cup {"B"})
  BY <1>4, AreaOfGives DEF Parts, Basic
<1> HIDE DEF t3
<1>6. Areas(t4, Basic \cup {})
  <2>1. ((({} \cup {"A1"}) \cup {"A2"}) \cup {"B"}) \cup {"C"} = Basic \cup {}
    BY DEF Basic
  <2> QED
    BY <1>5, <2>1, AreaOfGives DEF Parts, Basic
<1> HIDE DEF t4
<1>7. Areas(t5, (Basic \cup {}) \cup {"stage1A"})
  BY <1>6, AreaOfGives DEF Parts, Stages
<1> HIDE DEF t5
<1>8. Areas(t6, ((Basic \cup {}) \cup {"stage1A"}) \cup {"stage1B"})
  BY <1>7, AreaOfGives DEF Parts, Stages
<1> HIDE DEF t6
<1>9. Areas(t7, (((Basic \cup {}) \cup {"stage1A"}) \cup {"stage1B"}) \cup {"stage1C"})
  BY <1>8, AreaOfGives DEF Parts, Stages
<1> HIDE DEF t7
<1>10. Areas(t8, Parts)
  <2>1. ((((Basic \cup {}) \cup {"stage1A"}) \cup {"stage1B"}) \cup {"stage1C"}) \cup {"stage2"}
          = Parts
    BY DEF Parts, Stages
  <2>2. Areas(t8, ((((Basic \cup {}) \cup {"stage1A"}) \cup {"stage1B"}) \cup {"stage1C"})
                    \cup {"stage2"})
    BY <1>9, AreaOfGives DEF Parts, Stages
  <2> QED
    BY <2>1, <2>2
<1> HIDE DEF t8
<1>11. Works(Whole, s, u, Inner, {"area"}) /\ IsState(Whole, u)
  BY <1>1, <1>10 DEF Areas, Works, Computes
<1>12. Total(u, Present, "area") = Sum(Present)
  <2>1. \A p \in Present : Fig(u, p, "area") = Share(p)
    BY <1>1, <1>10, PresentParts DEF Areas
  <2> QED
    BY <2>1 DEF Total, Sum
<1>13. Sets(Whole, u, t, "block", {"area"}, Sum(Present))
  <2>1. t = Put(u, "block", All({"area"}, Sum(Present)))
    BY <1>12, OneField
  <2> QED
    BY <1>11, <2>1, PutAll, Names, NamesDiffer
<1>14. Works(Whole, s, t, Whole, {"area"})
  BY <1>11, <1>13 DEF Works, Sets, Computes, Whole
<1>15. Fig(t, "block", "area") = Sum(Present)
  BY <1>13, Names, NamesDiffer DEF Sets
<1>16. Readied(t)
  <2>1. "gates" \notin {"area"} /\ "cap" \notin {"area"}
          /\ {"area"} \cap (Energies \cup {"leakage"}) = {}
    BY DEF Energies
  <2>2. \A p \in Present : p \in Whole /\ Driver(p) \in Whole
    BY NamesDiffer, PresentParts
  <2>3. \A p \in Present \cap Stages : Fig(t, p, "cap") = {} /\ Fig(t, Driver(p), "cap") = {}
    BY <1>14, <2>1, <2>2, FigureNames DEF Works, Ready, Readied
  <2>4. "stage2" \in Present =>
          \A f \in Energies \cup {"leakage"} : Fig(t, "stage2", f) = {}
    BY <1>14, <2>1, <2>2, Names DEF Works, Ready, Readied
  <2> QED
    BY <1>14, <2>1, <2>3, <2>4, StaysReady
<1> QED
  BY <1>15, <1>16

LEMMA RCGives ==
  ASSUME Ready, NEW t, t = Each4(s, RCOf, "A1", "A2", "B", "C")
  PROVE  /\ Readied(t)
         /\ Fig(t, "block", "area") = Fig(s, "block", "area")
         /\ \A p \in Present : /\ Fig(t, Driver(p), "cap") = {}
                               /\ Gates(p) # {} => Fig(t, p, "cap") = {}
<1> DEFINE t1 == RCOf(s, "A1")
           t2 == RCOf(t1, "A2")
           t3 == RCOf(t2, "B")
           t4 == RCOf(t3, "C")
<1>1. t = t4
  BY DEF Each4, Each3
<1>2. Capacitances(s, {})
  BY WorksNot DEF Capacitances, Ready, Readied
<1>3. Capacitances(t1, {} \cup {"A1"})
  BY <1>2, RCOfGives DEF Parts, Basic
<1> HIDE DEF t1
<1>4. Capacitances(t2, ({} \cup {"A1"}) \cup {"A2"})
  BY <1>3, RCOfGives DEF Parts, Basic
<1> HIDE DEF t2
<1>5. Capacitances(t3, (({} \cup {"A1"}) \cup {"A2"}) \cup {"B"})
  BY <1>4, RCOfGives DEF Parts, Basic
<1> HIDE DEF t3
<1>6. Capacitances(t4, Basic)
  <2>1. ((({} \cup {"A1"}) \cup {"A2"}) \cup {"B"}) \cup {"C"} = Basic
    BY DEF Basic
  <2> QED
    BY <1>5, <2>1, RCOfGives DEF Parts, Basic
<1> HIDE DEF t4
<1>7. Works(Whole, s, t, Inner, {"cap"})
  BY <1>1, <1>6 DEF Capacitances
<1>8. \A p \in Present : /\ Fig(t, Driver(p), "cap") = {}
                         /\ Gates(p) # {} => Fig(t, p, "cap") = {}
  BY <1>1, <1>6, PresentParts DEF Capacitances, Parts
<1>9. Works(Whole, s, t, Whole, {"cap"})
  BY <1>7 DEF Works, Whole
<1>10. \A p \in Present \cap Stages : Fig(t, p, "cap") = {} /\ Fig(t, Driver(p), "cap") = {}
  <2>1. \A p \in Stages : p \in Gates(p)
    BY DEF Gates, Stages
  <2> QED
    BY <1>8, <2>1
<1>11. "stage2" \in Present =>
         \A f \in Energies \cup {"leakage"} : Fig(t, "stage2", f) = {}
  <2>1. Energies \cup {"leakage"} \subseteq Fields /\ "cap" \notin Energies \cup {"leakage"}
    BY Names DEF Energies
  <2>2. "stage2" \in Present => "stage2" \in Whole
    BY NamesDiffer, PresentParts
  <2> QED
    BY <1>7, <2>1, <2>2 DEF Works, Ready, Readied
<1>12. Readied(t)
  BY <1>9, <1>10, <1>11, StaysReady
<1>13. Fig(t, "block", "area") = Fig(s, "block", "area")
  BY <1>7, Names, NamesDiffer DEF Works
<1> QED
  BY <1>8, <1>12, <1>13

LEMMA PowerGives ==
  ASSUME Ready, Loaded,
         NEW u, u = Each3(Each4(s, PowerOf, "A1", "A2", "B", "C"),
                          PowerOf, "stage1A", "stage1B", "stage1C"),
         NEW t, t = Put(u, "block", All(Energies, Total(u, Present, "readEnergy"))
                                      ++ [leakage |-> Total(u, Present, "leakage")])
  PROVE  /\ Readied(t)
         /\ \A f \in Energies \cup {"leakage"} :
              Fig(t, "block", f) = Sum(Present \ {"stage2"})
         /\ \A f \in Fields \ (Energies \cup {"leakage"}) :
              Fig(t, "block", f) = Fig(s, "block", f)
         /\ \A p \in Present : /\ Fig(t, Driver(p), "cap") = {}
                               /\ Gates(p) # {} => Fig(t, p, "cap") = {}
<1> DEFINE t1 == PowerOf(s, "A1")
           t2 == PowerOf(t1, "A2")
           t3 == PowerOf(t2, "B")
           t4 == PowerOf(t3, "C")
           t5 == PowerOf(t4, "stage1A")
           t6 == PowerOf(t5, "stage1B")
           t7 == PowerOf(t6, "stage1C")
           G  == Energies \cup {"leakage"}
<1>1. u = t7
  BY DEF Each4, Each3
<1>2. Powers(s, {})
  BY WorksNot DEF Powers, Ready, Readied
<1>3. Powers(t1, {} \cup {"A1"})
  BY <1>2, PowerOfGives DEF Parts, Basic
<1> HIDE DEF t1
<1>4. Powers(t2, ({} \cup {"A1"}) \cup {"A2"})
  BY <1>3, PowerOfGives DEF Parts, Basic
<1> HIDE DEF t2
<1>5. Powers(t3, (({} \cup {"A1"}) \cup {"A2"}) \cup {"B"})
  BY <1>4, PowerOfGives DEF Parts, Basic
<1> HIDE DEF t3
<1>6. Powers(t4, Basic)
  <2>1. ((({} \cup {"A1"}) \cup {"A2"}) \cup {"B"}) \cup {"C"} = Basic
    BY DEF Basic
  <2>2. Powers(t4, ((({} \cup {"A1"}) \cup {"A2"}) \cup {"B"}) \cup {"C"})
    BY <1>5, PowerOfGives DEF Parts, Basic
  <2> QED
    BY <2>1, <2>2
<1> HIDE DEF t4
<1>7. Powers(t5, Basic \cup {"stage1A"})
  BY <1>6, PowerOfGives DEF Parts, Stages, Basic
<1> HIDE DEF t5
<1>8. Powers(t6, (Basic \cup {"stage1A"}) \cup {"stage1B"})
  BY <1>7, PowerOfGives DEF Parts, Stages, Basic
<1> HIDE DEF t6
<1>9. Powers(t7, ((Basic \cup {"stage1A"}) \cup {"stage1B"}) \cup {"stage1C"})
  BY <1>8, PowerOfGives DEF Parts, Stages, Basic
<1> HIDE DEF t7
<1>10. /\ (((Basic \cup {"stage1A"}) \cup {"stage1B"}) \cup {"stage1C"}) \cap Present
            = Present \ {"stage2"}
       /\ Present \ (((Basic \cup {"stage1A"}) \cup {"stage1B"}) \cup {"stage1C"})
            = Present \cap {"stage2"}
  BY PresentParts DEF Parts, Stages, Basic
<1>11. G \subseteq Fields /\ "gates" \notin G /\ "cap" \notin G /\ "readEnergy" \in G
         /\ "leakage" \notin Energies /\ "leakage" \in G
  BY Names DEF Energies
<1>12. \A f \in G : /\ \A p \in Present \ {"stage2"} : Fig(u, p, f) = Share(p)
                    /\ \A p \in Present \cap {"stage2"} : Fig(u, p, f) = {}
  BY <1>1, <1>9, <1>10 DEF Powers, Ready, Readied
<1>13. Works(Whole, s, u, Inner, G) /\ IsState(Whole, u)
  BY <1>1, <1>9 DEF Powers, Works, Computes
<1> HIDE DEF G
<1>14. \A f \in G : Total(u, Present, f) = Sum(Present \ {"stage2"})
  BY <1>12 DEF Total, Sum
<1> DEFINE x == Sum(Present \ {"stage2"})
<1>15. t = Put(u, "block", All(Energies, x) ++ All({"leakage"}, x))
  BY <1>11, <1>14, OneField
<1> HIDE DEF x
<1>16. SetsTwo(Whole, u, t, "block", Energies, x, {"leakage"}, x)
  BY <1>13, <1>15, PutTwo, Names, NamesDiffer
<1>17. \A f \in G : Fig(t, "block", f) = x
  BY <1>11, <1>16, NamesDiffer DEF SetsTwo, G
<1>18. Works(Whole, s, t, Whole, G)
  BY <1>13, <1>16 DEF Works, SetsTwo, Computes, Whole, G
<1>19. \A f \in Fields \ G : Fig(t, "block", f) = Fig(s, "block", f)
  BY <1>18, NamesDiffer DEF Works
<1>20. \A p \in Present : p \in Whole /\ Driver(p) \in Whole /\ p # "block"
  BY NamesDiffer, PresentParts
<1>21. \A p \in Present : /\ Fig(t, p, "cap") = Fig(s, p, "cap")
                          /\ Fig(t, Driver(p), "cap") = Fig(s, Driver(p), "cap")
  BY <1>11, <1>18, <1>20, FigureNames DEF Works
<1>22. \A p \in Present \cap Stages : Fig(t, p, "cap") = {} /\ Fig(t, Driver(p), "cap") = {}
  BY <1>21 DEF Ready, Readied
<1>23. "stage2" \in Present => \A f \in G : Fig(t, "stage2", f) = {}
  BY <1>11, <1>12, <1>16, <1>20 DEF SetsTwo
<1>24. Readied(t)
  BY <1>11, <1>18, <1>22, <1>23, StaysReady DEF G
<1> QED
  BY <1>17, <1>19, <1>21, <1>24 DEF x, G, Loaded

(* The delay along a path, with the share of basic decoder q.               *)
LEMMA DelayIs ==
  ASSUME NEW u, NEW p \in Basic \cap Present, NEW q \in Basic,
         Fig(u, q, "readLatency") = Share(q),
         Total(u, {StageOf(p), "stage2"} \cap Present, "readLatency") = Along(p)
  PROVE  Delay(u, p, StageOf(p), q) = Share(q) \cup Along(p)
<1>1. Share(q) \subseteq {q, Driver(q)}
  BY DEF Share, Gates, Basic, Stages
<1>2. q \in Parts /\ q \notin Stages /\ StageOf(p) \in Stages /\ "stage2" \in Stages
  BY DEF Parts, Basic, Stages, StageOf
<1>3. ASSUME NEW r \in Stages
      PROVE  {q, Driver(q)} \cap Share(r) = {}
  <2>1. r \in Parts /\ q # r /\ Share(r) \subseteq {r, Driver(r), Garbage}
    BY <1>2, ShareIs DEF Share, Parts
  <2> QED
    BY <1>2, <2>1, NamesDiffer DEF Marks
<1>4. Share(q) \cap Along(p) = {}
  BY <1>1, <1>2, <1>3 DEF Along
<1> QED
  BY <1>4 DEF Delay, \oplus

(* A path, if there is one.                                                 *)
Walked(t, u, p) ==
  /\ Works(Whole, s, u, Inner, Timing)
  /\ \A q \in Basic \ {p} : Fig(u, q, "readLatency") = Fig(t, q, "readLatency")
  /\ p \in Present =>
       /\ Fig(u, p, "readLatency") = Share(p)
       /\ Total(u, {StageOf(p), "stage2"} \cap Present, "readLatency") = Along(p)
  /\ RampOf(u, p, StageOf(p)) \subseteq Unset

LEMMA PathOrNot ==
  ASSUME Ready, Loaded, Accepted, n <= MaxBits,
         NEW t, Works(Whole, s, t, Inner, Timing), NEW p \in Basic
  PROVE  Walked(t, Path(t, p, StageOf(p)), p)
<1> DEFINE u == Path(t, p, StageOf(p))
<1>1. CASE p \notin Present
  <2>1. u = t
    BY <1>1 DEF Path
  <2>2. RampOf(t, p, StageOf(p)) = {}
    BY <1>1 DEF RampOf
  <2>3. Walked(t, t, p)
    BY <1>1, <2>2 DEF Walked
  <2> QED
    BY <2>1, <2>3
<1>2. CASE p \in Present
  <2>1. /\ Works(Whole, s, u, Inner, Timing)
        /\ Works(Whole, t, u, Behind(p), Timing)
        /\ Fig(u, p, "readLatency") = Share(p)
        /\ Total(u, {StageOf(p), "stage2"} \cap Present, "readLatency") = Along(p)
        /\ RampOf(u, p, StageOf(p)) \subseteq Unset
    BY <1>2, PathGives
  <2> HIDE DEF u
  <2>2. ASSUME NEW q \in Basic \ {p}
        PROVE  q \in Whole /\ q \notin Behind(p)
    <3>1. q \in Parts /\ q # p /\ q # StageOf(p) /\ q # "stage2"
      BY DEF Parts, Basic, StageOf
    <3>2. p \in Parts /\ StageOf(p) \in Parts /\ "stage2" \in Parts
      BY DEF Parts, Basic, Stages, StageOf
    <3> QED
      BY <3>1, <3>2, NamesDiffer DEF Behind
  <2>3. \A q \in Basic \ {p} : Fig(u, q, "readLatency") = Fig(t, q, "readLatency")
    BY <2>1, <2>2, TimingNames DEF Works
  <2> QED
    BY <2>1, <2>3 DEF u, Walked
<1> QED
  BY <1>1, <1>2

(* The four paths, one after the other, and what CalculateLatency() makes   *)
(* of them.                                                                 *)
PathA1 == Path(s, "A1", "stage1A")
PathA2 == Path(PathA1, "A2", "stage1A")
PathB  == Path(PathA2, "B", "stage1B")
PathC  == Path(PathB, "C", "stage1C")

BlockDelay ==
  Delay(PathA1, "A1", "stage1A", "A1") \cup Delay(PathA2, "A2", "stage1A", "A1")
    \cup Delay(PathB, "B", "stage1B", "B") \cup Delay(PathC, "C", "stage1C", "C")
BlockRamp ==
  RampOf(PathA1, "A1", "stage1A") \cup RampOf(PathA2, "A2", "stage1A")
    \cup RampOf(PathB, "B", "stage1B") \cup RampOf(PathC, "C", "stage1C")

LEMMA LatencyOfBlock ==
  ASSUME Ready, Loaded, Accepted, n <= MaxBits
  PROVE  /\ Works(Whole, s, PathC, Inner, Timing)
         /\ BlockDelay = Sum(Present \ {"A2"})
         /\ BlockRamp \subseteq Unset
<1> DEFINE a1 == PathA1
           a2 == PathA2
           b  == PathB
           c  == PathC
           delay == BlockDelay
           ramp  == BlockRamp
<1>0. /\ a1 = Path(s, "A1", "stage1A") /\ a2 = Path(a1, "A2", "stage1A")
      /\ b = Path(a2, "B", "stage1B") /\ c = Path(b, "C", "stage1C")
      /\ delay = Delay(a1, "A1", "stage1A", "A1") \cup Delay(a2, "A2", "stage1A", "A1")
                   \cup Delay(b, "B", "stage1B", "B") \cup Delay(c, "C", "stage1C", "C")
      /\ ramp = RampOf(a1, "A1", "stage1A") \cup RampOf(a2, "A2", "stage1A")
                  \cup RampOf(b, "B", "stage1B") \cup RampOf(c, "C", "stage1C")
  BY DEF PathA1, PathA2, PathB, PathC, BlockDelay, BlockRamp
<1> HIDE DEF a1, a2, b, c, delay, ramp
<1>1. /\ StageOf("A1") = "stage1A" /\ StageOf("A2") = "stage1A"
      /\ StageOf("B") = "stage1B" /\ StageOf("C") = "stage1C"
      /\ {"A1", "A2", "B", "C"} \subseteq Basic
  BY DEF StageOf, Basic
<1>2. Works(Whole, s, s, Inner, Timing)
  BY WorksNot DEF Ready, Readied
<1>3. Walked(s, a1, "A1")
  BY <1>0, <1>1, <1>2, PathOrNot
<1>4. Walked(a1, a2, "A2")
  BY <1>0, <1>1, <1>3, PathOrNot DEF Walked
<1>5. Walked(a2, b, "B")
  BY <1>0, <1>1, <1>4, PathOrNot DEF Walked
<1>6. Walked(b, c, "C")
  BY <1>0, <1>1, <1>5, PathOrNot DEF Walked
<1>7. Along("A2") = Along("A1")
  BY <1>1 DEF Along
<1>8. /\ Delay(a1, "A1", "stage1A", "A1") =
           IF "A1" \in Present THEN Share("A1") \cup Along("A1") ELSE {}
      /\ Delay(b, "B", "stage1B", "B") =
           IF "B" \in Present THEN Share("B") \cup Along("B") ELSE {}
      /\ Delay(c, "C", "stage1C", "C") =
           IF "C" \in Present THEN Share("C") \cup Along("C") ELSE {}
  <2>1. \A u, p, stage, q : p \notin Present => Delay(u, p, stage, q) = {}
    BY DEF Delay
  <2>2. "A1" \in Present => Delay(a1, "A1", "stage1A", "A1") = Share("A1") \cup Along("A1")
    BY <1>1, <1>3, DelayIs DEF Walked
  <2>3. "B" \in Present => Delay(b, "B", "stage1B", "B") = Share("B") \cup Along("B")
    BY <1>1, <1>5, DelayIs DEF Walked
  <2>4. "C" \in Present => Delay(c, "C", "stage1C", "C") = Share("C") \cup Along("C")
    BY <1>1, <1>6, DelayIs DEF Walked
  <2> QED
    BY <2>1, <2>2, <2>3, <2>4
<1>9. Delay(a2, "A2", "stage1A", "A1") \subseteq Delay(a1, "A1", "stage1A", "A1")
  <2>1. CASE "A2" \notin Present
    BY <2>1 DEF Delay
  <2>2. CASE "A2" \in Present
    <3>1. "A1" \in Present
      BY <2>2, StagesPresent
    <3>2. Delay(a2, "A2", "stage1A", "A1") = Share("A1") \cup Along("A2")
      <4>1. Fig(a2, "A1", "readLatency") = Share("A1")
        BY <1>1, <1>3, <1>4, <3>1 DEF Walked
      <4>2. Total(a2, {"stage1A", "stage2"} \cap Present, "readLatency") = Along("A2")
        BY <1>1, <1>4, <2>2 DEF Walked
      <4> QED
        BY <1>1, <2>2, <4>1, <4>2, DelayIs
    <3> QED
      BY <1>7, <1>8, <3>1, <3>2
  <2> QED
    BY <2>1, <2>2
<1>10. delay = (IF "A1" \in Present THEN Share("A1") \cup Along("A1") ELSE {})
                 \cup (IF "B" \in Present THEN Share("B") \cup Along("B") ELSE {})
                 \cup (IF "C" \in Present THEN Share("C") \cup Along("C") ELSE {})
  BY <1>0, <1>8, <1>9
<1>11. ASSUME NEW x \in delay
       PROVE  x \in Sum(Present \ {"A2"})
  <2>1. PICK p \in {"A1", "B", "C"} \cap Present : x \in Share(p) \cup Along(p)
    BY <1>10
  <2>2. StageOf(p) # "A2" /\ p # "A2"
    BY <1>1
  <2> QED
    BY <2>1, <2>2 DEF Along, Sum
<1>12. ASSUME NEW x \in Sum(Present \ {"A2"})
       PROVE  x \in delay
  <2>1. PICK p \in Present \ {"A2"} : x \in Share(p)
    BY DEF Sum
  <2>2. CASE p \in {"A1", "B", "C"}
    BY <1>10, <2>1, <2>2
  <2>3. CASE p \in {"stage1A", "stage2"}
    <3>1. "A1" \in Present
      BY <2>1, <2>3, StagesPresent
    <3>2. x \in Along("A1")
      BY <1>1, <2>1, <2>3 DEF Along
    <3> QED
      BY <1>10, <3>1, <3>2
  <2>4. CASE p = "stage1B"
    <3>1. "B" \in Present
      BY <1>1, <2>1, <2>4, StagesPresent
    <3>2. x \in Along("B")
      BY <1>1, <2>1, <2>4 DEF Along
    <3> QED
      BY <1>10, <3>1, <3>2
  <2>5. CASE p = "stage1C"
    <3>1. "C" \in Present
      BY <1>1, <2>1, <2>5, StagesPresent
    <3>2. x \in Along("C")
      BY <1>1, <2>1, <2>5 DEF Along
    <3> QED
      BY <1>10, <3>1, <3>2
  <2> QED
    BY <2>1, <2>2, <2>3, <2>4, <2>5, PresentParts DEF Parts, Basic, Stages
<1>13. delay = Sum(Present \ {"A2"})
  BY <1>11, <1>12
<1>14. ramp \subseteq Unset
  BY <1>0, <1>1, <1>3, <1>4, <1>5, <1>6 DEF Walked
<1> QED
  BY <1>6, <1>13, <1>14 DEF Walked, c, delay, ramp

LEMMA LatencyOfCall ==
  ASSUME Ready, NEW c, Works(Whole, s, c, Inner, Timing), NEW delay, NEW ramp,
         NEW t, t = Put(c, "block", All(Latencies, delay) ++ [ramp |-> ramp])
  PROVE  /\ Readied(t)
         /\ \A f \in Latencies : Fig(t, "block", f) = delay
         /\ Fig(t, "block", "ramp") = ramp
         /\ Fig(t, "block", "area") = Fig(s, "block", "area")
         /\ \A p \in Present : /\ Fig(t, p, "cap") = Fig(s, p, "cap")
                               /\ Fig(t, Driver(p), "cap") = Fig(s, Driver(p), "cap")
<1>1. IsState(Whole, c)
  BY DEF Works, Computes
<1>2. t = Put(c, "block", All(Latencies, delay) ++ All({"ramp"}, ramp))
  BY OneField
<1>3. SetsTwo(Whole, c, t, "block", Latencies, delay, {"ramp"}, ramp)
  BY <1>1, <1>2, PutTwo, Names, NamesDiffer
<1>4. Works(Whole, s, t, Whole, Timing)
  BY <1>3 DEF Works, SetsTwo, Computes, Whole, Timing
<1>5. "ramp" \notin Latencies /\ "area" \notin Timing /\ "gates" \notin Timing
        /\ "cap" \notin Timing /\ Timing \cap (Energies \cup {"leakage"}) = {}
  BY DEF Timing, Latencies, Energies
<1>6. \A p \in Present : p \in Whole /\ Driver(p) \in Whole
  BY NamesDiffer, PresentParts
<1>7. \A p \in Present : /\ Fig(t, p, "cap") = Fig(s, p, "cap")
                         /\ Fig(t, Driver(p), "cap") = Fig(s, Driver(p), "cap")
  BY <1>4, <1>5, <1>6, FigureNames DEF Works
<1>8. \A p \in Present \cap Stages : Fig(t, p, "cap") = {} /\ Fig(t, Driver(p), "cap") = {}
  BY <1>7 DEF Ready, Readied
<1>9. "stage2" \in Present =>
        \A f \in Energies \cup {"leakage"} : Fig(t, "stage2", f) = {}
  BY <1>4, <1>5, <1>6, Names DEF Works, Ready, Readied
<1>10. Readied(t)
  BY <1>4, <1>5, <1>8, <1>9, StaysReady
<1>11. (\A f \in Latencies : Fig(t, "block", f) = delay) /\ Fig(t, "block", "ramp") = ramp
  BY <1>3, <1>5, Names, NamesDiffer DEF SetsTwo
<1>12. Fig(t, "block", "area") = Fig(s, "block", "area")
  BY <1>4, <1>5, Names, NamesDiffer DEF Works
<1> QED
  BY <1>7, <1>10, <1>11, <1>12

-----------------------------------------------------------------------------
(* What is true of a block between two calls.                               *)
AreaKnown  == Fig(s, "block", "area") = Sum(Present)
DelayKnown == /\ \A f \in Latencies : Fig(s, "block", f) = Sum(Present \ {"A2"})
              /\ Fig(s, "block", "ramp") \subseteq Unset
PowerKnown == \A f \in Energies \cup {"leakage"} :
                Fig(s, "block", f) = Sum(Present \ {"stage2"})

Progress ==
  /\ Accepted /\ n \in Bits
  /\ next \in {"Initialize", "CalculateArea", "CalculateRC",
               "CalculateLatency", "CalculatePower", "done", "exit"}
  /\ next \in {"Initialize", "exit"} => Begun(s, {})
  /\ next \notin {"Initialize", "exit"} => Ready
  /\ next \in {"CalculateRC", "CalculateLatency", "CalculatePower", "done"} => AreaKnown
  /\ next \in {"CalculateLatency", "CalculatePower", "done"} => Loaded
  /\ next \in {"CalculatePower", "done"} => DelayKnown
  /\ next = "done" => PowerKnown

LEMMA BegunFresh ==
  ASSUME s = [fig |-> [p \in Parts \cup {"block"} \cup {Driver(q) : q \in Parts} |->
                         Fresh(Loose)],
              made |-> {}, bad |-> {}, complaints |-> {}]
  PROVE  Begun(s, {})
<1>1. /\ s.fig = [p \in Whole |-> Fresh(Loose)]
      /\ s = [fig |-> s.fig, made |-> {}, bad |-> {}, complaints |-> {}]
  BY WholeIs
<1>2. /\ Fresh(Loose) = [f \in Fields |-> Fresh(Loose)[f]]
      /\ \A f \in Figure : Fresh(Loose)[f] = {}
  BY FigureNames DEF Fresh, Fields, Loose
<1>3. IsState(Whole, s)
  BY <1>1, <1>2 DEF IsState
<1>4. \A p \in Whole, f \in Figure : Fig(s, p, f) = {}
  BY <1>1, <1>2 DEF Fig
<1> QED
  BY <1>1, <1>3, <1>4 DEF Begun

(* n stays, and with it everything that depends on nothing but n.           *)
LEMMA SameBlock ==
  ASSUME numAddressBit' = numAddressBit
  PROVE  /\ n' = n /\ Present' = Present /\ Unset' = Unset
         /\ \A p : Gates(p)' = Gates(p) /\ Share(p)' = Share(p)
<1>1. n' = n
  BY DEF n
<1>2. Present' = Present
  BY <1>1 DEF Present
<1>3. Unset' = Unset
  BY <1>1 DEF Unset
<1>4. \A p : Gates(p)' = Gates(p)
  BY <1>1, <1>3 DEF Gates
<1>5. \A p : Share(p)' = Share(p)
  BY <1>4 DEF Share
<1> QED
  BY <1>1, <1>2, <1>3, <1>4, <1>5

LEMMA ProgressInvariant == Spec => []Progress
<1>1. Init => Progress
  BY BitsAssumption, BegunFresh DEF Init, Progress, Accepted, n
<1>2. Progress /\ [Next]_vars => Progress'
  <2> SUFFICES ASSUME Progress, [Next]_vars
               PROVE  Progress'
    OBVIOUS
  <2>1. CASE Initialize
    <3>1. /\ next = "Initialize" /\ next' = "CalculateArea" /\ n <= MaxBits
          /\ numAddressBit' = numAddressBit
          /\ s' = Made(Each4(Each4(s, MakeStage, "stage2", "stage1A", "stage1B", "stage1C"),
                             MakeBasic, "C", "B", "A1", "A2"), "block")
      BY <2>1 DEF Initialize
    <3>2. Readied(s')
      BY <3>1, InitializeGives DEF Progress
    <3>3. Ready'
      BY <3>1, <3>2, SameBlock DEF Ready, Readied
    <3> QED
      BY <3>1, <3>3, SameBlock DEF Progress, Accepted
  <2>2. CASE Exit
    <3>1. /\ next = "Initialize" /\ next' = "exit" /\ numAddressBit' = numAddressBit /\ s' = s
      BY <2>2 DEF Exit
    <3>2. Begun(s', {})
      BY <3>1 DEF Progress
    <3>3. Begun(s, {})'
      BY <3>1, <3>2, SameBlock DEF Begun
    <3> QED
      BY <3>1, <3>3, SameBlock DEF Progress, Accepted
  <2>3. CASE CalculateArea
    <3> DEFINE u == Each4(Each4(s, AreaOf, "A1", "A2", "B", "C"),
                          AreaOf, "stage1A", "stage1B", "stage1C", "stage2")
    <3>1. /\ next = "CalculateArea" /\ next' = "CalculateRC"
          /\ numAddressBit' = numAddressBit
          /\ s' = Put(u, "block", [area |-> Total(u, Present, "area")])
      BY <2>3 DEF CalculateArea
    <3>2. Readied(s') /\ Fig(s', "block", "area") = Sum(Present)
      BY <3>1, AreaGives DEF Progress
    <3>3. Ready'
      BY <3>1, <3>2, SameBlock DEF Ready, Readied
    <3>4. AreaKnown'
      BY <3>1, <3>2, SameBlock DEF AreaKnown, Sum
    <3> QED
      BY <3>1, <3>3, <3>4, SameBlock DEF Progress, Accepted
  <2>4. CASE CalculateRC
    <3>1. /\ next = "CalculateRC" /\ next' = "CalculateLatency"
          /\ numAddressBit' = numAddressBit
          /\ s' = Each4(s, RCOf, "A1", "A2", "B", "C")
      BY <2>4 DEF CalculateRC
    <3>2. /\ Readied(s')
          /\ Fig(s', "block", "area") = Fig(s, "block", "area")
          /\ \A p \in Present : /\ Fig(s', Driver(p), "cap") = {}
                                /\ Gates(p) # {} => Fig(s', p, "cap") = {}
      BY <3>1, RCGives DEF Progress
    <3>3. Ready'
      BY <3>1, <3>2, SameBlock DEF Ready, Readied
    <3>4. AreaKnown'
      BY <3>1, <3>2, SameBlock DEF AreaKnown, Sum, Progress
    <3>5. Loaded'
      BY <3>1, <3>2, SameBlock DEF Loaded
    <3> QED
      BY <3>1, <3>3, <3>4, <3>5, SameBlock DEF Progress, Accepted
  <2>5. CASE CalculateLatency
    <3> DEFINE c     == PathC
               delay == BlockDelay
               ramp  == BlockRamp
    <3>1. /\ next = "CalculateLatency" /\ next' = "CalculatePower"
          /\ numAddressBit' = numAddressBit
          /\ s' = Put(c, "block", All(Latencies, delay) ++ [ramp |-> ramp])
      BY <2>5 DEF CalculateLatency, PathA1, PathA2, PathB, PathC, BlockDelay, BlockRamp
    <3>2. Ready /\ Loaded /\ Accepted /\ n <= MaxBits /\ AreaKnown
      BY <3>1 DEF Progress, Accepted
    <3>3. /\ Works(Whole, s, c, Inner, Timing)
          /\ delay = Sum(Present \ {"A2"})
          /\ ramp \subseteq Unset
      BY <3>2, LatencyOfBlock
    <3> HIDE DEF c, delay, ramp
    <3>4. /\ Readied(s')
          /\ \A f \in Latencies : Fig(s', "block", f) = delay
          /\ Fig(s', "block", "ramp") = ramp
          /\ Fig(s', "block", "area") = Fig(s, "block", "area")
          /\ \A p \in Present : /\ Fig(s', p, "cap") = Fig(s, p, "cap")
                                /\ Fig(s', Driver(p), "cap") = Fig(s, Driver(p), "cap")
      BY <3>1, <3>2, <3>3, LatencyOfCall
    <3>5. Ready'
      BY <3>1, <3>4, SameBlock DEF Ready, Readied
    <3>6. AreaKnown'
      BY <3>1, <3>2, <3>4, SameBlock DEF AreaKnown, Sum
    <3>7. Loaded'
      <4>1. \A p \in Present : /\ Fig(s', Driver(p), "cap") = {}
                               /\ Gates(p) # {} => Fig(s', p, "cap") = {}
        BY <3>2, <3>4 DEF Loaded
      <4> QED
        BY <3>1, <4>1, SameBlock DEF Loaded
    <3>8. DelayKnown'
      <4>1. Sum(Present \ {"A2"})' = Sum(Present \ {"A2"})
        BY <3>1, SameBlock DEF Sum
      <4>2. \A f \in Latencies : Fig(s', "block", f) = Sum(Present \ {"A2"})
        BY <3>3, <3>4
      <4>3. Fig(s', "block", "ramp") \subseteq Unset
        BY <3>3, <3>4
      <4>4. \A f \in Latencies : Fig(s, "block", f)' = Sum(Present \ {"A2"})'
        BY <4>1, <4>2
      <4>5. Fig(s, "block", "ramp")' \subseteq Unset'
        BY <3>1, <4>3, SameBlock
      <4> QED
        BY <4>4, <4>5 DEF DelayKnown
    <3> QED
      BY <3>1, <3>2, <3>5, <3>6, <3>7, <3>8, SameBlock DEF Progress, Accepted
  <2>6. CASE CalculatePower
    <3> DEFINE u == Each3(Each4(s, PowerOf, "A1", "A2", "B", "C"),
                          PowerOf, "stage1A", "stage1B", "stage1C")
    <3>1. /\ next = "CalculatePower" /\ next' = "done"
          /\ numAddressBit' = numAddressBit
          /\ s' = Put(u, "block", All(Energies, Total(u, Present, "readEnergy"))
                                    ++ [leakage |-> Total(u, Present, "leakage")])
      BY <2>6 DEF CalculatePower
    <3>2. Ready /\ Loaded /\ Accepted /\ AreaKnown /\ DelayKnown
      BY <3>1 DEF Progress
    <3>3. /\ Readied(s')
          /\ \A f \in Energies \cup {"leakage"} :
               Fig(s', "block", f) = Sum(Present \ {"stage2"})
          /\ \A f \in Fields \ (Energies \cup {"leakage"}) :
               Fig(s', "block", f) = Fig(s, "block", f)
          /\ \A p \in Present : /\ Fig(s', Driver(p), "cap") = {}
                                /\ Gates(p) # {} => Fig(s', p, "cap") = {}
      BY <3>1, <3>2, PowerGives
    <3> HIDE DEF u
    <3>4. Ready'
      BY <3>1, <3>3, SameBlock DEF Ready, Readied
    <3>5. Loaded'
      BY <3>1, <3>3, SameBlock DEF Loaded
    <3>6. PowerKnown'
      BY <3>1, <3>3, SameBlock DEF PowerKnown, Sum
    <3>7. /\ {"area", "ramp"} \cup Latencies \subseteq Fields \ (Energies \cup {"leakage"})
      BY Names DEF Energies, Latencies
    <3>8. AreaKnown'
      BY <3>1, <3>2, <3>3, <3>7, SameBlock DEF AreaKnown, Sum
    <3>9. DelayKnown'
      BY <3>1, <3>2, <3>3, <3>7, SameBlock DEF DelayKnown, Sum
    <3> QED
      BY <3>1, <3>2, <3>4, <3>5, <3>6, <3>8, <3>9, SameBlock DEF Progress, Accepted
  <2>7. CASE UNCHANGED vars
    <3>1. numAddressBit' = numAddressBit /\ next' = next /\ s' = s
      BY <2>7 DEF vars
    <3>2. /\ Ready => Ready'
          /\ Begun(s, {}) => Begun(s, {})'
          /\ Loaded => Loaded'
      BY <3>1, SameBlock DEF Ready, Readied, Begun, Loaded
    <3>3. /\ AreaKnown => AreaKnown'
          /\ DelayKnown => DelayKnown'
          /\ PowerKnown => PowerKnown'
      BY <3>1, SameBlock DEF AreaKnown, DelayKnown, PowerKnown, Sum
    <3> QED
      BY <3>1, <3>2, <3>3, SameBlock DEF Progress, Accepted
  <2> QED
    BY <2>1, <2>2, <2>3, <2>4, <2>5, <2>6, <2>7 DEF Next
<1> QED
  BY <1>1, <1>2, PTL DEF Spec

LEMMA FirstStage == ThreeGroups(n) => "stage1A" \in Present
<1>1. n = 0 => ~ThreeGroups(n)
  <2>1. n = 0 => n % 3 = 0 /\ (n - 2 * 0) \div 3 = 0  OBVIOUS
  <2> QED BY <2>1 DEF ThreeGroups, Decoders, Decoder12, Decoder24, Decoder38
<1>2. ThreeGroups(n) => InputsA(n) > 0
  BY DEF InputsA
<1> QED
  BY <1>1, <1>2 DEF Present

(* No mark comes from a part but the unset value of the first stages.       *)
LEMMA SharesMarked ==
  ASSUME NEW parts, parts \subseteq Present
  PROVE  /\ Sum(parts) \cap Marks \subseteq Unset
         /\ "stage1A" \in parts => Unset \subseteq Sum(parts)
<1>1. ASSUME NEW p \in Parts PROVE Share(p) \cap Marks \subseteq Unset
  BY NamesDiffer DEF Share, Gates
<1>2. Sum(parts) \cap Marks \subseteq Unset
  BY <1>1, PresentParts DEF Sum
<1>3. Unset \subseteq Share("stage1A")
  BY DEF Share, Gates, Stages
<1> QED
  BY <1>2, <1>3 DEF Sum

(* Type correctness: every call is made on a part that is initialized, none *)
(* on one that is not, and no driver is too wide.                           *)
THEOREM PredecoderTypes == Spec => []TypeOK
<1>1. Progress => TypeOK
  <2> SUFFICES ASSUME Progress PROVE TypeOK
    OBVIOUS
  <2>1. /\ IsState(Whole, s) /\ s.bad = {} /\ s.complaints = {}
    BY DEF Progress, Begun, Ready, Readied
  <2>2. s.made \subseteq DOMAIN s.fig
    BY <2>1 DEF IsState
  <2> QED
    BY <2>1, <2>2 DEF Progress, TypeOK
<1> QED
  BY <1>1, ProgressInvariant, PTL

(* Up to the 18 address bits no figure of a finished block rests on a       *)
(* member that was never assigned, or counts a share twice; from 19 on the  *)
(* unset numAddressBitStage1A is in every one.                              *)
THEOREM PredecoderDefined == Spec => []BlockFiguresDefined
<1>1. Progress => BlockFiguresDefined
  <2> SUFFICES ASSUME Progress, next = "done", NEW f \in BlockFigures \cup {"ramp"}
               PROVE  IF n <= 18 THEN Fig(s, "block", f) \cap Marks = {}
                      ELSE f # "ramp" => Garbage \in Fig(s, "block", f)
    BY DEF BlockFiguresDefined, Done
  <2>1. n \in Nat /\ n <= MaxBits /\ AreaKnown /\ DelayKnown /\ PowerKnown
    BY DEF Progress, Accepted
  <2>2. ThreeGroups(n) <=> n > 18
    BY <2>1, ThirdGroup
  <2>3. f # "ramp" => \E parts \in SUBSET Present :
          /\ Fig(s, "block", f) = Sum(parts)
          /\ "stage1A" \in Present => "stage1A" \in parts
    <3>1. CASE f = "area"
      BY <2>1, <3>1 DEF AreaKnown
    <3>2. CASE f \in Latencies
      <4>1. Fig(s, "block", f) = Sum(Present \ {"A2"})
        BY <2>1, <3>2 DEF DelayKnown
      <4> QED BY <4>1
    <3>3. CASE f \in Energies \cup {"leakage"}
      <4>1. Fig(s, "block", f) = Sum(Present \ {"stage2"})
        BY <2>1, <3>3 DEF PowerKnown
      <4> QED BY <4>1
    <3> QED
      BY <3>1, <3>2, <3>3 DEF BlockFigures, Latencies, Energies
  <2>4. CASE n <= 18
    <3>1. Unset = {}
      BY <2>1, <2>2, <2>4 DEF Unset
    <3>2. f = "ramp" => Fig(s, "block", f) = {}
      BY <2>1, <3>1 DEF DelayKnown
    <3> QED
      BY <2>3, <2>4, <3>1, <3>2, SharesMarked
  <2>5. CASE n > 18
    <3>1. Garbage \in Unset /\ "stage1A" \in Present
      BY <2>2, <2>5, FirstStage DEF Unset
    <3>2. f # "ramp" => Garbage \in Fig(s, "block", f)
      BY <2>3, <3>1, SharesMarked
    <3> QED
      BY <2>1, <2>5, <3>2
  <2> QED
    BY <2>1, <2>4, <2>5
<1> QED
  BY <1>1, ProgressInvariant, PTL

(* A sum of shares has the parts with gates and the drivers of all parts.   *)
LEMMA SharesOf ==
  ASSUME Ready, NEW parts, parts \subseteq Present
  PROVE  Sum(parts) \ Marks = {p \in parts : Fig(s, p, "gates") # {}}
                                \cup {Driver(p) : p \in parts}
<1>1. ASSUME NEW p \in parts
      PROVE  Share(p) \ Marks = {Driver(p)} \cup (IF Fig(s, p, "gates") # {} THEN {p} ELSE {})
  <2>1. p \in Parts /\ Driver(p) \notin Marks /\ p \notin Marks
    BY PresentParts, NamesDiffer
  <2>2. Fig(s, p, "gates") = Gates(p)
    BY DEF Ready, Readied
  <2>3. Gates(p) = {} \/ Gates(p) = {p} \/ Gates(p) = {p} \cup Unset
    BY DEF Gates
  <2>4. Unset \subseteq Marks
    BY DEF Unset, Marks
  <2> QED
    BY <2>1, <2>2, <2>3, <2>4 DEF Share
<1>2. Sum(parts) \ Marks = UNION {Share(p) \ Marks : p \in parts}
  BY DEF Sum
<1> QED
  BY <1>1, <1>2

(* Every part and every driver counts in the figures of its block, but for  *)
(* stage 2 in the energies and the leakage and basic decoder A2 in the      *)
(* delay.                                                                   *)
THEOREM PredecoderCounts == Spec => []EveryPartCounts
<1>1. Progress => EveryPartCounts
  <2> SUFFICES ASSUME Progress, next = "done"
               PROVE  EveryPartCounts
    BY DEF EveryPartCounts, Done
  <2>1. Ready /\ AreaKnown /\ DelayKnown /\ PowerKnown
    BY DEF Progress
  <2> DEFINE shares(parts) == {p \in parts : Fig(s, p, "gates") # {}}
                                \cup {Driver(p) : p \in parts}
  <2>2. Fig(s, "block", "area") \ Marks = shares(Present)
    BY <2>1, SharesOf DEF AreaKnown
  <2>3. \A f \in Energies \cup {"leakage"} :
          Fig(s, "block", f) \ Marks = shares(Present \ {"stage2"})
    <3>1. Sum(Present \ {"stage2"}) \ Marks = shares(Present \ {"stage2"})
      BY <2>1, SharesOf
    <3> QED BY <2>1, <3>1 DEF PowerKnown
  <2>4. \A f \in Latencies : Fig(s, "block", f) \ Marks = shares(Present \ {"A2"})
    <3>1. Sum(Present \ {"A2"}) \ Marks = shares(Present \ {"A2"})
      BY <2>1, SharesOf
    <3> QED BY <2>1, <3>1 DEF DelayKnown
  <2> QED
    BY <2>2, <2>3, <2>4 DEF EveryPartCounts
<1> QED
  BY <1>1, ProgressInvariant, PTL
=============================================================================
