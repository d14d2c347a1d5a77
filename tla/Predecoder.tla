----------------------------- MODULE Predecoder -----------------------------
(***************************************************************************)
(* One predecoder block, through the calls Mat makes on it: Initialize(),  *)
(* CalculateArea(), CalculateRC(), CalculateLatency() and                  *)
(* CalculatePower().  Its parts are basic decoders A1, A2, B and C, the    *)
(* NAND stages 1A, 1B and 1C they feed, and stage 2 behind those.          *)
(***************************************************************************)
EXTENDS PredecodeBlocks, FiniteSets

CONSTANT Bits   \* the numbers of address bits a block is asked to decode

ASSUME BitsAssumption == Bits \subseteq Nat

VARIABLES
  numAddressBit,
  next,     \* the call that comes next, "done", or "exit"
  s         \* the state of the block and of its parts

vars == <<numAddressBit, next, s>>

Basic  == {"A1", "A2", "B", "C"}
Stages == {"stage1A", "stage1B", "stage1C", "stage2"}
Parts  == Basic \cup Stages

n == numAddressBit

(* The parts that exist: the pointers that are not NULL.                    *)
Present ==
  IF n = 0 THEN {}
  ELSE {"A1"} \cup (IF CountA2(n) > 0 THEN {"A2"} ELSE {})
         \cup (IF InputsA(n) > 0 THEN {"stage1A"} ELSE {})
         \cup (IF InputsB(n) > 0 THEN {"B", "stage1B"} ELSE {})
         \cup (IF InputsC(n) > 0 THEN {"C", "stage1C"} ELSE {})
         \cup (IF TwoStages(n) THEN {"stage2"} ELSE {})

Init ==
  /\ numAddressBit \in Bits
  /\ next = "Initialize"
  /\ s = [fig |-> [p \in Parts \cup {"block"} \cup {Driver(q) : q \in Parts} |->
                     Fresh(Loose)],
          made |-> {}, bad |-> {}, complaints |-> {}]

-----------------------------------------------------------------------------
(* A stage is initialized and its RC computed at once.  With three groups   *)
(* its rows or its load come from the unset numAddressBitStage1A.           *)
MakeStage(t, p) ==
  IF p \notin Present THEN t
  ELSE RowDecoderRC(RowDecoderInitialize(t, p,
         {p} \cup (IF ThreeGroups(n) /\ p # "stage2" THEN {Garbage} ELSE {}), TRUE), p)

(* All basic decoders but A1 take three bits.                               *)
MakeBasic(t, p) ==
  LET bits == IF p = "A1" THEN BitsA1(n) ELSE 3
  IN  IF p \notin Present THEN t
      ELSE BasicDecoderInitialize(t, p, IF bits = 1 THEN 0 ELSE bits)

Initialize ==
  /\ next = "Initialize" /\ n <= MaxBits
  /\ LET stages   == Each4(s, MakeStage, "stage2", "stage1A", "stage1B", "stage1C")
         decoders == Each4(stages, MakeBasic, "C", "B", "A1", "A2")
     IN  s' = Made(decoders, "block")
  /\ next' = "CalculateArea"
  /\ UNCHANGED numAddressBit

(* Invalid number of address bits: exit(-1).                                *)
Exit ==
  /\ next = "Initialize" /\ n > MaxBits
  /\ next' = "exit"
  /\ UNCHANGED <<numAddressBit, s>>

(* Slip: decoder A2 is called whether there is one or not.                  *)
AreaOfAbsent(t, p) ==
  IF p \notin Present \cup {"A2"} THEN t
  ELSE IF p \in Basic THEN BasicDecoderArea(t, p) ELSE RowDecoderArea(t, p)

AreaOf(t, p) ==
  IF p \notin Present THEN t
  ELSE IF p \in Basic THEN BasicDecoderArea(t, p) ELSE RowDecoderArea(t, p)

CalculateArea ==
  /\ next = "CalculateArea"
  /\ LET t == Each4(Each4(s, AreaOf, "A1", "A2", "B", "C"),
                    AreaOf, "stage1A", "stage1B", "stage1C", "stage2")
     IN  s' = Put(t, "block", [area |-> Total(t, Present, "area")])
  /\ next' = "CalculateRC"
  /\ UNCHANGED numAddressBit

(* Slip: decoders B and C are left out.                                     *)
RCOfA(t, p) == IF p \in Present \cap {"A1", "A2"} THEN BasicDecoderRC(t, p) ELSE t

(* The stages have theirs since Initialize().                               *)
RCOf(t, p) == IF p \in Present THEN BasicDecoderRC(t, p) ELSE t

CalculateRC ==
  /\ next = "CalculateRC"
  /\ s' = Each4(s, RCOf, "A1", "A2", "B", "C")
  /\ next' = "CalculateLatency"
  /\ UNCHANGED numAddressBit

(* The latency of a stage behind part `up', if there is such a stage.       *)
StageLatency(t, p, up) ==
  IF p \in Present THEN RowDecoderLatency(t, p, Fig(t, up, "ramp")) ELSE t

(* A path from basic decoder p through its stage and stage 2.  Each path    *)
(* computes the stages anew.                                                *)
Path(t, p, stage) ==
  LET decoder == BasicDecoderLatency(t, p, {})
      first   == StageLatency(decoder, stage, p)
  IN  IF p \in Present THEN StageLatency(first, "stage2", stage) ELSE t

(* Its delay, with the basic decoder's taken from part q.                   *)
Delay(t, p, stage, q) ==
  IF p \notin Present THEN {}
  ELSE Fig(t, q, "readLatency") \oplus Total(t, {stage, "stage2"} \cap Present, "readLatency")

(* The ramp a path ends with.                                               *)
RampOf(t, p, stage) ==
  IF p \notin Present THEN {}
  ELSE IF "stage2" \in Present THEN Fig(t, "stage2", "ramp")
  ELSE IF stage \in Present THEN Fig(t, stage, "ramp") ELSE Fig(t, p, "ramp")

(* The longest path decides; that of A2 adds the delay of basic decoder A1. *)
CalculateLatency ==
  /\ next = "CalculateLatency"
  /\ LET a1 == Path(s, "A1", "stage1A")
         a2 == Path(a1, "A2", "stage1A")
         b  == Path(a2, "B", "stage1B")
         c  == Path(b, "C", "stage1C")
         delay == Delay(a1, "A1", "stage1A", "A1") \cup Delay(a2, "A2", "stage1A", "A1")
                    \cup Delay(b, "B", "stage1B", "B") \cup Delay(c, "C", "stage1C", "C")
         ramp  == RampOf(a1, "A1", "stage1A") \cup RampOf(a2, "A2", "stage1A")
                    \cup RampOf(b, "B", "stage1B") \cup RampOf(c, "C", "stage1C")
     IN  s' = Put(c, "block", All(Latencies, delay) ++ [ramp |-> ramp])
  /\ next' = "CalculatePower"
  /\ UNCHANGED numAddressBit

PowerOf(t, p) ==
  IF p \notin Present THEN t
  ELSE IF p \in Basic THEN BasicDecoderPower(t, p) ELSE RowDecoderPower(t, p)

(* Every part but stage 2, whose figures are added all the same.            *)
CalculatePower ==
  /\ next = "CalculatePower"
  /\ LET t == Each3(Each4(s, PowerOf, "A1", "A2", "B", "C"),
                    PowerOf, "stage1A", "stage1B", "stage1C")
     IN  s' = Put(t, "block", All(Energies, Total(t, Present, "readEnergy"))
                                ++ [leakage |-> Total(t, Present, "leakage")])
  /\ next' = "done"
  /\ UNCHANGED numAddressBit

Next ==
  \/ Initialize \/ Exit \/ CalculateArea \/ CalculateRC
  \/ CalculateLatency \/ CalculatePower

Spec == Init /\ [][Next]_vars

-----------------------------------------------------------------------------
Done == next = "done"

(* Type correctness of the block and of the bookkeeping of its parts.       *)
TypeOK ==
  /\ n \in Bits
  /\ next \in {"Initialize", "CalculateArea", "CalculateRC",
              "CalculateLatency", "CalculatePower", "done", "exit"}
  /\ s.made \subseteq DOMAIN s.fig
  /\ s.bad = {} /\ s.complaints = {}

(* A block accepted by Initialize() decodes its whole address, no bit       *)
(* twice: the bits of all basic decoders are the address, and every NAND    *)
(* gate has one input per decoder, and per group, that feeds it.  Stage 1A  *)
(* has a row for each value of its decoders' bits up to 18 address bits;    *)
(* beyond, its rows and gates come from the unset numAddressBitStage1A.     *)
DecodesAddress ==
  next \notin {"Initialize", "exit"} /\ n > 0 =>
    /\ DecodedA(n) + GroupB(n) + GroupC(n) = n
    /\ InputsA(n) > 0 => CountA1(n) + CountA2(n) = InputsA(n)
    /\ InputsA(n) > 0 /\ n <= 18 =>
         /\ GroupA(n) = DecodedA(n)
         /\ NandInputs(GroupA(n), InputsA(n) = 3) = InputsA(n)
    /\ InputsB(n) > 0 => NandInputs(GroupB(n), InputsB(n) = 3) = InputsB(n)
    /\ InputsC(n) > 0 => NandInputs(GroupC(n), InputsC(n) = 3) = InputsC(n)
    /\ TwoStages(n) => NandInputs(n, ThreeGroups(n)) = IF ThreeGroups(n) THEN 3 ELSE 2

(* One output of a decoder, or of a first stage, is loaded with as many     *)
(* gates as there are outputs behind it that differ in the other bits.  Of  *)
(* the first stages beyond 18 address bits this is claimed for 1A only: the *)
(* loads of 1B and 1C come from the unset numAddressBitStage1A.             *)
FanOut ==
  next \notin {"Initialize", "exit"} /\ InputsA(n) > 0 =>
    /\ LoadA1(n) = DecodedA(n) - BitsA1(n)
    /\ CountA2(n) > 0 => LoadA2(n) = DecodedA(n) - 3
    /\ InputsB(n) > 0 => LoadBC(InputsB(n)) = GroupB(n) - 3
    /\ InputsC(n) > 0 => LoadBC(InputsC(n)) = GroupC(n) - 3
    /\ TwoStages(n) => /\ LoadStage1A(n) = n - DecodedA(n)
                       /\ n <= 18 => LoadStage1B(n) = n - GroupB(n)

BlockFigures == {"area", "readLatency", "writeLatency", "readEnergy", "writeEnergy", "leakage"}

(* Up to 18 address bits, the figures of a finished block and its output    *)
(* ramp rest on assigned members only, with nothing added in twice.  Beyond *)
(* 18 bits the unset numAddressBitStage1A is in all of them.                *)
BlockFiguresDefined ==
  Done => \A f \in BlockFigures \cup {"ramp"} :
            IF n <= 18 THEN Fig(s, "block", f) \cap Marks = {}
            ELSE f # "ramp" => Garbage \in Fig(s, "block", f)

(* Every part and every driver inside it counts in the area, the energies   *)
(* and the leakage, but for stage 2 in the energies and the leakage:        *)
(* CalculatePower() adds its figures and never calls CalculatePower() on    *)
(* it.  No delay path leaves out a part, but for basic decoder A2.          *)
EveryPartCounts ==
  LET shares(parts) == {p \in parts : Fig(s, p, "gates") # {}} \cup {Driver(p) : p \in parts}
      of(f)         == Fig(s, "block", f) \ Marks
  IN  Done => /\ of("area") = shares(Present)
              /\ \A f \in Energies \cup {"leakage"} : of(f) = shares(Present \ {"stage2"})
              /\ \A f \in Latencies : of(f) = shares(Present \ {"A2"})
=============================================================================
