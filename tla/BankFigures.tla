---------------------------- MODULE BankFigures ----------------------------
(***************************************************************************)
(* Mat, and the two kinds of banks: BankWithHtree and BankWithoutHtree.    *)
(* A mat is subarrays behind eight predecoder blocks, for a tag with a     *)
(* comparator; a bank is mats behind wires, with its own sense amplifiers  *)
(* if they are not in the subarrays, and TSVs to the other dies.           *)
(*                                                                         *)
(* A predecoder block is one part here; Predecoder shows what it is made   *)
(* of.  Three members that are no circuits are kept as parts: "predecoder" *)
(* has predecoderLatency, "logic" has areaAllLogicBlocks and "routing" the *)
(* members routing... of Bank.                                             *)
(***************************************************************************)
EXTENDS SubArrayFigures, PredecodeBlocks

BlockSet  == {"rowBlock1", "rowBlock2", "muxBlock1", "muxBlock2",
              "lev1Block1", "lev1Block2", "lev2Block1", "lev2Block2"}

(* One call on each of the blocks.                                          *)
EachBlock(s, Call(_, _)) ==
  Each4(Each4(s, Call, "rowBlock1", "rowBlock2", "muxBlock1", "muxBlock2"),
        Call, "lev1Block1", "lev1Block2", "lev2Block1", "lev2Block2")

RowSet    == {"rowBlock1", "rowBlock2"}

(* numAddress...PredecoderBlock1 and 2 of Mat::Initialize().                *)
BlockBits(c) ==
  [rowBlock1 |-> Block1(c.rowBits), rowBlock2 |-> Block2(c.rowBits),
   muxBlock1 |-> Block1(c.senseBits), muxBlock2 |-> Block2(c.senseBits),
   lev1Block1 |-> Block1(c.lev1Bits), lev1Block2 |-> Block2(c.lev1Bits),
   lev2Block1 |-> Block1(c.lev2Bits), lev2Block2 |-> Block2(c.lev2Bits)]

MakeBlock(t, p, c) ==
  Made(Put(t, p, [gates |-> IF BlockBits(c)[p] = 0 THEN {} ELSE {p}]), p)

BlockArea(t, p) == When(t, p, Put(t, p, [area |-> Fig(t, p, "gates")]))
BlockRC(t, p)   == When(t, p, Put(t, p, [cap |-> {}]))

(* An absent block passes the ramp on.                                      *)
BlockLatency(t, p, ramp) ==
  When(t, p, Put(t, p, All(Latencies, Own(t, p))
                         ++ [ramp |-> (Own(t, p) \ {p}) \cup ramp]))
BlockPower(t, p) ==
  When(t, p, Put(t, p, All(Energies, Own(t, p)) ++ [leakage |-> Fig(t, p, "gates")]))

-----------------------------------------------------------------------------
Stacked(c)    == c.dies > 1
MatTsvs(c)    == Stacked(c) /\ c.grain # 0   \* TSVs for the predecoders' outputs
LogicLayer(c) == Stacked(c) /\ c.grain = 1   \* the predecoders are on its die
MatCompares(c) == c.tag /\ c.internal

(* Mat::Initialize().  A mat that cannot be is initialized and invalid: too *)
(* few address bits or data bits, an invalid subarray, or rows taken up by  *)
(* the multiplexers.                                                        *)
MatMakes(s, sub, c) ==
  LET sized  == SubArrayArea(sub, c)
      blocks == EachBlock(sized, LAMBDA t, p : MakeBlock(t, p, c))
      compare == IF MatCompares(c) THEN ComparatorInitialize(blocks, "comparator") ELSE blocks
      done   == IF MatTsvs(c) THEN TsvInitialize(compare, "mat_tsv") ELSE compare
  IN  CASE c.fault = "partition"  -> Made(Invalidate(s, "mat"), "mat")
        [] c.fault # "partition" /\ Sub \in sub.bad -> Made(Invalidate(sub, "mat"), "mat")
        [] OTHER -> IF c.fault = "rowAddress" THEN Made(Invalidate(sized, "mat"), "mat")
                    ELSE Made(done, "mat")

MatInitialize(s, c) == MatMakes(s, SubArrayInitialize(s, c), c)

(* Mat::CalculateArea().  On a logic layer of their own the predecoders and *)
(* the comparator take no area here, their TSVs do.                         *)
MatAreaOfParts(s, c) ==
  LET blocks  == EachBlock(s, BlockArea)
      tsvs    == IF LogicLayer(c) THEN TsvArea(blocks, "mat_tsv") ELSE blocks
  IN  IF MatCompares(c) THEN ComparatorArea(tsvs, "comparator") ELSE tsvs

MatAreas(s, t, c) ==
  LET logic   == Total(t, BlockSet, "area")
                   \oplus (IF MatCompares(c) THEN Fig(t, "comparator", "area") ELSE {})
      beside  == IF LogicLayer(c) THEN Fig(t, "mat_tsv", "area") ELSE logic
  IN  Rated(s, "mat", {"area"},
        Put(Put(t, "logic", [area |-> logic]), "mat",
            [area |-> Fig(t, Sub, "area") \oplus beside]))

MatArea(s, c) == MatAreas(s, MatAreaOfParts(s, c), c)

(* Slip: a tag is compared in the mat even if it is sensed outside.         *)
MatRCOfAnyTag(s, c) ==
  LET t == EachBlock(s, BlockRC)
  IN  When(s, "mat", IF "mat" \in s.bad THEN s
                     ELSE IF c.tag THEN ComparatorRC(t, "comparator") ELSE t)

(* Mat::CalculateRC(); the subarray has had its own since Initialize().     *)
MatRC(s, c) ==
  LET t == EachBlock(s, BlockRC)
  IN  When(s, "mat", IF "mat" \in s.bad THEN s
                     ELSE IF MatCompares(c) THEN ComparatorRC(t, "comparator") ELSE t)

(* Mat::CalculateLatency(): the predecoder blocks and their TSVs first, the *)
(* subarray with the ramp they give it, and the comparator.                 *)
MatLatencyOfParts(s, c) ==
  LET blocks  == EachBlock(s, LAMBDA t, p : BlockLatency(t, p, {}))
      tsvs    == IF MatTsvs(c) THEN TsvLatencyAndPower(blocks, "mat_tsv") ELSE blocks
      sub     == SubArrayLatency(tsvs, c, Total(tsvs, RowSet, "ramp"))
  IN  IF MatCompares(c) THEN ComparatorLatency(sub, "comparator", {}) ELSE sub

MatLatencies(s, t, c) ==
  LET pre     == Total(t, BlockSet, "readLatency")
                   \oplus (IF MatTsvs(c) THEN Fig(t, "mat_tsv", "writeLatency") ELSE {})
      through(f) == pre \oplus Fig(t, Sub, f)
      compare == IF MatCompares(c) THEN Fig(t, "comparator", "readLatency") ELSE {}
  IN  Rated(s, "mat", Latencies,
        Put(Put(t, "predecoder", [readLatency |-> pre]), "mat",
            [readLatency    |-> through("readLatency") \oplus compare,
             writeLatency   |-> through("writeLatency"),
             resetLatency   |-> through("resetLatency"),
             setLatency     |-> through("setLatency"),
             refreshLatency |-> through("refreshLatency")]))

MatLatency(s, c) == MatLatencies(s, MatLatencyOfParts(s, c), c)

(* Mat::CalculatePower().  A refresh needs the row predecoders only.        *)
MatPowerOfParts(s, c) ==
  LET sub == SubArrayPower(EachBlock(s, BlockPower), c)
  IN  IF MatCompares(c) THEN ComparatorPower(sub, "comparator") ELSE sub

MatEnergies(s, t, c) ==
  LET pre(f)  == Total(t, BlockSet, f)
      tsv(f)  == IF MatTsvs(c) THEN Fig(t, "mat_tsv", f) ELSE {}
      compare(f) == IF MatCompares(c) THEN Fig(t, "comparator", f) ELSE {}
  IN  Rated(s, "mat", Energies \cup {"leakage"},
        Put(t, "mat",
          [readEnergy    |-> (pre("readEnergy") \oplus Fig(t, Sub, "readEnergy"))
                               \oplus (tsv("readEnergy") \oplus compare("readEnergy")),
           writeEnergy   |-> (pre("writeEnergy") \oplus Fig(t, Sub, "writeEnergy"))
                               \oplus (tsv("writeEnergy") \oplus compare("writeEnergy")),
           resetEnergy   |-> (pre("writeEnergy") \oplus Fig(t, Sub, "resetEnergy"))
                               \oplus tsv("resetEnergy"),
           setEnergy     |-> (pre("writeEnergy") \oplus Fig(t, Sub, "setEnergy"))
                               \oplus tsv("setEnergy"),
           refreshEnergy |-> (Total(t, RowSet, "readEnergy")
                               \oplus Fig(t, Sub, "refreshEnergy")) \oplus tsv("readEnergy"),
           cellReadEnergy  |-> Fig(t, Sub, "cellReadEnergy"),
           cellSetEnergy   |-> Fig(t, Sub, "cellSetEnergy"),
           cellResetEnergy |-> Fig(t, Sub, "cellResetEnergy"),
           leakage       |-> (pre("leakage") \oplus Fig(t, Sub, "leakage"))
                               \oplus (tsv("leakage") \oplus compare("leakage"))]))

MatPower(s, c) == MatEnergies(s, MatPowerOfParts(s, c), c)

-----------------------------------------------------------------------------
(* Routing inside a bank: an H-tree has wires if there is more than one     *)
(* mat, a bus always has.                                                   *)
Wires(c) == IF c.many \/ ~c.htree THEN {"wire"} ELSE {}

(* BankWithoutHtree has its own sense amplifiers behind a multiplexer over  *)
(* the mats, and compares tags itself, if the subarrays do not sense.       *)
GlobalSense(s, c) ==
  LET sense == SenseAmpInitialize(s, "globalSenseAmp", c.fault # "globalPitch")
      mux   == MuxRC(MuxInitialize(SenseAmpRC(sense, "globalSenseAmp"),
                                   "globalMux", c.many), "globalMux")
  IN  IF "globalSenseAmp" \in sense.bad THEN Invalidate(sense, "bank")
      ELSE IF c.tag THEN ComparatorInitialize(mux, "globalComparator") ELSE mux

(* Slip: with an invalid mat, initialized is not set.                       *)
BankMakesUnready(mat, c) ==
  IF "mat" \in mat.bad THEN Invalidate(mat, "bank") ELSE Made(mat, "bank")

(* The end of both Initialize(): the bus sizes its mat here already.  An    *)
(* H-tree bank has its TSVs initialized even if there is one die.           *)
BankMakes(mat, c) ==
  LET sized  == IF c.htree THEN mat ELSE MatArea(mat, c)
      sense  == IF c.internal THEN sized ELSE GlobalSense(sized, c)
      tsvs   == IF c.htree \/ Stacked(c) THEN TsvInitialize(sense, "bank_tsv") ELSE sense
  IN  IF "mat" \in mat.bad THEN Made(Invalidate(mat, "bank"), "bank")
      ELSE IF "bank" \in sense.bad THEN Made(sense, "bank")
      ELSE Made(tsvs, "bank")

(* DRAM with external sensing is turned down before initialized is set; a   *)
(* shape that cannot be routed after.                                       *)
BankInitialize(s, c) ==
  IF c.cell = "eDRAM" /\ ~c.internal THEN Invalidate(s, "bank")
  ELSE IF c.fault = "routing" THEN Made(Invalidate(s, "bank"), "bank")
  ELSE BankMakes(MatInitialize(s, c), c)

(* Both CalculateArea().  The aspect ratio of a data array is checked here; *)
(* an array found out of shape is invalid from then on.  A wire without     *)
(* repeaters takes no area, and external sensing allows no repeaters.       *)
BankAreas(s, mat, c) ==
  LET sense  == IF c.internal THEN mat
                ELSE MuxArea(SenseAmpArea(mat, "globalSenseAmp"), "globalMux")
      array  == IF c.internal \/ ~c.tag THEN sense
                ELSE ComparatorArea(sense, "globalComparator")
      t      == IF Stacked(c) THEN TsvArea(array, "bank_tsv") ELSE array
      total  == (Fig(t, "mat", "area") \oplus (IF c.internal THEN Wires(c) ELSE {}))
                  \oplus Total(t, {"globalSenseAmp", "globalMux", "globalComparator",
                                   "bank_tsv"}, "area")
  IN  Rated(s, "bank", {"area"},
        IF c.fault = "aspectRatio" /\ ~c.tag
        THEN Put(Invalidate(array, "bank"), "bank", [area |-> {Worst}])
        ELSE Put(t, "bank", [area |-> total]))

BankArea(s, c) == BankAreas(s, IF c.htree THEN MatArea(s, c) ELSE s, c)

(* Both CalculateRC().                                                      *)
BankRC(s, c) ==
  LET mat   == MatRC(s, c)
      sense == IF c.internal THEN mat
               ELSE SenseAmpRC(MuxRC(mat, "globalMux"), "globalSenseAmp")
      t     == IF c.internal \/ ~c.tag THEN sense
               ELSE ComparatorRC(sense, "globalComparator")
  IN  When(s, "bank", IF "bank" \in s.bad THEN s ELSE t)

-----------------------------------------------------------------------------
(* a - b, where b is the mats' part of a: exact only if a counts as many    *)
(* mats as b does.                                                          *)
Less(a, b, same) == IF same THEN a \ b ELSE a

(* routing...: what is left of the bank's figures without the mats'.  The   *)
(* refresh figures count all mats, where the active ones are subtracted.    *)
Routed(t, c) ==
  LET left(f, same) == Less(Fig(t, "bank", f), Fig(t, "mat", f), same)
  IN  Put(t, "routing",
        [f \in {"readLatency", "writeLatency", "resetLatency", "setLatency",
                "readEnergy", "writeEnergy", "resetEnergy", "setEnergy", "leakage"} |->
           left(f, TRUE)]
        ++ All({"refreshLatency"}, left("refreshLatency", ~c.many))
        ++ All({"refreshEnergy"}, left("refreshEnergy", ~c.many)))

(* The TSVs to the furthest die: a read goes down as an address and comes   *)
(* back as data, two passes that are one share.  Only a bus adds them to    *)
(* the refresh latency.                                                     *)
WithTsvs(s, c) ==
  LET t      == TsvLatencyAndPower(s, "bank_tsv")
      tsv(f) == Fig(t, "bank_tsv", f)
      add(f, share) == Fig(t, "bank", f) \oplus share
  IN  IF ~Stacked(c) THEN s
      ELSE Put(t, "bank",
             [readLatency   |-> add("readLatency", tsv("readLatency") \cup tsv("writeLatency")),
              writeLatency  |-> add("writeLatency", tsv("writeLatency")),
              resetLatency  |-> add("resetLatency", tsv("resetLatency")),
              setLatency    |-> add("setLatency", tsv("setLatency")),
              refreshLatency |-> add("refreshLatency",
                                     IF c.htree THEN {} ELSE tsv("writeLatency")),
              readEnergy    |-> add("readEnergy", tsv("writeEnergy") \cup tsv("readEnergy")),
              writeEnergy   |-> add("writeEnergy", tsv("writeEnergy")),
              resetEnergy   |-> add("resetEnergy", tsv("resetEnergy")),
              setEnergy     |-> add("setEnergy", tsv("setEnergy")),
              refreshEnergy |-> add("refreshEnergy", tsv("writeEnergy")),
              leakage       |-> add("leakage", tsv("leakage"))])

(* "refreshLatency > cell->retentionTime"                                   *)
Retained(t, c) ==
  IF c.cell = "eDRAM" /\ c.fault = "retention" /\ Fig(t, "bank", "refreshLatency") # {}
  THEN Invalidate(t, "bank") ELSE t

Compared == {"area", "leakage"} \cup Latencies \cup Energies
Cells    == {"cellReadEnergy", "cellSetEnergy", "cellResetEnergy"}

(* What the mats take, and the wires to and from them.                      *)
WithWires(t, c) ==
  Put(t, "bank", [f \in Figure \ ({"area"} \cup Cells) |->
                    Fig(t, "mat", f) \oplus Wires(c)]
                   ++ [f \in Cells |-> Fig(t, "mat", f)])

(* Slip: the wires are found by subtraction after the TSVs are added.       *)
HtreeLatencyAndPowerSwapped(s, c) ==
  LET bank == WithWires(MatPower(MatLatency(s, c), c), c)
  IN  Retained(Rated(s, "bank", Compared \ {"area"}, Routed(WithTsvs(bank, c), c)), c)

(* BankWithHtree::CalculateLatencyAndPower(): every figure is the mats' and *)
(* the wires', in for all, out as well for a read.                          *)
HtreeLatencyAndPower(s, c) ==
  LET bank == WithWires(MatPower(MatLatency(s, c), c), c)
  IN  Retained(Rated(s, "bank", Compared \ {"area"}, WithTsvs(Routed(bank, c), c)), c)

Resensed(c) == ~c.internal /\ NonVolatile(c) /\ c.voltage
Shift(c)    == IF Resensed(c) THEN {"bitlineShift"} ELSE {}

(* The wires of a bus with internal sensing take part in all figures; with  *)
(* external sensing they are bitlines, of SRAM and non-volatile cells only. *)
(* For SRAM their latency contains that of multiplexer and sense amplifier. *)
(* Non-volatile cells are sensed by their resistances or voltages; if by    *)
(* voltage, the bitlineDelay of the mat is taken back and its bitlineDelay- *)
(* On or Off put in its place, a difference that is a share by itself.      *)
BusRouting(t, c) ==
  LET end     == {"globalMux", "globalSenseAmp"}
      bitline == IF c.cell = "SLCNAND" THEN {} ELSE {"wire"}
      passed(f, share) == share \oplus Total(t, end, f)
      compare(f) == IF c.tag THEN Fig(t, "globalComparator", f) ELSE {}
      sram(parts) == IF c.cell = "SRAM"
                     THEN bitline \oplus Total(t, parts, "readLatency") ELSE bitline
      sensed == IF NonVolatile(c) THEN Unset(c) ELSE {}
  IN  IF c.internal THEN All(Compared \ {"area"}, {"wire"})
      ELSE [readLatency  |-> passed("readLatency", sram(end) \cup sensed \cup Shift(c))
                               \oplus compare("readLatency"),
            writeLatency |-> passed("writeLatency", sram({"globalMux"})),
            readEnergy   |-> passed("readEnergy", bitline \cup IF c.voltage THEN sensed ELSE {})
                               \oplus compare("readEnergy"),
            writeEnergy  |-> passed("writeEnergy", bitline),
            leakage      |-> passed("leakage", {}) \oplus compare("leakage")]

SenseOutside(s, c) ==
  LET sense == SenseAmpPower(MuxPower(
                 SenseAmpLatency(MuxLatency(s, "globalMux"), "globalSenseAmp"),
                 "globalMux"), "globalSenseAmp")
  IN  IF c.internal THEN s
      ELSE IF ~c.tag THEN sense
      ELSE ComparatorPower(ComparatorLatency(sense, "globalComparator", {}),
                           "globalComparator")

(* BankWithoutHtree::CalculateLatencyAndPower().  "Why is this stuff        *)
(* outside the else conditional?": the mats are added whether or not the    *)
(* bank is initialized and valid.                                           *)
BusWires(s, mats, c) ==
  LET refresh(f) == Fig(mats, "mat", f) \oplus (IF c.internal THEN {"wire"} ELSE {})
      routing == Put(mats, "bank", BusRouting(mats, c)
                       ++ [refreshLatency |-> refresh("refreshLatency"),
                           refreshEnergy  |-> refresh("refreshEnergy")])
  IN  Rated(s, "bank", Compared \ {"area"}, routing)

WithMats(t) ==
  LET add(f, g) == Fig(t, "bank", f) \oplus Fig(t, "mat", g)
  IN  Put(t, "bank",
        [f \in Compared \ {"area"} |-> add(f, f)]
          ++ [resetLatency |-> add("writeLatency", "resetLatency"),
              setLatency   |-> add("writeLatency", "setLatency"),
              resetEnergy  |-> add("writeEnergy", "resetEnergy"),
              setEnergy    |-> add("writeEnergy", "setEnergy")]
          ++ [f \in Cells |-> Fig(t, "mat", f)])

BusTsvs(s, routed, c) ==
  IF "bank" \in s.made /\ "bank" \notin s.bad THEN WithTsvs(routed, c) ELSE routed

BusLatencyAndPower(s, c) ==
  LET mats == SenseOutside(MatPower(MatLatency(s, c), c), c)
      bank == WithMats(BusWires(s, mats, c))
  IN  Retained(BusTsvs(s, Routed(bank, c), c), c)

BankLatencyAndPower(s, c) ==
  IF c.htree THEN HtreeLatencyAndPower(s, c) ELSE BusLatencyAndPower(s, c)
=============================================================================
