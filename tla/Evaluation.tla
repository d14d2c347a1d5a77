----------------------------- MODULE Evaluation -----------------------------
(***************************************************************************)
(* The life of one design: INITIAL_BASE builds a bank and calls, in this   *)
(* order, Initialize(), CalculateArea(), CalculateRC() and                 *)
(* CalculateLatencyAndPower(); a valid bank is copied into the results,    *)
(* and the copy is what a report is printed from.                          *)
(***************************************************************************)
EXTENDS BankFigures

CONSTANT Configs   \* the configurations a design is evaluated under

(* applyConstraint() turns down an H-tree with external sensing.            *)
ASSUME ConfigAssumption ==
  \A x \in Configs :
    /\ {x.htree, x.internal, x.tag, x.many, x.voltage} \subseteq BOOLEAN
    /\ {x.rowBits, x.senseBits, x.lev1Bits, x.lev2Bits} \subseteq Nat
    /\ x.htree => x.internal

VARIABLES
  c,       \* the configuration
  next,    \* the call that comes next, or the end: "printed" or "dropped"
  s,       \* the state of the bank and of all its parts
  best     \* the figures of the copy; empty before there is one

vars == <<c, next, s, best>>

Kept     == {"predecoder", "logic", "routing"}   \* members that are no circuits
Amps     == {"senseAmp", "globalSenseAmp"}
Compares == {"comparator", "globalComparator"}
Tsvs     == {"bank_tsv", "mat_tsv"}
Drivers  == {Driver(p) : p \in Selects \cup {"precharger"}}
Parts    == {"bank", "mat", Sub, "precharger", "globalMux"} \cup Selects \cup Muxes
              \cup Amps \cup Compares \cup Tsvs \cup BlockSet \cup Drivers \cup Kept

(* A bank as its constructors leave it.                                     *)
Constructed ==
  [p \in Parts |-> Fresh(IF p \in Kept THEN Figure \cup Loose ELSE Loose)]

Init ==
  /\ c \in Configs
  /\ next = "Initialize"
  /\ s = [fig |-> Constructed, made |-> {}, bad |-> {}, complaints |-> {}]
  /\ best = <<>>

-----------------------------------------------------------------------------
(* A call of the macro, and the one behind it.                              *)
Call(name, then, result) ==
  /\ next = name
  /\ next' = then
  /\ s' = result
  /\ UNCHANGED <<c, best>>

Initialize    == Call("Initialize", "CalculateArea", BankInitialize(s, c))
CalculateArea == Call("CalculateArea", "CalculateRC", BankArea(s, c))
CalculateRC   == Call("CalculateRC", "CalculateLatencyAndPower", BankRC(s, c))
CalculateLatencyAndPower ==
  Call("CalculateLatencyAndPower", "compare", BankLatencyAndPower(s, c))

(* The members the assignment operators copy, class by class.               *)
Copied(p) ==
  CASE p \in {"bank", "mat"} -> Figure
    [] p = Sub                -> SubArrayCopied
    [] p \in Selects          -> RowDecoderCopied
    [] p \in Drivers          -> DriverCopied
    [] p \in Muxes            -> MuxCopied
    [] p = "precharger"       -> PrechargerCopied
    [] p = "senseAmp"         -> SenseAmpCopied
    [] p \in BlockSet         -> NoRefresh \cup {"ramp"}
    [] p \in Tsvs             -> TsvCopied
    [] p \in Kept             -> Figure
    [] p = "comparator"       -> IF MatCompares(c) THEN ComparatorCopied ELSE {}
    [] OTHER                  -> {}

(* Slip: only initialized parts are copied.                                 *)
KeepInitialized ==
  /\ next = "compare" /\ "bank" \notin s.bad
  /\ best' = [p \in s.made |-> s.fig[p]]
  /\ next' = "printed"
  /\ UNCHANGED <<c, s>>

(* *tempResult.bank = *bank: what is not copied stays as constructed.       *)
Keep ==
  /\ next = "compare" /\ "bank" \notin s.bad
  /\ best' = [p \in Parts |->
                [f \in DOMAIN Constructed[p] |->
                   IF f \in Copied(p) THEN Fig(s, p, f) ELSE Constructed[p][f]]]
  /\ next' = "printed"
  /\ UNCHANGED <<c, s>>

(* `if (!dataBank->invalid)'                                                *)
Drop ==
  /\ next = "compare" /\ "bank" \in s.bad
  /\ next' = "dropped"
  /\ UNCHANGED <<c, s, best>>

Next ==
  \/ Initialize \/ CalculateArea \/ CalculateRC \/ CalculateLatencyAndPower
  \/ Keep \/ Drop

Spec == Init /\ [][Next]_vars

-----------------------------------------------------------------------------
(* Result::print(): the operations it reports, and the figures it prints.   *)

Asymmetric == \/ c.cell \in {"PCRAM", "FBRAM", "SLCNAND"}
              \/ c.cell = "memristor" /\ ~CrossPoint(c)

Operations ==
  {"read"} \cup (IF Asymmetric THEN {"reset", "set"} ELSE {"write"})
    \cup (IF c.cell = "eDRAM" THEN {"refresh"} ELSE {})

Latency(o) ==
  [read |-> "readLatency", write |-> "writeLatency", reset |-> "resetLatency",
   set |-> "setLatency", refresh |-> "refreshLatency"][o]
Energy(o) ==
  [read |-> "readEnergy", write |-> "writeEnergy", reset |-> "resetEnergy",
   set |-> "setEnergy", refresh |-> "refreshEnergy"][o]

InMat  == {"rowDecoder", "precharger"} \cup Muxes
            \cup (IF c.internal THEN {"senseAmp"} ELSE {})
InSub  == IF c.cell = "SLCNAND" THEN {"read"} ELSE Operations
Levels == {"bank", "routing", "mat"}

AreaLines ==
  ({"bank", "mat", Sub} \X {"area"})
    \cup (IF Stacked(c) THEN {<<"bank_tsv", "area">>} ELSE {})
    \cup (IF LogicLayer(c) THEN {"mat_tsv", "logic"} \X {"area"} ELSE {})

TimingLines ==
  (Levels \X {Latency(o) : o \in Operations})
    \cup ({Sub} \X {Latency(o) : o \in InSub}) \cup (InMat \X {"readLatency"})
    \cup {<<"predecoder", "readLatency">>, <<"rowDecoder", "writeLatency">>}
    \cup (IF MatCompares(c) THEN {<<"comparator", "readLatency">>} ELSE {})
    \cup (IF Stacked(c) THEN {"bank_tsv"} \X
             (Latencies \cup {"resetLatency", "setLatency"}) ELSE {})
    \cup (IF LogicLayer(c) THEN {<<"mat_tsv", "writeLatency">>} ELSE {})

PowerLines ==
  (Levels \X ({Energy(o) : o \in Operations} \cup {"leakage"}))
    \cup ({Sub} \X (Energies \cup IF NonVolatile(c) THEN Cells ELSE {}))
    \cup (InMat \X {"readEnergy"}) \cup (Column \X Energies)
    \cup ((Muxes \cup {"rowDecoder"}) \X {"writeEnergy"})
    \cup (IF c.cell # "eDRAM" THEN {}
          ELSE {Sub, "rowDecoder", "senseAmp", "precharger"} \X {"refreshEnergy"})
    \cup (IF Stacked(c) THEN {"bank_tsv"} \X
             (Energies \cup {"resetEnergy", "leakage"}) ELSE {})
    \cup (IF LogicLayer(c) THEN {"mat_tsv"} \X {"writeEnergy", "leakage"} ELSE {})

Reported == AreaLines \cup TimingLines \cup PowerLines

(* The TSV line under the total of an operation; there is none for the      *)
(* energy of a SET, and neither for the programming of NAND.                *)
Unlisted(f) ==
  /\ Stacked(c)
  /\ \/ f = "setEnergy"
     \/ f = "setLatency" /\ c.cell = "SLCNAND"

(* A read, which goes down like a write and comes back, and a refresh.      *)
TsvLine(f) ==
  LET bank(g) == Fig(s, "bank_tsv", g)
      mat(g)  == Fig(s, "mat_tsv", g)
  IN  IF ~Stacked(c) \/ Unlisted(f) THEN {}
      ELSE CASE f = "readLatency" -> bank(f) \cup
                  (IF LogicLayer(c) THEN mat("writeLatency") ELSE bank("writeLatency"))
             [] f = "readEnergy" -> bank(f) \cup bank("writeEnergy") \cup
                  (IF LogicLayer(c) THEN mat("writeEnergy") ELSE {})
             [] f = "refreshLatency" -> bank("writeLatency")
             [] f = "refreshEnergy"  -> bank("writeEnergy")
             [] OTHER -> bank(f)

-----------------------------------------------------------------------------
(* Type correctness of a life of a design.                                  *)
TypeOK ==
  /\ next \in {"Initialize", "CalculateArea", "CalculateRC",
              "CalculateLatencyAndPower", "compare", "printed", "dropped"}
  /\ DOMAIN s.fig = Parts
  /\ s.made \cup s.bad \cup s.complaints \subseteq DOMAIN s.fig
  /\ best # <<>> => DOMAIN best = Parts

Printed == next = "printed"

(* What the search compares and what a report prints rests on assigned      *)
(* members only, but for BJT access devices: "TO-DO", the resistance and    *)
(* capacitance of their cells are never set, and are in every read.         *)
FiguresDefined ==
  Printed => \A x \in Reported \cup ({"bank"} \X Compared) :
    c.access # "BJT" => Garbage \notin Fig(s, x[1], x[2])

(* No part is called before it is initialized, nor initialized twice, but   *)
(* for a bank on a bus that is turned down at once: that one returns from   *)
(* Initialize() without setting initialized.                                *)
NeverReady == c.cell = "eDRAM" /\ ~c.internal
CallsInOrder == s.complaints \subseteq IF NeverReady THEN {"bank"} ELSE {}

(* A bank that is dropped has the worst value in all figures that are       *)
(* compared, so that no report could show it for a good one; but for those  *)
(* found out at the very end, and the one whose methods only complain.      *)
RejectedIsWorst ==
  next = "dropped" /\ c.fault # "retention" /\ ~NeverReady =>
    \A f \in Compared : Worst \in Fig(s, "bank", f)

(* The figures that may have a share twice: for SRAM sensed outside the     *)
(* subarrays the delay along the wire contains that of the bank's           *)
(* multiplexer and sense amplifier already (BankWithoutHtree.cpp:368-372,   *)
(* 438-439); a write to a cross-point array takes the energy of             *)
(* multiplexers and sense amplifiers again (SubArray.cpp:876-879), and, in  *)
(* MRAM and memristors, chargeLatency as well (613-619).                    *)
Doubled(f) ==
  \/ c.cell = "SRAM" /\ ~c.internal /\ f \in Latencies
  \/ CrossPoint(c) /\ f = "writeEnergy"
  \/ CrossPoint(c) /\ c.cell \in {"MRAM", "memristor"} /\ f = "writeLatency"

(* Every other figure that the search compares has each share once, on     *)
(* its way from the cells to the bank, over all methods of all parts.       *)
CountedOnce ==
  Printed => \A f \in Compared : Twice \in Fig(s, "bank", f) => Doubled(f)

(* The copy the reports are printed from shows what the bank showed.        *)
CopyPrintsTheSame ==
  Printed => \A x \in Reported : best[x[1]][x[2]] = Fig(s, x[1], x[2])

(* The lines printed under the total of an operation are the shares it is   *)
(* made of, and the line of the wires holds nothing of the mats'.  With     *)
(* several dies the energy of a SET and the programming of NAND have no     *)
(* line for the TSVs they pass, and on an H-tree a refresh has one, for     *)
(* TSVs whose latency is not in its total.  The line of the wires keeps     *)
(* what belongs to the mats twice: with several mats a refresh keeps what   *)
(* those take that are not accessed, and the read latency of non-volatile   *)
(* cells sensed outside by voltage has the difference between two delays of *)
(* the mats' bitlines (BankWithoutHtree.cpp:415-419).                       *)
Unadded(f) == Stacked(c) /\ c.htree /\ f = "refreshLatency"

SharesAddUp ==
  Printed => \A o \in Operations : \A f \in {Latency(o), Energy(o)} :
    LET lines == TsvLine(f) \cup Fig(s, "routing", f) \cup Fig(s, "mat", f)
        total == Fig(s, "bank", f)
    IN  /\ lines \ total = IF Unadded(f) THEN {"bank_tsv"} ELSE {}
        /\ total \ lines = IF Unlisted(f) THEN {"bank_tsv"} ELSE {}
        /\ TsvLine(f) \cap Fig(s, "routing", f) = {}
        /\ \/ Fig(s, "routing", f) \cap Fig(s, "mat", f) = {}
           \/ o = "refresh" /\ c.many
        /\ "bitlineShift" \in Fig(s, "routing", f) <=> f = "readLatency" /\ Resensed(c)

(* The circuits a design consists of: decoders with gates, drivers, blocks  *)
(* with address bits, multiplexers with something to choose from, and what  *)
(* senses and compares, in the subarrays or beside the mats.                *)
RowCircuits == {"precharger", Driver("precharger")}
Decoding    == {p \in Selects : BitsOf(c)[p] > 3} \cup {Driver(p) : p \in Selects}
Choosing    == {p \in Muxes : BitsOf(c)[p] > 0}
                 \cup (IF ~c.internal /\ c.many THEN {"globalMux"} ELSE {})
Amplifying  == IF c.internal THEN {"senseAmp"} ELSE {"globalSenseAmp"}
Predecoding == {p \in BlockSet : BlockBits(c)[p] > 0}
Matching    == IF ~c.tag THEN {}
               ELSE IF c.internal THEN {"comparator"} ELSE {"globalComparator"}
Stacking    == (IF Stacked(c) THEN {"bank_tsv"} ELSE {})
                 \cup (IF MatTsvs(c) THEN {"mat_tsv"} ELSE {})
Wiring      == IF c.internal \/ c.cell # "SLCNAND" THEN Wires(c) ELSE {}
Circuits    == Decoding \cup Choosing \cup Amplifying \cup Predecoding \cup Matching

(* Every circuit of a printed design has its share in the bank's figures,   *)
(* and what it has no share in is what the code says: no precharging in the *)
(* latency of a read, no bitline multiplexer in that of a DRAM, predecoders *)
(* and comparator of a logic layer not in the area, no leakage of           *)
(* multiplexers ("TO-DO"), TSVs or cells without transistors.               *)
EveryPartCounts ==
  LET of(f)  == Fig(s, "bank", f) \ Marks
      moved  == IF LogicLayer(c) THEN Predecoding \cup (Matching \ {"globalComparator"}) ELSE {}
      buffer == IF c.internal THEN Wires(c) ELSE {}
      read   == IF NonVolatile(c) /\ c.internal THEN {"cellRead"} ELSE {}
      unmuxed == IF c.cell = "eDRAM" THEN {"bitlineMux"} ELSE {}
  IN  Printed =>
        /\ of("area") = {"cells"} \cup RowCircuits \cup (Circuits \ moved) \cup buffer
                          \cup (IF LogicLayer(c) THEN Stacking ELSE Stacking \ {"mat_tsv"})
        /\ of("readLatency") =
             {"bitline"} \cup (Circuits \ unmuxed) \cup Wiring \cup Shift(c) \cup Stacking
        /\ of("readEnergy") =
             {"bitline"} \cup read \cup RowCircuits \cup Circuits \cup Wiring \cup Stacking
        /\ of("leakage") =
             (IF c.cell \in {"SRAM", "eDRAM"} THEN {"cells"} ELSE {})
               \cup RowCircuits \cup (Circuits \ Choosing) \cup buffer

(* "RESET Dynamic Energy" is printed over a line "Cell RESET Dynamic        *)
(* Energy", for phase change and floating body memories and memristors with *)
(* transistors: the energy of the cells is in the total.                    *)
ResetHasItsCells ==
  Printed /\ "reset" \in Operations /\ NonVolatile(c) /\ ~Unwritten(c) =>
    "cellReset" \in Fig(s, "bank", "resetEnergy")
=============================================================================
