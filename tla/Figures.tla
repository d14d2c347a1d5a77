------------------------------ MODULE Figures ------------------------------
(***************************************************************************)
(* The circuits a memory is made of, and the figures each of them keeps:   *)
(* area, latencies, energies and leakage of FunctionUnit.  What a figure   *)
(* amounts to is physics; what this module keeps is where it comes from.   *)
(* A figure is the set of its origins: the circuits and cells whose own    *)
(* share was added into it, and three marks for a value that is no such    *)
(* sum.                                                                    *)
(*                                                                         *)
(* Every method is a function from states to states.  A state holds the    *)
(* figures of all parts, the parts that are initialized, those that are    *)
(* invalid, and those that were called in a state they complain about.     *)
(***************************************************************************)

Garbage == "garbage"        \* a member nothing was ever assigned to
Worst   == "invalid_value"  \* the constant invalid_value
Twice   == "twice"          \* one share was added in a second time
Marks   == {Garbage, Worst, Twice}

Figure == {"area", "readLatency", "writeLatency", "resetLatency", "setLatency",
           "refreshLatency", "readEnergy", "writeEnergy", "resetEnergy",
           "setEnergy", "refreshEnergy", "cellReadEnergy", "cellSetEnergy",
           "cellResetEnergy", "leakage"}

(* What the constructors leave unassigned, as far as a figure depends on    *)
(* it: the ramp at the output, the capacitances found by CalculateRC(), and *)
(* the gates a part has besides its driver.                                 *)
Loose == {"ramp", "cap", "gates"}

(* FunctionUnit::FunctionUnit() and the constructor of the class.           *)
Fresh(loose) ==
  [f \in Figure \cup Loose |-> IF f \in loose THEN {Garbage} ELSE {}]

(* The output driver inside a circuit is a part as well.                    *)
DriverNames ==
  [precharger        |-> "precharger.outputDriver",
   rowDecoder        |-> "rowDecoder.outputDriver",
   bitlineMuxDecoder |-> "bitlineMuxDecoder.outputDriver",
   lev1Decoder       |-> "lev1Decoder.outputDriver",
   lev2Decoder       |-> "lev2Decoder.outputDriver",
   A1 |-> "A1.outputDriver", A2 |-> "A2.outputDriver",
   B  |-> "B.outputDriver",  C  |-> "C.outputDriver",
   stage1A |-> "stage1A.outputDriver", stage1B |-> "stage1B.outputDriver",
   stage1C |-> "stage1C.outputDriver", stage2  |-> "stage2.outputDriver"]

Driver(p) == DriverNames[p]

Fig(s, p, f) == s.fig[p][f]

(* The sum of one figure over several parts.                                *)
Total(s, parts, f) == UNION {Fig(s, p, f) : p \in parts}

(* a + b.  Parts add their own shares, so a share met on both sides counts  *)
(* twice.                                                                   *)
a \oplus b ==
  (a \cup b) \cup (IF (a \cap b) \subseteq {Garbage, Worst} THEN {} ELSE {Twice})

(* The fields of g, with those of f in place of its own and beside them.    *)
f ++ g ==
  [x \in DOMAIN f \cup DOMAIN g |-> IF x \in DOMAIN f THEN f[x] ELSE g[x]]

(* Fields ff get one value.                                                 *)
All(ff, origins) == [f \in ff |-> origins]

Put(s, p, new)  == [s EXCEPT !.fig[p] = new ++ @]
Complain(s, p)  == [s EXCEPT !.complaints = @ \cup {p}]
Invalidate(s, p) == [s EXCEPT !.bad = @ \cup {p}]

(* One call on each of three parts, or four, in this order.                 *)
Each3(s, Call(_, _), p, q, r)    == Call(Call(Call(s, p), q), r)
Each4(s, Call(_, _), p, q, r, u) == Call(Each3(s, Call, p, q, r), u)

(* The end of an Initialize(), with the warning of a second one.            *)
Made(s, p) ==
  [s EXCEPT !.complaints = IF p \in s.made THEN @ \cup {p} ELSE @,
            !.made = @ \cup {p}]

(* A method's `if (!initialized) ... else'.                                 *)
When(s, p, then) == IF p \in s.made THEN then ELSE Complain(s, p)

(* ... and `else if (invalid)': the figures ff get the worst value.         *)
Rated(s, p, ff, then) ==
  When(s, p, IF p \in s.bad THEN Put(s, p, All(ff, {Worst})) ELSE then)

Latencies == {"readLatency", "writeLatency"}
Energies  == {"readEnergy", "writeEnergy"}

(* The share of the gates of a part, found from their capacitances; none if *)
(* it has no gates.                                                         *)
Own(s, p) ==
  IF Fig(s, p, "gates") = {} THEN {} ELSE Fig(s, p, "gates") \cup Fig(s, p, "cap")

-----------------------------------------------------------------------------
(* OutputDriver: a chain of inverters.  It is invalid when it would need    *)
(* wider transistors than allowed; it is not initialized then.              *)

DriverInitialize(s, d, valid) ==
  IF valid THEN Made(s, d) ELSE Invalidate(s, d)

DriverArea(s, d) == Rated(s, d, {"area"}, Put(s, d, [area |-> {d}]))

DriverRC(s, d) ==
  When(s, d, IF d \in s.bad THEN s ELSE Put(s, d, [cap |-> {}]))

(* One horowitz() per inverter, each taking the ramp of the one before.     *)
DriverLatency(s, d, ramp) ==
  LET delay == {d} \cup Fig(s, d, "cap") \cup ramp
  IN  Rated(s, d, Latencies,
        Put(s, d, All(Latencies, delay) ++ [ramp |-> delay \ {d}]))

DriverPower(s, d) ==
  Rated(s, d, Energies \cup {"leakage"},
    Put(s, d, All(Energies, {d} \cup Fig(s, d, "cap")) ++ [leakage |-> {d}]))

-----------------------------------------------------------------------------
(* RowDecoder: NAND gates, unless the predecoder's outputs can be used      *)
(* directly, and a driver per row.                                          *)

RowDecoderInitialize(s, p, gates, valid) ==
  LET t == DriverInitialize(Put(s, p, [gates |-> gates]), Driver(p), valid)
  IN  IF Driver(p) \in t.bad THEN Invalidate(t, p) ELSE Made(t, p)

RowDecoderArea(s, p) ==
  LET t == DriverArea(s, Driver(p))
  IN  When(s, p, Put(t, p, [area |-> Fig(t, Driver(p), "area")
                                       \oplus Fig(t, p, "gates")]))

RowDecoderRC(s, p) == When(s, p, Put(DriverRC(s, Driver(p)), p, [cap |-> {}]))

(* The NAND gate's delay, and its ramp into the driver.                     *)
RowDecoderLatency(s, p, ramp) ==
  LET t     == DriverLatency(s, Driver(p), ramp \cup (Own(s, p) \ {p}))
      delay == Fig(t, Driver(p), "readLatency") \oplus Own(s, p)
  IN  When(s, p, Put(t, p, All(Latencies, delay)
                             ++ [ramp |-> Fig(t, Driver(p), "ramp")]))

(* Slip: the leakage of the drivers is left out.                            *)
RowDecoderPowerGatesOnly(s, p) ==
  LET t == DriverPower(s, Driver(p))
  IN  Put(t, p, All(Energies, Fig(t, Driver(p), "readEnergy")
                                \oplus Fig(s, p, "gates"))
                  ++ [leakage |-> Fig(s, p, "gates")])

RowDecoderPower(s, p) ==
  LET t == DriverPower(s, Driver(p))
  IN  When(s, p,
        Put(t, p, All(Energies, Fig(t, Driver(p), "readEnergy") \oplus Own(s, p))
                    ++ [leakage |-> Fig(t, Driver(p), "leakage")
                                      \oplus Fig(s, p, "gates")]))

-----------------------------------------------------------------------------
(* BasicDecoder: a decoder of 1 to 3 address bits.  PredecodeBlock may      *)
(* initialize it again, and it never asks whether its driver is valid.      *)

BasicDecoderInitialize(s, p, inputs) ==
  LET t == DriverInitialize(s, Driver(p), TRUE)
  IN  [Put(t, p, [gates |-> IF inputs = 0 THEN {} ELSE {p}])
         EXCEPT !.made = @ \cup {p}]

BasicDecoderArea(s, p)  == RowDecoderArea(s, p)

(* The NAND gates have capacitances of their own only when there are some.  *)
BasicDecoderRC(s, p) ==
  LET t == DriverRC(s, Driver(p))
  IN  When(s, p, IF Fig(s, p, "gates") = {} THEN t ELSE Put(t, p, [cap |-> {}]))

BasicDecoderLatency(s, p, ramp) == RowDecoderLatency(s, p, ramp)
BasicDecoderPower(s, p) == RowDecoderPower(s, p)

-----------------------------------------------------------------------------
(* Mux: pass transistors, none if there is one input.  It never sets its    *)
(* output ramp, and its leakage is still to do.                             *)

MuxInitialize(s, p, selects) ==
  Made(Put(s, p, [gates |-> IF selects THEN {p} ELSE {}]), p)

MuxArea(s, p) == When(s, p, Put(s, p, [area |-> Fig(s, p, "gates")]))

MuxRC(s, p) ==
  When(s, p, IF Fig(s, p, "gates") = {} THEN s ELSE Put(s, p, [cap |-> {}]))

MuxLatency(s, p) == When(s, p, Put(s, p, All(Latencies, Own(s, p))))

MuxPower(s, p) ==
  When(s, p, Put(s, p, All(Energies, Own(s, p)) ++ [leakage |-> {}]))

-----------------------------------------------------------------------------
(* Precharger: its write energy is zero, "no precharging is needed during   *)
(* the write operation", and a refresh takes what a read takes.             *)

PrechargerInitialize(s, p) == Made(DriverInitialize(s, Driver(p), TRUE), p)

PrechargerArea(s, p) ==
  When(s, p, Put(DriverArea(s, Driver(p)), p, [area |-> {p, Driver(p)}]))

PrechargerRC(s, p) == When(s, p, DriverRC(s, Driver(p)))

(* Only the ramp of the driver enters the read latency; its delay is kept   *)
(* in enableLatency.                                                        *)
PrechargerLatency(s, p, ramp) ==
  LET t     == DriverLatency(s, Driver(p), ramp)
      delay == {p} \cup Fig(t, Driver(p), "ramp")
  IN  When(s, p, Put(t, p, All(Latencies \cup {"refreshLatency"}, delay)
                             ++ [ramp |-> delay \ {p}]))

PrechargerPower(s, p) ==
  LET t == DriverPower(s, Driver(p))
  IN  When(s, p,
        Put(t, p, All({"readEnergy", "refreshEnergy"},
                      Fig(t, Driver(p), "readEnergy") \oplus {p})
                    ++ [writeEnergy |-> {},
                        leakage |-> Fig(t, Driver(p), "leakage") \oplus {p}]))

-----------------------------------------------------------------------------
(* SenseAmp: invalid, and initialized, when the pitch is too small for the  *)
(* layout.  A write does not pass it.                                       *)

SenseAmpInitialize(s, p, fits) ==
  Made(IF fits THEN s ELSE Invalidate(s, p), p)

SenseAmpArea(s, p) == Rated(s, p, {"area"}, Put(s, p, [area |-> {p}]))

(* When invalid, the latencies get the worst value already here.            *)
SenseAmpRC(s, p) == Rated(s, p, Latencies, Put(s, p, [cap |-> {}]))

SenseAmpLatency(s, p) ==
  When(s, p, Put(s, p, All({"readLatency", "refreshLatency"},
                           {p} \cup Fig(s, p, "cap"))
                         ++ [writeLatency |-> {}]))

SenseAmpPower(s, p) ==
  Rated(s, p, Energies \cup {"leakage"},
    Put(s, p, All({"readEnergy", "refreshEnergy"}, {p} \cup Fig(s, p, "cap"))
                ++ [writeEnergy |-> {}, leakage |-> {p}]))

-----------------------------------------------------------------------------
(* Comparator: four quarter comparators over the bits of a tag.             *)

ComparatorInitialize(s, p) == Made(s, p)
ComparatorArea(s, p) == When(s, p, Put(s, p, [area |-> {p}]))
ComparatorRC(s, p)   == When(s, p, Put(s, p, [cap |-> {}]))

ComparatorLatency(s, p, ramp) ==
  LET delay == {p} \cup Fig(s, p, "cap") \cup ramp
  IN  When(s, p, Put(s, p, All(Latencies, delay) ++ [ramp |-> delay \ {p}]))

ComparatorPower(s, p) ==
  When(s, p, Put(s, p, All(Energies, {p} \cup Fig(s, p, "cap"))
                         ++ [leakage |-> {p}]))

-----------------------------------------------------------------------------
(* TSV: always initialized without a buffer chain, so that it has no gates  *)
(* and no leakage.  It keeps no watch over being initialized, and its       *)
(* energies are added to, never assigned.                                   *)

(* Slip: the energies are worked out here already.                          *)
TsvInitializeTwice(s, p) ==
  [Put(s, p, [cap |-> {}] ++ All({"readEnergy", "writeEnergy", "resetEnergy",
                                  "setEnergy"}, {p}))
     EXCEPT !.made = @ \cup {p}]

TsvInitialize(s, p) ==
  [Put(s, p, [cap |-> {}]) EXCEPT !.made = @ \cup {p}]

TsvArea(s, p) == Put(s, p, [area |-> {p} \cup Fig(s, p, "cap"), leakage |-> {}])

(* Reset and set drive in the direction of a write.                         *)
TsvLatencyAndPower(s, p) ==
  LET own == {p} \cup Fig(s, p, "cap")
  IN  Put(s, p, All({"readLatency", "writeLatency", "resetLatency", "setLatency"}, own)
                  ++ [readEnergy |-> Fig(s, p, "readEnergy") \oplus own]
                  ++ All({"writeEnergy", "resetEnergy", "setEnergy"},
                         Fig(s, p, "writeEnergy") \oplus own))

-----------------------------------------------------------------------------
(* The assignment operators copy member by member: what they leave out      *)
(* keeps the value the constructor gave it.                                 *)

NoRefresh == Figure \ {"refreshLatency", "refreshEnergy"}

DriverCopied     == NoRefresh \cup {"ramp"}
RowDecoderCopied == NoRefresh \cup Loose
MuxCopied        == {"area", "leakage"} \cup Latencies \cup Energies \cup Loose
(* Slip: the refresh figures are forgotten here as well.                    *)
PrechargerCopiedNoRefresh == NoRefresh \cup {"ramp"}

PrechargerCopied == Figure \cup {"ramp"}
SenseAmpCopied   == Figure \cup {"cap"}
ComparatorCopied == NoRefresh \cup {"cap", "ramp"}
TsvCopied        == NoRefresh \cup {"cap"}
=============================================================================
