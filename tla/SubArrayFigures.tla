-------------------------- MODULE SubArrayFigures --------------------------
(***************************************************************************)
(* SubArray: the cells, their row decoder and precharger, the sense        *)
(* amplifiers if they are internal, and three levels of multiplexers with  *)
(* a decoder each.                                                         *)
(*                                                                         *)
(* The figures depend on a configuration, a record c:                      *)
(*   cell, access, voltage, scheme   memCellType, accessType, readMode and *)
(*                                   writeScheme                           *)
(*   rowBits, senseBits, lev1Bits, lev2Bits   logarithms of the rows and   *)
(*                                   of the inputs of the multiplexers     *)
(*   htree, internal, tag, dies, grain, many   the organisation of the bank*)
(*   fault   the quantity found out of its limits, or "none"               *)
(* One row per set: numRowPerSet only adds the gates more rows add too.    *)
(***************************************************************************)
EXTENDS Figures, Integers

NonVolatile(c) == c.cell \in {"FBRAM", "PCRAM", "MRAM", "memristor"}
CrossPoint(c)  == c.access \in {"diode", "none"}

Sub == "subarray"

(* The decoders of the multiplexers, in the order they are called in.       *)
EachDecoder(s, Call(_, _)) ==
  Each3(s, Call, "bitlineMuxDecoder", "lev1Decoder", "lev2Decoder")

Column   == {"bitlineMuxDecoder", "lev1Decoder", "lev2Decoder"}
Muxes    == {"bitlineMux", "lev1", "lev2"}
Sensing  == Muxes \cup {"senseAmp"}
Selects  == {"rowDecoder"} \cup Column

(* numRow and the numbers of multiplexed inputs, as exponents of two.       *)
BitsOf(c) ==
  [rowDecoder |-> c.rowBits, bitlineMuxDecoder |-> c.senseBits,
   lev1Decoder |-> c.lev1Bits, lev2Decoder |-> c.lev2Bits,
   bitlineMux |-> c.senseBits, lev1 |-> c.lev1Bits, lev2 |-> c.lev2Bits]

-----------------------------------------------------------------------------
(* "Check if the configuration is legal": destructive reads allow no shared *)
(* bitline, some cells leave no room for a sense amplifier per column, the  *)
(* bitline is too long, or a column holds less than a way.                  *)
Illegal(c) ==
  \/ c.cell = "eDRAM" /\ c.senseBits > 0
  \/ c.cell \in {"SLCNAND", "memristor", "FBRAM"} /\ c.internal /\ c.senseBits = 0
  \/ c.fault = "illegal"

(* These end Initialize() before it sets initialized: too much current for  *)
(* the drivers of a wordline or the multiplexers, and no precharge voltage  *)
(* to tell the states of a cell by.                                         *)
Overloaded(c) == c.fault \in {"wordline", "bitlineMux"}
Unreadable(c) == c.fault = "readVoltage"

(* Slip: the capacitances of the decoder are not worked out.                *)
MakeDecoderNoRC(t, p, c, valid) ==
  RowDecoderInitialize(t, p, IF BitsOf(c)[p] > 3 THEN {p} ELSE {}, valid)

MakeDecoder(t, p, c, valid) ==
  LET u == RowDecoderInitialize(t, p, IF BitsOf(c)[p] > 3 THEN {p} ELSE {}, valid)
  IN  IF p \in u.bad THEN u ELSE RowDecoderRC(u, p)

(* Slip: the second level is given the inputs of the first.                 *)
MakeMuxOfLev1(t, p, c) ==
  MuxRC(MuxInitialize(t, p, BitsOf(c)[IF p = "lev2" THEN "lev1" ELSE p] > 0), p)

MakeMux(t, p, c) == MuxRC(MuxInitialize(t, p, BitsOf(c)[p] > 0), p)

(* The sense amplifiers may not fit the pitch of the columns; the bitline   *)
(* multiplexer, which they load, is not initialized then.                   *)
MakeSensing(t, c) ==
  LET muxes == MakeMux(MakeMux(t, "lev2", c), "lev1", c)
      sense == IF ~c.internal THEN muxes
               ELSE SenseAmpInitialize(muxes, "senseAmp", c.fault # "pitch")
      fit   == "senseAmp" \notin sense.bad
  IN  IF ~fit THEN Invalidate(sense, Sub)
      ELSE MakeMux(IF c.internal THEN SenseAmpRC(sense, "senseAmp") ELSE sense,
                   "bitlineMux", c)

(* SubArray::Initialize(), which computes the RC of its parts as well.      *)
SubArrayInitialize(s, c) ==
  LET charged == PrechargerRC(PrechargerInitialize(s, "precharger"), "precharger")
      rows    == MakeDecoder(charged, "rowDecoder", c, c.fault # "rowDriver")
      columns == EachDecoder(rows, LAMBDA t, p : MakeDecoder(t, p, c, TRUE))
  IN  CASE Illegal(c)                 -> Made(Invalidate(s, Sub), Sub)
        [] ~Illegal(c) /\ (Overloaded(c) \/ Unreadable(c)) -> Invalidate(s, Sub)
        [] OTHER -> IF "rowDecoder" \in rows.bad THEN Invalidate(rows, Sub)
                    ELSE Made(MakeSensing(columns, c), Sub)

-----------------------------------------------------------------------------
(* SubArray::CalculateArea().  Heights and widths are sums and maxima of    *)
(* those of the parts.                                                      *)
SubArrayArea(s, c) ==
  LET rows    == PrechargerArea(RowDecoderArea(s, "rowDecoder"), "precharger")
      columns == EachDecoder(rows, RowDecoderArea)
      muxes   == Each3(columns, MuxArea, "bitlineMux", "lev1", "lev2")
      t       == IF c.internal THEN SenseAmpArea(muxes, "senseAmp") ELSE muxes
  IN  Rated(s, Sub, {"area"},
        Put(t, Sub, [area |-> {"cells"} \oplus
              Total(t, {"precharger"} \cup Selects \cup Sensing, "area")]))

-----------------------------------------------------------------------------
(* CalculateLatency(): the parts first, those of the sensing path but for   *)
(* the bitline multiplexer of a DRAM cell.                                  *)
SubArrayParts(s, c, ramp) ==
  LET rows    == RowDecoderLatency(PrechargerLatency(s, "precharger", ramp),
                                   "rowDecoder", ramp)
      columns == EachDecoder(rows, LAMBDA t, p : RowDecoderLatency(t, p, ramp))
      mux     == IF c.cell = "eDRAM" THEN columns ELSE MuxLatency(columns, "bitlineMux")
      sense   == IF c.internal THEN SenseAmpLatency(mux, "senseAmp") ELSE mux
  IN  MuxLatency(MuxLatency(sense, "lev1"), "lev2")

(* bitlineDelay.  With BJT access devices, "TO-DO", the capacitance and     *)
(* resistance of a cell are never set.                                      *)
Unset(c) == IF c.access = "BJT" THEN {Garbage} ELSE {}
BitlineDelay(t, c) ==
  {"bitline"} \cup Unset(c)
    \cup IF NonVolatile(c) /\ c.voltage THEN {} ELSE Fig(t, "rowDecoder", "ramp")

(* A write waits for its row and for the charging of its column.            *)
WriteAccess(t) ==
  Fig(t, "rowDecoder", "writeLatency")
    \cup (Total(t, Column, "readLatency") \oplus {"charge"})

(* The latencies other than that of a read, as the kind of cell defines     *)
(* them: SRAM and DRAM write as they read, SLC NAND erases and programs;    *)
(* the others apply pulses: PCRAM does nothing yet if it verifies, a        *)
(* cross-point array applies both, and is charged a second time.            *)
OtherLatencies(t, c, read, refresh) ==
  LET access == WriteAccess(t)
      erase  == c.scheme = "erase"
      both   == {"resetPulse", "setPulse"}
      phases == (IF erase THEN Fig(t, "rowDecoder", "writeLatency") \cup {"charge"}
                 ELSE access) \oplus {"charge"}
      pulsed == [writeLatency |-> access \oplus both,
                 resetLatency |-> access \oplus {"resetPulse"},
                 setLatency   |-> access \oplus {"setPulse"}]
  IN  CASE c.cell = "SRAM"    -> [writeLatency |-> read]
        [] c.cell = "eDRAM"   -> [writeLatency |-> read, refreshLatency |-> refresh]
        [] c.cell = "SLCNAND" -> [pulsed EXCEPT !.writeLatency = pulsed.setLatency]
        [] c.cell = "PCRAM" /\ c.scheme = "verify" -> [writeLatency |-> {}]
        [] c.cell \in {"MRAM", "memristor"} /\ CrossPoint(c) ->
             [writeLatency |-> phases \oplus both]
        [] OTHER -> pulsed

(* t: with the latencies of the parts.                                      *)
SubArrayLatencies(s, t, c) ==
  LET decoder == Total(t, Selects, "readLatency")
      bitline == BitlineDelay(t, c)
      sensed  == Total(t, Sensing, "readLatency")
      read    == (decoder \oplus bitline) \oplus sensed
      refresh == (decoder \oplus bitline) \oplus Fig(t, "senseAmp", "readLatency")
  IN  Rated(s, Sub, Latencies,
        Put(t, Sub, OtherLatencies(t, c, read, refresh) ++ [readLatency |-> read]))

SubArrayLatency(s, c, ramp) ==
  SubArrayLatencies(s, SubArrayParts(s, c, ramp), c)

-----------------------------------------------------------------------------
(* CalculatePower().  The energy on the bitlines comes first, and with it   *)
(* that of the cells; a cell is read as long as its internal sense          *)
(* amplifier takes.                                                         *)
CellRead(t, c) ==
  LET time == Fig(t, "senseAmp", "readLatency")
  IN  IF ~NonVolatile(c) \/ time = {} THEN {} ELSE {"cellRead"} \cup (time \cap Marks)

(* A phase change memory that verifies its writes has no write energy yet.  *)
Unwritten(c) == c.cell = "PCRAM" /\ c.scheme = "verify"
CellSet(c) ==
  IF ~NonVolatile(c) \/ Unwritten(c) THEN {} ELSE {"cellSet"} \cup Unset(c)
CellReset(c) ==
  IF ~NonVolatile(c) \/ Unwritten(c) THEN {} ELSE {"cellReset"} \cup Unset(c)

(* writeDynamicEnergy on bitlines and cells.                                *)
WriteBase(c) ==
  CASE c.cell \in {"SRAM", "eDRAM"} -> {"bitline"}
    [] c.cell = "SLCNAND"           -> {"cellSet", "cellReset"}
    [] OTHER                        -> CellSet(c) \cup CellReset(c)

(* A NAND block charges all wordlines but the selected: the energies of the *)
(* row decoder are worked out again.                                        *)
NandRows(t, c) ==
  IF c.cell # "SLCNAND" THEN t
  ELSE Put(t, "rowDecoder", All({"resetEnergy", "setEnergy", "writeEnergy"},
                                Fig(t, "rowDecoder", "readEnergy")))

PowerOfParts(s, c) ==
  LET rows    == RowDecoderPower(PrechargerPower(s, "precharger"), "rowDecoder")
      columns == EachDecoder(rows, RowDecoderPower)
      mux     == MuxPower(columns, "bitlineMux")
      sense   == IF c.internal THEN SenseAmpPower(mux, "senseAmp") ELSE mux
  IN  NandRows(MuxPower(MuxPower(sense, "lev1"), "lev2"), c)

(* set and reset start from what the cell type left in them, nothing but    *)
(* for NAND.  "for assymetric RESET and SET latency calculation only", the  *)
(* sum for a reset starts from that of a set.  A write to a cross-point     *)
(* array takes what passes the multiplexers and sense amplifiers again.     *)
SubArrayEnergies(s, t, c) ==
  LET nand    == c.cell = "SLCNAND"
      passed  == Total(t, Column \cup Sensing, "writeEnergy")
      set     == ((IF nand THEN {"cellSet"} ELSE Fig(s, Sub, "setEnergy"))
                    \oplus CellSet(c))
                   \oplus (Fig(t, "rowDecoder", "setEnergy") \oplus passed)
      reset   == ((IF nand THEN {"cellReset"} ELSE Fig(s, Sub, "resetEnergy"))
                    \oplus set)
                   \oplus (Fig(t, "rowDecoder", "resetEnergy") \oplus passed)
      write   == WriteBase(c)
                   \oplus (Fig(t, "rowDecoder", "writeEnergy") \oplus passed)
      second  == Total(t, Sensing, "writeEnergy")
      read    == (({"bitline"} \cup Unset(c)) \oplus CellRead(t, c))
                   \oplus Total(t, {"precharger"} \cup Selects \cup Sensing, "readEnergy")
      refresh == (IF c.cell = "eDRAM" THEN {"bitline"} ELSE Fig(s, Sub, "refreshEnergy"))
                   \oplus Total(t, {"rowDecoder", "precharger", "senseAmp"}, "readEnergy")
      leakage == (IF c.cell \in {"SRAM", "eDRAM"} THEN {"cells"} ELSE {})
                   \oplus Total(t, {"precharger"} \cup Selects \cup Sensing, "leakage")
  IN  Rated(s, Sub, Energies \cup {"leakage"},
        Put(t, Sub,
          [readEnergy     |-> read,
           writeEnergy    |-> IF CrossPoint(c) THEN write \oplus second ELSE write,
           setEnergy      |-> set,
           resetEnergy    |-> reset,
           refreshEnergy  |-> refresh,
           cellReadEnergy |-> CellRead(t, c),
           cellSetEnergy  |-> CellSet(c),
           cellResetEnergy |-> CellReset(c),
           leakage        |-> leakage]))

SubArrayPower(s, c) == SubArrayEnergies(s, PowerOfParts(s, c), c)

(* operator=() copies every figure; not invalid, nor what is derived from   *)
(* the cell's voltages.                                                     *)
SubArrayCopied == Figure
=============================================================================
