---------------------------- MODULE MCEvaluation ----------------------------
EXTENDS Evaluation, TLC

Kind(cell, access, voltage, scheme) ==
  [cell |-> cell, access |-> access, voltage |-> voltage, scheme |-> scheme]

MCKinds ==
  {Kind("SRAM", "CMOS", TRUE, "normal"), Kind("eDRAM", "CMOS", TRUE, "normal"),
   Kind("SLCNAND", "CMOS", TRUE, "normal"), Kind("FBRAM", "CMOS", TRUE, "normal"),
   Kind("PCRAM", "CMOS", FALSE, "normal"), Kind("PCRAM", "diode", TRUE, "verify"),
   Kind("PCRAM", "BJT", FALSE, "normal"), Kind("MRAM", "CMOS", FALSE, "normal"),
   Kind("MRAM", "diode", TRUE, "normal"), Kind("memristor", "CMOS", TRUE, "normal"),
   Kind("memristor", "none", FALSE, "erase")}

MCShapes ==
  {[rowBits |-> b[1], senseBits |-> b[2], lev1Bits |-> b[3], lev2Bits |-> b[4]] :
     b \in {<<6, 0, 1, 4>>, <<3, 4, 0, 1>>, <<0, 2, 2, 0>>}}

(* applyConstraint() turns down an H-tree with external sensing.            *)
MCBanks ==
  [htree : {TRUE}, internal : {TRUE}, tag : BOOLEAN, many : BOOLEAN]
    \cup [htree : {FALSE}, internal : BOOLEAN, tag : BOOLEAN, many : BOOLEAN]

MCDies == {[dies |-> d[1], grain |-> d[2]] : d \in {<<1, 0>>, <<2, 0>>, <<2, 1>>}}

(* The faults a configuration can have.                                     *)
Possible(x) ==
  CASE x.fault = "retention"   -> x.cell = "eDRAM"
    [] x.fault = "aspectRatio" -> ~x.tag
    [] x.fault = "globalPitch" -> ~x.internal
    [] x.fault = "pitch"       -> x.internal
    [] x.fault = "readVoltage" -> NonVolatile(x) /\ x.voltage
    [] x.fault \in {"wordline", "rowDriver"} ->
         x.cell \in {"MRAM", "PCRAM", "memristor"} /\ x.access # "CMOS"
    [] OTHER -> TRUE

MCFaults == {"partition", "illegal", "wordline", "bitlineMux", "readVoltage",
             "rowDriver", "pitch", "rowAddress", "routing", "globalPitch",
             "aspectRatio", "retention"}

Join(kinds, shapes, banks, dies, faults) ==
  {x[1] @@ x[2] @@ x[3] @@ x[4] @@ [fault |-> x[5]] :
     x \in kinds \X shapes \X banks \X dies \X faults}

(* Every sound design, and for each fault the ones with one shape on one    *)
(* die.                                                                     *)
MCConfigs ==
  Join(MCKinds, MCShapes, MCBanks, MCDies, {"none"})
    \cup {x \in Join(MCKinds, {b \in MCShapes : b.rowBits = 3},
                     {b \in MCBanks : b.many}, {d \in MCDies : d.dies = 1}, MCFaults)
            \cup Join(MCKinds, {b \in MCShapes : b.rowBits = 6},
                     {b \in MCBanks : b.many}, {d \in MCDies : d.dies = 1}, {"retention"}) :
          Possible(x)}
=============================================================================
