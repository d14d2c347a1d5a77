-------------------------- MODULE Evaluation_proofs --------------------------
(***************************************************************************)
(* What the calls of CALCULATE (nvsim.cpp) do to a design, proved for every *)
(* configuration of CONSTANT Configs: which of its circuits are initialized, *)
(* and what every figure of the subarray, the mat and the bank is made of. *)
(*                                                                         *)
(* The state of a bank is what the calls made so far give (History), so the *)
(* properties of Evaluation are properties of what each call gives.  A lemma *)
(* says it of a circuit, then of the subarray, the mat and the bank, for   *)
(* Initialize, CalculateArea, CalculateRC and CalculateLatencyAndPower in  *)
(* turn: for a design that can be built (Raised, Sized, Primed, Ended), for *)
(* one that is turned down on the way and has the worst values (Ruined), and *)
(* for the bank that is never initialized (Unready).  Told collects them.  *)
(***************************************************************************)
EXTENDS Evaluation, Figures_proofs

(* The circuits of a design, and those among them with gates of their own;  *)
(* some have an output driver.                                              *)
Gated == Selects \cup Muxes \cup {"globalMux"} \cup BlockSet
Units == Gated \cup {"precharger"} \cup Amps \cup Compares \cup Tsvs
Driven == Selects \cup {"precharger"}
Around(p) == IF p \in Driven THEN {p, Driver(p)} ELSE {p}

(* What else a figure is made of.                                           *)
Others == {"cells", "bitline", "charge", "resetPulse", "setPulse",
           "cellRead", "cellSet", "cellReset", "wire", "bitlineShift"}
Lines  == {"wire", "bitlineShift"}   \* the wires of a bank
Labels == Units \cup Others
Sums   == {"bank", "mat", Sub}   \* the parts whose figures are sums

LEMMA UnitNames ==
  /\ Units \subseteq Parts /\ Drivers \subseteq Parts /\ Sums \subseteq Parts
  /\ Kept \subseteq Parts
  /\ Units \cap (Drivers \cup Sums \cup Kept) = {} /\ Drivers \cap (Sums \cup Kept) = {}
  /\ Sums \cap Kept = {} /\ Labels \cap Drivers = {}
BY DEF Units, Gated, Selects, Column, Muxes, BlockSet, Amps, Compares, Tsvs, Parts, Drivers,
       Driver, DriverNames, Sums, Sub, Kept, Labels, Others

LEMMA DriverNamesDiffer ==
  /\ \A p \in Driven : Driver(p) \in Drivers
  /\ \A p, q \in Driven : Driver(p) = Driver(q) => p = q
  /\ (Labels \cup Drivers) \cap Marks = {}
BY DEF Driven, Units, Gated, Selects, Column, Muxes, BlockSet, Amps, Compares, Tsvs, Drivers,
       Driver, DriverNames, Labels, Others, Marks, Garbage, Worst, Twice

(* Each unit is of one kind.                                                *)
LEMMA UnitKinds ==
  /\ Driven \subseteq Units /\ Gated \subseteq Units /\ Units \subseteq Labels
  /\ Selects \cap (Muxes \cup {"globalMux", "precharger"} \cup BlockSet \cup Amps
                     \cup Compares \cup Tsvs) = {}
  /\ (Muxes \cup {"globalMux"}) \cap ({"precharger"} \cup BlockSet \cup Amps
                     \cup Compares \cup Tsvs) = {}
  /\ BlockSet \cap ({"precharger"} \cup Amps \cup Compares \cup Tsvs) = {}
  /\ "precharger" \notin Amps \cup Compares \cup Tsvs
  /\ Amps \cap (Compares \cup Tsvs) = {} /\ Compares \cap Tsvs = {}
  /\ Units \cap Others = {}
BY DEF Driven, Units, Gated, Selects, Column, Muxes, BlockSet, Amps, Compares, Tsvs,
       Labels, Others

-----------------------------------------------------------------------------
(* The share of a unit in the figures, in the configuration of the design:  *)
(* its gates, if it has any, and its driver; nothing if it does not exist.  *)
Gates(p) == IF p \in Decoding \cup Choosing \cup Predecoding THEN {p} ELSE {}
Existing == Amplifying \cup Matching \cup Stacking

Share(p) ==
  IF p \in Selects THEN {Driver(p)} \cup Gates(p)
  ELSE IF p \in Gated THEN Gates(p)
  ELSE IF p = "precharger" THEN {p, Driver(p)}
  ELSE IF p \in Units THEN {p} \cap Existing
  ELSE {p}

Sum(labels) == UNION {Share(p) : p \in labels}

LEMMA ShareIs ==
  /\ \A p \in Selects : Share(p) = {Driver(p)} \cup Gates(p)
  /\ \A p \in Muxes \cup {"globalMux"} \cup BlockSet : Share(p) = Gates(p)
  /\ Share("precharger") = {"precharger", Driver("precharger")}
  /\ \A p \in Amps \cup Compares \cup Tsvs : Share(p) = {p} \cap Existing
  /\ \A p \in Others : Share(p) = {p}
  /\ \A p \in Labels : Share(p) \subseteq Around(p)
<1>1. \A p \in Selects : Share(p) = {Driver(p)} \cup Gates(p)
  BY DEF Share
<1>2. \A p \in Muxes \cup {"globalMux"} \cup BlockSet : Share(p) = Gates(p)
  BY UnitKinds DEF Share, Gated
<1>3. Share("precharger") = {"precharger", Driver("precharger")}
  BY UnitKinds DEF Share, Gated
<1>4. \A p \in Amps \cup Compares \cup Tsvs : Share(p) = {p} \cap Existing
  BY UnitKinds DEF Share, Gated, Units
<1>5. \A p \in Others : Share(p) = {p}
  BY UnitKinds DEF Share, Units, Gated
<1>6. \A p \in Labels : Share(p) \subseteq Around(p)
  BY UnitKinds DEF Share, Around, Driven, Gates
<1> QED
  BY <1>1, <1>2, <1>3, <1>4, <1>5, <1>6

(* Different labels share nothing.                                          *)
LEMMA AroundsDiffer ==
  ASSUME NEW p \in Labels, NEW q \in Labels, p # q
  PROVE  Around(p) \cap Around(q) = {}
<1>1. p \notin Drivers /\ q \notin Drivers
  BY UnitNames
<1>2. \A r \in Driven : Driver(r) \in Drivers
  BY DriverNamesDiffer
<1>3. p \in Driven /\ q \in Driven => Driver(p) # Driver(q)
  BY DriverNamesDiffer
<1> QED
  BY <1>1, <1>2, <1>3 DEF Around

LEMMA SharesDiffer ==
  /\ \A p, q \in Labels : p # q => Share(p) \cap Share(q) = {}
  /\ \A p \in Labels : Share(p) \cap Marks = {}
<1>1. \A p \in Labels : Around(p) \cap Marks = {}
  BY DriverNamesDiffer DEF Around
<1> QED
  BY <1>1, AroundsDiffer, ShareIs

LEMMA SumsDiffer ==
  ASSUME NEW A, NEW B, A \subseteq Labels, B \subseteq Labels, A \cap B = {}
  PROVE  /\ Sum(A) \cap Sum(B) = {} /\ Sum(A \cup B) = Sum(A) \cup Sum(B)
         /\ Sum(A) \cap Marks = {}
<1>1. \A p \in A, q \in B : Share(p) \cap Share(q) = {}
  BY SharesDiffer
<1>2. \A p \in A : Share(p) \cap Marks = {}
  BY SharesDiffer
<1> QED
  BY <1>1, <1>2 DEF Sum

LEMMA SumOfOne == \A p : Sum({p}) = Share(p)
BY DEF Sum

(* Adding up what different labels share, and what is not assigned.         *)
LEMMA PlusSum ==
  ASSUME NEW A, NEW B, A \subseteq Labels, B \subseteq Labels, A \cap B = {},
         NEW g, NEW h, g \subseteq {Garbage}, h \subseteq {Garbage}
  PROVE  (Sum(A) \cup g) \oplus (Sum(B) \cup h) = Sum(A \cup B) \cup (g \cup h)
<1>1. /\ Sum(A) \cap Sum(B) = {} /\ Sum(A \cup B) = Sum(A) \cup Sum(B)
      /\ Sum(A) \cap Marks = {} /\ Sum(B) \cap Marks = {}
  BY SumsDiffer
<1>2. Garbage \in Marks
  BY DEF Marks
<1> QED
  BY <1>1, <1>2 DEF \oplus

LEMMA PlusPlain ==
  ASSUME NEW A, NEW B, A \subseteq Labels, B \subseteq Labels, A \cap B = {}
  PROVE  Sum(A) \oplus Sum(B) = Sum(A \cup B)
<1>1. /\ Sum(A) \cap Sum(B) = {} /\ Sum(A \cup B) = Sum(A) \cup Sum(B)
  BY SumsDiffer
<1> QED
  BY <1>1 DEF \oplus

LEMMA PlusUnset ==
  ASSUME NEW A, NEW B, A \subseteq Labels, B \subseteq Labels, A \cap B = {},
         NEW g, g \subseteq {Garbage}
  PROVE  (Sum(A) \cup g) \oplus Sum(B) = Sum(A \cup B) \cup g
<1> DEFINE h == {}
<1>1. h \subseteq {Garbage} /\ Sum(B) \cup h = Sum(B) /\ g \cup h = g
  OBVIOUS
<1> HIDE DEF h
<1>2. (Sum(A) \cup g) \oplus (Sum(B) \cup h) = Sum(A \cup B) \cup (g \cup h)
  BY <1>1, PlusSum
<1> QED
  BY <1>1, <1>2

-----------------------------------------------------------------------------
(* Bounds: nothing but shares of these labels, and what BJT access devices  *)
(* leave unassigned; Mixed lets a share count twice, and Once only in those *)
(* figures that the code counts one twice in.                               *)
Clean(x, labels) == x \subseteq Sum(labels) \cup Unset(c)
Mixed(x, labels) == x \subseteq Sum(labels) \cup Unset(c) \cup {Twice}
Once(f, x, labels) == Mixed(x, labels) /\ (Doubled(f) \/ Clean(x, labels))

LEMMA CleanMore ==
  ASSUME NEW A, NEW B, A \subseteq B, NEW x
  PROVE  /\ Clean(x, A) => Clean(x, B) /\ Mixed(x, B)
         /\ Mixed(x, A) => Mixed(x, B)
         /\ x \subseteq Sum(A) => Clean(x, A)
         /\ Clean({}, A)
BY DEF Clean, Mixed, Sum

(* The difference of two bitline delays is in no figure without its label.  *)
LEMMA ShiftApart ==
  ASSUME NEW A, A \subseteq Labels \ {"bitlineShift"}, NEW x, Mixed(x, A)
  PROVE  "bitlineShift" \notin x
<1>1. "bitlineShift" \in Others /\ "bitlineShift" \in Labels
  BY DEF Others, Labels
<1>2. Share("bitlineShift") = {"bitlineShift"}
  BY <1>1, ShareIs
<1>3. \A p \in A : "bitlineShift" \notin Share(p)
  BY <1>1, <1>2, SharesDiffer
<1>4. "bitlineShift" \notin Unset(c) \cup {Twice}
  BY <1>1, <1>2, SharesDiffer DEF Unset, Marks
<1> QED
  BY <1>3, <1>4 DEF Mixed, Sum

LEMMA CleanUnion ==
  ASSUME NEW A, NEW x, NEW y
  PROVE  /\ Clean(x, A) /\ Clean(y, A) => Clean(x \cup y, A)
         /\ Mixed(x, A) /\ Mixed(y, A) => Mixed(x \cup y, A) /\ Mixed(x \oplus y, A)
BY DEF Clean, Mixed, \oplus

LEMMA CleanPlus ==
  ASSUME NEW A, NEW B, A \subseteq Labels, B \subseteq Labels, A \cap B = {},
         NEW x, NEW y, Clean(x, A), Clean(y, B)
  PROVE  Clean(x \oplus y, A \cup B)
<1>1. /\ Sum(A) \cap Sum(B) = {} /\ Sum(A \cup B) = Sum(A) \cup Sum(B)
      /\ Sum(A) \cap Marks = {} /\ Sum(B) \cap Marks = {}
  BY SumsDiffer
<1>2. Garbage \in Marks /\ Unset(c) \subseteq {Garbage}
  BY DEF Marks, Unset
<1>3. (x \cap y) \subseteq {Garbage, Worst}
  BY <1>1, <1>2 DEF Clean
<1> QED
  BY <1>1, <1>3 DEF Clean, \oplus

LEMMA CleanIsOnce ==
  ASSUME NEW A, NEW x, Clean(x, A), NEW f
  PROVE  Once(f, x, A)
BY DEF Clean, Mixed, Once

LEMMA OnceMore ==
  ASSUME NEW A, NEW B, A \subseteq B, NEW f, NEW x, Once(f, x, A)
  PROVE  Once(f, x, B) /\ Mixed(x, B)
BY CleanMore DEF Once

LEMMA OncePlus ==
  ASSUME NEW A, NEW B, A \subseteq Labels, B \subseteq Labels, A \cap B = {},
         NEW f, NEW x, NEW y, Once(f, x, A), Once(f, y, B)
  PROVE  Once(f, x \oplus y, A \cup B)
<1>1. A \subseteq A \cup B /\ B \subseteq A \cup B
  OBVIOUS
<1>2. Mixed(x, A \cup B) /\ Mixed(y, A \cup B)
  BY <1>1, OnceMore
<1>3. Mixed(x \oplus y, A \cup B)
  BY <1>2, CleanUnion
<1>4. CASE Doubled(f)
  BY <1>3, <1>4 DEF Once
<1>5. CASE ~Doubled(f)
  <2>1. Clean(x, A) /\ Clean(y, B)
    BY <1>5 DEF Once
  <2>2. Clean(x \oplus y, A \cup B)
    BY <2>1, CleanPlus
  <2> QED
    BY <1>3, <2>2 DEF Once
<1> QED
  BY <1>4, <1>5

-----------------------------------------------------------------------------
(* Calls on one unit.  Areas, Times and Powers have the figures that matter *)
(* once the calls of that phase are through; none is ever more than the     *)
(* share of the unit.                                                       *)
Timing   == Latencies \cup {"resetLatency", "setLatency", "refreshLatency", "ramp"}
Powering == (Figure \ Timing) \ {"area"}

Areas  == [p \in Units |-> [f \in {"area"} |-> Share(p)]]
Times  ==
  [p \in Units |->
     [f \in IF p \in Selects \cup BlockSet THEN Latencies \cup {"ramp"} ELSE Latencies |->
        IF f = "ramp" \/ (p \in Amps /\ f = "writeLatency") THEN {}
        ELSE IF p = "precharger" THEN {p} ELSE Share(p)]]
Powers ==
  [p \in Units |->
     [f \in Energies \cup {"leakage"} |->
        IF \/ p \in {"precharger"} \cup Amps /\ f = "writeEnergy"
           \/ p \in Muxes \cup {"globalMux"} /\ f = "leakage" THEN {}
        ELSE Share(p)]]

Step(t, u, p, F, values) ==
  /\ Works(Parts, t, u, Around(p), F)
  /\ \A f \in F \cap Figure : Fig(u, p, f) \subseteq Share(p)
  /\ \A f \in DOMAIN values[p] : Fig(u, p, f) = values[p][f]

(* A unit that is initialized, and one whose capacitances are known too.    *)
Fine(t, p) ==
  /\ IsState(Parts, t) /\ p \in t.made /\ p \notin t.bad
  /\ p \in Driven => Driver(p) \in t.made /\ Driver(p) \notin t.bad
  /\ p \in Gated => Fig(t, p, "gates") = Gates(p)

Known(t, p) ==
  /\ Fine(t, p)
  /\ p \in Driven => Fig(t, Driver(p), "cap") = {}
  /\ p # "precharger" /\ (p \in Gated => Gates(p) # {}) => Fig(t, p, "cap") = {}

LEMMA FineDecodes ==
  ASSUME NEW t, NEW p \in Driven, Fine(t, p)
  PROVE  Decodes(Parts, t, p) /\ Around(p) = {p, Driver(p)}
<1>1. p \in Units /\ Driver(p) \in Drivers
  BY UnitKinds, DriverNamesDiffer
<1>2. p \in Parts /\ Driver(p) \in Parts /\ Driver(p) # p
  BY <1>1, UnitNames
<1> QED
  BY <1>2 DEF Fine, Decodes, Around

LEMMA KnownOwn ==
  ASSUME NEW t, NEW p \in Gated, Known(t, p)
  PROVE  Own(t, p) = Gates(p)
BY UnitKinds DEF Known, Fine, Own, Gated

LEMMA FieldNames ==
  /\ Figure \subseteq Fields /\ Timing \subseteq Fields /\ Powering \subseteq Fields
  /\ Latencies \subseteq Timing /\ Energies \cup {"leakage"} \subseteq Powering
  /\ Timing \cap Powering = {} /\ "area" \notin Timing \cup Powering
  /\ {"gates", "cap"} \cap (Figure \cup Timing) = {} /\ "ramp" \notin Figure
  /\ Figure = (Timing \ {"ramp"}) \cup Powering \cup {"area"}
  /\ {"gates", "cap", "ramp"} \subseteq Fields
BY DEF Fields, Figure, Loose, Timing, Powering, Latencies, Energies

(* A call that assigns to one unit leaves the others alone.                 *)
LEMMA StepOfSets ==
  ASSUME NEW t, NEW u, NEW p \in Units, NEW F, NEW x, Sets(Parts, t, u, p, F, x)
  PROVE  Works(Parts, t, u, Around(p), F)
BY UnitNames DEF Sets, Works, Around

LEMMA StepOfSetsTwo ==
  ASSUME NEW t, NEW u, NEW p \in Units, NEW F, NEW G, NEW x, NEW y,
         SetsTwo(Parts, t, u, p, F, x, G, y)
  PROVE  Works(Parts, t, u, Around(p), F \cup G)
BY UnitNames DEF SetsTwo, Works, Around

LEMMA StepOfSetsThree ==
  ASSUME NEW t, NEW u, NEW p \in Units, NEW F, NEW G, NEW H, NEW x, NEW y, NEW z,
         SetsThree(Parts, t, u, p, F, x, G, y, H, z)
  PROVE  Works(Parts, t, u, Around(p), F \cup G \cup H)
BY UnitNames DEF SetsThree, Works, Around

LEMMA WorksMore ==
  ASSUME NEW P, NEW t, NEW u, NEW Q, NEW F, NEW R, NEW G,
         Works(P, t, u, Q, F), Q \subseteq R, F \subseteq G
  PROVE  Works(P, t, u, R, G)
BY DEF Works

-----------------------------------------------------------------------------
(* CalculateArea(), unit by unit.                                           *)
LEMMA SelectShare ==
  ASSUME NEW p \in Selects
  PROVE  {Driver(p)} \oplus Gates(p) = Share(p) /\ p \in Driven /\ p \in Gated /\ p \in Units
<1>1. p \in Driven /\ p \in Gated /\ p \in Units
  BY UnitKinds DEF Driven, Gated
<1>2. Driver(p) # p
  BY <1>1, UnitNames, DriverNamesDiffer
<1>3. {Driver(p)} \cap Gates(p) = {}
  BY <1>2 DEF Gates
<1> QED
  BY <1>1, <1>3, ShareIs DEF \oplus

LEMMA UnitParts == \A p \in Units : p \in Parts
BY UnitNames

LEMMA AreasIs ==
  ASSUME NEW p \in Units
  PROVE  /\ DOMAIN Areas[p] = {"area"}
         /\ Areas[p]["area"] = Share(p)
BY DEF Areas

LEMMA SelectArea ==
  ASSUME NEW t, NEW p \in Selects, Fine(t, p)
  PROVE  Step(t, RowDecoderArea(t, p), p, {"area"}, Areas)
<1> DEFINE u == RowDecoderArea(t, p)
<1>1. p \in Driven /\ p \in Gated /\ p \in Units /\ {Driver(p)} \oplus Gates(p) = Share(p)
  BY SelectShare
<1>2. Decodes(Parts, t, p) /\ Around(p) = {p, Driver(p)} /\ Fig(t, p, "gates") = Gates(p)
  BY <1>1, FineDecodes DEF Fine
<1>3. Works(Parts, t, u, Around(p), {"area"}) /\ Fig(u, p, "area") = Share(p)
  BY <1>1, <1>2, RowDecoderAreaGives
<1> QED
  BY <1>1, <1>3, AreasIs DEF Step

LEMMA PrechargeArea ==
  ASSUME NEW t, Fine(t, "precharger")
  PROVE  Step(t, PrechargerArea(t, "precharger"), "precharger", {"area"}, Areas)
<1> DEFINE p == "precharger"
           u == PrechargerArea(t, p)
<1>1. p \in Driven /\ p \in Units /\ {p, Driver(p)} = Share(p)
  BY UnitKinds, ShareIs DEF Driven
<1>2. Decodes(Parts, t, p) /\ Around(p) = {p, Driver(p)}
  BY <1>1, FineDecodes
<1> HIDE DEF p
<1>3. /\ Works(Parts, t, u, {p, Driver(p)}, {"area"})
      /\ Fig(u, p, "area") = {p, Driver(p)}
  BY <1>2, PrechargerAreaGives
<1>4. Works(Parts, t, u, Around(p), {"area"}) /\ Fig(u, p, "area") = Share(p)
  BY <1>1, <1>2, <1>3
<1>5. Step(t, u, p, {"area"}, Areas)
  BY <1>1, <1>4, AreasIs DEF Step
<1> QED
  BY <1>5 DEF p

(* One call that assigns the area of one unit.                              *)
LEMMA AreaStep ==
  ASSUME NEW t, NEW u, NEW p \in Units, Sets(Parts, t, u, p, {"area"}, Share(p))
  PROVE  Step(t, u, p, {"area"}, Areas)
<1>1. "area" \in Fields
  BY Names
<1>2. Works(Parts, t, u, Around(p), {"area"}) /\ Fig(u, p, "area") = Share(p)
  BY <1>1, StepOfSets, UnitParts DEF Sets
<1> QED
  BY <1>2, AreasIs DEF Step

LEMMA MuxAreaStep ==
  ASSUME NEW t, NEW p \in Muxes \cup {"globalMux"}, Fine(t, p)
  PROVE  Step(t, MuxArea(t, p), p, {"area"}, Areas)
<1>1. p \in Units /\ p \in Parts /\ p \in Gated /\ Share(p) = Gates(p)
  BY UnitKinds, UnitParts, ShareIs DEF Gated
<1> QED
  BY <1>1, MuxAreaGives, AreaStep DEF Fine

LEMMA AmpAreaStep ==
  ASSUME NEW t, NEW p \in Amps, Fine(t, p), Share(p) = {p}
  PROVE  Step(t, SenseAmpArea(t, p), p, {"area"}, Areas)
<1>1. p \in Units /\ p \in Parts
  BY UnitParts DEF Units
<1> QED
  BY <1>1, SenseAmpAreaGives, AreaStep DEF Fine

LEMMA ComparatorAreaStep ==
  ASSUME NEW t, NEW p \in Compares, Fine(t, p), Share(p) = {p}
  PROVE  Step(t, ComparatorArea(t, p), p, {"area"}, Areas)
<1>1. p \in Units /\ p \in Parts
  BY UnitParts DEF Units
<1> QED
  BY <1>1, ComparatorAreaGives, AreaStep DEF Fine

LEMMA BlockAreaStep ==
  ASSUME NEW t, NEW p \in BlockSet, Fine(t, p)
  PROVE  Step(t, BlockArea(t, p), p, {"area"}, Areas)
<1>1. p \in Units /\ p \in Parts /\ p \in Gated /\ Share(p) = Gates(p)
  BY UnitKinds, UnitParts, ShareIs DEF Gated
<1>2. BlockArea(t, p) = Put(t, p, All({"area"}, Fig(t, p, "gates")))
  BY OneField DEF BlockArea, When, Fine
<1>3. Sets(Parts, t, BlockArea(t, p), p, {"area"}, Fig(t, p, "gates"))
  BY <1>1, <1>2, Names, PutAll DEF Fine
<1> QED
  BY <1>1, <1>3, AreaStep DEF Fine

(* A TSV has no leakage.                                                    *)
LEMMA TsvAreaStep ==
  ASSUME NEW t, NEW p \in Tsvs, Known(t, p), Share(p) = {p}
  PROVE  /\ Step(t, TsvArea(t, p), p, {"area", "leakage"}, Areas)
         /\ Fig(TsvArea(t, p), p, "leakage") = {}
<1> DEFINE u == TsvArea(t, p)
<1>1. p \in Units /\ p \in Parts /\ p # "precharger" /\ p \notin Gated
  BY UnitKinds, UnitParts DEF Gated, Units
<1>2. Fig(t, p, "cap") = {}
  BY <1>1 DEF Known
<1>3. SetsTwo(Parts, t, u, p, {"area"}, {p}, {"leakage"}, {})
  <2>1. {p} \cup Fig(t, p, "cap") = {p}
    BY <1>2
  <2> QED
    BY <1>1, <2>1, TsvAreaGives DEF Known, Fine
<1> HIDE DEF u
<1>4. "area" \in Fields /\ "leakage" \in Fields
        /\ {"area"} \cup {"leakage"} = {"area", "leakage"}
  BY Names
<1>5. Works(Parts, t, u, Around(p), {"area"} \cup {"leakage"})
  BY <1>1, <1>3, StepOfSetsTwo
<1>6. Works(Parts, t, u, Around(p), {"area", "leakage"})
  BY <1>4, <1>5
<1>7. Fig(u, p, "area") = {p} /\ Fig(u, p, "leakage") = {}
  BY <1>1, <1>3, <1>4 DEF SetsTwo
<1> QED
  BY <1>1, <1>6, <1>7, AreasIs DEF Step, u

-----------------------------------------------------------------------------
(* CalculateLatency(), unit by unit: all ramps are steps, as no circuit has *)
(* anything but its own delay in them.                                      *)
LEMMA TimesIs ==
  ASSUME NEW p \in Units
  PROVE  /\ DOMAIN Times[p] = IF p \in Selects \cup BlockSet
                              THEN Latencies \cup {"ramp"} ELSE Latencies
         /\ Times[p]["readLatency"] = IF p = "precharger" THEN {p} ELSE Share(p)
         /\ Times[p]["writeLatency"] = IF p \in Amps THEN {}
                                       ELSE IF p = "precharger" THEN {p} ELSE Share(p)
         /\ p \in Selects \cup BlockSet => Times[p]["ramp"] = {}
<1>1. Latencies = {"readLatency", "writeLatency"}
  BY DEF Latencies
<1> QED
  BY <1>1 DEF Times

(* Both latencies of a unit are its share, and its ramp is a step.          *)
LEMMA TimeStep ==
  ASSUME NEW t, NEW u, NEW p \in Units, p \notin Amps \cup {"precharger"},
         Works(Parts, t, u, Around(p), Latencies \cup {"ramp"}),
         \A f \in Latencies : Fig(u, p, f) = Share(p),
         p \in Selects \cup BlockSet => Fig(u, p, "ramp") = {}
  PROVE  Step(t, u, p, Latencies \cup {"ramp"}, Times)
<1>1. Latencies = {"readLatency", "writeLatency"}
  BY DEF Latencies
<1>2. \A f \in DOMAIN Times[p] : Fig(u, p, f) = Times[p][f]
  BY <1>1, TimesIs
<1>3. (Latencies \cup {"ramp"}) \cap Figure \subseteq Latencies
  BY FieldNames
<1> QED
  BY <1>2, <1>3 DEF Step

LEMMA SelectTime ==
  ASSUME NEW t, NEW p \in Selects, Known(t, p)
  PROVE  Step(t, RowDecoderLatency(t, p, {}), p, Latencies \cup {"ramp"}, Times)
<1> DEFINE u == RowDecoderLatency(t, p, {})
           delay == {Driver(p)}
<1>1. /\ p \in Driven /\ p \in Gated /\ p \in Units /\ {Driver(p)} \oplus Gates(p) = Share(p)
      /\ p \notin Amps \cup {"precharger"}
  BY SelectShare, UnitKinds
<1>2. Decodes(Parts, t, p) /\ Around(p) = {p, Driver(p)} /\ Fig(t, Driver(p), "cap") = {}
  BY <1>1, FineDecodes DEF Known
<1>3. Own(t, p) = Gates(p) /\ Gates(p) \subseteq {p}
  BY <1>1, KnownOwn DEF Gates
<1>4. delay = {Driver(p)} \cup Fig(t, Driver(p), "cap") \cup ({} \cup (Own(t, p) \ {p}))
  BY <1>2, <1>3
<1>5. delay \ {Driver(p)} = {}
  OBVIOUS
<1>6. DelaysRow(Parts, t, u, p, delay)
  BY <1>2, <1>4, RowDecoderLatencyGives
<1> HIDE DEF u
<1>7. /\ Works(Parts, t, u, Around(p), Latencies \cup {"ramp"})
      /\ \A f \in Latencies : Fig(u, p, f) = Share(p)
      /\ Fig(u, p, "ramp") = {}
  BY <1>1, <1>2, <1>3, <1>5, <1>6 DEF DelaysRow
<1>8. Step(t, u, p, Latencies \cup {"ramp"}, Times)
  BY <1>1, <1>7, TimeStep
<1> QED
  BY <1>8 DEF u

LEMMA PrechargeTime ==
  ASSUME NEW t, Known(t, "precharger")
  PROVE  Step(t, PrechargerLatency(t, "precharger", {}), "precharger",
              Latencies \cup {"refreshLatency", "ramp"}, Times)
<1> DEFINE p == "precharger"
           u == PrechargerLatency(t, p, {})
<1>1. /\ p \in Driven /\ p \in Units /\ Share(p) = {p, Driver(p)}
      /\ p \notin Selects \cup BlockSet \cup Amps
  BY UnitKinds, ShareIs DEF Driven
<1>2. Decodes(Parts, t, p) /\ Around(p) = {p, Driver(p)} /\ Fig(t, Driver(p), "cap") = {}
  BY <1>1, FineDecodes DEF Known
<1>3. \A f \in DOMAIN Times[p] : f \in Latencies /\ Times[p][f] = {p}
  BY <1>1, TimesIs DEF Latencies
<1> HIDE DEF p
<1>4. /\ Works(Parts, t, u, {p, Driver(p)}, Latencies \cup {"refreshLatency", "ramp"})
      /\ \A f \in Latencies \cup {"refreshLatency"} : Fig(u, p, f) = {p}
  BY <1>2, PrechargerLatencyGives
<1>5. (Latencies \cup {"refreshLatency", "ramp"}) \cap Figure
        \subseteq Latencies \cup {"refreshLatency"}
  BY FieldNames
<1> HIDE DEF u
<1>6. Step(t, u, p, Latencies \cup {"refreshLatency", "ramp"}, Times)
  BY <1>1, <1>2, <1>3, <1>4, <1>5 DEF Step
<1> QED
  BY <1>6 DEF p, u

LEMMA MuxTime ==
  ASSUME NEW t, NEW p \in Muxes \cup {"globalMux"}, Known(t, p)
  PROVE  Step(t, MuxLatency(t, p), p, Latencies \cup {"ramp"}, Times)
<1> DEFINE u == MuxLatency(t, p)
<1>1. /\ p \in Units /\ p \in Parts /\ p \in Gated /\ Share(p) = Gates(p)
      /\ p \notin Amps \cup {"precharger"} /\ p \notin Selects \cup BlockSet
  BY UnitKinds, UnitParts, ShareIs DEF Gated
<1>2. Own(t, p) = Gates(p)
  BY <1>1, KnownOwn
<1>3. Sets(Parts, t, u, p, Latencies, Share(p))
  BY <1>1, <1>2, MuxLatencyGives DEF Known, Fine
<1> HIDE DEF u
<1>4. Works(Parts, t, u, Around(p), Latencies)
  BY <1>1, <1>3, StepOfSets
<1>5. Works(Parts, t, u, Around(p), Latencies \cup {"ramp"})
  BY <1>4, WorksMore
<1>6. \A f \in Latencies : Fig(u, p, f) = Share(p)
  BY <1>1, <1>3, Names DEF Sets
<1>7. Step(t, u, p, Latencies \cup {"ramp"}, Times)
  BY <1>1, <1>5, <1>6, TimeStep
<1> QED
  BY <1>7 DEF u

LEMMA AmpTime ==
  ASSUME NEW t, NEW p \in Amps, Known(t, p), Share(p) = {p}
  PROVE  Step(t, SenseAmpLatency(t, p), p, Latencies \cup {"refreshLatency"}, Times)
<1> DEFINE u == SenseAmpLatency(t, p)
           F == {"readLatency", "refreshLatency"}
           G == {"writeLatency"}
<1>1. /\ p \in Units /\ p \in Parts /\ p # "precharger" /\ p \notin Gated
      /\ p \notin Selects \cup BlockSet
  BY UnitKinds, UnitParts DEF Gated, Units
<1>2. {p} \cup Fig(t, p, "cap") = {p}
  BY <1>1 DEF Known
<1>3. SetsTwo(Parts, t, u, p, F, {p}, G, {})
  BY <1>1, <1>2, SenseAmpLatencyGives DEF Known, Fine
<1> HIDE DEF u
<1>4. Works(Parts, t, u, Around(p), F \cup G)
  BY <1>1, <1>3, StepOfSetsTwo
<1>5. F \cup G = Latencies \cup {"refreshLatency"} /\ F \cup G \subseteq Fields
  BY FieldNames DEF Latencies, Timing
<1>6. /\ \A f \in F : Fig(u, p, f) = {p}
      /\ \A f \in G : Fig(u, p, f) = {}
  BY <1>1, <1>3, <1>5 DEF SetsTwo
<1>7. \A f \in DOMAIN Times[p] : Fig(u, p, f) = Times[p][f]
  <2>1. DOMAIN Times[p] = {"readLatency", "writeLatency"}
    BY <1>1, TimesIs DEF Latencies
  <2> QED
    BY <1>1, <1>6, <2>1, TimesIs
<1> QED
  BY <1>4, <1>5, <1>6, <1>7 DEF Step, u

LEMMA ComparatorTime ==
  ASSUME NEW t, NEW p \in Compares, Known(t, p), Share(p) = {p}
  PROVE  Step(t, ComparatorLatency(t, p, {}), p, Latencies \cup {"ramp"}, Times)
<1> DEFINE u == ComparatorLatency(t, p, {})
<1>1. /\ p \in Units /\ p \in Parts /\ p \notin Gated
      /\ p \notin Amps \cup {"precharger"} /\ p \notin Selects \cup BlockSet
  BY UnitKinds, UnitParts DEF Gated, Units
<1>2. {p} = {p} \cup Fig(t, p, "cap") \cup {}
  BY <1>1 DEF Known
<1>3. SetsTwo(Parts, t, u, p, Latencies, {p}, {"ramp"}, {p} \ {p})
  BY <1>1, <1>2, ComparatorLatencyGives DEF Known, Fine
<1> HIDE DEF u
<1>4. Works(Parts, t, u, Around(p), Latencies \cup {"ramp"})
  BY <1>1, <1>3, StepOfSetsTwo
<1>5. \A f \in Latencies : Fig(u, p, f) = Share(p)
  BY <1>1, <1>3, Names DEF SetsTwo
<1>6. Step(t, u, p, Latencies \cup {"ramp"}, Times)
  BY <1>1, <1>4, <1>5, TimeStep
<1> QED
  BY <1>6 DEF u

LEMMA BlockTime ==
  ASSUME NEW t, NEW p \in BlockSet, Known(t, p)
  PROVE  Step(t, BlockLatency(t, p, {}), p, Latencies \cup {"ramp"}, Times)
<1> DEFINE u == BlockLatency(t, p, {})
           own == Own(t, p)
           out == (own \ {p}) \cup {}
<1>1. /\ p \in Units /\ p \in Parts /\ p \in Gated /\ Share(p) = Gates(p)
      /\ p \notin Amps \cup {"precharger"}
  BY UnitKinds, UnitParts, ShareIs DEF Gated
<1>2. own = Gates(p) /\ Gates(p) \subseteq {p}
  BY <1>1, KnownOwn DEF Gates
<1>3. u = Put(t, p, All(Latencies, own) ++ All({"ramp"}, out))
  BY OneField DEF BlockLatency, When, Known, Fine
<1>4. out = {}
  BY <1>2
<1> HIDE DEF u, own, out
<1>5. SetsTwo(Parts, t, u, p, Latencies, own, {"ramp"}, out)
  BY <1>1, <1>3, Names, PutTwo DEF Known, Fine
<1>6. Works(Parts, t, u, Around(p), Latencies \cup {"ramp"})
  BY <1>1, <1>5, StepOfSetsTwo
<1>7. /\ \A f \in Latencies : Fig(u, p, f) = Share(p)
      /\ Fig(u, p, "ramp") = {}
  BY <1>1, <1>2, <1>4, <1>5, Names DEF SetsTwo, Latencies
<1>8. Step(t, u, p, Latencies \cup {"ramp"}, Times)
  BY <1>1, <1>6, <1>7, TimeStep
<1> QED
  BY <1>8 DEF u

-----------------------------------------------------------------------------
(* CalculatePower(), unit by unit.                                          *)
Drawing == Energies \cup {"leakage"}

LEMMA PowersIs ==
  ASSUME NEW p \in Units
  PROVE  /\ DOMAIN Powers[p] = {"readEnergy", "writeEnergy", "leakage"}
         /\ Powers[p]["readEnergy"] = Share(p)
         /\ Powers[p]["writeEnergy"] = IF p \in {"precharger"} \cup Amps THEN {} ELSE Share(p)
         /\ Powers[p]["leakage"] = IF p \in Muxes \cup {"globalMux"} THEN {} ELSE Share(p)
<1>1. Energies = {"readEnergy", "writeEnergy"}
  BY DEF Energies
<1> QED
  BY <1>1 DEF Powers

LEMMA PowerStep ==
  ASSUME NEW t, NEW u, NEW p \in Units, p \notin Amps \cup {"precharger"},
         Works(Parts, t, u, Around(p), Drawing),
         \A f \in Energies : Fig(u, p, f) = Share(p),
         Fig(u, p, "leakage") = IF p \in Muxes \cup {"globalMux"} THEN {} ELSE Share(p)
  PROVE  Step(t, u, p, Drawing, Powers)
<1>1. Energies = {"readEnergy", "writeEnergy"}
  BY DEF Energies
<1>2. \A f \in DOMAIN Powers[p] : Fig(u, p, f) = Powers[p][f]
  BY <1>1, PowersIs
<1>3. \A f \in Drawing : Fig(u, p, f) \subseteq Share(p)
  BY <1>1 DEF Drawing
<1> QED
  BY <1>2, <1>3 DEF Step

LEMMA SelectPower ==
  ASSUME NEW t, NEW p \in Selects, Known(t, p)
  PROVE  Step(t, RowDecoderPower(t, p), p, Drawing, Powers)
<1> DEFINE u == RowDecoderPower(t, p)
<1>1. /\ p \in Driven /\ p \in Gated /\ p \in Units /\ {Driver(p)} \oplus Gates(p) = Share(p)
      /\ p \notin Amps \cup {"precharger"} /\ p \notin Muxes \cup {"globalMux"}
  BY SelectShare, UnitKinds
<1>2. /\ Decodes(Parts, t, p) /\ Around(p) = {p, Driver(p)}
      /\ {Driver(p)} \cup Fig(t, Driver(p), "cap") = {Driver(p)}
      /\ Fig(t, p, "gates") = Gates(p)
  BY <1>1, FineDecodes DEF Known, Fine
<1>3. Own(t, p) = Gates(p)
  BY <1>1, KnownOwn
<1>4. /\ Works(Parts, t, u, {p, Driver(p)}, Energies \cup {"leakage"})
      /\ \A f \in Energies : Fig(u, p, f) =
           ({Driver(p)} \cup Fig(t, Driver(p), "cap")) \oplus Own(t, p)
      /\ Fig(u, p, "leakage") = {Driver(p)} \oplus Fig(t, p, "gates")
  BY <1>2, RowDecoderPowerGives
<1> HIDE DEF u
<1>5. /\ Works(Parts, t, u, Around(p), Drawing)
      /\ \A f \in Energies : Fig(u, p, f) = Share(p)
      /\ Fig(u, p, "leakage") = Share(p)
  BY <1>1, <1>2, <1>3, <1>4 DEF Drawing
<1>6. Step(t, u, p, Drawing, Powers)
  BY <1>1, <1>5, PowerStep
<1> QED
  BY <1>6 DEF u

LEMMA PrechargePower ==
  ASSUME NEW t, Known(t, "precharger")
  PROVE  Step(t, PrechargerPower(t, "precharger"), "precharger",
              Drawing \cup {"refreshEnergy"}, Powers)
<1> DEFINE p == "precharger"
           u == PrechargerPower(t, p)
<1>1. /\ p \in Driven /\ p \in Units /\ Share(p) = {Driver(p), p}
      /\ p \notin Muxes \cup {"globalMux"} \cup Amps
  BY UnitKinds, ShareIs DEF Driven
<1>2. Decodes(Parts, t, p) /\ Around(p) = {p, Driver(p)} /\ Fig(t, Driver(p), "cap") = {}
  BY <1>1, FineDecodes DEF Known
<1>3. /\ DOMAIN Powers[p] = {"readEnergy", "writeEnergy", "leakage"}
      /\ Powers[p]["readEnergy"] = {Driver(p), p} /\ Powers[p]["writeEnergy"] = {}
      /\ Powers[p]["leakage"] = {Driver(p), p}
  BY <1>1, PowersIs
<1> HIDE DEF p
<1>4. /\ Works(Parts, t, u, {p, Driver(p)}, Energies \cup {"refreshEnergy", "leakage"})
      /\ \A f \in {"readEnergy", "refreshEnergy", "leakage"} : Fig(u, p, f) = {Driver(p), p}
      /\ Fig(u, p, "writeEnergy") = {}
  BY <1>2, PrechargerPowerGives
<1>5. /\ Energies \cup {"refreshEnergy", "leakage"} = Drawing \cup {"refreshEnergy"}
      /\ Drawing \cup {"refreshEnergy"}
           = {"readEnergy", "refreshEnergy", "leakage", "writeEnergy"}
  BY DEF Drawing, Energies
<1> HIDE DEF u
<1>6. \A f \in DOMAIN Powers[p] : Fig(u, p, f) = Powers[p][f]
  BY <1>3, <1>4
<1>7. Step(t, u, p, Drawing \cup {"refreshEnergy"}, Powers)
  BY <1>1, <1>2, <1>4, <1>5, <1>6 DEF Step
<1> QED
  BY <1>7 DEF p, u

LEMMA MuxPowerStep ==
  ASSUME NEW t, NEW p \in Muxes \cup {"globalMux"}, Known(t, p)
  PROVE  Step(t, MuxPower(t, p), p, Drawing, Powers)
<1> DEFINE u == MuxPower(t, p)
<1>1. /\ p \in Units /\ p \in Parts /\ p \in Gated /\ Share(p) = Gates(p)
      /\ p \notin Amps \cup {"precharger"}
  BY UnitKinds, UnitParts, ShareIs DEF Gated
<1>2. Own(t, p) = Gates(p)
  BY <1>1, KnownOwn
<1>3. SetsTwo(Parts, t, u, p, Energies, Share(p), {"leakage"}, {})
  BY <1>1, <1>2, MuxPowerGives DEF Known, Fine
<1> HIDE DEF u
<1>4. Works(Parts, t, u, Around(p), Drawing)
  BY <1>1, <1>3, StepOfSetsTwo DEF Drawing
<1>5. "leakage" \notin Energies
  BY DEF Energies
<1>6. (\A f \in Energies : Fig(u, p, f) = Share(p)) /\ Fig(u, p, "leakage") = {}
  BY <1>1, <1>3, <1>5, Names DEF SetsTwo
<1>7. Step(t, u, p, Drawing, Powers)
  BY <1>1, <1>4, <1>6, PowerStep
<1> QED
  BY <1>7 DEF u

LEMMA AmpPower ==
  ASSUME NEW t, NEW p \in Amps, Known(t, p), Share(p) = {p}
  PROVE  Step(t, SenseAmpPower(t, p), p, Drawing \cup {"refreshEnergy"}, Powers)
<1> DEFINE u == SenseAmpPower(t, p)
           F == {"readEnergy", "refreshEnergy"}
           G == {"writeEnergy"}
           H == {"leakage"}
<1>1. /\ p \in Units /\ p \in Parts /\ p # "precharger" /\ p \notin Gated
      /\ p \notin Muxes \cup {"globalMux"}
  BY UnitKinds, UnitParts DEF Gated, Units
<1>2. {p} \cup Fig(t, p, "cap") = {p}
  BY <1>1 DEF Known
<1>3. SetsThree(Parts, t, u, p, F, {p}, G, {}, H, {p})
  BY <1>1, <1>2, SenseAmpPowerGives DEF Known, Fine
<1> HIDE DEF u
<1>4. Works(Parts, t, u, Around(p), F \cup G \cup H)
  BY <1>1, <1>3, StepOfSetsThree
<1>5. F \cup G \cup H = Drawing \cup {"refreshEnergy"} /\ F \cup G \cup H \subseteq Fields
  BY DEF Drawing, Energies, Fields, Figure
<1>6. /\ \A f \in F \cup H : Fig(u, p, f) = {p}
      /\ \A f \in G : Fig(u, p, f) = {}
  BY <1>1, <1>3, <1>5 DEF SetsThree
<1>7. \A f \in DOMAIN Powers[p] : Fig(u, p, f) = Powers[p][f]
  BY <1>1, <1>6, PowersIs
<1> QED
  BY <1>4, <1>5, <1>6, <1>7 DEF Step, u

LEMMA ComparatorPowerStep ==
  ASSUME NEW t, NEW p \in Compares, Known(t, p), Share(p) = {p}
  PROVE  Step(t, ComparatorPower(t, p), p, Drawing, Powers)
<1> DEFINE u == ComparatorPower(t, p)
<1>1. /\ p \in Units /\ p \in Parts /\ p \notin Gated
      /\ p \notin Amps \cup {"precharger"} /\ p \notin Muxes \cup {"globalMux"}
  BY UnitKinds, UnitParts DEF Gated, Units
<1>2. {p} \cup Fig(t, p, "cap") = {p}
  BY <1>1 DEF Known
<1>3. SetsTwo(Parts, t, u, p, Energies, {p}, {"leakage"}, {p})
  BY <1>1, <1>2, ComparatorPowerGives DEF Known, Fine
<1> HIDE DEF u
<1>4. Works(Parts, t, u, Around(p), Drawing)
  BY <1>1, <1>3, StepOfSetsTwo DEF Drawing
<1>5. (\A f \in Energies : Fig(u, p, f) = Share(p)) /\ Fig(u, p, "leakage") = Share(p)
  BY <1>1, <1>3, Names DEF SetsTwo
<1>6. Step(t, u, p, Drawing, Powers)
  BY <1>1, <1>4, <1>5, PowerStep
<1> QED
  BY <1>6 DEF u

LEMMA BlockPowerStep ==
  ASSUME NEW t, NEW p \in BlockSet, Known(t, p)
  PROVE  Step(t, BlockPower(t, p), p, Drawing, Powers)
<1> DEFINE u == BlockPower(t, p)
<1>1. /\ p \in Units /\ p \in Parts /\ p \in Gated /\ Share(p) = Gates(p)
      /\ p \notin Amps \cup {"precharger"} /\ p \notin Muxes \cup {"globalMux"}
  BY UnitKinds, UnitParts, ShareIs DEF Gated
<1>2. Own(t, p) = Gates(p) /\ Fig(t, p, "gates") = Gates(p)
  BY <1>1, KnownOwn DEF Known, Fine
<1>3. u = Put(t, p, All(Energies, Share(p)) ++ All({"leakage"}, Share(p)))
  BY <1>1, <1>2, OneField DEF BlockPower, When, Known, Fine
<1> HIDE DEF u
<1>4. SetsTwo(Parts, t, u, p, Energies, Share(p), {"leakage"}, Share(p))
  BY <1>1, <1>3, Names, PutTwo DEF Known, Fine
<1>5. Works(Parts, t, u, Around(p), Drawing)
  BY <1>1, <1>4, StepOfSetsTwo DEF Drawing
<1>6. (\A f \in Energies : Fig(u, p, f) = Share(p)) /\ Fig(u, p, "leakage") = Share(p)
  BY <1>1, <1>4, Names DEF SetsTwo
<1>7. Step(t, u, p, Drawing, Powers)
  BY <1>1, <1>5, <1>6, PowerStep
<1> QED
  BY <1>7 DEF u

(* The TSVs' latencies and energies are theirs, if there were none.         *)
Crossed(t, u, p) ==
  /\ Works(Parts, t, u, {p}, {"readLatency", "writeLatency", "resetLatency", "setLatency",
                              "readEnergy", "writeEnergy", "resetEnergy", "setEnergy"})
  /\ \A f \in {"readLatency", "writeLatency", "resetLatency", "setLatency",
               "readEnergy", "writeEnergy", "resetEnergy", "setEnergy"} :
       Fig(u, p, f) = {p}

LEMMA TsvStep ==
  ASSUME NEW t, NEW p \in Tsvs, Known(t, p),
         Fig(t, p, "readEnergy") = {}, Fig(t, p, "writeEnergy") = {}
  PROVE  Crossed(t, TsvLatencyAndPower(t, p), p)
<1> DEFINE u == TsvLatencyAndPower(t, p)
<1>1. p \in Units /\ p \in Parts /\ p # "precharger" /\ p \notin Gated
  BY UnitKinds, UnitParts DEF Gated, Units
<1>2. /\ {p} \cup Fig(t, p, "cap") = {p}
      /\ Fig(t, p, "readEnergy") \oplus {p} = {p} /\ Fig(t, p, "writeEnergy") \oplus {p} = {p}
  BY <1>1 DEF Known, \oplus
<1>3. Crosses(Parts, t, u, p)
  BY <1>1, TsvLatencyAndPowerGives DEF Known, Fine
<1> HIDE DEF u
<1>4. SetsThree(Parts, t, u, p, {"readLatency", "writeLatency", "resetLatency", "setLatency"},
                {p}, {"readEnergy"}, {p}, {"writeEnergy", "resetEnergy", "setEnergy"}, {p})
  BY <1>2, <1>3 DEF Crosses
<1>5. {"readLatency", "writeLatency", "resetLatency", "setLatency",
       "readEnergy", "writeEnergy", "resetEnergy", "setEnergy"} \subseteq Fields
  BY DEF Fields, Figure
<1> QED
  BY <1>1, <1>4, <1>5 DEF SetsThree, Works, Crossed, u

-----------------------------------------------------------------------------
(* Calls on several units, one after the other.  What the units have is     *)
(* never more than their shares.                                            *)
Modest(t) == \A p \in Units, f \in Figure : Fig(t, p, f) \subseteq Share(p)

(* The calls of a phase, on the units in S.  A decoder takes no part in the *)
(* energy of a refresh.                                                     *)
Done(s0, t, S, F, values) ==
  /\ Works(Parts, s0, t, S \cup Drivers, F) /\ Modest(t)
  /\ \A p \in S : \A f \in DOMAIN values[p] : Fig(t, p, f) = values[p][f]
  /\ \A p \in Selects : Fig(t, p, "refreshEnergy") = Fig(s0, p, "refreshEnergy")

LEMMA DoneNone ==
  ASSUME NEW t, NEW F, NEW values, IsState(Parts, t), Modest(t)
  PROVE  Done(t, t, {}, F, values)
BY DEF Done, Works, Computes

LEMMA AroundUnit ==
  ASSUME NEW p \in Units
  PROVE  /\ Around(p) \subseteq {p} \cup Drivers /\ Around(p) \subseteq Parts
         /\ Around(p) \cap Units = {p}
<1>1. p \in Driven => Driver(p) \in Drivers
  BY DriverNamesDiffer
<1> QED
  BY <1>1, UnitNames DEF Around

LEMMA StepModest ==
  ASSUME NEW t, NEW u, NEW p \in Units, NEW F, NEW values, Modest(t), Step(t, u, p, F, values)
  PROVE  Modest(u)
<1>1. \A q \in Units, f \in Figure : q # p \/ f \notin F => Fig(u, q, f) = Fig(t, q, f)
  <2>1. \A q \in Units : q \in Parts /\ (q # p => q \notin Around(p))
    BY AroundUnit, UnitParts
  <2>2. Figure \subseteq Fields
    BY DEF Fields
  <2> QED
    BY <2>1, <2>2 DEF Step, Works
<1> QED
  BY <1>1 DEF Modest, Step

Reads(values) == \A p \in Units : DOMAIN values[p] \subseteq Fields

LEMMA ValuesRead == Reads(Areas) /\ Reads(Times) /\ Reads(Powers)
<1>1. Latencies \cup {"ramp"} \subseteq Fields /\ "area" \in Fields
      /\ {"readEnergy", "writeEnergy", "leakage"} \subseteq Fields
  BY DEF Latencies, Fields, Figure, Loose
<1>2. Reads(Areas)
  BY <1>1, AreasIs DEF Reads
<1>3. Reads(Times)
  BY <1>1, TimesIs DEF Reads
<1>4. Reads(Powers)
  BY <1>1, PowersIs DEF Reads
<1> QED
  BY <1>2, <1>3, <1>4

LEMMA DoneStep ==
  ASSUME NEW s0, NEW t, NEW u, NEW S, S \subseteq Units, NEW p \in Units \ S,
         NEW F, NEW G, G \subseteq F, "refreshEnergy" \in G => p \notin Selects,
         NEW values, Reads(values),
         Done(s0, t, S, F, values), Step(t, u, p, G, values)
  PROVE  Done(s0, u, S \cup {p}, F, values)
<1> DEFINE R == (S \cup {p}) \cup Drivers
<1>1. Works(Parts, s0, t, S \cup Drivers, F)
  BY DEF Done
<1>2. Works(Parts, t, u, Around(p), G)
  BY DEF Step
<1>3. Around(p) \subseteq R /\ S \cup Drivers \subseteq R
  BY AroundUnit
<1>4. Works(Parts, s0, u, R, F)
  <2>1. Works(Parts, s0, t, R, F)
    BY <1>1, <1>3, WorksMore
  <2> HIDE DEF R
  <2> QED
    BY <1>2, <1>3, <2>1, WorksOn
<1>5. Modest(u)
  BY StepModest DEF Done
<1>6. ASSUME NEW q \in S, NEW f \in DOMAIN values[q]
      PROVE  Fig(u, q, f) = values[q][f]
  <2>1. q \notin Around(p) /\ q \in Parts /\ f \in Fields
    BY AroundUnit, UnitParts DEF Reads
  <2>2. Fig(u, q, f) = Fig(t, q, f)
    BY <1>2, <2>1 DEF Works
  <2> QED
    BY <2>2 DEF Done
<1>7. \A f \in DOMAIN values[p] : Fig(u, p, f) = values[p][f]
  BY DEF Step
<1>8. ASSUME NEW q \in Selects
      PROVE  Fig(u, q, "refreshEnergy") = Fig(s0, q, "refreshEnergy")
  <2>1. q \in Units /\ q \in Parts /\ (q # p => q \notin Around(p))
    BY SelectShare, UnitParts, AroundUnit
  <2>2. "refreshEnergy" \in Fields
    BY DEF Fields, Figure
  <2>3. Fig(u, q, "refreshEnergy") = Fig(t, q, "refreshEnergy")
    BY <1>2, <2>1, <2>2 DEF Works
  <2> QED
    BY <2>3 DEF Done
<1> QED
  BY <1>4, <1>5, <1>6, <1>7, <1>8 DEF Done

(* Computing leaves a part initialized and its capacitances known.          *)
LEMMA StaysReady ==
  ASSUME NEW s0, NEW t, NEW Q, NEW F, Works(Parts, s0, t, Q, F),
         F \cap {"gates", "cap"} = {}, NEW p \in Units
  PROVE  /\ Fine(s0, p) => Fine(t, p)
         /\ Known(s0, p) => Known(t, p)
<1>1. p \in Parts /\ (p \in Driven => Driver(p) \in Parts)
  BY UnitNames, DriverNamesDiffer
<1>2. {"gates", "cap"} \subseteq Fields
  BY Names
<1>3. \A f \in {"gates", "cap"} : f \notin F
  OBVIOUS
<1>4. /\ IsState(Parts, t) /\ t.made = s0.made /\ t.bad = s0.bad
      /\ \A q \in Parts, f \in {"gates", "cap"} : Fig(t, q, f) = Fig(s0, q, f)
  BY <1>2, <1>3 DEF Works, Computes
<1>5. Fine(s0, p) => Fine(t, p)
  BY <1>1, <1>4 DEF Fine
<1>6. Known(s0, p) => Known(t, p)
  BY <1>1, <1>4, <1>5 DEF Known
<1> QED
  BY <1>5, <1>6

LEMMA DoneFine ==
  ASSUME NEW s0, NEW t, NEW u, NEW S, S \subseteq Units, NEW p \in Units \ S,
         NEW F, F \cap {"gates", "cap"} = {}, NEW G, G \subseteq F,
         "refreshEnergy" \in G => p \notin Selects,
         NEW values, Reads(values), Done(s0, t, S, F, values),
         Fine(s0, p), Fine(t, p) => Step(t, u, p, G, values)
  PROVE  Done(s0, u, S \cup {p}, F, values)
<1>1. Fine(t, p)
  BY StaysReady DEF Done
<1> QED
  BY <1>1, DoneStep

LEMMA DoneKnown ==
  ASSUME NEW s0, NEW t, NEW u, NEW S, S \subseteq Units, NEW p \in Units \ S,
         NEW F, F \cap {"gates", "cap"} = {}, NEW G, G \subseteq F,
         "refreshEnergy" \in G => p \notin Selects,
         NEW values, Reads(values), Done(s0, t, S, F, values),
         Known(s0, p), Known(t, p) => Step(t, u, p, G, values)
  PROVE  Done(s0, u, S \cup {p}, F, values)
<1>1. Known(t, p)
  BY StaysReady DEF Done
<1> QED
  BY <1>1, DoneStep

-----------------------------------------------------------------------------
(* One call on each of the eight predecoder blocks.                         *)
LEMMA TheBlocks ==
  /\ BlockSet \subseteq Units /\ BlockSet \subseteq Gated /\ BlockSet \cap Driven = {}
  /\ \A p \in BlockSet : Around(p) = {p}
<1>1. BlockSet \cap Driven = {}
  BY UnitKinds DEF Driven
<1> QED
  BY <1>1, UnitKinds DEF Gated, Around

LEMMA EightBlocks ==
  ASSUME NEW s0, NEW S, S \subseteq Units \ BlockSet, NEW F, NEW G, G \subseteq F,
         NEW values, Reads(values),
         NEW t0, NEW t1, NEW t2, NEW t3, NEW t4, NEW t5, NEW t6, NEW t7, NEW t8,
         Done(s0, t0, S, F, values),
         Works(Parts, s0, t0, Units \cup Drivers, F) => Step(t0, t1, "rowBlock1", G, values),
         Works(Parts, s0, t1, Units \cup Drivers, F) => Step(t1, t2, "rowBlock2", G, values),
         Works(Parts, s0, t2, Units \cup Drivers, F) => Step(t2, t3, "muxBlock1", G, values),
         Works(Parts, s0, t3, Units \cup Drivers, F) => Step(t3, t4, "muxBlock2", G, values),
         Works(Parts, s0, t4, Units \cup Drivers, F) => Step(t4, t5, "lev1Block1", G, values),
         Works(Parts, s0, t5, Units \cup Drivers, F) => Step(t5, t6, "lev1Block2", G, values),
         Works(Parts, s0, t6, Units \cup Drivers, F) => Step(t6, t7, "lev2Block1", G, values),
         Works(Parts, s0, t7, Units \cup Drivers, F) => Step(t7, t8, "lev2Block2", G, values)
  PROVE  Done(s0, t8, S \cup BlockSet, F, values)
<1>1. ASSUME NEW t, NEW u, NEW A, A \subseteq Units, NEW p \in Units \ A,
             Done(s0, t, A, F, values),
             p \notin Selects,
             Works(Parts, s0, t, Units \cup Drivers, F) => Step(t, u, p, G, values)
      PROVE  Done(s0, u, A \cup {p}, F, values)
  <2>1. Works(Parts, s0, t, Units \cup Drivers, F)
    <3>1. Works(Parts, s0, t, A \cup Drivers, F)
      BY <1>1 DEF Done
    <3>2. A \cup Drivers \subseteq Units \cup Drivers
      BY <1>1
    <3> QED
      BY <3>1, <3>2, WorksMore
  <2>2. Step(t, u, p, G, values)
    BY <1>1, <2>1
  <2> QED
    BY <1>1, <2>2, DoneStep
<1> DEFINE A0 == S
           A1 == A0 \cup {"rowBlock1"}
           A2 == A1 \cup {"rowBlock2"}
           A3 == A2 \cup {"muxBlock1"}
           A4 == A3 \cup {"muxBlock2"}
           A5 == A4 \cup {"lev1Block1"}
           A6 == A5 \cup {"lev1Block2"}
           A7 == A6 \cup {"lev2Block1"}
           A8 == A7 \cup {"lev2Block2"}
<1>2. /\ A0 \subseteq Units
      /\ A1 \subseteq Units /\ "rowBlock1" \in Units \ A0 /\ "rowBlock1" \notin Selects
      /\ A2 \subseteq Units /\ "rowBlock2" \in Units \ A1 /\ "rowBlock2" \notin Selects
      /\ A3 \subseteq Units /\ "muxBlock1" \in Units \ A2 /\ "muxBlock1" \notin Selects
      /\ A4 \subseteq Units /\ "muxBlock2" \in Units \ A3 /\ "muxBlock2" \notin Selects
      /\ A5 \subseteq Units /\ "lev1Block1" \in Units \ A4 /\ "lev1Block1" \notin Selects
      /\ A6 \subseteq Units /\ "lev1Block2" \in Units \ A5 /\ "lev1Block2" \notin Selects
      /\ A7 \subseteq Units /\ "lev2Block1" \in Units \ A6 /\ "lev2Block1" \notin Selects
      /\ A8 \subseteq Units /\ "lev2Block2" \in Units \ A7 /\ "lev2Block2" \notin Selects
  BY TheBlocks, UnitKinds DEF BlockSet
<1>3. A8 = S \cup BlockSet
  BY DEF BlockSet
<1>4. Done(s0, t0, A0, F, values)
  OBVIOUS
<1>5. Done(s0, t1, A1, F, values)
  <2> HIDE DEF A0
  <2> QED
    BY <1>1, <1>2, <1>4
<1>6. Done(s0, t2, A2, F, values)
  <2> HIDE DEF A1
  <2> QED
    BY <1>1, <1>2, <1>5
<1>7. Done(s0, t3, A3, F, values)
  <2> HIDE DEF A2
  <2> QED
    BY <1>1, <1>2, <1>6
<1>8. Done(s0, t4, A4, F, values)
  <2> HIDE DEF A3
  <2> QED
    BY <1>1, <1>2, <1>7
<1>9. Done(s0, t5, A5, F, values)
  <2> HIDE DEF A4
  <2> QED
    BY <1>1, <1>2, <1>8
<1>10. Done(s0, t6, A6, F, values)
  <2> HIDE DEF A5
  <2> QED
    BY <1>1, <1>2, <1>9
<1>11. Done(s0, t7, A7, F, values)
  <2> HIDE DEF A6
  <2> QED
    BY <1>1, <1>2, <1>10
<1>12. Done(s0, t8, A8, F, values)
  <2> HIDE DEF A7
  <2> QED
    BY <1>1, <1>2, <1>11
<1> QED
  BY <1>3, <1>12

LEMMA BlocksArea ==
  ASSUME NEW s0, NEW t, NEW S, S \subseteq Units \ BlockSet, NEW F,
         F \cap {"gates", "cap"} = {}, {"area"} \subseteq F,
         Done(s0, t, S, F, Areas), \A p \in BlockSet : Fine(s0, p)
  PROVE  Done(s0, EachBlock(t, BlockArea), S \cup BlockSet, F, Areas)
<1>1. ASSUME NEW u, NEW p \in BlockSet, Works(Parts, s0, u, Units \cup Drivers, F)
      PROVE  Step(u, BlockArea(u, p), p, {"area"}, Areas)
  BY <1>1, TheBlocks, StaysReady, BlockAreaStep
<1>2. Reads(Areas)
  BY ValuesRead
<1> DEFINE t1 == BlockArea(t, "rowBlock1")
           t2 == BlockArea(t1, "rowBlock2")
           t3 == BlockArea(t2, "muxBlock1")
           t4 == BlockArea(t3, "muxBlock2")
           t5 == BlockArea(t4, "lev1Block1")
           t6 == BlockArea(t5, "lev1Block2")
           t7 == BlockArea(t6, "lev2Block1")
           t8 == BlockArea(t7, "lev2Block2")
<1>3. EachBlock(t, BlockArea) = t8
  BY DEF EachBlock, Each4, Each3
<1>4. /\ Works(Parts, s0, t, Units \cup Drivers, F) => Step(t, t1, "rowBlock1", {"area"}, Areas)
      /\ Works(Parts, s0, t1, Units \cup Drivers, F) => Step(t1, t2, "rowBlock2", {"area"}, Areas)
      /\ Works(Parts, s0, t2, Units \cup Drivers, F) => Step(t2, t3, "muxBlock1", {"area"}, Areas)
      /\ Works(Parts, s0, t3, Units \cup Drivers, F) => Step(t3, t4, "muxBlock2", {"area"}, Areas)
      /\ Works(Parts, s0, t4, Units \cup Drivers, F) => Step(t4, t5, "lev1Block1", {"area"}, Areas)
      /\ Works(Parts, s0, t5, Units \cup Drivers, F) => Step(t5, t6, "lev1Block2", {"area"}, Areas)
      /\ Works(Parts, s0, t6, Units \cup Drivers, F) => Step(t6, t7, "lev2Block1", {"area"}, Areas)
      /\ Works(Parts, s0, t7, Units \cup Drivers, F) => Step(t7, t8, "lev2Block2", {"area"}, Areas)
  <2>1. /\ "rowBlock1" \in BlockSet
        /\ "rowBlock2" \in BlockSet
        /\ "muxBlock1" \in BlockSet
        /\ "muxBlock2" \in BlockSet
        /\ "lev1Block1" \in BlockSet
        /\ "lev1Block2" \in BlockSet
        /\ "lev2Block1" \in BlockSet
        /\ "lev2Block2" \in BlockSet
    BY DEF BlockSet
  <2> QED
    BY <1>1, <2>1
<1> HIDE DEF t1, t2, t3, t4, t5, t6, t7, t8
<1> QED
  BY <1>2, <1>3, <1>4, EightBlocks

(* EachBlock() with a step at every input.                                  *)
DelayBlock(t, p) == BlockLatency(t, p, {})

LEMMA BlocksLatency ==
  ASSUME NEW s0, NEW t, NEW S, S \subseteq Units \ BlockSet, NEW F,
         F \cap {"gates", "cap"} = {}, Latencies \cup {"ramp"} \subseteq F,
         Done(s0, t, S, F, Times), \A p \in BlockSet : Known(s0, p)
  PROVE  Done(s0, EachBlock(t, DelayBlock), S \cup BlockSet, F, Times)
<1>1. ASSUME NEW u, NEW p \in BlockSet, Works(Parts, s0, u, Units \cup Drivers, F)
      PROVE  Step(u, BlockLatency(u, p, {}), p, Latencies \cup {"ramp"}, Times)
  BY <1>1, TheBlocks, StaysReady, BlockTime
<1>2. Reads(Times)
  BY ValuesRead
<1> DEFINE t1 == BlockLatency(t, "rowBlock1", {})
           t2 == BlockLatency(t1, "rowBlock2", {})
           t3 == BlockLatency(t2, "muxBlock1", {})
           t4 == BlockLatency(t3, "muxBlock2", {})
           t5 == BlockLatency(t4, "lev1Block1", {})
           t6 == BlockLatency(t5, "lev1Block2", {})
           t7 == BlockLatency(t6, "lev2Block1", {})
           t8 == BlockLatency(t7, "lev2Block2", {})
<1>3. EachBlock(t, DelayBlock) = t8
  BY DEF EachBlock, Each4, Each3, DelayBlock
<1>4. /\ Works(Parts, s0, t, Units \cup Drivers, F) => Step(t, t1, "rowBlock1", Latencies \cup {"ramp"}, Times)
      /\ Works(Parts, s0, t1, Units \cup Drivers, F) => Step(t1, t2, "rowBlock2", Latencies \cup {"ramp"}, Times)
      /\ Works(Parts, s0, t2, Units \cup Drivers, F) => Step(t2, t3, "muxBlock1", Latencies \cup {"ramp"}, Times)
      /\ Works(Parts, s0, t3, Units \cup Drivers, F) => Step(t3, t4, "muxBlock2", Latencies \cup {"ramp"}, Times)
      /\ Works(Parts, s0, t4, Units \cup Drivers, F) => Step(t4, t5, "lev1Block1", Latencies \cup {"ramp"}, Times)
      /\ Works(Parts, s0, t5, Units \cup Drivers, F) => Step(t5, t6, "lev1Block2", Latencies \cup {"ramp"}, Times)
      /\ Works(Parts, s0, t6, Units \cup Drivers, F) => Step(t6, t7, "lev2Block1", Latencies \cup {"ramp"}, Times)
      /\ Works(Parts, s0, t7, Units \cup Drivers, F) => Step(t7, t8, "lev2Block2", Latencies \cup {"ramp"}, Times)
  <2>1. /\ "rowBlock1" \in BlockSet
        /\ "rowBlock2" \in BlockSet
        /\ "muxBlock1" \in BlockSet
        /\ "muxBlock2" \in BlockSet
        /\ "lev1Block1" \in BlockSet
        /\ "lev1Block2" \in BlockSet
        /\ "lev2Block1" \in BlockSet
        /\ "lev2Block2" \in BlockSet
    BY DEF BlockSet
  <2> QED
    BY <1>1, <2>1
<1> HIDE DEF t1, t2, t3, t4, t5, t6, t7, t8
<1> QED
  BY <1>2, <1>3, <1>4, EightBlocks

LEMMA BlocksPower ==
  ASSUME NEW s0, NEW t, NEW S, S \subseteq Units \ BlockSet, NEW F,
         F \cap {"gates", "cap"} = {}, Drawing \subseteq F,
         Done(s0, t, S, F, Powers), \A p \in BlockSet : Known(s0, p)
  PROVE  Done(s0, EachBlock(t, BlockPower), S \cup BlockSet, F, Powers)
<1>1. ASSUME NEW u, NEW p \in BlockSet, Works(Parts, s0, u, Units \cup Drivers, F)
      PROVE  Step(u, BlockPower(u, p), p, Drawing, Powers)
  BY <1>1, TheBlocks, StaysReady, BlockPowerStep
<1>2. Reads(Powers)
  BY ValuesRead
<1> DEFINE t1 == BlockPower(t, "rowBlock1")
           t2 == BlockPower(t1, "rowBlock2")
           t3 == BlockPower(t2, "muxBlock1")
           t4 == BlockPower(t3, "muxBlock2")
           t5 == BlockPower(t4, "lev1Block1")
           t6 == BlockPower(t5, "lev1Block2")
           t7 == BlockPower(t6, "lev2Block1")
           t8 == BlockPower(t7, "lev2Block2")
<1>3. EachBlock(t, BlockPower) = t8
  BY DEF EachBlock, Each4, Each3
<1>4. /\ Works(Parts, s0, t, Units \cup Drivers, F) => Step(t, t1, "rowBlock1", Drawing, Powers)
      /\ Works(Parts, s0, t1, Units \cup Drivers, F) => Step(t1, t2, "rowBlock2", Drawing, Powers)
      /\ Works(Parts, s0, t2, Units \cup Drivers, F) => Step(t2, t3, "muxBlock1", Drawing, Powers)
      /\ Works(Parts, s0, t3, Units \cup Drivers, F) => Step(t3, t4, "muxBlock2", Drawing, Powers)
      /\ Works(Parts, s0, t4, Units \cup Drivers, F) => Step(t4, t5, "lev1Block1", Drawing, Powers)
      /\ Works(Parts, s0, t5, Units \cup Drivers, F) => Step(t5, t6, "lev1Block2", Drawing, Powers)
      /\ Works(Parts, s0, t6, Units \cup Drivers, F) => Step(t6, t7, "lev2Block1", Drawing, Powers)
      /\ Works(Parts, s0, t7, Units \cup Drivers, F) => Step(t7, t8, "lev2Block2", Drawing, Powers)
  <2>1. /\ "rowBlock1" \in BlockSet
        /\ "rowBlock2" \in BlockSet
        /\ "muxBlock1" \in BlockSet
        /\ "muxBlock2" \in BlockSet
        /\ "lev1Block1" \in BlockSet
        /\ "lev1Block2" \in BlockSet
        /\ "lev2Block1" \in BlockSet
        /\ "lev2Block2" \in BlockSet
    BY DEF BlockSet
  <2> QED
    BY <1>1, <2>1
<1> HIDE DEF t1, t2, t3, t4, t5, t6, t7, t8
<1> QED
  BY <1>2, <1>3, <1>4, EightBlocks

-----------------------------------------------------------------------------
(* The subarray.                                                            *)
SubUnits == {"precharger"} \cup Selects \cup Muxes
              \cup (IF c.internal THEN {"senseAmp"} ELSE {})
SubReady(t) == \A p \in SubUnits : Known(t, p)

(* A part that is initialized and valid.                                    *)
Stands(t, p) == p \in t.made /\ p \notin t.bad

LEMMA TheSubUnits ==
  /\ SubUnits \subseteq Units /\ SubUnits \cap BlockSet = {}
  /\ SubUnits \cap (Compares \cup Tsvs \cup {"globalMux", "globalSenseAmp"}) = {}
  /\ c.internal => "senseAmp" \in SubUnits /\ Share("senseAmp") = {"senseAmp"}
  /\ ~c.internal => Share("senseAmp") = {}
<1>1. "senseAmp" \in Amps /\ "senseAmp" # "globalSenseAmp"
  BY DEF Amps
<1>2. SubUnits \subseteq Units /\ SubUnits \cap BlockSet = {}
  BY <1>1, UnitKinds DEF SubUnits, Units, Gated
<1>3. SubUnits \cap (Compares \cup Tsvs \cup {"globalMux", "globalSenseAmp"}) = {}
  BY DEF SubUnits, Compares, Tsvs, Selects, Column, Muxes
<1>4. Share("senseAmp") = {"senseAmp"} \cap Existing
  BY <1>1, ShareIs
<1>5. "senseAmp" \in Existing <=> c.internal
  BY DEF Existing, Amplifying, Matching, Stacking
<1> QED
  BY <1>2, <1>3, <1>4, <1>5 DEF SubUnits

LEMMA TotalSum ==
  ASSUME NEW t, NEW A, NEW f, \A p \in A : Fig(t, p, f) = Share(p)
  PROVE  Total(t, A, f) = Sum(A)
BY DEF Total, Sum

(* The parts of SubArrayArea().                                             *)
AreasOfParts(t) ==
  LET rows    == PrechargerArea(RowDecoderArea(t, "rowDecoder"), "precharger")
      columns == EachDecoder(rows, RowDecoderArea)
      muxes   == Each3(columns, MuxArea, "bitlineMux", "lev1", "lev2")
  IN  IF c.internal THEN SenseAmpArea(muxes, "senseAmp") ELSE muxes

LEMMA AreasOfPartsGives ==
  ASSUME NEW t, IsState(Parts, t), Modest(t), SubReady(t)
  PROVE  Done(t, AreasOfParts(t), SubUnits, {"area"}, Areas)
<1> DEFINE F == {"area"}
           t1 == RowDecoderArea(t, "rowDecoder")
           t2 == PrechargerArea(t1, "precharger")
           t3 == RowDecoderArea(t2, "bitlineMuxDecoder")
           t4 == RowDecoderArea(t3, "lev1Decoder")
           t5 == RowDecoderArea(t4, "lev2Decoder")
           t6 == MuxArea(t5, "bitlineMux")
           t7 == MuxArea(t6, "lev1")
           t8 == MuxArea(t7, "lev2")
           t9 == SenseAmpArea(t8, "senseAmp")
           A1 == {} \cup {"rowDecoder"}
           A2 == A1 \cup {"precharger"}
           A3 == A2 \cup {"bitlineMuxDecoder"}
           A4 == A3 \cup {"lev1Decoder"}
           A5 == A4 \cup {"lev2Decoder"}
           A6 == A5 \cup {"bitlineMux"}
           A7 == A6 \cup {"lev1"}
           A8 == A7 \cup {"lev2"}
           A9 == A8 \cup {"senseAmp"}
<1>1. AreasOfParts(t) = IF c.internal THEN t9 ELSE t8
  BY DEF AreasOfParts, EachDecoder, Each3
<1>2. SubUnits = IF c.internal THEN A9 ELSE A8
  BY DEF SubUnits, Selects, Column, Muxes
<1>3. F \cap {"gates", "cap"} = {} /\ F \subseteq F /\ Reads(Areas) /\ "refreshEnergy" \notin F
  BY ValuesRead
<1>4. A9 \subseteq Units
  BY DEF Units, Gated, Selects, Column, Muxes, Amps
<1>5. /\ \A p \in Selects \cup Muxes \cup {"precharger"} : Known(t, p)
      /\ c.internal => Known(t, "senseAmp") /\ Share("senseAmp") = {"senseAmp"}
  BY TheSubUnits DEF SubReady, SubUnits
<1>6. \A u :
        /\ \A p \in Selects : Known(u, p) => Step(u, RowDecoderArea(u, p), p, F, Areas)
        /\ \A p \in Muxes : Known(u, p) => Step(u, MuxArea(u, p), p, F, Areas)
        /\ Known(u, "precharger") =>
             Step(u, PrechargerArea(u, "precharger"), "precharger", F, Areas)
        /\ Known(u, "senseAmp") /\ Share("senseAmp") = {"senseAmp"} =>
             Step(u, SenseAmpArea(u, "senseAmp"), "senseAmp", F, Areas)
  BY SelectArea, MuxAreaStep, PrechargeArea, AmpAreaStep DEF Known, Amps
<1>7. /\ {"rowDecoder", "bitlineMuxDecoder", "lev1Decoder", "lev2Decoder"} \subseteq Selects
      /\ {"bitlineMux", "lev1", "lev2"} \subseteq Muxes
  BY DEF Selects, Column, Muxes
<1>8. Done(t, t, {}, F, Areas)
  BY DoneNone
<1> HIDE DEF F
<1>9. Done(t, t1, A1, F, Areas)
  BY <1>3, <1>4, <1>5, <1>6, <1>7, <1>8, DoneKnown
<1>10. Done(t, t2, A2, F, Areas)
  <2>1. A1 \subseteq Units /\ "precharger" \in Units \ A1
    BY <1>4
  <2> HIDE DEF t1, A1
  <2> QED
    BY <1>3, <1>5, <1>6, <1>7, <1>9, <2>1, DoneKnown
<1>11. Done(t, t3, A3, F, Areas)
  <2>1. A2 \subseteq Units /\ "bitlineMuxDecoder" \in Units \ A2
    BY <1>4
  <2> HIDE DEF t2, A2
  <2> QED
    BY <1>3, <1>5, <1>6, <1>7, <1>10, <2>1, DoneKnown
<1>12. Done(t, t4, A4, F, Areas)
  <2>1. A3 \subseteq Units /\ "lev1Decoder" \in Units \ A3
    BY <1>4
  <2> HIDE DEF t3, A3
  <2> QED
    BY <1>3, <1>5, <1>6, <1>7, <1>11, <2>1, DoneKnown
<1>13. Done(t, t5, A5, F, Areas)
  <2>1. A4 \subseteq Units /\ "lev2Decoder" \in Units \ A4
    BY <1>4
  <2> HIDE DEF t4, A4
  <2> QED
    BY <1>3, <1>5, <1>6, <1>7, <1>12, <2>1, DoneKnown
<1>14. Done(t, t6, A6, F, Areas)
  <2>1. A5 \subseteq Units /\ "bitlineMux" \in Units \ A5
    BY <1>4
  <2> HIDE DEF t5, A5
  <2> QED
    BY <1>3, <1>5, <1>6, <1>7, <1>13, <2>1, DoneKnown
<1>15. Done(t, t7, A7, F, Areas)
  <2>1. A6 \subseteq Units /\ "lev1" \in Units \ A6
    BY <1>4
  <2> HIDE DEF t6, A6
  <2> QED
    BY <1>3, <1>5, <1>6, <1>7, <1>14, <2>1, DoneKnown
<1>16. Done(t, t8, A8, F, Areas)
  <2>1. A7 \subseteq Units /\ "lev2" \in Units \ A7
    BY <1>4
  <2> HIDE DEF t7, A7
  <2> QED
    BY <1>3, <1>5, <1>6, <1>7, <1>15, <2>1, DoneKnown
<1>17. c.internal => Done(t, t9, A9, F, Areas)
  <2>1. A8 \subseteq Units /\ "senseAmp" \in Units \ A8
    BY <1>4
  <2> HIDE DEF t8, A8
  <2> QED
    BY <1>3, <1>5, <1>6, <1>16, <2>1, DoneKnown
<1> HIDE DEF t8, t9, A8, A9
<1> QED
  BY <1>1, <1>2, <1>16, <1>17 DEF F

(* A part whose figures are sums is none of the units.                      *)
LEMMA SumsModest ==
  ASSUME NEW t, NEW u, NEW p \in Sums \cup Kept, NEW F, Modest(t), Works(Parts, t, u, {p}, F)
  PROVE  Modest(u)
<1>1. \A q \in Units : q \in Parts /\ q # p
  BY UnitNames
<1>2. Figure \subseteq Fields
  BY DEF Fields
<1> QED
  BY <1>1, <1>2 DEF Works, Modest

LEMMA WorksThen ==
  ASSUME NEW P, NEW t, NEW u, NEW v, NEW Q, NEW R, NEW F, NEW G,
         Works(P, t, u, Q, F), Works(P, u, v, R, G)
  PROVE  Works(P, t, v, Q \cup R, F \cup G)
BY DEF Works, Computes

SubAreas == {"cells", "precharger"} \cup Selects \cup Sensing

LEMMA SubLabels ==
  /\ SubAreas \subseteq Labels /\ {"precharger"} \cup Selects \cup Sensing \subseteq Units
  /\ "cells" \in Others
  /\ SubAreas = {"cells"} \cup ({"precharger"} \cup Selects \cup Sensing)
  /\ {"precharger"} \cup Selects \cup Sensing = SubUnits \cup {"senseAmp"}
BY DEF SubAreas, Labels, Others, Units, Gated, Amps, Sensing, SubUnits

LEMMA SubArrayAreaGives ==
  ASSUME NEW t, IsState(Parts, t), Modest(t), SubReady(t), Stands(t, Sub)
  PROVE  LET u == SubArrayArea(t, c)
         IN  /\ Works(Parts, t, u, Units \cup Drivers \cup {Sub}, {"area"}) /\ Modest(u)
             /\ Fig(u, Sub, "area") = Sum(SubAreas)
<1> DEFINE v == AreasOfParts(t)
           A == {"precharger"} \cup Selects \cup Sensing
           x == {"cells"} \oplus Total(v, A, "area")
           u == Put(v, Sub, All({"area"}, x))
<1>1. SubArrayArea(t, c) = u
  BY OneField DEF SubArrayArea, Rated, When, Stands, AreasOfParts
<1>2. Done(t, v, SubUnits, {"area"}, Areas)
  BY AreasOfPartsGives
<1> HIDE DEF v
<1>3. Total(v, A, "area") = Sum(A)
  <2>1. ASSUME NEW p \in A PROVE Fig(v, p, "area") = Share(p)
    <3>1. CASE p \in SubUnits
      BY <1>2, <3>1, TheSubUnits, AreasIs DEF Done
    <3>2. CASE p \notin SubUnits
      <4>1. p = "senseAmp" /\ ~c.internal /\ p \in Units
        BY <3>2, SubLabels, TheSubUnits
      <4>2. Share(p) = {} /\ "area" \in Figure
        BY <4>1, TheSubUnits DEF Figure
      <4> QED
        BY <1>2, <4>1, <4>2 DEF Done, Modest
    <3> QED
      BY <3>1, <3>2
  <2> HIDE DEF A
  <2> QED
    BY <2>1, TotalSum
<1>4. {"cells"} = Sum({"cells"}) /\ {"cells"} \cap A = {} /\ {"cells"} \subseteq Labels
      /\ A \subseteq Labels
  BY SubLabels, ShareIs, SumOfOne, UnitKinds DEF Labels
<1>5. x = Sum(SubAreas)
  <2> HIDE DEF A
  <2>1. x = Sum({"cells"} \cup A)
    BY <1>3, <1>4, PlusPlain
  <2> QED
    BY <2>1, SubLabels DEF A
<1> HIDE DEF x, A
<1>6. Sub \in Parts /\ Sub \in Sums /\ "area" \in Fields /\ {"area"} \subseteq Fields
  BY UnitNames, Names DEF Sums
<1>7. Sets(Parts, v, u, Sub, {"area"}, x)
  BY <1>2, <1>6, PutAll DEF Done, Works, Computes
<1> HIDE DEF u
<1>8. Works(Parts, v, u, {Sub}, {"area"}) /\ Fig(u, Sub, "area") = x
  BY <1>6, <1>7 DEF Sets, Works
<1>9. Works(Parts, t, u, Units \cup Drivers \cup {Sub}, {"area"})
  <2>1. Works(Parts, t, u, (SubUnits \cup Drivers) \cup {Sub}, {"area"} \cup {"area"})
    BY <1>2, <1>8, WorksThen DEF Done
  <2>2. (SubUnits \cup Drivers) \cup {Sub} \subseteq Units \cup Drivers \cup {Sub}
    BY TheSubUnits
  <2> QED
    BY <2>1, <2>2, WorksMore
<1>10. Modest(u)
  BY <1>2, <1>6, <1>8, SumsModest DEF Done
<1> QED
  BY <1>1, <1>5, <1>8, <1>9, <1>10

(* The latencies of its parts: the bitline multiplexer of a DRAM is left    *)
(* out.                                                                     *)
SubTimed == SubUnits \ (IF c.cell = "eDRAM" THEN {"bitlineMux"} ELSE {})
Ramping  == Latencies \cup {"refreshLatency", "ramp"}

LEMMA DelaysOfParts ==
  ASSUME NEW s0, NEW t, NEW S, S \subseteq BlockSet, Done(s0, t, S, Ramping, Times),
         SubReady(s0)
  PROVE  Done(s0, SubArrayParts(t, c, {}), S \cup SubTimed, Ramping, Times)
<1> DEFINE F  == Ramping
           t1 == PrechargerLatency(t, "precharger", {})
           t2 == RowDecoderLatency(t1, "rowDecoder", {})
           t3 == RowDecoderLatency(t2, "bitlineMuxDecoder", {})
           t4 == RowDecoderLatency(t3, "lev1Decoder", {})
           t5 == RowDecoderLatency(t4, "lev2Decoder", {})
           t6 == IF c.cell = "eDRAM" THEN t5 ELSE MuxLatency(t5, "bitlineMux")
           t7 == IF c.internal THEN SenseAmpLatency(t6, "senseAmp") ELSE t6
           t8 == MuxLatency(t7, "lev1")
           t9 == MuxLatency(t8, "lev2")
           A1 == S \cup {"precharger"}
           A2 == A1 \cup {"rowDecoder"}
           A3 == A2 \cup {"bitlineMuxDecoder"}
           A4 == A3 \cup {"lev1Decoder"}
           A5 == A4 \cup {"lev2Decoder"}
           A6 == A5 \cup (IF c.cell = "eDRAM" THEN {} ELSE {"bitlineMux"})
           A7 == A6 \cup (IF c.internal THEN {"senseAmp"} ELSE {})
           A8 == A7 \cup {"lev1"}
           A9 == A8 \cup {"lev2"}
<1>1. SubArrayParts(t, c, {}) = t9
  BY DEF SubArrayParts, EachDecoder, Each3
<1>2. A9 = S \cup SubTimed
  <2>1. SubUnits = {"precharger", "rowDecoder", "bitlineMuxDecoder", "lev1Decoder",
                    "lev2Decoder", "bitlineMux", "lev1", "lev2"}
                     \cup (IF c.internal THEN {"senseAmp"} ELSE {})
    BY DEF SubUnits, Selects, Column, Muxes
  <2>2. A9 = S \cup ({"precharger", "rowDecoder", "bitlineMuxDecoder", "lev1Decoder",
                    "lev2Decoder", "lev1", "lev2"}
                     \cup (IF c.cell = "eDRAM" THEN {} ELSE {"bitlineMux"})
                     \cup (IF c.internal THEN {"senseAmp"} ELSE {}))
    OBVIOUS
  <2> HIDE DEF A9
  <2>3. CASE c.cell = "eDRAM"
    BY <2>1, <2>2, <2>3 DEF SubTimed
  <2>4. CASE c.cell # "eDRAM"
    BY <2>1, <2>2, <2>4 DEF SubTimed
  <2> QED
    BY <2>3, <2>4
<1>3. /\ F \cap {"gates", "cap"} = {} /\ Reads(Times)
      /\ Latencies \cup {"ramp"} \subseteq F
      /\ Latencies \cup {"refreshLatency"} \subseteq F
      /\ Latencies \cup {"refreshLatency", "ramp"} \subseteq F
      /\ "refreshEnergy" \notin F
  BY ValuesRead DEF Ramping, Latencies
<1>4. /\ A9 \subseteq Units
      /\ S \cap {"precharger", "rowDecoder", "bitlineMuxDecoder", "lev1Decoder",
                 "lev2Decoder", "bitlineMux", "lev1", "lev2", "senseAmp"} = {}
  BY DEF Units, Gated, Selects, Column, Muxes, Amps, BlockSet
<1>5. /\ \A p \in Selects \cup Muxes \cup {"precharger"} : Known(s0, p)
      /\ c.internal => Known(s0, "senseAmp") /\ Share("senseAmp") = {"senseAmp"}
  BY TheSubUnits DEF SubReady, SubUnits
<1>6. \A u :
        /\ \A p \in Selects : Known(u, p) =>
             Step(u, RowDecoderLatency(u, p, {}), p, Latencies \cup {"ramp"}, Times)
        /\ \A p \in Muxes : Known(u, p) =>
             Step(u, MuxLatency(u, p), p, Latencies \cup {"ramp"}, Times)
        /\ Known(u, "precharger") =>
             Step(u, PrechargerLatency(u, "precharger", {}), "precharger",
                  Latencies \cup {"refreshLatency", "ramp"}, Times)
        /\ Known(u, "senseAmp") /\ Share("senseAmp") = {"senseAmp"} =>
             Step(u, SenseAmpLatency(u, "senseAmp"), "senseAmp",
                  Latencies \cup {"refreshLatency"}, Times)
  BY SelectTime, MuxTime, PrechargeTime, AmpTime DEF Amps
<1>7. /\ {"rowDecoder", "bitlineMuxDecoder", "lev1Decoder", "lev2Decoder"} \subseteq Selects
      /\ {"bitlineMux", "lev1", "lev2"} \subseteq Muxes
  BY DEF Selects, Column, Muxes
<1>8. ASSUME NEW u, NEW v, NEW A, A \subseteq Units, NEW p \in Units \ A,
             NEW G, G \subseteq F, Done(s0, u, A, F, Times),
             Known(s0, p), Known(u, p) => Step(u, v, p, G, Times)
      PROVE  Done(s0, v, A \cup {p}, F, Times)
  BY <1>3, <1>8, DoneKnown
<1> HIDE DEF F
<1>9. Done(s0, t1, A1, F, Times)
  BY <1>3, <1>4, <1>5, <1>6, <1>7, <1>8 DEF F
<1>10. Done(s0, t2, A2, F, Times)
  <2>1. "rowDecoder" \notin A1 /\ "rowDecoder" \in Units /\ A1 \subseteq Units
    BY <1>4
  <2> HIDE DEF t1, A1
  <2> QED
    BY <1>3, <1>5, <1>6, <1>7, <1>8, <1>9, <2>1
<1>11. Done(s0, t3, A3, F, Times)
  <2>1. "bitlineMuxDecoder" \notin A2 /\ "bitlineMuxDecoder" \in Units /\ A2 \subseteq Units
    BY <1>4
  <2> HIDE DEF t2, A2
  <2> QED
    BY <1>3, <1>5, <1>6, <1>7, <1>8, <1>10, <2>1
<1>12. Done(s0, t4, A4, F, Times)
  <2>1. "lev1Decoder" \notin A3 /\ "lev1Decoder" \in Units /\ A3 \subseteq Units
    BY <1>4
  <2> HIDE DEF t3, A3
  <2> QED
    BY <1>3, <1>5, <1>6, <1>7, <1>8, <1>11, <2>1
<1>13. Done(s0, t5, A5, F, Times)
  <2>1. "lev2Decoder" \notin A4 /\ "lev2Decoder" \in Units /\ A4 \subseteq Units
    BY <1>4
  <2> HIDE DEF t4, A4
  <2> QED
    BY <1>3, <1>5, <1>6, <1>7, <1>8, <1>12, <2>1
<1>14. Done(s0, t6, A6, F, Times)
  <2> HIDE DEF t5
  <2>1. CASE c.cell = "eDRAM"
    BY <1>13, <2>1
  <2>2. CASE c.cell # "eDRAM"
    <3>1. "bitlineMux" \notin A5 /\ "bitlineMux" \in Units /\ A5 \subseteq Units
      BY <1>4, <2>2
    <3> HIDE DEF A5
    <3>2. Done(s0, MuxLatency(t5, "bitlineMux"), A5 \cup {"bitlineMux"}, F, Times)
      BY <1>3, <1>5, <1>6, <1>7, <1>8, <1>13, <3>1
    <3> QED
      BY <2>2, <3>2
  <2> QED
    BY <2>1, <2>2
<1>15. Done(s0, t7, A7, F, Times)
  <2> HIDE DEF t6
  <2>1. CASE ~c.internal
    BY <1>14, <2>1
  <2>2. CASE c.internal
    <3>1. "senseAmp" \notin A6 /\ "senseAmp" \in Units /\ A6 \subseteq Units
      BY <1>4, <2>2
    <3> HIDE DEF A6
    <3>2. Done(s0, SenseAmpLatency(t6, "senseAmp"), A6 \cup {"senseAmp"}, F, Times)
      BY <1>3, <1>5, <1>6, <1>8, <1>14, <2>2, <3>1
    <3> QED
      BY <2>2, <3>2
  <2> QED
    BY <2>1, <2>2
<1>16. Done(s0, t8, A8, F, Times)
  <2>1. "lev1" \notin A7 /\ "lev1" \in Units /\ A7 \subseteq Units
    BY <1>4
  <2> HIDE DEF t7, A7
  <2> QED
    BY <1>3, <1>5, <1>6, <1>7, <1>8, <1>15, <2>1
<1>17. Done(s0, t9, A9, F, Times)
  <2>1. "lev2" \notin A8 /\ "lev2" \in Units /\ A8 \subseteq Units
    BY <1>4
  <2> HIDE DEF t8, A8
  <2> QED
    BY <1>3, <1>5, <1>6, <1>7, <1>8, <1>16, <2>1
<1> HIDE DEF t9, A9
<1> QED
  BY <1>1, <1>2, <1>17 DEF F

(* What the latencies of a subarray are made of.                            *)
Sensed   == Sensing \ (IF c.cell = "eDRAM" THEN {"bitlineMux"} ELSE {})
SubReads == {"bitline"} \cup Selects \cup Sensed
SubTimes == {"bitline", "charge", "resetPulse", "setPulse"} \cup Selects \cup Sensing
Delays   == Latencies \cup {"resetLatency", "setLatency", "refreshLatency"}

(* All Selects, and what a write waits for besides, wait for each other.    *)
LEMMA WriteAccessGives ==
  ASSUME NEW t, \A p \in Selects : \A f \in Latencies : Fig(t, p, f) = Share(p)
  PROVE  WriteAccess(t) = Sum(Selects \cup {"charge"})
<1>1. "rowDecoder" \in Selects /\ Column \subseteq Selects /\ {"charge"} \cap Column = {}
  BY DEF Selects, Column
<1>2. "readLatency" \in Latencies /\ "writeLatency" \in Latencies
  BY DEF Latencies
<1>3. Total(t, Column, "readLatency") = Sum(Column)
  BY <1>1, <1>2, TotalSum
<1>4. Sum({"charge"}) = {"charge"} /\ {"charge"} \subseteq Labels /\ Column \subseteq Labels
  BY ShareIs, SumOfOne DEF Others, Labels, Units, Gated, Selects
<1>5. Total(t, Column, "readLatency") \oplus {"charge"} = Sum(Column \cup {"charge"})
  BY <1>1, <1>3, <1>4, PlusPlain
<1>6. Fig(t, "rowDecoder", "writeLatency") = Sum({"rowDecoder"})
  BY <1>1, <1>2, SumOfOne
<1>7. Sum({"rowDecoder"}) \cup Sum(Column \cup {"charge"}) = Sum(Selects \cup {"charge"})
  BY DEF Sum, Selects
<1> QED
  BY <1>5, <1>6, <1>7 DEF WriteAccess

(* A record of latencies that count a share twice only where Doubled says.  *)
CleanTimes(new, labels) ==
  /\ new = [f \in DOMAIN new |-> new[f]] /\ DOMAIN new \subseteq Delays
  /\ \A f \in DOMAIN new : Once(f, new[f], labels)

LEMMA OtherLatenciesGives ==
  ASSUME NEW t, NEW read, NEW refresh, Clean(read, SubTimes), Clean(refresh, SubTimes),
         \A p \in Selects : \A f \in Latencies : Fig(t, p, f) = Share(p)
  PROVE  CleanTimes(OtherLatencies(t, c, read, refresh), SubTimes)
<1> DEFINE access == WriteAccess(t)
           erase  == c.scheme = "erase"
           both   == {"resetPulse", "setPulse"}
           first  == IF erase THEN Fig(t, "rowDecoder", "writeLatency") \cup {"charge"}
                     ELSE access
           phases == first \oplus {"charge"}
           pulsed == [writeLatency |-> access \oplus both,
                      resetLatency |-> access \oplus {"resetPulse"},
                      setLatency   |-> access \oplus {"setPulse"}]
           o == OtherLatencies(t, c, read, refresh)
           A == Selects \cup {"charge"}
<1>1. /\ A \subseteq Labels /\ both \subseteq Labels /\ A \cap both = {}
      /\ A \cup both \subseteq SubTimes
  BY DEF Labels, Units, Gated, Selects, Column, Others, SubTimes
<1>2. /\ Sum({"charge"}) = {"charge"} /\ Sum({"resetPulse"}) = {"resetPulse"}
      /\ Sum({"setPulse"}) = {"setPulse"} /\ Sum(both) = both
  <2>1. \A p \in {"charge", "resetPulse", "setPulse"} : Share(p) = {p}
    BY ShareIs DEF Others
  <2> QED
    BY <2>1 DEF Sum
<1>3. access = Sum(A)
  BY WriteAccessGives
<1>4. Fig(t, "rowDecoder", "writeLatency") \subseteq Sum(A) /\ {"charge"} \subseteq Sum(A)
  <2>1. Fig(t, "rowDecoder", "writeLatency") = Share("rowDecoder")
    BY DEF Selects, Latencies
  <2> QED
    BY <1>2, <2>1 DEF Sum, Selects
<1> HIDE DEF access, A
<1>5. Clean(access, A) /\ Clean(first, A) /\ Clean({"charge"}, A)
  BY <1>3, <1>4 DEF Clean
<1> HIDE DEF first
<1>6. Clean(both, both) /\ Clean({"resetPulse"}, {"resetPulse"}) /\ Clean({"setPulse"}, {"setPulse"})
  BY <1>2 DEF Clean
<1> HIDE DEF both
<1>7. /\ Clean(access \oplus both, SubTimes) /\ Mixed(phases \oplus both, SubTimes)
      /\ Clean(access \oplus {"resetPulse"}, SubTimes)
      /\ Clean(access \oplus {"setPulse"}, SubTimes)
  <2>1. ASSUME NEW x, NEW y, NEW B, B \subseteq both, Clean(x, A), Clean(y, B)
        PROVE  Clean(x \oplus y, SubTimes)
    <3>1. A \cap B = {} /\ B \subseteq Labels /\ A \cup B \subseteq SubTimes
      BY <1>1, <2>1
    <3>2. Clean(x \oplus y, A \cup B)
      BY <1>1, <2>1, <3>1, CleanPlus
    <3> QED
      BY <3>1, <3>2, CleanMore
  <2>2. {"resetPulse"} \subseteq both /\ {"setPulse"} \subseteq both
    BY DEF both
  <2>3. A \subseteq SubTimes /\ both \subseteq SubTimes
    BY <1>1
  <2>4. Mixed(first, SubTimes) /\ Mixed({"charge"}, SubTimes) /\ Mixed(both, SubTimes)
    BY <1>5, <1>6, <2>3, CleanMore
  <2>5. Mixed((first \oplus {"charge"}) \oplus both, SubTimes)
    BY <2>4, CleanUnion
  <2> QED
    BY <1>5, <1>6, <2>1, <2>2, <2>5
<1> HIDE DEF phases
<1>8. Clean({}, SubTimes)
  BY CleanMore
<1>9. {"writeLatency", "resetLatency", "setLatency", "refreshLatency"} \subseteq Delays
  BY DEF Delays, Latencies
<1>10. ASSUME NEW x, Clean(x, SubTimes)
       PROVE  CleanTimes([writeLatency |-> x], SubTimes)
  BY <1>9, <1>10, CleanIsOnce DEF CleanTimes
<1>14. CrossPoint(c) /\ c.cell \in {"MRAM", "memristor"} =>
         CleanTimes([writeLatency |-> phases \oplus both], SubTimes)
  BY <1>7, <1>9 DEF CleanTimes, Once, Doubled
<1>11. CleanTimes([writeLatency |-> read, refreshLatency |-> refresh], SubTimes)
  BY <1>9, CleanIsOnce DEF CleanTimes
<1>12. CleanTimes(pulsed, SubTimes) /\ CleanTimes([pulsed EXCEPT !.writeLatency = pulsed.setLatency], SubTimes)
  BY <1>7, <1>9, CleanIsOnce DEF CleanTimes
<1>13. \/ o = [writeLatency |-> read] \/ o = [writeLatency |-> read, refreshLatency |-> refresh]
       \/ o = [pulsed EXCEPT !.writeLatency = pulsed.setLatency]
       \/ o = [writeLatency |-> {}] \/ o = pulsed
       \/ /\ o = [writeLatency |-> phases \oplus both]
          /\ CrossPoint(c) /\ c.cell \in {"MRAM", "memristor"}
  BY DEF OtherLatencies, access, both, phases, first
<1> HIDE DEF o, pulsed
<1> QED
  BY <1>8, <1>10, <1>11, <1>12, <1>13, <1>14 DEF o

(* The parts' latencies in the sums.                                        *)
LEMMA PartsTimed ==
  ASSUME NEW s0, NEW v, Done(s0, v, SubTimed, Ramping, Times),
         Fig(s0, "bitlineMux", "readLatency") = {}
  PROVE  /\ \A p \in Selects : /\ \A f \in Latencies : Fig(v, p, f) = Share(p)
                               /\ Fig(v, p, "ramp") = {}
         /\ Total(v, Sensing, "readLatency") = Sum(Sensed)
         /\ Fig(v, "senseAmp", "readLatency") = Share("senseAmp")
<1>1. \A p \in SubTimed : \A f \in DOMAIN Times[p] : Fig(v, p, f) = Times[p][f]
  BY DEF Done
<1>2. /\ SubTimed \subseteq Units /\ Selects \subseteq SubTimed
      /\ {"lev1", "lev2"} \subseteq SubTimed
      /\ c.cell # "eDRAM" => "bitlineMux" \in SubTimed
      /\ c.internal => "senseAmp" \in SubTimed
      /\ "bitlineMux" \notin SubTimed \/ c.cell # "eDRAM"
  BY TheSubUnits DEF SubTimed, SubUnits, Selects, Column, Muxes
<1>3. Latencies = {"readLatency", "writeLatency"}
  BY DEF Latencies
<1>4. \A p \in Selects : /\ \A f \in Latencies : Fig(v, p, f) = Share(p)
                         /\ Fig(v, p, "ramp") = {}
  <2>1. ASSUME NEW p \in Selects
        PROVE  /\ Fig(v, p, "readLatency") = Share(p) /\ Fig(v, p, "writeLatency") = Share(p)
               /\ Fig(v, p, "ramp") = {}
    <3>1. p \in SubTimed /\ p \in Units /\ p \notin Amps \cup {"precharger"}
      BY <1>2, UnitKinds
    <3>2. DOMAIN Times[p] = {"readLatency", "writeLatency", "ramp"}
      BY <1>3, <3>1, TimesIs
    <3>3. Times[p]["readLatency"] = Share(p) /\ Times[p]["writeLatency"] = Share(p)
          /\ Times[p]["ramp"] = {}
      BY <3>1, TimesIs
    <3> QED
      BY <1>1, <3>1, <3>2, <3>3
  <2> QED
    BY <1>3, <2>1
<1>5. \A p \in SubTimed : p # "precharger" => Fig(v, p, "readLatency") = Share(p)
  BY <1>1, <1>2, <1>3, TimesIs
<1>6. Fig(v, "senseAmp", "readLatency") = Share("senseAmp")
  <2>1. CASE c.internal
    BY <1>2, <1>5, <2>1
  <2>2. CASE ~c.internal
    <3>1. Share("senseAmp") = {} /\ "senseAmp" \in Units /\ "readLatency" \in Figure
      BY <2>2, TheSubUnits DEF Units, Amps, Figure
    <3> QED
      BY <3>1 DEF Done, Modest
  <2> QED
    BY <2>1, <2>2
<1>7. Total(v, Sensing, "readLatency") = Sum(Sensed)
  <2>1. \A p \in Sensed : Fig(v, p, "readLatency") = Share(p)
    BY <1>2, <1>5, <1>6 DEF Sensed, Sensing, Muxes
  <2>2. ASSUME NEW p \in Sensing \ Sensed PROVE Fig(v, p, "readLatency") = {}
    <3>1. p = "bitlineMux" /\ c.cell = "eDRAM"
      BY <2>2 DEF Sensed
    <3>2. p \notin SubTimed \cup Drivers /\ p \in Parts /\ "readLatency" \in Fields
      <4>1. p \in Units
        BY <3>1 DEF Units, Gated, Muxes
      <4>2. p \notin Drivers /\ p \in Parts
        BY <4>1, UnitNames
      <4> QED
        BY <1>2, <3>1, <4>2 DEF Fields, Figure
    <3> QED
      BY <3>1, <3>2 DEF Done, Works
  <2>3. Sensed \subseteq Sensing
    BY DEF Sensed
  <2> QED
    BY <2>1, <2>2, <2>3 DEF Total, Sum
<1> QED
  BY <1>4, <1>6, <1>7

(* SubArray::CalculateLatency() with a step at its input.                   *)
SubDelayed(t, u) ==
  /\ Works(Parts, t, u, SubUnits \cup Drivers \cup {Sub}, Timing) /\ Modest(u)
  /\ \A p \in SubTimed : \A f \in DOMAIN Times[p] : Fig(u, p, f) = Times[p][f]
  /\ Fig(u, Sub, "readLatency") = Sum(SubReads) \cup Unset(c)
  /\ \A f \in Delays : Once(f, Fig(u, Sub, f), SubTimes)

LEMMA SubArrayLatencyGives ==
  ASSUME NEW t, IsState(Parts, t), Modest(t), SubReady(t), Stands(t, Sub),
         Fig(t, "bitlineMux", "readLatency") = {}, \A f \in Delays : Fig(t, Sub, f) = {}
  PROVE  SubDelayed(t, SubArrayLatency(t, c, {}))
<1> DEFINE v == SubArrayParts(t, c, {})
           decoder == Total(v, Selects, "readLatency")
           bitline == BitlineDelay(v, c)
           sensed  == Total(v, Sensing, "readLatency")
           read    == (decoder \oplus bitline) \oplus sensed
           refresh == (decoder \oplus bitline) \oplus Fig(v, "senseAmp", "readLatency")
           other   == OtherLatencies(v, c, read, refresh)
           new     == other ++ [readLatency |-> read]
           u       == Put(v, Sub, new)
<1>1. SubArrayLatency(t, c, {}) = u
  BY DEF SubArrayLatency, SubArrayLatencies, Rated, When, Stands
<1>2. Done(t, v, SubTimed, Ramping, Times)
  <2>1. Done(t, t, {}, Ramping, Times) /\ {} \subseteq BlockSet /\ {} \cup SubTimed = SubTimed
    BY DoneNone
  <2> QED
    BY <2>1, DelaysOfParts
<1> HIDE DEF v
<1>3. /\ \A p \in Selects : /\ \A f \in Latencies : Fig(v, p, f) = Share(p)
                            /\ Fig(v, p, "ramp") = {}
      /\ sensed = Sum(Sensed) /\ Fig(v, "senseAmp", "readLatency") = Sum({"senseAmp"})
  BY <1>2, PartsTimed, SumOfOne
<1>4. decoder = Sum(Selects)
  BY <1>3, TotalSum DEF Latencies
<1>5. bitline = Sum({"bitline"}) \cup Unset(c)
  <2>1. Sum({"bitline"}) = {"bitline"}
    BY SumOfOne, ShareIs DEF Others
  <2>2. Fig(v, "rowDecoder", "ramp") = {}
    BY <1>3 DEF Selects
  <2> QED
    BY <2>1, <2>2 DEF BitlineDelay
<1>6. /\ Selects \subseteq Labels /\ {"bitline"} \subseteq Labels /\ Sensed \subseteq Labels
      /\ {"senseAmp"} \subseteq Labels /\ Selects \cap {"bitline"} = {}
      /\ (Selects \cup {"bitline"}) \cap Sensed = {} /\ "senseAmp" \notin Selects
  BY DEF Labels, Others, Units, Gated, Selects, Column, Sensed, Sensing, Muxes, Amps
<1>7. Unset(c) \subseteq {Garbage} /\ {} \subseteq {Garbage}
  BY DEF Unset
<1>8. decoder \oplus bitline = Sum(Selects \cup {"bitline"}) \cup Unset(c)
  <2>1. (Sum(Selects) \cup {}) \oplus (Sum({"bitline"}) \cup Unset(c))
          = Sum(Selects \cup {"bitline"}) \cup ({} \cup Unset(c))
    BY <1>6, <1>7, PlusSum
  <2> QED
    BY <1>4, <1>5, <2>1
<1>9. read = Sum(SubReads) \cup Unset(c)
  <2>1. (Sum(Selects \cup {"bitline"}) \cup Unset(c)) \oplus (Sum(Sensed) \cup {})
          = Sum((Selects \cup {"bitline"}) \cup Sensed) \cup (Unset(c) \cup {})
    BY <1>6, <1>7, PlusSum
  <2>2. (Selects \cup {"bitline"}) \cup Sensed = SubReads
    BY DEF SubReads
  <2>3. Sum(Sensed) \cup {} = Sum(Sensed) /\ Unset(c) \cup {} = Unset(c)
    OBVIOUS
  <2> HIDE DEF decoder, bitline, sensed
  <2> QED
    BY <1>3, <1>8, <2>1, <2>2, <2>3
<1>10. refresh = Sum((Selects \cup {"bitline"}) \cup {"senseAmp"}) \cup Unset(c)
  <2> DEFINE B == Selects \cup {"bitline"}
  <2>1. B \cap {"senseAmp"} = {} /\ B \subseteq Labels
    BY <1>6
  <2> HIDE DEF B, decoder, bitline, sensed
  <2>2. (Sum(B) \cup Unset(c)) \oplus Sum({"senseAmp"}) = Sum(B \cup {"senseAmp"}) \cup Unset(c)
    BY <1>6, <1>7, <2>1, PlusUnset
  <2> QED
    BY <1>3, <1>8, <2>2 DEF B
<1>11. Clean(read, SubTimes) /\ Clean(refresh, SubTimes)
  <2>1. SubReads \subseteq SubTimes /\ (Selects \cup {"bitline"}) \cup {"senseAmp"} \subseteq SubTimes
    BY DEF SubReads, SubTimes, Sensed, Sensing
  <2>2. Clean(read, SubReads) /\ Clean(refresh, (Selects \cup {"bitline"}) \cup {"senseAmp"})
    BY <1>9, <1>10 DEF Clean
  <2> QED
    BY <2>1, <2>2, CleanMore
<1> HIDE DEF read, refresh
<1>12. CleanTimes(other, SubTimes)
  BY <1>3, <1>11, OtherLatenciesGives
<1> HIDE DEF other
<1>13. /\ new = [f \in DOMAIN new |-> new[f]] /\ DOMAIN new \subseteq Delays
       /\ \A f \in DOMAIN new : Once(f, new[f], SubTimes)
       /\ "readLatency" \in DOMAIN new
  BY <1>11, <1>12, CleanIsOnce DEF CleanTimes, Delays, Latencies, ++
<1>15. "readLatency" \notin DOMAIN other
  BY DEF other, OtherLatencies
<1>16. new["readLatency"] = read
  BY <1>12, <1>15 DEF CleanTimes, ++
<1> HIDE DEF new
<1>17. /\ Sub \in Parts /\ Sub \in Sums /\ IsState(Parts, v) /\ Delays \subseteq Fields
       /\ Delays \subseteq Timing
  BY <1>2, UnitNames DEF Sums, Done, Works, Computes, Delays, Fields, Figure, Latencies, Timing
<1>18. /\ Computes(Parts, v, u)
       /\ \A q \in Parts, f \in Fields :
            Fig(u, q, f) = IF q = Sub /\ f \in DOMAIN new THEN new[f] ELSE Fig(v, q, f)
  <2> DEFINE D == DOMAIN new
  <2>1. D \subseteq Fields /\ new = [f \in D |-> new[f]]
    BY <1>13, <1>17
  <2> HIDE DEF D
  <2>2. LET w == Put(v, Sub, new)
        IN  /\ Computes(Parts, v, w)
            /\ \A q \in Parts, f \in Fields :
                 Fig(w, q, f) = IF q = Sub /\ f \in D THEN new[f] ELSE Fig(v, q, f)
    BY <1>17, <2>1, PutGives
  <2> QED
    BY <2>2 DEF D
<1> HIDE DEF u
<1>19. Works(Parts, v, u, {Sub}, Timing)
  BY <1>13, <1>17, <1>18 DEF Works
<1>20. Works(Parts, t, u, SubUnits \cup Drivers \cup {Sub}, Timing)
  <2>1. Works(Parts, t, u, (SubTimed \cup Drivers) \cup {Sub}, Ramping \cup Timing)
    BY <1>2, <1>19, WorksThen DEF Done
  <2>2. /\ (SubTimed \cup Drivers) \cup {Sub} \subseteq SubUnits \cup Drivers \cup {Sub}
        /\ Ramping \cup Timing \subseteq Timing
    BY DEF SubTimed, Ramping, Timing
  <2> QED
    BY <2>1, <2>2, WorksMore
<1>21. Modest(u)
  BY <1>2, <1>17, <1>19, SumsModest DEF Done
<1>22. ASSUME NEW p \in SubTimed, NEW f \in DOMAIN Times[p]
       PROVE  Fig(u, p, f) = Times[p][f]
  <2>1. p \in Units
    BY TheSubUnits DEF SubTimed
  <2>2. p \in Parts /\ p # Sub /\ f \in Fields
    BY <1>17, <2>1, UnitNames, ValuesRead DEF Reads
  <2> QED
    BY <1>2, <1>18, <2>2 DEF Done
<1>23. Fig(u, Sub, "readLatency") = Sum(SubReads) \cup Unset(c)
  BY <1>9, <1>13, <1>16, <1>17, <1>18
<1>24. ASSUME NEW f \in Delays
       PROVE  Once(f, Fig(u, Sub, f), SubTimes)
  <2>1. CASE f \in DOMAIN new
    BY <1>13, <1>17, <1>18, <2>1
  <2>2. CASE f \notin DOMAIN new
    <3>1. Fig(u, Sub, f) = Fig(v, Sub, f)
      BY <1>17, <1>18, <2>2
    <3>2. Sub \notin SubTimed \cup Drivers
      BY <1>17, UnitNames, TheSubUnits DEF SubTimed
    <3>3. Fig(v, Sub, f) = Fig(t, Sub, f)
      BY <1>2, <1>17, <3>2 DEF Done, Works
    <3> QED
      BY <3>1, <3>3, CleanMore, CleanIsOnce
  <2> QED
    BY <2>1, <2>2
<1> QED
  BY <1>1, <1>20, <1>21, <1>22, <1>23, <1>24 DEF SubDelayed

-----------------------------------------------------------------------------
(* What a configuration has beside the subarrays and the blocks.            *)
LEMMA OptionShares ==
  /\ Share("comparator") = IF MatCompares(c) THEN {"comparator"} ELSE {}
  /\ Share("mat_tsv") = IF MatTsvs(c) THEN {"mat_tsv"} ELSE {}
  /\ Share("bank_tsv") = IF Stacked(c) THEN {"bank_tsv"} ELSE {}
  /\ Share("globalSenseAmp") = IF c.internal THEN {} ELSE {"globalSenseAmp"}
  /\ Share("globalMux") = IF ~c.internal /\ c.many THEN {"globalMux"} ELSE {}
  /\ Share("globalComparator") = IF c.tag /\ ~c.internal THEN {"globalComparator"} ELSE {}
<1>1. /\ "comparator" \in Compares /\ "globalComparator" \in Compares
      /\ "mat_tsv" \in Tsvs /\ "bank_tsv" \in Tsvs /\ "globalSenseAmp" \in Amps
  BY DEF Compares, Tsvs, Amps
<1>2. \A p \in {"comparator", "globalComparator", "mat_tsv", "bank_tsv", "globalSenseAmp"} :
        Share(p) = {p} \cap Existing
  BY <1>1, ShareIs
<1>3. /\ "comparator" \in Existing <=> MatCompares(c)
      /\ "globalComparator" \in Existing <=> c.tag /\ ~c.internal
      /\ "globalSenseAmp" \in Existing <=> ~c.internal
  BY DEF Existing, Amplifying, Matching, Stacking, MatCompares
<1>4. /\ "mat_tsv" \in Existing <=> MatTsvs(c)
      /\ "bank_tsv" \in Existing <=> Stacked(c)
  BY DEF Existing, Amplifying, Matching, Stacking
<1>5. Share("globalMux") = IF ~c.internal /\ c.many THEN {"globalMux"} ELSE {}
  <2>1. "globalMux" \notin Selects \cup Muxes \cup BlockSet
    BY DEF Selects, Column, Muxes, BlockSet
  <2>2. Share("globalMux") = Gates("globalMux")
    BY ShareIs
  <2>3. "globalMux" \in Decoding \cup Choosing \cup Predecoding <=> (~c.internal /\ c.many)
    <3>1. "globalMux" \notin Drivers
      BY UnitNames DEF Units, Gated
    <3>2. "globalMux" \notin Decoding
      BY <2>1, <3>1 DEF Decoding, Drivers
    <3>3. "globalMux" \notin Predecoding
      BY <2>1 DEF Predecoding
    <3>4. "globalMux" \in Choosing <=> (~c.internal /\ c.many)
      BY <2>1 DEF Choosing
    <3> QED
      BY <3>2, <3>3, <3>4
  <2> QED
    BY <2>2, <2>3 DEF Gates
<1> QED
  BY <1>2, <1>3, <1>4, <1>5

MatUnits  == SubUnits \cup BlockSet \cup (IF MatCompares(c) THEN {"comparator"} ELSE {})
               \cup (IF MatTsvs(c) THEN {"mat_tsv"} ELSE {})
BankUnits == MatUnits \cup (IF c.internal THEN {} ELSE {"globalSenseAmp", "globalMux"})
               \cup (IF c.tag /\ ~c.internal THEN {"globalComparator"} ELSE {})
               \cup (IF c.htree \/ Stacked(c) THEN {"bank_tsv"} ELSE {})

(* As Initialize() leaves a unit: some have had their CalculateRC() there.  *)
Begun(t, p) == IF p \in BlockSet \cup Compares THEN Fine(t, p) ELSE Known(t, p)

(* Nothing but areas has been worked out.                                   *)
Idle(t) == \A p \in Units \cup Sums, f \in Figure \ {"area"} : Fig(t, p, f) = {}

LEMMA IdleStays ==
  ASSUME NEW t, NEW u, NEW Q, Works(Parts, t, u, Q, {"area"}), Idle(t)
  PROVE  Idle(u)
<1>1. Units \cup Sums \subseteq Parts /\ Figure \ {"area"} \subseteq Fields
  BY UnitNames DEF Fields
<1> QED
  BY <1>1 DEF Works, Idle

LEMMA BegunFine ==
  ASSUME NEW t, NEW p, Begun(t, p)
  PROVE  Fine(t, p) /\ (p \notin BlockSet \cup Compares => Known(t, p))
BY DEF Begun, Known

LEMMA TheBankUnits ==
  /\ MatUnits \subseteq BankUnits /\ BankUnits \subseteq Units
  /\ SubUnits \subseteq MatUnits /\ BlockSet \subseteq MatUnits
  /\ MatCompares(c) => "comparator" \in MatUnits
  /\ MatTsvs(c) => "mat_tsv" \in MatUnits
  /\ LogicLayer(c) => MatTsvs(c)
  /\ SubUnits \cap (BlockSet \cup Compares) = {}
  /\ {"comparator", "mat_tsv", "bank_tsv", "globalSenseAmp", "globalMux", "globalComparator"}
       \subseteq Units \ (SubUnits \cup BlockSet)
<1>1. SubUnits \cup BlockSet \subseteq Units
  BY TheSubUnits, TheBlocks
<1>2. {"comparator", "mat_tsv", "bank_tsv", "globalSenseAmp", "globalMux", "globalComparator"}
        \subseteq Units
  BY DEF Units, Gated, Compares, Tsvs, Amps
<1>3. {"comparator", "mat_tsv", "bank_tsv", "globalSenseAmp", "globalMux", "globalComparator"}
        \cap BlockSet = {}
  BY DEF BlockSet
<1>4. {"comparator", "mat_tsv", "bank_tsv", "globalSenseAmp", "globalMux", "globalComparator"}
        \cap SubUnits = {}
  BY DEF SubUnits, Selects, Column, Muxes
<1>5. LogicLayer(c) => MatTsvs(c)
  BY DEF LogicLayer, MatTsvs
<1>6. MatUnits \subseteq Units /\ BankUnits \subseteq Units
  BY <1>1, <1>2 DEF MatUnits, BankUnits
<1> QED
  BY <1>2, <1>3, <1>4, <1>5, <1>6, TheSubUnits DEF MatUnits, BankUnits

(* A TSV without leakage so far gets its area only.                         *)
LEMMA TsvIdleArea ==
  ASSUME NEW t, NEW p \in Tsvs, Known(t, p), Share(p) = {p}, Fig(t, p, "leakage") = {}
  PROVE  Step(t, TsvArea(t, p), p, {"area"}, Areas)
<1> DEFINE u == TsvArea(t, p)
<1>1. /\ Step(t, u, p, {"area", "leakage"}, Areas) /\ Fig(u, p, "leakage") = {}
  BY TsvAreaStep
<1> HIDE DEF u
<1>2. Around(p) = {p}
  BY UnitKinds DEF Around, Driven
<1>3. Works(Parts, t, u, {p}, {"area"})
  BY <1>1, <1>2 DEF Step, Works
<1> QED
  BY <1>1, <1>2, <1>3 DEF Step, u

MatAreaSum == SubAreas \cup (IF LogicLayer(c) THEN {"mat_tsv"} ELSE BlockSet \cup {"comparator"})

(* Mat::CalculateArea().                                                    *)
MatSized(t, u) ==
  /\ Works(Parts, t, u, Units \cup Drivers \cup {"mat", "logic"}, {"area"}) /\ Modest(u)
  /\ Fig(u, "mat", "area") = Sum(MatAreaSum)
  /\ Fig(u, "logic", "area") = Sum(BlockSet \cup {"comparator"})

LEMMA MatPartsSized ==
  ASSUME NEW t, IsState(Parts, t), Modest(t), Idle(t), \A p \in MatUnits : Begun(t, p)
  PROVE  /\ Works(Parts, t, MatAreaOfParts(t, c), Units \cup Drivers, {"area"})
         /\ Modest(MatAreaOfParts(t, c))
         /\ \A p \in BlockSet \cup {"comparator"} :
              Fig(MatAreaOfParts(t, c), p, "area") = Share(p)
         /\ LogicLayer(c) => Fig(MatAreaOfParts(t, c), "mat_tsv", "area") = Share("mat_tsv")
<1> DEFINE F  == {"area"}
           t1 == EachBlock(t, BlockArea)
           t2 == IF LogicLayer(c) THEN TsvArea(t1, "mat_tsv") ELSE t1
           t3 == IF MatCompares(c) THEN ComparatorArea(t2, "comparator") ELSE t2
           A1 == {} \cup BlockSet
           A2 == A1 \cup (IF LogicLayer(c) THEN {"mat_tsv"} ELSE {})
           A3 == A2 \cup (IF MatCompares(c) THEN {"comparator"} ELSE {})
<1>1. MatAreaOfParts(t, c) = t3
  BY DEF MatAreaOfParts
<1>2. /\ F \cap {"gates", "cap"} = {} /\ F \subseteq F /\ "refreshEnergy" \notin F
      /\ Reads(Areas)
  BY ValuesRead
<1>3. Done(t, t1, A1, F, Areas)
  <2>1. Done(t, t, {}, F, Areas) /\ {} \subseteq Units \ BlockSet
    BY DoneNone
  <2>2. \A p \in BlockSet : Fine(t, p)
    BY TheBankUnits, BegunFine
  <2> QED
    BY <1>2, <2>1, <2>2, BlocksArea
<1>4. /\ A1 \subseteq Units /\ A2 \subseteq Units /\ A3 \subseteq Units
      /\ "mat_tsv" \in Units \ A1 /\ "comparator" \in Units \ A2
      /\ "mat_tsv" \in Tsvs /\ "comparator" \in Compares
  <2>1. "mat_tsv" \in Tsvs /\ "comparator" \in Compares
    BY DEF Tsvs, Compares
  <2> QED
    BY <2>1, TheBankUnits, TheBlocks
<1> HIDE DEF t1, A1, F
<1>5. LogicLayer(c) => Done(t, t2, A1 \cup {"mat_tsv"}, F, Areas)
  <2> SUFFICES ASSUME LogicLayer(c) PROVE Done(t, t2, A1 \cup {"mat_tsv"}, F, Areas)
    OBVIOUS
  <2>1. Known(t, "mat_tsv") /\ Share("mat_tsv") = {"mat_tsv"}
    <3>1. "mat_tsv" \notin BlockSet \cup Compares
      BY <1>4, UnitKinds
    <3> QED
      BY <3>1, TheBankUnits, BegunFine, OptionShares
  <2>2. Fig(t1, "mat_tsv", "leakage") = {}
    <3>1. Idle(t1)
      BY <1>3, IdleStays DEF Done, F
    <3>2. "leakage" \in Figure \ {"area"}
      BY DEF Figure
    <3> QED
      BY <1>4, <3>1, <3>2 DEF Idle
  <2>3. Known(t1, "mat_tsv") => Step(t1, t2, "mat_tsv", F, Areas)
    BY <1>4, <2>1, <2>2, TsvIdleArea DEF F
  <2> HIDE DEF t2
  <2> QED
    BY <1>2, <1>3, <1>4, <2>1, <2>3, DoneKnown
<1>6. Done(t, t2, A2, F, Areas)
  <2>1. ~LogicLayer(c) => t2 = t1 /\ A2 = A1
    OBVIOUS
  <2>2. LogicLayer(c) => A2 = A1 \cup {"mat_tsv"}
    OBVIOUS
  <2> HIDE DEF t2, A2
  <2> QED
    BY <1>3, <1>5, <2>1, <2>2
<1> HIDE DEF t2, A2
<1>7. MatCompares(c) => Done(t, t3, A2 \cup {"comparator"}, F, Areas)
  <2> SUFFICES ASSUME MatCompares(c) PROVE Done(t, t3, A2 \cup {"comparator"}, F, Areas)
    OBVIOUS
  <2>1. Fine(t, "comparator") /\ Share("comparator") = {"comparator"}
    BY TheBankUnits, BegunFine, OptionShares
  <2>2. Fine(t2, "comparator") => Step(t2, t3, "comparator", F, Areas)
    BY <1>4, <2>1, ComparatorAreaStep DEF F
  <2> HIDE DEF t3
  <2> QED
    BY <1>2, <1>4, <1>6, <2>1, <2>2, DoneFine
<1>8. Done(t, t3, A3, F, Areas)
  <2>1. ~MatCompares(c) => t3 = t2 /\ A3 = A2
    OBVIOUS
  <2>2. MatCompares(c) => A3 = A2 \cup {"comparator"}
    OBVIOUS
  <2> HIDE DEF t3, A3
  <2> QED
    BY <1>6, <1>7, <2>1, <2>2
<1> HIDE DEF t3
<1>9. \A p \in A3 : Fig(t3, p, "area") = Share(p)
  BY <1>4, <1>8, AreasIs DEF Done
<1>10. Fig(t3, "comparator", "area") = Share("comparator")
  <2>1. CASE MatCompares(c)
    BY <1>9, <2>1
  <2>2. CASE ~MatCompares(c)
    <3>1. Share("comparator") = {} /\ "area" \in Figure
      BY <2>2, OptionShares DEF Figure
    <3> QED
      BY <1>4, <1>8, <3>1 DEF Done, Modest
  <2> QED
    BY <2>1, <2>2
<1>11. Works(Parts, t, t3, Units \cup Drivers, {"area"})
  <2>1. A3 \cup Drivers \subseteq Units \cup Drivers
    BY <1>4
  <2> QED
    BY <1>8, <2>1, WorksMore DEF Done, F
<1>12. BlockSet \subseteq A3 /\ (LogicLayer(c) => "mat_tsv" \in A3)
  BY DEF A2, A1
<1> QED
  BY <1>1, <1>8, <1>9, <1>10, <1>11, <1>12 DEF Done

LEMMA MatAreaGives ==
  ASSUME NEW t, IsState(Parts, t), Modest(t), Idle(t), \A p \in MatUnits : Begun(t, p),
         Stands(t, "mat"), Fig(t, Sub, "area") = Sum(SubAreas)
  PROVE  MatSized(t, MatArea(t, c))
<1> DEFINE v == MatAreaOfParts(t, c)
           logic == Total(v, BlockSet, "area")
                      \oplus (IF MatCompares(c) THEN Fig(v, "comparator", "area") ELSE {})
           beside == IF LogicLayer(c) THEN Fig(v, "mat_tsv", "area") ELSE logic
           area == Fig(v, Sub, "area") \oplus beside
           w == Put(v, "logic", All({"area"}, logic))
           u == Put(w, "mat", All({"area"}, area))
<1>1. MatArea(t, c) = u
  <2>1. MatArea(t, c) = Put(Put(v, "logic", [area |-> logic]), "mat", [area |-> area])
    BY DEF MatArea, MatAreas, Rated, When, Stands
  <2> QED
    BY <2>1, OneField
<1>2. /\ Works(Parts, t, v, Units \cup Drivers, {"area"}) /\ Modest(v)
      /\ \A p \in BlockSet \cup {"comparator"} : Fig(v, p, "area") = Share(p)
      /\ LogicLayer(c) => Fig(v, "mat_tsv", "area") = Share("mat_tsv")
  BY MatPartsSized
<1> HIDE DEF v
<1>3. /\ BlockSet \subseteq Labels /\ {"comparator"} \subseteq Labels /\ {"mat_tsv"} \subseteq Labels
      /\ BlockSet \cap {"comparator"} = {} /\ BlockSet \cup {"comparator"} \subseteq Labels
  BY TheBankUnits, TheBlocks, UnitKinds
<1>4. logic = Sum(BlockSet \cup {"comparator"})
  <2>1. Total(v, BlockSet, "area") = Sum(BlockSet)
    BY <1>2, TotalSum
  <2>2. (IF MatCompares(c) THEN Fig(v, "comparator", "area") ELSE {}) = Sum({"comparator"})
    BY <1>2, SumOfOne, OptionShares
  <2> QED
    BY <1>3, <2>1, <2>2, PlusPlain
<1> HIDE DEF logic
<1>5. Sub \in Parts /\ Sub \notin Units \cup Drivers /\ "mat" \in Sums \cup Kept
      /\ "logic" \in Sums \cup Kept /\ "mat" \in Parts /\ "logic" \in Parts
      /\ "mat" # "logic" /\ "area" \in Fields /\ {"area"} \subseteq Fields
  BY UnitNames, Names DEF Sums, Kept
<1>6. Fig(v, Sub, "area") = Sum(SubAreas)
  BY <1>2, <1>5 DEF Works
<1>7. area = Sum(MatAreaSum)
  <2>1. /\ SubAreas \subseteq Labels /\ SubAreas \cap (BlockSet \cup {"comparator"}) = {}
        /\ SubAreas \cap {"mat_tsv"} = {}
    BY SubLabels DEF SubAreas, Selects, Column, Sensing, Muxes, BlockSet
  <2>2. CASE LogicLayer(c)
    BY <1>2, <1>3, <1>6, <2>1, <2>2, PlusPlain, SumOfOne DEF MatAreaSum
  <2>3. CASE ~LogicLayer(c)
    BY <1>3, <1>4, <1>6, <2>1, <2>3, PlusPlain DEF MatAreaSum
  <2> QED
    BY <2>2, <2>3
<1> HIDE DEF area
<1>8. Sets(Parts, v, w, "logic", {"area"}, logic)
  BY <1>2, <1>5, PutAll DEF Works, Computes
<1> HIDE DEF w
<1>9. Sets(Parts, w, u, "mat", {"area"}, area)
  BY <1>5, <1>8, PutAll DEF Sets, Computes
<1> HIDE DEF u
<1>10. Works(Parts, v, w, {"logic"}, {"area"}) /\ Works(Parts, w, u, {"mat"}, {"area"})
  BY <1>8, <1>9 DEF Sets, Works
<1>11. Modest(u)
  BY <1>2, <1>5, <1>10, SumsModest
<1>12. Works(Parts, t, u, Units \cup Drivers \cup {"mat", "logic"}, {"area"})
  <2>1. Works(Parts, t, u, ((Units \cup Drivers) \cup {"logic"}) \cup {"mat"}, ({"area"} \cup {"area"}) \cup {"area"})
    BY <1>2, <1>10, WorksThen
  <2> QED
    BY <2>1, WorksMore
<1>13. Fig(u, "mat", "area") = area /\ Fig(u, "logic", "area") = logic
  BY <1>5, <1>8, <1>9 DEF Sets
<1> QED
  BY <1>1, <1>4, <1>7, <1>11, <1>12, <1>13 DEF MatSized

(* What a bank with external sensing has beside its mats, and the TSVs.     *)
Globals == {"globalSenseAmp", "globalMux", "globalComparator", "bank_tsv"}

LEMMA OthersSum ==
  ASSUME NEW A, A \subseteq Others
  PROVE  Sum(A) = A /\ A \subseteq Labels
<1>1. \A p \in A : Share(p) = {p}
  BY ShareIs
<1> QED
  BY <1>1 DEF Sum, Labels

ArrayArea(m) ==
  LET sense == IF c.internal THEN m
               ELSE MuxArea(SenseAmpArea(m, "globalSenseAmp"), "globalMux")
  IN  IF c.internal \/ ~c.tag THEN sense
      ELSE ComparatorArea(sense, "globalComparator")

(* The parts of both banks' CalculateArea(), but for the mats.              *)
LEMMA ArraySized ==
  ASSUME NEW m, IsState(Parts, m), Modest(m), \A p \in BankUnits : Begun(m, p)
  PROVE  Done(m, ArrayArea(m),
              (IF c.internal THEN {} ELSE {"globalSenseAmp", "globalMux"})
                \cup (IF c.internal \/ ~c.tag THEN {} ELSE {"globalComparator"}),
              {"area"}, Areas)
<1> DEFINE F  == {"area"}
           t1 == SenseAmpArea(m, "globalSenseAmp")
           t2 == MuxArea(t1, "globalMux")
           t3 == IF c.internal THEN m ELSE t2
           t4 == IF c.internal \/ ~c.tag THEN t3 ELSE ComparatorArea(t3, "globalComparator")
           A1 == {} \cup {"globalSenseAmp"}
           A2 == A1 \cup {"globalMux"}
           A3 == IF c.internal THEN {} ELSE A2
           A4 == A3 \cup (IF c.internal \/ ~c.tag THEN {} ELSE {"globalComparator"})
<1>1. ArrayArea(m) = t4
  BY DEF ArrayArea
<1>2. /\ F \cap {"gates", "cap"} = {} /\ F \subseteq F /\ "refreshEnergy" \notin F
      /\ Reads(Areas)
  BY ValuesRead
<1>3. Done(m, m, {}, F, Areas) /\ {} \subseteq Units
  BY DoneNone
<1>4. /\ "globalSenseAmp" \in Units \ {} /\ "globalMux" \in Units \ A1
      /\ "globalComparator" \in Units \ A3 /\ A1 \subseteq Units /\ A2 \subseteq Units
      /\ A3 \subseteq Units
      /\ "globalSenseAmp" \in Amps /\ "globalMux" \in Muxes \cup {"globalMux"}
      /\ "globalComparator" \in Compares
  BY TheBankUnits DEF Amps, Compares
<1>5. ~c.internal => Done(m, t1, A1, F, Areas)
  <2> SUFFICES ASSUME ~c.internal PROVE Done(m, t1, A1, F, Areas)
    OBVIOUS
  <2>1. Fine(m, "globalSenseAmp") /\ Share("globalSenseAmp") = {"globalSenseAmp"}
    BY BegunFine, OptionShares DEF BankUnits
  <2>2. Fine(m, "globalSenseAmp") => Step(m, t1, "globalSenseAmp", F, Areas)
    BY <1>4, <2>1, AmpAreaStep DEF F
  <2> HIDE DEF t1, F
  <2> QED
    BY <1>2, <1>3, <1>4, <2>1, <2>2, DoneFine
<1> HIDE DEF t1
<1>6. ~c.internal => Done(m, t2, A2, F, Areas)
  <2> SUFFICES ASSUME ~c.internal PROVE Done(m, t2, A2, F, Areas)
    OBVIOUS
  <2>1. Fine(m, "globalMux")
    BY BegunFine DEF BankUnits
  <2>2. Fine(t1, "globalMux") => Step(t1, t2, "globalMux", F, Areas)
    BY <1>4, MuxAreaStep DEF F
  <2> HIDE DEF t2, F, A1
  <2> QED
    BY <1>2, <1>4, <1>5, <2>1, <2>2, DoneFine
<1> HIDE DEF t2
<1>7. Done(m, t3, A3, F, Areas)
  <2>1. CASE c.internal
    BY <1>3, <2>1
  <2>2. CASE ~c.internal
    BY <1>6, <2>2
  <2> QED
    BY <2>1, <2>2
<1> HIDE DEF t3, A3
<1>8. Done(m, t4, A4, F, Areas)
  <2>1. CASE c.internal \/ ~c.tag
    <3>1. t4 = t3 /\ A4 = A3
      BY <2>1
    <3> QED
      BY <1>7, <3>1
  <2>2. CASE ~(c.internal \/ ~c.tag)
    <3>1. /\ t4 = ComparatorArea(t3, "globalComparator") /\ A4 = A3 \cup {"globalComparator"}
      BY <2>2
    <3>2. Fine(m, "globalComparator") /\ Share("globalComparator") = {"globalComparator"}
      BY <2>2, BegunFine, OptionShares DEF BankUnits
    <3>3. Fine(t3, "globalComparator") => Step(t3, t4, "globalComparator", F, Areas)
      BY <1>4, <3>1, <3>2, ComparatorAreaStep DEF F
    <3> HIDE DEF t4, A4, F
    <3> QED
      BY <1>2, <1>4, <1>7, <3>1, <3>2, <3>3, DoneFine
  <2> QED
    BY <2>1, <2>2
<1> HIDE DEF t4
<1> QED
  BY <1>1, <1>8 DEF A4, A3, A2, A1, F

BankAreaSum == (MatAreaSum \cup (IF c.internal THEN Wires(c) ELSE {})) \cup Globals

(* Both CalculateArea() of a bank whose shape is accepted.                  *)
BankSized(t, u) ==
  /\ Works(Parts, t, u, Units \cup Drivers \cup {"mat", "logic", "bank"}, {"area"})
  /\ Modest(u) /\ Fig(u, "bank", "area") = Sum(BankAreaSum)
  /\ Fig(u, "mat", "area") = Sum(MatAreaSum)
  /\ Fig(u, "logic", "area") = Sum(BlockSet \cup {"comparator"})

(* ... and of one that is not.                                              *)
Misshapen == c.fault = "aspectRatio" /\ ~c.tag

Refused(t, u) ==
  /\ IsState(Parts, u) /\ u.made = t.made /\ u.bad = t.bad \cup {"bank"}
  /\ u.complaints = t.complaints /\ Fig(u, "bank", "area") = {Worst}

LEMMA GlobalsSized ==
  ASSUME NEW m, IsState(Parts, m), Modest(m), Idle(m), \A p \in BankUnits : Begun(m, p),
         NEW t, t = IF Stacked(c) THEN TsvArea(ArrayArea(m), "bank_tsv") ELSE ArrayArea(m)
  PROVE  /\ Works(Parts, m, t, Units \cup Drivers, {"area"}) /\ Modest(t)
         /\ \A p \in Globals : Fig(t, p, "area") = Share(p)
<1> DEFINE F == {"area"}
           A == (IF c.internal THEN {} ELSE {"globalSenseAmp", "globalMux"})
                  \cup (IF c.internal \/ ~c.tag THEN {} ELSE {"globalComparator"})
           B == A \cup (IF Stacked(c) THEN {"bank_tsv"} ELSE {})
           a == ArrayArea(m)
<1>1. Done(m, a, A, F, Areas)
  BY ArraySized
<1>2. /\ F \cap {"gates", "cap"} = {} /\ F \subseteq F /\ "refreshEnergy" \notin F
      /\ Reads(Areas)
  BY ValuesRead
<1>3. A \subseteq Units /\ "bank_tsv" \in Units \ A /\ "bank_tsv" \in Tsvs /\ Globals \subseteq Units
  BY TheBankUnits DEF Tsvs, Globals
<1> HIDE DEF a, F
<1>4. Done(m, t, B, F, Areas)
  <2>1. CASE ~Stacked(c)
    <3>1. t = a /\ B = A
      BY <2>1 DEF a
    <3> QED
      BY <1>1, <3>1
  <2>2. CASE Stacked(c)
    <3>1. t = TsvArea(a, "bank_tsv") /\ B = A \cup {"bank_tsv"}
      BY <2>2 DEF a
    <3>2. Known(m, "bank_tsv") /\ Share("bank_tsv") = {"bank_tsv"}
      <4>1. "bank_tsv" \in BankUnits /\ "bank_tsv" \notin BlockSet \cup Compares
        BY <1>3, <2>2, UnitKinds DEF BankUnits
      <4> QED
        BY <2>2, <4>1, BegunFine, OptionShares
    <3>3. Fig(a, "bank_tsv", "leakage") = {}
      <4>1. Idle(a)
        BY <1>1, IdleStays DEF Done, F
      <4>2. "leakage" \in Figure \ {"area"}
        BY DEF Figure
      <4> QED
        BY <1>3, <4>1, <4>2 DEF Idle
    <3>4. Known(a, "bank_tsv") => Step(a, t, "bank_tsv", F, Areas)
      BY <1>3, <3>1, <3>2, <3>3, TsvIdleArea DEF F
    <3> HIDE DEF A, B
    <3> QED
      BY <1>1, <1>2, <1>3, <3>1, <3>2, <3>4, DoneKnown
  <2> QED
    BY <2>1, <2>2
<1>5. B \subseteq Units
  BY <1>3
<1>6. \A p \in B : Fig(t, p, "area") = Share(p)
  BY <1>4, <1>5, AreasIs DEF Done
<1>7. ASSUME NEW p \in Globals PROVE Fig(t, p, "area") = Share(p)
  <2>1. CASE p \in B
    BY <1>6, <2>1
  <2>2. CASE p \notin B
    <3>1. Share(p) = {}
      BY <2>2, OptionShares DEF Globals
    <3>2. "area" \in Figure
      BY DEF Figure
    <3> QED
      BY <1>3, <1>4, <3>1, <3>2 DEF Done, Modest
  <2> QED
    BY <2>1, <2>2
<1>8. Works(Parts, m, t, Units \cup Drivers, {"area"})
  <2>1. B \cup Drivers \subseteq Units \cup Drivers
    BY <1>5
  <2> QED
    BY <1>4, <2>1, WorksMore DEF Done, F
<1> QED
  BY <1>4, <1>7, <1>8 DEF Done

(* A sound bank as Initialize() leaves it.                                  *)
Standing(t) ==
  /\ IsState(Parts, t) /\ Modest(t) /\ t.bad = {} /\ t.complaints = {}
  /\ {"bank", "mat", Sub} \subseteq t.made
  /\ \A p \in Selects : Fig(t, p, "refreshEnergy") = {}

MatsSized(t) ==
  /\ Fig(t, "mat", "area") = Sum(MatAreaSum)
  /\ Fig(t, "logic", "area") = Sum(BlockSet \cup {"comparator"})

Raised(t) ==
  /\ Standing(t) /\ Idle(t) /\ \A p \in BankUnits : Begun(t, p)
  /\ Fig(t, Sub, "area") = Sum(SubAreas) /\ (~c.htree => MatsSized(t))

LEMMA BegunStays ==
  ASSUME NEW t, NEW u, NEW Q, Works(Parts, t, u, Q, {"area"}), NEW p \in Units, Begun(t, p)
  PROVE  Begun(u, p)
<1>1. {"area"} \cap {"gates", "cap"} = {}
  OBVIOUS
<1> QED
  BY <1>1, StaysReady DEF Begun

LEMMA BankAreaGives ==
  ASSUME NEW t, Raised(t)
  PROVE  /\ ~Misshapen => BankSized(t, BankArea(t, c))
         /\ Misshapen => Refused(t, BankArea(t, c))
<1> DEFINE m == IF c.htree THEN MatArea(t, c) ELSE t
           a == ArrayArea(m)
           w == IF Stacked(c) THEN TsvArea(a, "bank_tsv") ELSE a
           total == (Fig(w, "mat", "area") \oplus (IF c.internal THEN Wires(c) ELSE {}))
                      \oplus Total(w, Globals, "area")
           u == Put(w, "bank", All({"area"}, total))
           x == Put(Invalidate(a, "bank"), "bank", All({"area"}, {Worst}))
<1>1. /\ ~Misshapen => BankArea(t, c) = u
      /\ Misshapen => BankArea(t, c) = x
  <2>1. "bank" \in t.made /\ "bank" \notin t.bad
    BY DEF Raised, Standing
  <2>2. BankArea(t, c) = IF Misshapen THEN Put(Invalidate(a, "bank"), "bank", [area |-> {Worst}])
                         ELSE Put(w, "bank", [area |-> total])
    BY <2>1 DEF BankArea, BankAreas, Rated, When, ArrayArea, Misshapen, Globals
  <2> QED
    BY <2>2, OneField
<1>2. /\ Works(Parts, t, m, Units \cup Drivers \cup {"mat", "logic"}, {"area"})
      /\ Modest(m) /\ MatsSized(m)
  <2>1. CASE c.htree
    <3>1. \A p \in MatUnits : Begun(t, p)
      BY TheBankUnits DEF Raised
    <3>2. MatSized(t, MatArea(t, c))
      BY <3>1, MatAreaGives DEF Raised, Standing, Stands
    <3> QED
      BY <2>1, <3>2 DEF MatSized, MatsSized
  <2>2. CASE ~c.htree
    BY <2>2 DEF Raised, Standing, Works, Computes
  <2> QED
    BY <2>1, <2>2
<1> HIDE DEF m
<1>3. /\ IsState(Parts, m) /\ Idle(m) /\ \A p \in BankUnits : Begun(m, p)
  BY <1>2, TheBankUnits, BegunStays, IdleStays DEF Raised, Works, Computes
<1>4. /\ Works(Parts, m, w, Units \cup Drivers, {"area"}) /\ Modest(w)
      /\ \A p \in Globals : Fig(w, p, "area") = Share(p)
  BY <1>2, <1>3, GlobalsSized
<1>5. /\ "bank" \in Parts /\ "mat" \in Parts /\ "logic" \in Parts /\ "bank" \in Sums
      /\ {"bank", "mat", "logic"} \cap (Units \cup Drivers) = {} /\ "area" \in Fields
      /\ {"area"} \subseteq Fields
  BY UnitNames, Names DEF Sums, Kept
<1>6. /\ a = ArrayArea(m) /\ IsState(Parts, a) /\ a.made = m.made /\ a.bad = m.bad
      /\ a.complaints = m.complaints
  BY <1>2, <1>3, ArraySized DEF Done, Works, Computes
<1>7. Misshapen => Refused(t, x)
  <2> HIDE DEF a
  <2> DEFINE i == Invalidate(a, "bank")
  <2>1. /\ IsState(Parts, i) /\ i.made = a.made /\ i.bad = a.bad \cup {"bank"}
        /\ i.complaints = a.complaints
    BY <1>5, <1>6, InvalidateGives
  <2> HIDE DEF i
  <2>2. Sets(Parts, i, Put(i, "bank", All({"area"}, {Worst})), "bank", {"area"}, {Worst})
    BY <1>5, <2>1, PutAll
  <2>3. Sets(Parts, i, x, "bank", {"area"}, {Worst})
    BY <2>2 DEF i
  <2> HIDE DEF x
  <2> QED
    BY <1>2, <1>5, <1>6, <2>1, <2>3 DEF Refused, Sets, Works, Computes
<1> HIDE DEF w, a
<1>8. Fig(w, "mat", "area") = Sum(MatAreaSum) /\ Fig(w, "logic", "area") = Fig(m, "logic", "area")
  BY <1>2, <1>4, <1>5 DEF Works, MatsSized
<1>9. total = Sum(BankAreaSum)
  <2> DEFINE W == IF c.internal THEN Wires(c) ELSE {}
             B == MatAreaSum \cup W
  <2>1. W \subseteq {"wire"} /\ {"wire"} \subseteq Others
    BY DEF Wires, Others
  <2>2. Sum(W) = W /\ W \subseteq Labels
    BY <2>1, OthersSum
  <2>3. MatAreaSum \subseteq Labels /\ MatAreaSum \cap {"wire"} = {} /\ MatAreaSum \cap Globals = {}
        /\ Globals \subseteq Labels /\ Globals \cap {"wire"} = {}
    <3>1. SubAreas \cap (Globals \cup {"wire"}) = {}
      BY DEF SubAreas, Selects, Column, Sensing, Muxes, Globals
    <3>2. (BlockSet \cup {"comparator", "mat_tsv"}) \cap (Globals \cup {"wire"}) = {}
      BY DEF BlockSet, Globals
    <3>3. SubAreas \subseteq Labels /\ BlockSet \cup {"comparator", "mat_tsv"} \subseteq Labels
          /\ Globals \subseteq Labels
      BY SubLabels, TheBankUnits, TheBlocks, UnitKinds DEF Globals
    <3>4. Globals \cap {"wire"} = {}
      BY DEF Globals
    <3> QED
      BY <3>1, <3>2, <3>3, <3>4 DEF MatAreaSum
  <2>4. Total(w, Globals, "area") = Sum(Globals)
    BY <1>4, TotalSum
  <2>5. MatAreaSum \cap W = {} /\ B \cap Globals = {} /\ B \subseteq Labels
    BY <2>1, <2>2, <2>3
  <2>6. total = (Sum(MatAreaSum) \oplus Sum(W)) \oplus Sum(Globals)
    BY <1>8, <2>2, <2>4
  <2>7. BankAreaSum = B \cup Globals
    BY DEF BankAreaSum
  <2> HIDE DEF W
  <2>8. Sum(MatAreaSum) \oplus Sum(W) = Sum(B)
    BY <2>2, <2>3, <2>5, PlusPlain
  <2> HIDE DEF B
  <2>9. Sum(B) \oplus Sum(Globals) = Sum(B \cup Globals)
    BY <2>3, <2>5, PlusPlain
  <2> QED
    BY <2>6, <2>7, <2>8, <2>9
<1> HIDE DEF total
<1>10. Sets(Parts, w, u, "bank", {"area"}, total)
  BY <1>4, <1>5, PutAll DEF Works, Computes
<1> HIDE DEF u
<1>11. Works(Parts, w, u, {"bank"}, {"area"})
  BY <1>10 DEF Sets, Works
<1>12. Works(Parts, t, u, Units \cup Drivers \cup {"mat", "logic", "bank"}, {"area"})
  <2>1. Works(Parts, t, w, (Units \cup Drivers \cup {"mat", "logic"}) \cup (Units \cup Drivers), {"area"} \cup {"area"})
    BY <1>2, <1>4, WorksThen
  <2>2. Works(Parts, t, u, ((Units \cup Drivers \cup {"mat", "logic"}) \cup (Units \cup Drivers)) \cup {"bank"},
              ({"area"} \cup {"area"}) \cup {"area"})
    BY <1>11, <2>1, WorksThen
  <2> QED
    BY <2>2, WorksMore
<1>13. Modest(u)
  BY <1>4, <1>5, <1>11, SumsModest
<1>14. /\ Fig(u, "bank", "area") = total /\ Fig(u, "mat", "area") = Sum(MatAreaSum)
       /\ Fig(u, "logic", "area") = Sum(BlockSet \cup {"comparator"})
  <2>1. "bank" # "mat" /\ "bank" # "logic"
    OBVIOUS
  <2> QED
    BY <1>2, <1>5, <1>8, <1>10, <2>1 DEF Sets, MatsSized
<1> QED
  BY <1>1, <1>7, <1>9, <1>12, <1>13, <1>14 DEF BankSized

-----------------------------------------------------------------------------
(* CalculateRC(): the units that have not had theirs in Initialize().       *)
Taught(s0, t, S) ==
  /\ Works(Parts, s0, t, Units, {"cap"})
  /\ \A p \in S : Known(t, p)
  /\ \A p \in Units : Known(s0, p) => Known(t, p)

LEMMA TaughtStep ==
  ASSUME NEW s0, NEW t, NEW u, NEW S, S \subseteq Units, NEW p \in Units, Taught(s0, t, S),
         Fine(s0, p), Fine(t, p) => Works(Parts, t, u, {p}, {"cap"}),
         p \in Gated => Gates(p) = {} \/ Fig(u, p, "cap") = {},
         p \notin Gated => Fig(u, p, "cap") = {}, p \notin Driven
  PROVE  Taught(s0, u, S \cup {p})
<1>1. /\ Units \subseteq Parts /\ \A q \in Driven : Driver(q) \in Parts /\ Driver(q) \notin Units
      /\ "cap" \in Fields /\ "gates" \in Fields /\ "gates" # "cap" /\ Gated \subseteq Units
  BY UnitNames, DriverNamesDiffer, FieldNames, UnitKinds
<1>2. ASSUME NEW q \in Units, Fine(s0, q), NEW v, Works(Parts, s0, v, Units, {"cap"})
      PROVE  Fine(v, q)
  BY <1>1, <1>2 DEF Fine, Works, Computes
<1>3. Works(Parts, t, u, {p}, {"cap"})
  BY <1>2 DEF Taught
<1>4. Works(Parts, s0, u, Units, {"cap"})
  BY <1>3, WorksOn DEF Taught
<1>5. Known(u, p)
  BY <1>2, <1>4 DEF Known
<1>6. ASSUME NEW q \in Units, q # p, Known(t, q) PROVE Known(u, q)
  <2>1. Known(t, q) /\ q \in Units
    BY <1>6
  <2>2. Fine(u, q)
    BY <1>1, <1>3, <2>1 DEF Known, Fine, Works, Computes
  <2>3. q \in Driven => Fig(u, Driver(q), "cap") = Fig(t, Driver(q), "cap")
    BY <1>1, <1>3 DEF Works
  <2>4. Fig(u, q, "cap") = Fig(t, q, "cap")
    BY <1>1, <1>3, <1>6, <2>1 DEF Works
  <2> QED
    BY <2>1, <2>2, <2>3, <2>4 DEF Known
<1> QED
  BY <1>4, <1>5, <1>6 DEF Taught

LEMMA BlockTaught ==
  ASSUME NEW s0, NEW t, NEW S, S \subseteq Units, NEW p \in BlockSet, Taught(s0, t, S),
         Fine(s0, p)
  PROVE  Taught(s0, BlockRC(t, p), S \cup {p})
<1> DEFINE u == BlockRC(t, p)
<1>1. p \in Units /\ p \in Parts /\ p \notin Driven /\ "cap" \in Fields /\ {"cap"} \subseteq Fields
  BY TheBlocks, UnitParts, FieldNames
<1>2. IsState(Parts, t) /\ p \in t.made
  BY DEF Taught, Works, Computes, Fine
<1>3. u = Put(t, p, All({"cap"}, {}))
  BY <1>2, OneField DEF BlockRC, When
<1>4. Sets(Parts, t, u, p, {"cap"}, {})
  BY <1>1, <1>2, <1>3, PutAll
<1> HIDE DEF u
<1>5. Works(Parts, t, u, {p}, {"cap"}) /\ Fig(u, p, "cap") = {}
  BY <1>1, <1>4 DEF Sets, Works
<1>6. Taught(s0, u, S \cup {p})
  BY <1>1, <1>5, TaughtStep
<1> QED
  BY <1>6 DEF u

LEMMA BlocksTaught ==
  ASSUME NEW t, IsState(Parts, t), \A p \in BlockSet : Fine(t, p)
  PROVE  Taught(t, EachBlock(t, BlockRC), BlockSet)
<1> DEFINE t1 == BlockRC(t, "rowBlock1")
           t2 == BlockRC(t1, "rowBlock2")
           t3 == BlockRC(t2, "muxBlock1")
           t4 == BlockRC(t3, "muxBlock2")
           t5 == BlockRC(t4, "lev1Block1")
           t6 == BlockRC(t5, "lev1Block2")
           t7 == BlockRC(t6, "lev2Block1")
           t8 == BlockRC(t7, "lev2Block2")
           A1 == {} \cup {"rowBlock1"}
           A2 == A1 \cup {"rowBlock2"}
           A3 == A2 \cup {"muxBlock1"}
           A4 == A3 \cup {"muxBlock2"}
           A5 == A4 \cup {"lev1Block1"}
           A6 == A5 \cup {"lev1Block2"}
           A7 == A6 \cup {"lev2Block1"}
           A8 == A7 \cup {"lev2Block2"}
<1>1. EachBlock(t, BlockRC) = t8
  BY DEF EachBlock, Each4, Each3
<1>2. A8 = BlockSet
  BY DEF BlockSet
<1>3. /\ BlockSet \subseteq Units /\ A1 \subseteq BlockSet /\ A2 \subseteq BlockSet
      /\ A3 \subseteq BlockSet /\ A4 \subseteq BlockSet /\ A5 \subseteq BlockSet
      /\ A6 \subseteq BlockSet /\ A7 \subseteq BlockSet
      /\ {"rowBlock1", "rowBlock2", "muxBlock1", "muxBlock2", "lev1Block1", "lev1Block2",
          "lev2Block1", "lev2Block2"} \subseteq BlockSet
  BY TheBlocks DEF BlockSet
<1>4. Taught(t, t, {}) /\ {} \subseteq Units
  BY DEF Taught, Works, Computes
<1> HIDE DEF A1, A2, A3, A4, A5, A6, A7
<1>5. Taught(t, t1, A1)
  BY <1>3, <1>4, BlockTaught DEF A1
<1> HIDE DEF t1
<1>6. Taught(t, t2, A2)
  BY <1>3, <1>5, BlockTaught DEF A2
<1> HIDE DEF t2
<1>7. Taught(t, t3, A3)
  BY <1>3, <1>6, BlockTaught DEF A3
<1> HIDE DEF t3
<1>8. Taught(t, t4, A4)
  BY <1>3, <1>7, BlockTaught DEF A4
<1> HIDE DEF t4
<1>9. Taught(t, t5, A5)
  BY <1>3, <1>8, BlockTaught DEF A5
<1> HIDE DEF t5
<1>10. Taught(t, t6, A6)
  BY <1>3, <1>9, BlockTaught DEF A6
<1> HIDE DEF t6
<1>11. Taught(t, t7, A7)
  BY <1>3, <1>10, BlockTaught DEF A7
<1> HIDE DEF t7
<1>12. Taught(t, t8, A8)
  BY <1>3, <1>11, BlockTaught
<1> QED
  BY <1>1, <1>2, <1>12

LEMMA ComparatorTaught ==
  ASSUME NEW s0, NEW t, NEW S, S \subseteq Units, NEW p \in Compares, Taught(s0, t, S),
         Fine(s0, p)
  PROVE  Taught(s0, ComparatorRC(t, p), S \cup {p})
<1> DEFINE u == ComparatorRC(t, p)
<1>1. p \in Units /\ p \in Parts /\ p \notin Driven /\ "cap" \in Fields
      /\ p \notin Gated
  BY UnitParts, FieldNames, UnitKinds DEF Units, Driven, Gated
<1>2. IsState(Parts, t) /\ p \in t.made
  BY DEF Taught, Works, Computes, Fine
<1>3. Sets(Parts, t, u, p, {"cap"}, {})
  BY <1>1, <1>2, ComparatorRCGives
<1> HIDE DEF u
<1>4. Works(Parts, t, u, {p}, {"cap"}) /\ Fig(u, p, "cap") = {}
  BY <1>1, <1>3 DEF Sets, Works
<1>5. Taught(s0, u, S \cup {p})
  BY <1>1, <1>4, TaughtStep
<1> QED
  BY <1>5 DEF u

LEMMA AmpTaught ==
  ASSUME NEW s0, NEW t, NEW S, S \subseteq Units, NEW p \in Amps, Taught(s0, t, S),
         Fine(s0, p)
  PROVE  Taught(s0, SenseAmpRC(t, p), S \cup {p})
<1> DEFINE u == SenseAmpRC(t, p)
<1>1. p \in Units /\ p \in Parts /\ p \notin Driven /\ "cap" \in Fields
      /\ p \notin Gated
  BY UnitParts, FieldNames, UnitKinds DEF Units, Driven, Gated
<1>2. IsState(Parts, t) /\ p \in t.made /\ p \notin t.bad
  BY DEF Taught, Works, Computes, Fine
<1>3. Sets(Parts, t, u, p, {"cap"}, {})
  BY <1>1, <1>2, SenseAmpRCGives
<1> HIDE DEF u
<1>4. Works(Parts, t, u, {p}, {"cap"}) /\ Fig(u, p, "cap") = {}
  BY <1>1, <1>3 DEF Sets, Works
<1>5. Taught(s0, u, S \cup {p})
  BY <1>1, <1>4, TaughtStep
<1> QED
  BY <1>5 DEF u

LEMMA MuxTaught ==
  ASSUME NEW s0, NEW t, NEW S, S \subseteq Units, Taught(s0, t, S), Fine(s0, "globalMux")
  PROVE  Taught(s0, MuxRC(t, "globalMux"), S \cup {"globalMux"})
<1> DEFINE p == "globalMux"
           u == MuxRC(t, p)
<1>1. p \in Units /\ p \in Parts /\ p \notin Driven /\ "cap" \in Fields /\ "gates" \in Fields
      /\ p \in Gated /\ "gates" # "cap"
  BY UnitParts, FieldNames, UnitKinds DEF Driven, Gated
<1>2. IsState(Parts, t) /\ p \in t.made /\ Fig(t, p, "gates") = Gates(p)
  BY <1>1 DEF Taught, Works, Computes, Fine
<1>3. Works(Parts, t, u, {p}, {"cap"}) /\ (Gates(p) # {} => Fig(u, p, "cap") = {})
  BY <1>1, <1>2, MuxRCGives
<1> HIDE DEF u, p
<1>4. Taught(s0, u, S \cup {p})
  BY <1>1, <1>3, TaughtStep DEF p
<1> QED
  BY <1>4 DEF u, p

(* A sound bank after CalculateRC().                                        *)
Ready(t) == IsState(Parts, t) /\ \A p \in BankUnits : Known(t, p)

LEMMA BankRCGives ==
  ASSUME NEW t, Standing(t), \A p \in BankUnits : Begun(t, p)
  PROVE  Works(Parts, t, BankRC(t, c), Units, {"cap"}) /\ Ready(BankRC(t, c))
<1> DEFINE t1 == EachBlock(t, BlockRC)
           t2 == IF MatCompares(c) THEN ComparatorRC(t1, "comparator") ELSE t1
           t3 == MuxRC(t2, "globalMux")
           t4 == SenseAmpRC(t3, "globalSenseAmp")
           t5 == IF c.internal THEN t2 ELSE t4
           t6 == IF c.internal \/ ~c.tag THEN t5 ELSE ComparatorRC(t5, "globalComparator")
           A2 == BlockSet \cup (IF MatCompares(c) THEN {"comparator"} ELSE {})
           A5 == IF c.internal THEN A2 ELSE (A2 \cup {"globalMux"}) \cup {"globalSenseAmp"}
           A6 == A5 \cup (IF c.internal \/ ~c.tag THEN {} ELSE {"globalComparator"})
<1>1. BankRC(t, c) = t6
  <2>1. {"bank", "mat"} \cap t.bad = {} /\ {"bank", "mat"} \subseteq t.made
    BY DEF Standing
  <2> QED
    BY <2>1 DEF BankRC, MatRC, When
<1>2. /\ \A p \in BankUnits : Fine(t, p) /\ (p \notin BlockSet \cup Compares => Known(t, p))
      /\ IsState(Parts, t) /\ BlockSet \subseteq BankUnits /\ BankUnits \subseteq Units
  BY BegunFine, TheBankUnits DEF Standing
<1>3. /\ A2 \subseteq Units /\ A5 \subseteq Units /\ A6 \subseteq Units
      /\ A2 \cup {"globalMux"} \subseteq Units
      /\ {"comparator", "globalComparator"} \subseteq Compares /\ "globalSenseAmp" \in Amps
  BY TheBankUnits, TheBlocks DEF Compares, Amps
<1>4. Taught(t, t1, BlockSet)
  BY <1>2, BlocksTaught
<1> HIDE DEF t1
<1>5. Taught(t, t2, A2)
  <2>1. CASE MatCompares(c)
    <3>1. t2 = ComparatorRC(t1, "comparator") /\ A2 = BlockSet \cup {"comparator"}
          /\ BlockSet \subseteq Units /\ Fine(t, "comparator")
      BY <1>2, <2>1, TheBankUnits, TheBlocks
    <3> QED
      BY <1>3, <1>4, <3>1, ComparatorTaught
  <2>2. CASE ~MatCompares(c)
    BY <1>4, <2>2
  <2> QED
    BY <2>1, <2>2
<1> HIDE DEF t2, A2
<1>6. Taught(t, t5, A5)
  <2>1. CASE c.internal
    BY <1>5, <2>1
  <2>2. CASE ~c.internal
    <3>1. Fine(t, "globalMux") /\ Fine(t, "globalSenseAmp")
      BY <1>2, <2>2 DEF BankUnits
    <3>2. Taught(t, t3, A2 \cup {"globalMux"})
      BY <1>3, <1>5, <3>1, MuxTaught
    <3> HIDE DEF t3
    <3>3. Taught(t, t4, (A2 \cup {"globalMux"}) \cup {"globalSenseAmp"})
      BY <1>3, <3>1, <3>2, AmpTaught
    <3> QED
      BY <2>2, <3>3
  <2> QED
    BY <2>1, <2>2
<1> HIDE DEF t5, A5
<1>7. Taught(t, t6, A6)
  <2>1. CASE c.internal \/ ~c.tag
    BY <1>6, <2>1
  <2>2. CASE ~(c.internal \/ ~c.tag)
    <3>1. t6 = ComparatorRC(t5, "globalComparator") /\ A6 = A5 \cup {"globalComparator"}
          /\ Fine(t, "globalComparator")
      BY <1>2, <2>2 DEF BankUnits
    <3> QED
      BY <1>3, <1>6, <3>1, ComparatorTaught
  <2> QED
    BY <2>1, <2>2
<1> HIDE DEF t6
<1>8. BankUnits \cap (BlockSet \cup Compares) \subseteq A6
  <2>1. /\ SubUnits \cap (BlockSet \cup Compares) = {}
        /\ {"mat_tsv", "bank_tsv", "globalSenseAmp", "globalMux"} \cap (BlockSet \cup Compares) = {}
    BY TheBankUnits DEF BlockSet, Compares
  <2>2. MatCompares(c) => "comparator" \in A2
    BY DEF A2
  <2>3. A2 \subseteq A5 /\ A5 \subseteq A6 /\ BlockSet \subseteq A2
    BY DEF A2, A5
  <2>4. c.tag /\ ~c.internal => "globalComparator" \in A6
    OBVIOUS
  <2> QED
    BY <2>1, <2>2, <2>3, <2>4 DEF BankUnits, MatUnits
<1>9. ASSUME NEW p \in BankUnits PROVE Known(t6, p)
  <2>1. CASE p \in BlockSet \cup Compares
    BY <1>7, <1>8, <2>1 DEF Taught
  <2>2. CASE p \notin BlockSet \cup Compares
    <3>1. CASE p \in A6
      BY <1>7, <3>1 DEF Taught
    <3>2. CASE p \notin A6
      <4>1. Known(t, p) /\ p \in Units
        BY <1>2, <2>2
      <4> QED
        BY <1>7, <4>1 DEF Taught
    <3> QED
      BY <3>1, <3>2
  <2> QED
    BY <2>1, <2>2
<1> QED
  BY <1>1, <1>7, <1>9 DEF Taught, Ready, Works, Computes

-----------------------------------------------------------------------------
(* Mat::CalculateLatency().                                                 *)
LEMMA PlusLeft ==
  ASSUME NEW A, NEW B, A \subseteq Labels, B \subseteq Labels, A \cap B = {},
         NEW g, g \subseteq {Garbage}
  PROVE  Sum(A) \oplus (Sum(B) \cup g) = Sum(A \cup B) \cup g
<1> DEFINE h == {}
<1>1. h \subseteq {Garbage} /\ Sum(A) \cup h = Sum(A) /\ h \cup g = g
  OBVIOUS
<1> HIDE DEF h
<1>2. (Sum(A) \cup h) \oplus (Sum(B) \cup g) = Sum(A \cup B) \cup (h \cup g)
  BY <1>1, PlusSum
<1> QED
  BY <1>1, <1>2

Moving  == Fields \ {"area", "gates", "cap"}
Carried == {"readLatency", "writeLatency", "resetLatency", "setLatency",
            "readEnergy", "writeEnergy", "resetEnergy", "setEnergy"}

LEMMA MovingFields ==
  /\ Timing \subseteq Moving /\ Powering \subseteq Moving /\ Carried \subseteq Moving
  /\ Carried \subseteq Figure /\ Moving \cap {"area", "gates", "cap"} = {} /\ Moving \subseteq Fields
  /\ Delays \subseteq Timing /\ Delays \subseteq Figure \ {"area"} /\ Ramping \subseteq Timing
  /\ Powering \subseteq Figure \ {"area"}
BY DEF Moving, Carried, Timing, Powering, Fields, Figure, Loose, Latencies, Delays, Ramping

(* The power figures of all parts but the energies of the mats' TSVs.       *)
Undrawn(t, u) ==
  \A p \in Units \cup Sums, f \in Powering :
    p # "mat_tsv" \/ f \notin Carried => Fig(u, p, f) = Fig(t, p, f)

MatPartsDelayed(t, u) ==
  /\ Works(Parts, t, u, Units \cup Drivers \cup {Sub}, Moving) /\ Modest(u) /\ Undrawn(t, u)
  /\ \A p \in BlockSet : Fig(u, p, "readLatency") = Share(p)
  /\ \A f \in Carried : Fig(u, "mat_tsv", f) = Share("mat_tsv")
  /\ Fig(u, "comparator", "readLatency") = Share("comparator")
  /\ Fig(u, "senseAmp", "readLatency") = Share("senseAmp")
  /\ Fig(u, Sub, "readLatency") = Sum(SubReads) \cup Unset(c)
  /\ \A f \in Delays : Once(f, Fig(u, Sub, f), SubTimes)

LEMMA UndrawnTiming ==
  ASSUME NEW t, NEW u, NEW v, NEW Q, Undrawn(t, u), Works(Parts, u, v, Q, Timing)
  PROVE  Undrawn(t, v)
<1>1. Units \cup Sums \subseteq Parts /\ Powering \subseteq Fields
      /\ Powering \cap Timing = {}
  BY UnitNames, FieldNames
<1> QED
  BY <1>1 DEF Undrawn, Works

(* TSVs into a mat: with energies when there are any.                       *)
LEMMA MatTsvCrossed ==
  ASSUME NEW t, IsState(Parts, t), Modest(t), MatTsvs(c) => Known(t, "mat_tsv"),
         \A f \in Energies : Fig(t, "mat_tsv", f) = {},
         NEW u, u = IF MatTsvs(c) THEN TsvLatencyAndPower(t, "mat_tsv") ELSE t
  PROVE  /\ Works(Parts, t, u, {"mat_tsv"}, Carried) /\ Modest(u)
         /\ \A f \in Carried : Fig(u, "mat_tsv", f) = Share("mat_tsv")
<1>1. "mat_tsv" \in Tsvs /\ "mat_tsv" \in Units
  BY DEF Tsvs, Units
<1>2. CASE MatTsvs(c)
  <2>1. Share("mat_tsv") = {"mat_tsv"} /\ u = TsvLatencyAndPower(t, "mat_tsv")
    BY <1>2, OptionShares
  <2>2. Crossed(t, u, "mat_tsv")
    BY <1>1, <1>2, <2>1, TsvStep DEF Energies
  <2>3. /\ Works(Parts, t, u, {"mat_tsv"}, Carried)
        /\ \A f \in Carried : Fig(u, "mat_tsv", f) = Share("mat_tsv")
    BY <2>1, <2>2 DEF Crossed, Carried
  <2>4. Modest(u)
    <3>1. Units \subseteq Parts /\ Figure \subseteq Fields
      BY UnitNames, FieldNames
    <3> QED
      BY <2>3, <3>1 DEF Modest, Works
  <2> QED
    BY <2>3, <2>4
<1>3. CASE ~MatTsvs(c)
  <2>1. Share("mat_tsv") = {} /\ u = t
    BY <1>3, OptionShares
  <2>2. \A f \in Carried : Fig(t, "mat_tsv", f) = {}
    BY <1>1, <2>1, MovingFields DEF Modest
  <2> QED
    BY <2>1, <2>2 DEF Works, Computes
<1> QED
  BY <1>2, <1>3

LEMMA MatPartsDelay ==
  ASSUME NEW t, Standing(t), Idle(t), Ready(t)
  PROVE  MatPartsDelayed(t, MatLatencyOfParts(t, c))
<1> DEFINE F  == Latencies \cup {"ramp"}
           t1 == EachBlock(t, DelayBlock)
           t2 == IF MatTsvs(c) THEN TsvLatencyAndPower(t1, "mat_tsv") ELSE t1
           t3 == SubArrayLatency(t2, c, {})
           t4 == IF MatCompares(c) THEN ComparatorLatency(t3, "comparator", {}) ELSE t3
<1>1. MatLatencyOfParts(t, c)
        = LET sub == SubArrayLatency(t2, c, Total(t2, RowSet, "ramp"))
          IN  IF MatCompares(c) THEN ComparatorLatency(sub, "comparator", {}) ELSE sub
  BY DEF MatLatencyOfParts, EachBlock, Each4, Each3, DelayBlock
<1>2. /\ IsState(Parts, t) /\ Modest(t) /\ \A p \in MatUnits : Known(t, p)
      /\ \A f \in Figure \ {"area"} : \A p \in Units \cup Sums : Fig(t, p, f) = {}
  BY TheBankUnits DEF Standing, Ready, Idle
<1>3. /\ "mat_tsv" \in Units \ BlockSet /\ "comparator" \in Units \ BlockSet
      /\ "comparator" \in Compares /\ "comparator" # "mat_tsv" /\ "senseAmp" \in Units
      /\ "mat_tsv" \notin Drivers \cup {Sub} /\ "comparator" \notin Drivers \cup {Sub}
      /\ {"mat_tsv", "comparator"} \cap SubUnits = {} /\ "bitlineMux" \in Units
  <2>1. "mat_tsv" \in Tsvs /\ "comparator" \in Compares /\ "senseAmp" \in Amps
        /\ "comparator" # "mat_tsv" /\ "bitlineMux" \in Muxes /\ Sub \in Sums
    BY DEF Tsvs, Compares, Amps, Muxes, Sums
  <2>2. {"mat_tsv", "comparator", "senseAmp", "bitlineMux"} \subseteq Units
    BY <2>1 DEF Units, Gated
  <2> QED
    BY <2>1, <2>2, UnitNames, TheBankUnits
<1>4. Done(t, t1, BlockSet, F, Times)
  <2>1. F \cap {"gates", "cap"} = {} /\ Latencies \cup {"ramp"} \subseteq F
    BY DEF Latencies
  <2>2. Done(t, t, {}, F, Times) /\ {} \subseteq Units \ BlockSet /\ {} \cup BlockSet = BlockSet
    BY <1>2, DoneNone
  <2>3. \A p \in BlockSet : Known(t, p)
    BY <1>2, TheBankUnits
  <2> HIDE DEF F
  <2> QED
    BY <2>1, <2>2, <2>3, BlocksLatency
<1> HIDE DEF t1
<1>5. /\ Works(Parts, t, t1, BlockSet \cup Drivers, Timing) /\ Modest(t1) /\ IsState(Parts, t1)
      /\ \A p \in BlockSet : Fig(t1, p, "readLatency") = Share(p) /\ Fig(t1, p, "ramp") = {}
  <2>1. F \subseteq Timing
    BY DEF Timing, Latencies
  <2>2. Works(Parts, t, t1, BlockSet \cup Drivers, Timing)
    <3> HIDE DEF F
    <3> QED
      BY <1>4, <2>1, WorksMore DEF Done
  <2>3. ASSUME NEW p \in BlockSet
        PROVE  Fig(t1, p, "readLatency") = Share(p) /\ Fig(t1, p, "ramp") = {}
    <3>1. p \in Units /\ p # "precharger"
      BY TheBlocks, UnitKinds
    <3>2. {"readLatency", "ramp"} \subseteq DOMAIN Times[p]
      BY <3>1, TimesIs DEF Latencies
    <3>3. Times[p]["readLatency"] = Share(p) /\ Times[p]["ramp"] = {}
      BY <3>1, TimesIs
    <3> QED
      BY <1>4, <3>2, <3>3 DEF Done
  <2> QED
    BY <1>4, <2>2, <2>3 DEF Done, Works, Computes
<1>6. /\ Works(Parts, t1, t2, {"mat_tsv"}, Carried) /\ Modest(t2)
      /\ \A f \in Carried : Fig(t2, "mat_tsv", f) = Share("mat_tsv")
  <2>1. MatTsvs(c) => Known(t1, "mat_tsv")
    <3>1. Timing \cap {"gates", "cap"} = {}
      BY FieldNames
    <3>2. MatTsvs(c) => Known(t, "mat_tsv")
      BY <1>2, TheBankUnits
    <3> QED
      BY <1>3, <1>5, <3>1, <3>2, StaysReady
  <2>2. \A f \in Energies : Fig(t1, "mat_tsv", f) = {}
    <3>1. "mat_tsv" \notin BlockSet \cup Drivers /\ "mat_tsv" \in Parts
      BY <1>3, UnitParts
    <3>2. Energies \subseteq Fields /\ Energies \subseteq Figure \ {"area"}
      BY DEF Energies, Fields, Figure
    <3> QED
      BY <1>2, <1>3, <1>5, <3>1, <3>2 DEF Works
  <2> HIDE DEF t2
  <2> QED
    BY <1>5, <2>1, <2>2, MatTsvCrossed DEF t2
<1> HIDE DEF t2
<1>7. Total(t2, RowSet, "ramp") = {}
  <2>1. \A p \in RowSet : p \in BlockSet /\ p \in Parts /\ p # "mat_tsv" /\ "ramp" \in Fields
    BY TheBlocks, UnitParts, FieldNames DEF RowSet, BlockSet
  <2>2. \A p \in RowSet : Fig(t2, p, "ramp") = {}
    BY <1>5, <1>6, <2>1 DEF Works
  <2> QED
    BY <2>2 DEF Total
<1>8. MatLatencyOfParts(t, c) = t4
  BY <1>1, <1>7
<1>9. SubDelayed(t2, t3)
  <2>1. IsState(Parts, t2) /\ Stands(t2, Sub)
    BY <1>5, <1>6 DEF Works, Computes, Standing, Stands
  <2>2. SubReady(t2)
    <3>1. Timing \cap {"gates", "cap"} = {} /\ Carried \cap {"gates", "cap"} = {}
      BY FieldNames, MovingFields
    <3>2. \A p \in SubUnits : p \in Units /\ Known(t, p)
      BY <1>2, TheBankUnits, TheSubUnits
    <3>3. \A p \in SubUnits : Known(t1, p)
      BY <1>5, <3>1, <3>2, StaysReady
    <3> QED
      BY <1>6, <3>1, <3>2, <3>3, StaysReady DEF SubReady
  <2>3. ASSUME NEW p \in Parts, NEW f \in Fields, p \notin BlockSet \cup Drivers \cup {"mat_tsv"}
        PROVE  Fig(t2, p, f) = Fig(t, p, f)
    BY <1>5, <1>6, <2>3 DEF Works
  <2>4. Fig(t2, "bitlineMux", "readLatency") = {}
    <3>1. "bitlineMux" \in Parts /\ "bitlineMux" \notin BlockSet \cup Drivers \cup {"mat_tsv"}
      BY <1>3, UnitNames DEF BlockSet
    <3>2. "readLatency" \in Fields /\ "readLatency" \in Figure \ {"area"}
      BY DEF Fields, Figure
    <3> QED
      BY <1>2, <1>3, <2>3, <3>1, <3>2
  <2>5. \A f \in Delays : Fig(t2, Sub, f) = {}
    <3>1. Sub \in Parts /\ Sub \in Sums /\ Sub \notin BlockSet \cup Drivers \cup {"mat_tsv"}
      BY <1>3, UnitNames, TheBlocks DEF Sums
    <3>2. Delays \subseteq Fields /\ Delays \subseteq Figure \ {"area"}
      BY MovingFields, FieldNames
    <3> QED
      BY <1>2, <2>3, <3>1, <3>2
  <2> QED
    BY <1>6, <2>1, <2>2, <2>4, <2>5, SubArrayLatencyGives
<1> HIDE DEF t3
<1>10. /\ Works(Parts, t3, t4, {"comparator"}, Timing) /\ Modest(t4)
       /\ Fig(t4, "comparator", "readLatency") = Share("comparator")
  <2>1. CASE MatCompares(c)
    <3>1. Known(t3, "comparator")
      <4>1. Timing \cap {"gates", "cap"} = {} /\ Carried \cap {"gates", "cap"} = {}
        BY FieldNames, MovingFields
      <4>2. Known(t, "comparator")
        BY <1>2, <2>1, TheBankUnits
      <4>3. Known(t1, "comparator")
        BY <1>3, <1>5, <4>1, <4>2, StaysReady
      <4>4. Known(t2, "comparator")
        BY <1>3, <1>6, <4>1, <4>3, StaysReady
      <4> QED
        BY <1>3, <1>9, <4>1, <4>4, StaysReady DEF SubDelayed
    <3>2. Share("comparator") = {"comparator"} /\ t4 = ComparatorLatency(t3, "comparator", {})
      BY <2>1, OptionShares
    <3>3. Step(t3, t4, "comparator", Latencies \cup {"ramp"}, Times)
      BY <1>3, <3>1, <3>2, ComparatorTime
    <3> HIDE DEF t4
    <3>4. Modest(t4)
      BY <1>3, <1>9, <3>3, StepModest DEF SubDelayed
    <3>5. Around("comparator") = {"comparator"} /\ Latencies \cup {"ramp"} \subseteq Timing
      BY DEF Around, Driven, Selects, Column, Latencies, Timing
    <3>6. Works(Parts, t3, t4, {"comparator"}, Timing)
      BY <3>3, <3>5, WorksMore DEF Step
    <3>7. "readLatency" \in DOMAIN Times["comparator"]
          /\ Times["comparator"]["readLatency"] = Share("comparator")
      BY <1>3, TimesIs DEF Latencies
    <3> QED
      BY <3>3, <3>4, <3>6, <3>7 DEF Step
  <2>2. CASE ~MatCompares(c)
    <3>1. Share("comparator") = {} /\ t4 = t3 /\ "readLatency" \in Figure
      BY <2>2, OptionShares DEF Figure
    <3>2. Modest(t3) /\ Works(Parts, t3, t3, {"comparator"}, Timing)
      BY <1>9 DEF SubDelayed, Works, Computes
    <3> QED
      BY <1>3, <3>1, <3>2 DEF Modest
  <2> QED
    BY <2>1, <2>2
<1> HIDE DEF t4
<1>11. Works(Parts, t2, t3, SubUnits \cup Drivers \cup {Sub}, Timing)
  BY <1>9 DEF SubDelayed
<1>12. Works(Parts, t, t4, Units \cup Drivers \cup {Sub}, Moving)
  <2>1. Works(Parts, t, t2, (BlockSet \cup Drivers) \cup {"mat_tsv"}, Timing \cup Carried)
    BY <1>5, <1>6, WorksThen
  <2>2. Works(Parts, t, t3, ((BlockSet \cup Drivers) \cup {"mat_tsv"}) \cup (SubUnits \cup Drivers \cup {Sub}),
              (Timing \cup Carried) \cup Timing)
    BY <1>11, <2>1, WorksThen
  <2>3. Works(Parts, t, t4,
              (((BlockSet \cup Drivers) \cup {"mat_tsv"}) \cup (SubUnits \cup Drivers \cup {Sub})) \cup {"comparator"},
              ((Timing \cup Carried) \cup Timing) \cup Timing)
    BY <1>10, <2>2, WorksThen
  <2>4. BlockSet \cup SubUnits \cup {"mat_tsv", "comparator"} \subseteq Units
    BY <1>3, TheBlocks, TheSubUnits
  <2>5. (Timing \cup Carried) \cup Timing \subseteq Moving
    BY MovingFields
  <2>6. (((BlockSet \cup Drivers) \cup {"mat_tsv"}) \cup (SubUnits \cup Drivers \cup {Sub})) \cup {"comparator"}
          \subseteq Units \cup Drivers \cup {Sub}
    BY <2>4
  <2>7. ((Timing \cup Carried) \cup Timing) \cup Timing \subseteq Moving
    BY <2>5
  <2> QED
    BY <2>3, <2>6, <2>7, WorksMore
<1>13. Undrawn(t, t4)
  <2>1. Undrawn(t, t)
    BY DEF Undrawn
  <2>2. Undrawn(t, t1)
    BY <1>5, <2>1, UndrawnTiming
  <2>3. Undrawn(t, t2)
    <3>1. Units \cup Sums \subseteq Parts /\ Powering \subseteq Fields
      BY UnitNames, FieldNames
    <3> QED
      BY <1>6, <2>2, <3>1 DEF Undrawn, Works
  <2> QED
    BY <1>10, <1>11, <2>3, UndrawnTiming
<1>14. ASSUME NEW p \in Parts, NEW f \in Fields
       PROVE  /\ p # "comparator" => Fig(t4, p, f) = Fig(t3, p, f)
              /\ p \notin {"comparator", Sub} \cup SubUnits \cup Drivers => Fig(t4, p, f) = Fig(t2, p, f)
  BY <1>10, <1>11 DEF Works
<1>15. "readLatency" \in Fields /\ Carried \subseteq Fields /\ Delays \subseteq Fields
  BY MovingFields, FieldNames DEF Fields, Figure
<1>16. \A p \in BlockSet : Fig(t4, p, "readLatency") = Share(p)
  <2>1. ASSUME NEW p \in BlockSet
        PROVE  p \in Parts /\ p \notin {"comparator", Sub, "mat_tsv"} \cup SubUnits \cup Drivers
    <3>1. p \in Units /\ p # "mat_tsv" /\ p # "comparator" /\ p \notin SubUnits
      BY <1>3, TheBlocks, TheSubUnits
    <3> QED
      BY <3>1, UnitNames DEF Sums
  <2>2. \A p \in BlockSet : Fig(t2, p, "readLatency") = Share(p)
    BY <1>5, <1>6, <1>15, <2>1 DEF Works
  <2> QED
    BY <1>14, <1>15, <2>1, <2>2
<1>17. \A f \in Carried : Fig(t4, "mat_tsv", f) = Share("mat_tsv")
  <2>1. "mat_tsv" \in Parts /\ "mat_tsv" \notin {"comparator", Sub} \cup SubUnits \cup Drivers
    BY <1>3, UnitParts
  <2> QED
    BY <1>6, <1>14, <1>15, <2>1
<1>18. Fig(t4, "senseAmp", "readLatency") = Share("senseAmp")
  <2>1. CASE c.internal
    <3>1. "senseAmp" \in SubTimed /\ "senseAmp" \in Parts /\ "senseAmp" # "comparator"
          /\ "senseAmp" # "precharger"
      BY <1>3, <2>1, UnitParts DEF SubTimed, SubUnits
    <3>2. "readLatency" \in DOMAIN Times["senseAmp"] /\ Times["senseAmp"]["readLatency"] = Share("senseAmp")
      BY <1>3, <3>1, TimesIs DEF Latencies
    <3>3. Fig(t3, "senseAmp", "readLatency") = Share("senseAmp")
      BY <1>9, <3>1, <3>2 DEF SubDelayed
    <3> QED
      BY <1>14, <1>15, <3>1, <3>3
  <2>2. CASE ~c.internal
    <3>1. Share("senseAmp") = {} /\ "readLatency" \in Figure
      BY <2>2, TheSubUnits DEF Figure
    <3> QED
      BY <1>3, <1>10, <3>1 DEF Modest
  <2> QED
    BY <2>1, <2>2
<1>19. /\ Fig(t4, Sub, "readLatency") = Sum(SubReads) \cup Unset(c)
       /\ \A f \in Delays : Once(f, Fig(t4, Sub, f), SubTimes)
  <2>1. Sub \in Parts /\ Sub # "comparator"
    BY <1>3, UnitNames DEF Sums
  <2>2. \A f \in Fields : Fig(t4, Sub, f) = Fig(t3, Sub, f)
    BY <1>14, <2>1
  <2>3. Fig(t4, Sub, "readLatency") = Sum(SubReads) \cup Unset(c)
    BY <1>9, <1>15, <2>2 DEF SubDelayed
  <2>4. \A f \in Delays : Once(f, Fig(t3, Sub, f), SubTimes)
    BY <1>9 DEF SubDelayed
  <2> QED
    BY <1>15, <2>2, <2>3, <2>4
<1> QED
  BY <1>8, <1>10, <1>12, <1>13, <1>16, <1>17, <1>18, <1>19 DEF MatPartsDelayed

Before   == BlockSet \cup {"mat_tsv"}           \* what the address passes first
MatReads == (Before \cup SubReads) \cup {"comparator"}
MatTimes == Before \cup SubTimes

LEMMA MatLabels ==
  /\ Before \subseteq Labels /\ SubReads \subseteq Labels /\ SubTimes \subseteq Labels
  /\ {"comparator"} \subseteq Labels /\ MatReads \subseteq Labels /\ MatTimes \subseteq Labels
  /\ Before \cap SubTimes = {} /\ SubReads \subseteq SubTimes /\ Before \cap SubReads = {}
  /\ "comparator" \notin Before \cup SubTimes
  /\ (MatReads \cup MatTimes) \cap (Globals \cup Lines) = {}
<1>1. Before \subseteq Labels /\ {"comparator"} \subseteq Labels
  BY TheBankUnits, TheBlocks, UnitKinds DEF Before
<1>2. SubReads \subseteq SubTimes
  BY DEF SubReads, SubTimes, Sensed
<1>3. SubTimes \subseteq Labels
  BY SubLabels, UnitKinds DEF SubTimes, Labels, Others
<1>4. Before \cap SubTimes = {} /\ "comparator" \notin Before \cup SubTimes
  BY DEF Before, SubTimes, BlockSet, Selects, Column, Sensing, Muxes
<1>5. (Before \cup SubTimes) \cap (Globals \cup Lines) = {}
  BY DEF Lines, Before, SubTimes, BlockSet, Selects, Column, Sensing, Muxes, Globals
<1>6. "comparator" \notin Globals \cup Lines
  BY DEF Globals, Lines
<1> QED
  BY <1>1, <1>2, <1>3, <1>4, <1>5, <1>6 DEF MatReads, MatTimes

(* Nothing of the power of the mats' and subarrays' sums is touched.        *)
MatDelayed(t, u) ==
  /\ Works(Parts, t, u, Units \cup Drivers \cup {Sub, "mat", "predecoder"}, Moving)
  /\ Modest(u) /\ Undrawn(t, u)
  /\ \A f \in Carried : Fig(u, "mat_tsv", f) = Share("mat_tsv")
  /\ Fig(u, "senseAmp", "readLatency") = Share("senseAmp")
  /\ Fig(u, "predecoder", "readLatency") = Sum(Before)
  /\ \A f \in Delays : /\ Once(f, Fig(u, Sub, f), SubTimes)
                       /\ Once(f, Fig(u, "mat", f), MatTimes \cup {"comparator"})
  /\ Fig(u, "mat", "readLatency") = Sum(MatReads) \cup Unset(c)

LEMMA MatLatencyGives ==
  ASSUME NEW t, Standing(t), Idle(t), Ready(t)
  PROVE  MatDelayed(t, MatLatency(t, c))
<1> DEFINE v == MatLatencyOfParts(t, c)
           pre == Total(v, BlockSet, "readLatency")
                    \oplus (IF MatTsvs(c) THEN Fig(v, "mat_tsv", "writeLatency") ELSE {})
           through(f) == pre \oplus Fig(v, Sub, f)
           compare == IF MatCompares(c) THEN Fig(v, "comparator", "readLatency") ELSE {}
           new == [readLatency    |-> through("readLatency") \oplus compare,
                   writeLatency   |-> through("writeLatency"),
                   resetLatency   |-> through("resetLatency"),
                   setLatency     |-> through("setLatency"),
                   refreshLatency |-> through("refreshLatency")]
           w == Put(v, "predecoder", All({"readLatency"}, pre))
           u == Put(w, "mat", new)
<1>1. MatLatency(t, c) = u
  <2>1. "mat" \in t.made /\ "mat" \notin t.bad
    BY DEF Standing
  <2>2. MatLatency(t, c) = Put(Put(v, "predecoder", [readLatency |-> pre]), "mat", new)
    BY <2>1 DEF MatLatency, MatLatencies, Rated, When
  <2> QED
    BY <2>2, OneField
<1>2. MatPartsDelayed(t, v)
  BY MatPartsDelay
<1> HIDE DEF v
<1>3. pre = Sum(Before)
  <2>1. Total(v, BlockSet, "readLatency") = Sum(BlockSet)
    BY <1>2, TotalSum DEF MatPartsDelayed
  <2>2. (IF MatTsvs(c) THEN Fig(v, "mat_tsv", "writeLatency") ELSE {}) = Sum({"mat_tsv"})
    BY <1>2, OptionShares, SumOfOne DEF MatPartsDelayed, Carried
  <2>3. BlockSet \cap {"mat_tsv"} = {} /\ BlockSet \subseteq Labels /\ {"mat_tsv"} \subseteq Labels
    BY MatLabels, TheBankUnits DEF Before
  <2> QED
    BY <2>1, <2>2, <2>3, PlusPlain DEF Before
<1>4. compare = Sum({"comparator"})
  BY <1>2, OptionShares, SumOfOne DEF MatPartsDelayed
<1> HIDE DEF pre, compare
<1>5. Unset(c) \subseteq {Garbage}
  BY DEF Unset
<1>6. through("readLatency") \oplus compare = Sum(MatReads) \cup Unset(c)
  <2>1. Sum(Before) \oplus (Sum(SubReads) \cup Unset(c)) = Sum(Before \cup SubReads) \cup Unset(c)
    BY <1>5, MatLabels, PlusLeft
  <2>2. (Before \cup SubReads) \cap {"comparator"} = {} /\ Before \cup SubReads \subseteq Labels
    BY MatLabels
  <2> DEFINE B == Before \cup SubReads
  <2> HIDE DEF B
  <2>3. (Sum(B) \cup Unset(c)) \oplus Sum({"comparator"}) = Sum(B \cup {"comparator"}) \cup Unset(c)
    <3>1. {"comparator"} \subseteq Labels /\ B \subseteq Labels /\ B \cap {"comparator"} = {}
      BY <2>2, MatLabels DEF B
    <3> QED
      BY <1>5, <3>1, PlusUnset
  <2> QED
    BY <1>2, <1>3, <1>4, <2>1, <2>3 DEF MatPartsDelayed, MatReads, B
<1>7. ASSUME NEW f \in Delays PROVE Once(f, through(f), MatTimes)
  <2>1. Once(f, pre, Before)
    BY <1>3, CleanMore, CleanIsOnce
  <2> HIDE DEF pre
  <2>2. Once(f, Fig(v, Sub, f), SubTimes)
    BY <1>2 DEF MatPartsDelayed
  <2> QED
    BY <2>1, <2>2, MatLabels, OncePlus DEF MatTimes
<1>8. \A f \in Delays : Once(f, new[f], MatTimes \cup {"comparator"})
  <2>1. MatReads \subseteq MatTimes \cup {"comparator"}
    BY MatLabels DEF MatReads, MatTimes
  <2>2. Clean(through("readLatency") \oplus compare, MatReads)
    BY <1>6 DEF Clean
  <2>3. \A f : Once(f, through("readLatency") \oplus compare, MatTimes \cup {"comparator"})
    <3> HIDE DEF through
    <3> QED
      BY <2>1, <2>2, CleanMore, CleanIsOnce
  <2>4. \A f \in Delays : Once(f, through(f), MatTimes \cup {"comparator"})
    <3> HIDE DEF through
    <3> QED
      BY <1>7, OnceMore
  <2> HIDE DEF through
  <2> QED
    BY <2>3, <2>4 DEF Delays, Latencies
<1>9. /\ DOMAIN new = Delays /\ new = [f \in Delays |-> new[f]]
      /\ new["readLatency"] = Sum(MatReads) \cup Unset(c)
  <2> HIDE DEF through
  <2> QED
    BY <1>6 DEF Delays, Latencies
<1> HIDE DEF new
<1>10. /\ {"mat", "predecoder", Sub} \subseteq Parts /\ "mat" \in Sums \cup Kept
       /\ "predecoder" \in Sums \cup Kept /\ "mat" # "predecoder" /\ "predecoder" # Sub /\ "mat" # Sub
       /\ {"mat", "predecoder", Sub} \cap (Units \cup Drivers) = {}
       /\ "readLatency" \in Fields /\ {"readLatency"} \subseteq Fields
       /\ Delays \subseteq Fields /\ Delays \subseteq Moving
       /\ {"mat_tsv", "senseAmp"} \subseteq Units
  <2>1. {"mat_tsv", "senseAmp"} \subseteq Units
    BY DEF Units, Tsvs, Amps
  <2>2. "mat" # "predecoder" /\ "predecoder" # Sub /\ "mat" # Sub
    BY DEF Sub
  <2>3. "readLatency" \in Fields
    BY MovingFields, FieldNames DEF Carried
  <2>4. {"mat", Sub} \subseteq Sums /\ "predecoder" \in Kept
    BY DEF Sums, Kept
  <2>5. Delays \subseteq Fields /\ Delays \subseteq Moving
    BY MovingFields
  <2> QED
    BY <2>1, <2>2, <2>3, <2>4, <2>5, UnitNames
<1>11. Sets(Parts, v, w, "predecoder", {"readLatency"}, pre)
  BY <1>2, <1>10, PutAll DEF MatPartsDelayed, Works, Computes
<1> HIDE DEF w
<1>12. /\ Computes(Parts, w, u)
       /\ \A q \in Parts, f \in Fields :
            Fig(u, q, f) = IF q = "mat" /\ f \in Delays THEN new[f] ELSE Fig(w, q, f)
  <2>1. LET x == Put(w, "mat", new)
        IN  /\ Computes(Parts, w, x)
            /\ \A q \in Parts, f \in Fields :
                 Fig(x, q, f) = IF q = "mat" /\ f \in Delays THEN new[f] ELSE Fig(w, q, f)
    BY <1>9, <1>10, <1>11, PutGives DEF Sets, Computes
  <2> QED
    BY <2>1
<1> HIDE DEF u
<1>13. Works(Parts, v, w, {"predecoder"}, Moving) /\ Works(Parts, w, u, {"mat"}, Moving)
  <2>1. {"readLatency"} \subseteq Moving
    BY MovingFields DEF Carried
  <2> QED
    BY <1>10, <1>11, <1>12, <2>1 DEF Sets, Works
<1>14. Modest(u)
  BY <1>2, <1>10, <1>13, SumsModest DEF MatPartsDelayed
<1>15. Works(Parts, t, u, Units \cup Drivers \cup {Sub, "mat", "predecoder"}, Moving)
  <2>1. Works(Parts, t, u, ((Units \cup Drivers \cup {Sub}) \cup {"predecoder"}) \cup {"mat"},
              (Moving \cup Moving) \cup Moving)
    BY <1>2, <1>13, WorksThen DEF MatPartsDelayed
  <2> QED
    BY <2>1, WorksMore
<1>16. Undrawn(t, u)
  <2>1. Works(Parts, v, w, {"predecoder"}, Timing) /\ Works(Parts, w, u, {"mat"}, Timing)
    <3>1. {"readLatency"} \subseteq Timing /\ Delays \subseteq Timing
      BY MovingFields DEF Timing, Latencies
    <3> QED
      BY <1>10, <1>11, <1>12, <3>1 DEF Sets, Works
  <2> QED
    BY <1>2, <2>1, UndrawnTiming DEF MatPartsDelayed
<1>17. ASSUME NEW p \in Units \cup {Sub}, NEW f \in Fields
       PROVE  Fig(u, p, f) = Fig(v, p, f)
  <2>1. p \in Parts /\ p \notin {"mat", "predecoder"}
    BY <1>10, UnitParts
  <2> QED
    BY <1>13, <2>1 DEF Works
<1>18. /\ \A f \in Carried : Fig(u, "mat_tsv", f) = Share("mat_tsv")
       /\ Fig(u, "senseAmp", "readLatency") = Share("senseAmp")
       /\ \A f \in Delays : Once(f, Fig(u, Sub, f), SubTimes)
  <2>1. Carried \subseteq Fields
    BY MovingFields
  <2> QED
    BY <1>2, <1>10, <1>17, <2>1 DEF MatPartsDelayed
<1>19. Fig(u, "predecoder", "readLatency") = Sum(Before)
  BY <1>3, <1>10, <1>11, <1>12 DEF Sets
<1>20. /\ \A f \in Delays : Once(f, Fig(u, "mat", f), MatTimes \cup {"comparator"})
       /\ Fig(u, "mat", "readLatency") = Sum(MatReads) \cup Unset(c)
  <2>1. \A f \in Delays : Fig(u, "mat", f) = new[f]
    BY <1>10, <1>12
  <2>2. "readLatency" \in Delays
    BY DEF Delays, Latencies
  <2> QED
    BY <1>8, <1>9, <2>1, <2>2
<1> QED
  BY <1>1, <1>14, <1>15, <1>16, <1>18, <1>19, <1>20 DEF MatDelayed

-----------------------------------------------------------------------------
(* SubArray::CalculatePower().                                              *)
PowersOfParts(t) ==
  LET rows    == RowDecoderPower(PrechargerPower(t, "precharger"), "rowDecoder")
      columns == EachDecoder(rows, RowDecoderPower)
      mux     == MuxPower(columns, "bitlineMux")
      sense   == IF c.internal THEN SenseAmpPower(mux, "senseAmp") ELSE mux
  IN  MuxPower(MuxPower(sense, "lev1"), "lev2")

LEMMA PowersOfPartsGives ==
  ASSUME NEW t, IsState(Parts, t), Modest(t), SubReady(t)
  PROVE  Done(t, PowersOfParts(t), SubUnits, Drawing \cup {"refreshEnergy"}, Powers)
<1> DEFINE F  == Drawing \cup {"refreshEnergy"}
           t1 == PrechargerPower(t, "precharger")
           t2 == RowDecoderPower(t1, "rowDecoder")
           t3 == RowDecoderPower(t2, "bitlineMuxDecoder")
           t4 == RowDecoderPower(t3, "lev1Decoder")
           t5 == RowDecoderPower(t4, "lev2Decoder")
           t6 == MuxPower(t5, "bitlineMux")
           t7 == IF c.internal THEN SenseAmpPower(t6, "senseAmp") ELSE t6
           t8 == MuxPower(t7, "lev1")
           t9 == MuxPower(t8, "lev2")
           A1 == {} \cup {"precharger"}
           A2 == A1 \cup {"rowDecoder"}
           A3 == A2 \cup {"bitlineMuxDecoder"}
           A4 == A3 \cup {"lev1Decoder"}
           A5 == A4 \cup {"lev2Decoder"}
           A6 == A5 \cup {"bitlineMux"}
           A7 == A6 \cup (IF c.internal THEN {"senseAmp"} ELSE {})
           A8 == A7 \cup {"lev1"}
           A9 == A8 \cup {"lev2"}
<1>1. PowersOfParts(t) = t9
  BY DEF PowersOfParts, EachDecoder, Each3
<1>2. A9 = SubUnits
  BY DEF SubUnits, Selects, Column, Muxes
<1>3. /\ F \cap {"gates", "cap"} = {} /\ Reads(Powers)
      /\ Drawing \subseteq F /\ F \subseteq F /\ "refreshEnergy" \notin Drawing
  BY ValuesRead DEF Drawing, Energies
<1>4. A9 \subseteq Units
  BY DEF Units, Gated, Selects, Column, Muxes, Amps
<1>5. /\ \A p \in Selects \cup Muxes \cup {"precharger"} : Known(t, p)
      /\ c.internal => Known(t, "senseAmp") /\ Share("senseAmp") = {"senseAmp"}
  BY TheSubUnits DEF SubReady, SubUnits
<1>6. \A u :
        /\ \A p \in Selects : Known(u, p) =>
             Step(u, RowDecoderPower(u, p), p, Drawing, Powers)
        /\ \A p \in Muxes : Known(u, p) =>
             Step(u, MuxPower(u, p), p, Drawing, Powers)
        /\ Known(u, "precharger") =>
             Step(u, PrechargerPower(u, "precharger"), "precharger", F, Powers)
        /\ Known(u, "senseAmp") /\ Share("senseAmp") = {"senseAmp"} =>
             Step(u, SenseAmpPower(u, "senseAmp"), "senseAmp", F, Powers)
  BY SelectPower, MuxPowerStep, PrechargePower, AmpPower DEF Amps
<1>7. /\ {"rowDecoder", "bitlineMuxDecoder", "lev1Decoder", "lev2Decoder"} \subseteq Selects
      /\ {"bitlineMux", "lev1", "lev2"} \subseteq Muxes
      /\ "precharger" \notin Selects /\ "senseAmp" \notin Selects
  BY DEF Selects, Column, Muxes
<1>8. ASSUME NEW u, NEW v, NEW A, A \subseteq Units, NEW p \in Units \ A,
             NEW G, G \subseteq F, "refreshEnergy" \in G => p \notin Selects,
             Done(t, u, A, F, Powers),
             Known(t, p), Known(u, p) => Step(u, v, p, G, Powers)
      PROVE  Done(t, v, A \cup {p}, F, Powers)
  BY <1>3, <1>8, DoneKnown
<1> HIDE DEF F
<1>9. Done(t, t1, A1, F, Powers)
  <2>1. Done(t, t, {}, F, Powers) /\ {} \subseteq Units /\ "precharger" \in Units \ {}
    BY <1>4, DoneNone
  <2> QED
    BY <1>3, <1>5, <1>6, <1>7, <1>8, <2>1
<1>10. Done(t, t2, A2, F, Powers)
  <2>1. "rowDecoder" \notin A1 /\ "rowDecoder" \in Units /\ A1 \subseteq Units
    BY <1>4
  <2> HIDE DEF t1, A1
  <2> QED
    BY <1>3, <1>5, <1>6, <1>7, <1>8, <1>9, <2>1
<1>11. Done(t, t3, A3, F, Powers)
  <2>1. "bitlineMuxDecoder" \notin A2 /\ "bitlineMuxDecoder" \in Units /\ A2 \subseteq Units
    BY <1>4
  <2> HIDE DEF t2, A2
  <2> QED
    BY <1>3, <1>5, <1>6, <1>7, <1>8, <1>10, <2>1
<1>12. Done(t, t4, A4, F, Powers)
  <2>1. "lev1Decoder" \notin A3 /\ "lev1Decoder" \in Units /\ A3 \subseteq Units
    BY <1>4
  <2> HIDE DEF t3, A3
  <2> QED
    BY <1>3, <1>5, <1>6, <1>7, <1>8, <1>11, <2>1
<1>13. Done(t, t5, A5, F, Powers)
  <2>1. "lev2Decoder" \notin A4 /\ "lev2Decoder" \in Units /\ A4 \subseteq Units
    BY <1>4
  <2> HIDE DEF t4, A4
  <2> QED
    BY <1>3, <1>5, <1>6, <1>7, <1>8, <1>12, <2>1
<1>14. Done(t, t6, A6, F, Powers)
  <2>1. "bitlineMux" \notin A5 /\ "bitlineMux" \in Units /\ A5 \subseteq Units
    BY <1>4
  <2> HIDE DEF t5, A5
  <2> QED
    BY <1>3, <1>5, <1>6, <1>7, <1>8, <1>13, <2>1
<1>15. Done(t, t7, A7, F, Powers)
  <2> HIDE DEF t6
  <2>1. CASE ~c.internal
    BY <1>14, <2>1
  <2>2. CASE c.internal
    <3>1. "senseAmp" \notin A6 /\ "senseAmp" \in Units /\ A6 \subseteq Units
      BY <1>4, <2>2
    <3> HIDE DEF A6
    <3>2. Done(t, SenseAmpPower(t6, "senseAmp"), A6 \cup {"senseAmp"}, F, Powers)
      BY <1>3, <1>5, <1>6, <1>7, <1>8, <1>14, <2>2, <3>1
    <3> QED
      BY <2>2, <3>2
  <2> QED
    BY <2>1, <2>2
<1>16. Done(t, t8, A8, F, Powers)
  <2>1. "lev1" \notin A7 /\ "lev1" \in Units /\ A7 \subseteq Units
    BY <1>4
  <2> HIDE DEF t7, A7
  <2> QED
    BY <1>3, <1>5, <1>6, <1>7, <1>8, <1>15, <2>1
<1>17. Done(t, t9, A9, F, Powers)
  <2>1. "lev2" \notin A8 /\ "lev2" \in Units /\ A8 \subseteq Units
    BY <1>4
  <2> HIDE DEF t8, A8
  <2> QED
    BY <1>3, <1>5, <1>6, <1>7, <1>8, <1>16, <2>1
<1> HIDE DEF t9, A9
<1> QED
  BY <1>1, <1>2, <1>17 DEF F

(* The parts' energies in the sums; NandRows() works those of the row       *)
(* decoder out again, and they stay what they are.                          *)
Ends == {"precharger"} \cup Selects \cup Sensing

SubPartsPowered(t, v) ==
  /\ Works(Parts, t, v, SubUnits \cup Drivers, Powering) /\ Modest(v)
  /\ \A p \in Selects : Fig(v, p, "refreshEnergy") = Fig(t, p, "refreshEnergy")
  /\ \A p \in Ends : Fig(v, p, "readEnergy") = Share(p)
  /\ \A p \in Selects \cup Muxes : Fig(v, p, "writeEnergy") = Share(p)
  /\ Fig(v, "senseAmp", "writeEnergy") = {}
  /\ \A p \in Ends : Fig(v, p, "leakage") = IF p \in Muxes THEN {} ELSE Share(p)

LEMMA SubPartsPower ==
  ASSUME NEW t, IsState(Parts, t), Modest(t), SubReady(t),
         \A f \in Powering : Fig(t, "senseAmp", f) = {}
  PROVE  SubPartsPowered(t, PowerOfParts(t, c))
<1> DEFINE v == PowersOfParts(t)
           F == {"resetEnergy", "setEnergy", "writeEnergy"}
           row == Fig(v, "rowDecoder", "readEnergy")
           u == IF c.cell # "SLCNAND" THEN v ELSE Put(v, "rowDecoder", All(F, row))
<1>1. PowerOfParts(t, c) = u
  BY DEF PowerOfParts, PowersOfParts, NandRows
<1>2. Done(t, v, SubUnits, Drawing \cup {"refreshEnergy"}, Powers)
  BY PowersOfPartsGives
<1> HIDE DEF v
<1>3. /\ Ends \subseteq SubUnits \cup {"senseAmp"} /\ Ends \subseteq Units
      /\ Selects \cup Muxes \subseteq SubUnits /\ SubUnits \subseteq Units
      /\ c.internal => "senseAmp" \in SubUnits
      /\ ~c.internal => "senseAmp" \notin SubUnits /\ Share("senseAmp") = {}
      /\ (Selects \cup Muxes) \cap (Amps \cup {"precharger"}) = {}
      /\ Ends \cap {"globalMux"} = {} /\ "senseAmp" \in Amps /\ "senseAmp" \in Units
      /\ "senseAmp" \notin Muxes /\ "senseAmp" \in Ends
  <2>1. /\ Ends \subseteq SubUnits \cup {"senseAmp"} /\ Selects \cup Muxes \subseteq SubUnits
        /\ Ends \cap {"globalMux"} = {} /\ "senseAmp" \in Ends
        /\ ~c.internal => "senseAmp" \notin SubUnits
    BY DEF Ends, SubUnits, Sensing, Selects, Column, Muxes
  <2>2. "senseAmp" \in Amps /\ "senseAmp" \notin Muxes
    BY DEF Amps, Muxes
  <2>3. (Selects \cup Muxes) \cap (Amps \cup {"precharger"}) = {}
    BY UnitKinds
  <2>4. "senseAmp" \in Units
    BY <2>2 DEF Units
  <2> QED
    BY <2>1, <2>2, <2>3, <2>4, TheSubUnits
<1>4. \A p \in SubUnits :
        /\ Fig(v, p, "readEnergy") = Share(p)
        /\ p \notin {"precharger"} \cup Amps => Fig(v, p, "writeEnergy") = Share(p)
        /\ p \in Amps => Fig(v, p, "writeEnergy") = {}
        /\ p \in Muxes => Fig(v, p, "leakage") = {}
        /\ p \notin Muxes \cup {"globalMux"} => Fig(v, p, "leakage") = Share(p)
  <2> SUFFICES ASSUME NEW p \in SubUnits
               PROVE  /\ Fig(v, p, "readEnergy") = Share(p)
                      /\ p \notin {"precharger"} \cup Amps => Fig(v, p, "writeEnergy") = Share(p)
                      /\ p \in Amps => Fig(v, p, "writeEnergy") = {}
                      /\ p \in Muxes => Fig(v, p, "leakage") = {}
                      /\ p \notin Muxes \cup {"globalMux"} => Fig(v, p, "leakage") = Share(p)
    OBVIOUS
  <2>1. p \in Units
    BY <1>3
  <2>2. \A f \in {"readEnergy", "writeEnergy", "leakage"} : Fig(v, p, f) = Powers[p][f]
    BY <1>2, <2>1, PowersIs DEF Done
  <2> QED
    BY <2>1, <2>2, PowersIs
<1>5. ~c.internal => \A f \in {"readEnergy", "writeEnergy", "leakage"} : Fig(v, "senseAmp", f) = {}
  <2>1. {"readEnergy", "writeEnergy", "leakage"} \subseteq Figure
    BY DEF Figure
  <2> QED
    BY <1>2, <1>3, <2>1 DEF Done, Modest
<1>6. /\ \A p \in Ends : Fig(v, p, "readEnergy") = Share(p)
      /\ \A p \in Selects \cup Muxes : Fig(v, p, "writeEnergy") = Share(p)
      /\ Fig(v, "senseAmp", "writeEnergy") = {}
      /\ \A p \in Ends : Fig(v, p, "leakage") = IF p \in Muxes THEN {} ELSE Share(p)
  BY <1>3, <1>4, <1>5
<1>7. Works(Parts, t, v, SubUnits \cup Drivers, Powering)
  <2>1. Drawing \cup {"refreshEnergy"} \subseteq Powering
    BY DEF Drawing, Energies, Powering, Timing, Latencies, Figure
  <2> QED
    BY <1>2, <2>1, WorksMore DEF Done
<1>8. /\ "rowDecoder" \in Selects /\ "rowDecoder" \in SubUnits /\ "rowDecoder" \in Parts
      /\ "rowDecoder" \in Ends /\ "rowDecoder" # "senseAmp"
      /\ F \subseteq Fields /\ F \subseteq Powering
      /\ {"readEnergy", "leakage", "refreshEnergy"} \cap F = {}
      /\ {"readEnergy", "leakage", "refreshEnergy"} \subseteq Fields
  <2>1. "rowDecoder" \in Selects /\ "rowDecoder" \in Ends /\ "rowDecoder" # "senseAmp"
    BY DEF Selects, Ends
  <2>2. /\ F \subseteq Fields /\ F \subseteq Powering
        /\ {"readEnergy", "leakage", "refreshEnergy"} \cap F = {}
        /\ {"readEnergy", "leakage", "refreshEnergy"} \subseteq Fields
    BY DEF Fields, Figure, Powering, Timing, Latencies
  <2> QED
    BY <1>3, <2>1, <2>2, UnitParts
<1>9. row = Share("rowDecoder")
  BY <1>6, <1>8
<1> HIDE DEF row
<1>10. CASE c.cell = "SLCNAND"
  <2>1. Sets(Parts, v, u, "rowDecoder", F, row)
    BY <1>2, <1>8, <1>10, PutAll DEF Done, Works, Computes
  <2> HIDE DEF u
  <2>2. Works(Parts, v, u, {"rowDecoder"}, F)
    BY <1>8, <2>1 DEF Sets, Works
  <2>3. Works(Parts, t, u, SubUnits \cup Drivers, Powering)
    <3>1. {"rowDecoder"} \subseteq SubUnits \cup Drivers
      BY <1>8
    <3> HIDE DEF F
    <3> QED
      BY <1>7, <1>8, <2>2, <3>1, WorksOn
  <2>4. Units \subseteq Parts /\ Figure \subseteq Fields
    BY UnitNames, FieldNames
  <2>5. Modest(u)
    BY <1>2, <1>9, <2>1, <2>4 DEF Done, Modest, Sets
  <2>6. \A p \in Units : \A f \in {"readEnergy", "leakage", "refreshEnergy"} :
          Fig(u, p, f) = Fig(v, p, f)
    BY <1>8, <2>2, <2>4 DEF Works
  <2>7. \A p \in Units : p # "rowDecoder" => Fig(u, p, "writeEnergy") = Fig(v, p, "writeEnergy")
    <3>1. "writeEnergy" \in Fields
      BY <1>8
    <3> QED
      BY <2>2, <2>4, <3>1 DEF Works
  <2>8. Fig(u, "rowDecoder", "writeEnergy") = Share("rowDecoder")
    BY <1>8, <1>9, <2>1 DEF Sets
  <2>9. \A p \in Selects : Fig(u, p, "refreshEnergy") = Fig(t, p, "refreshEnergy")
    BY <1>2, <1>3, <2>6 DEF Done
  <2>10. Selects \cup Muxes \subseteq Units
    BY <1>3
  <2>11. \A p \in Selects \cup Muxes : Fig(u, p, "writeEnergy") = Share(p)
    BY <1>6, <2>7, <2>8, <2>10
  <2> QED
    BY <1>1, <1>3, <1>6, <1>8, <2>3, <2>5, <2>6, <2>7, <2>9, <2>11 DEF SubPartsPowered
<1>11. CASE c.cell # "SLCNAND"
  BY <1>1, <1>2, <1>6, <1>7, <1>11 DEF SubPartsPowered, Done
<1> QED
  BY <1>10, <1>11

ReadCells == IF NonVolatile(c) /\ c.internal THEN {"cellRead"} ELSE {}
LeakCells == IF c.cell \in {"SRAM", "eDRAM"} THEN {"cells"} ELSE {}
SubDraws  == ({"bitline"} \cup ReadCells) \cup Ends
SubLeaks  == LeakCells \cup (Ends \ Muxes)
CellPower == {"bitline", "cellSet", "cellReset"}
SubPower  == {"cells", "cellRead"} \cup CellPower \cup Ends

LEMMA PowerLabels ==
  /\ SubPower \subseteq Labels /\ SubDraws \subseteq SubPower /\ SubLeaks \subseteq SubPower
  /\ CellPower \subseteq Others /\ ReadCells \subseteq Others /\ LeakCells \subseteq Others
  /\ {"bitline"} \subseteq Others /\ Ends \subseteq Units
  /\ Ends \cap Others = {} /\ "bitline" \notin ReadCells
  /\ Selects \cup Muxes \subseteq Ends /\ "rowDecoder" \notin Column \cup Muxes
  /\ Selects = {"rowDecoder"} \cup Column /\ Sensing = Muxes \cup {"senseAmp"}
  /\ "senseAmp" \in Ends
<1>1. /\ CellPower \subseteq Others /\ ReadCells \subseteq Others /\ LeakCells \subseteq Others
      /\ {"bitline"} \subseteq Others /\ "bitline" \notin ReadCells /\ {"cells", "cellRead"} \subseteq Others
  BY DEF CellPower, ReadCells, LeakCells, Others
<1>2. Ends \subseteq Units
  BY SubLabels DEF Ends
<1>3. Ends \cap Others = {}
  BY <1>2, UnitKinds
<1>4. SubPower \subseteq Labels
  BY <1>1, <1>2 DEF SubPower, Labels
<1>5. SubDraws \subseteq SubPower /\ SubLeaks \subseteq SubPower
  BY DEF SubDraws, SubLeaks, SubPower, ReadCells, LeakCells, CellPower
<1>6. /\ Selects \cup Muxes \subseteq Ends /\ "rowDecoder" \notin Column \cup Muxes
      /\ Selects = {"rowDecoder"} \cup Column /\ Sensing = Muxes \cup {"senseAmp"}
      /\ "senseAmp" \in Ends
  BY DEF Ends, Sensing, Selects, Column, Muxes
<1> QED
  BY <1>1, <1>2, <1>3, <1>4, <1>5, <1>6

(* The figures of the cells and bitlines.                                   *)
LEMMA CellShares ==
  /\ Unset(c) \subseteq {Garbage}
  /\ Clean(WriteBase(c), CellPower)
  /\ Clean(CellSet(c), CellPower) /\ Clean(CellReset(c), CellPower)
  /\ Clean({"bitline"}, CellPower) /\ Clean({"cellSet"}, CellPower) /\ Clean({"cellReset"}, CellPower)
<1>1. Sum(CellPower) = CellPower
  BY OthersSum, PowerLabels
<1>2. Unset(c) \subseteq {Garbage}
  BY DEF Unset
<1>3. CellSet(c) \subseteq CellPower \cup Unset(c) /\ CellReset(c) \subseteq CellPower \cup Unset(c)
  BY DEF CellSet, CellReset, CellPower
<1>4. WriteBase(c) \subseteq CellPower \cup Unset(c)
  BY <1>3 DEF WriteBase, CellPower
<1> QED
  BY <1>1, <1>2, <1>3, <1>4 DEF Clean, CellPower

SubPowered(t, u) ==
  /\ Works(Parts, t, u, SubUnits \cup Drivers \cup {Sub}, Powering) /\ Modest(u)
  /\ \A p \in Selects : Fig(u, p, "refreshEnergy") = Fig(t, p, "refreshEnergy")
  /\ Fig(u, Sub, "readEnergy") = Sum(SubDraws) \cup Unset(c)
  /\ Fig(u, Sub, "leakage") = Sum(SubLeaks)
  /\ Once("writeEnergy", Fig(u, Sub, "writeEnergy"), SubPower)
  /\ \A f \in Powering : Mixed(Fig(u, Sub, f), SubPower)

LEMMA SubArrayPowerGives ==
  ASSUME NEW t, IsState(Parts, t), Modest(t), SubReady(t), Stands(t, Sub),
         \A f \in Powering : Fig(t, "senseAmp", f) = {} /\ Fig(t, Sub, f) = {},
         Fig(t, "senseAmp", "readLatency") = Share("senseAmp")
  PROVE  SubPowered(t, SubArrayPower(t, c))
<1> DEFINE v == PowerOfParts(t, c)
           nand    == c.cell = "SLCNAND"
           passed  == Total(v, Column \cup Sensing, "writeEnergy")
           rest    == Fig(v, "rowDecoder", "setEnergy") \oplus passed
           again   == Fig(v, "rowDecoder", "resetEnergy") \oplus passed
           written == Fig(v, "rowDecoder", "writeEnergy") \oplus passed
           set     == ((IF nand THEN {"cellSet"} ELSE Fig(t, Sub, "setEnergy")) \oplus CellSet(c)) \oplus rest
           reset   == ((IF nand THEN {"cellReset"} ELSE Fig(t, Sub, "resetEnergy")) \oplus set) \oplus again
           write   == WriteBase(c) \oplus written
           second  == Total(v, Sensing, "writeEnergy")
           both    == IF CrossPoint(c) THEN write \oplus second ELSE write
           cell    == CellRead(v, c)
           read    == (({"bitline"} \cup Unset(c)) \oplus cell) \oplus Total(v, Ends, "readEnergy")
           refresh == (IF c.cell = "eDRAM" THEN {"bitline"} ELSE Fig(t, Sub, "refreshEnergy"))
                        \oplus Total(v, {"rowDecoder", "precharger", "senseAmp"}, "readEnergy")
           leakage == LeakCells \oplus Total(v, Ends, "leakage")
           new == [readEnergy     |-> read,
                   writeEnergy    |-> both,
                   setEnergy      |-> set,
                   resetEnergy    |-> reset,
                   refreshEnergy  |-> refresh,
                   cellReadEnergy |-> cell,
                   cellSetEnergy  |-> CellSet(c),
                   cellResetEnergy |-> CellReset(c),
                   leakage        |-> leakage]
           u == Put(v, Sub, new)
<1>1. SubArrayPower(t, c) = u
  BY DEF SubArrayPower, SubArrayEnergies, Rated, When, Stands, Ends, LeakCells
<1>2. SubPartsPowered(t, v)
  BY SubPartsPower
<1> HIDE DEF v
<1>3. Unset(c) \subseteq {Garbage}
  BY CellShares
<1>4. cell = ReadCells
  <2>1. Fig(v, "senseAmp", "readLatency") = Share("senseAmp")
    <3>1. "senseAmp" \in Parts /\ "readLatency" \in Fields /\ "readLatency" \notin Powering
      <4>1. "senseAmp" \in Units
        BY PowerLabels
      <4>2. "readLatency" \in Timing /\ "readLatency" \in Fields
        BY DEF Timing, Latencies, Fields, Figure
      <4> QED
        BY <4>1, <4>2, UnitParts, FieldNames
    <3> QED
      BY <1>2, <3>1 DEF SubPartsPowered, Works
  <2>2. Share("senseAmp") = (IF c.internal THEN {"senseAmp"} ELSE {}) /\ {"senseAmp"} \cap Marks = {}
    BY TheSubUnits DEF Marks, Garbage, Worst, Twice
  <2> QED
    BY <2>1, <2>2 DEF CellRead, ReadCells
<1>5. Total(v, Ends, "readEnergy") = Sum(Ends)
  BY <1>2, TotalSum DEF SubPartsPowered
<1>6. Total(v, Ends, "leakage") = Sum(Ends \ Muxes)
  <2>1. \A p \in Ends : Fig(v, p, "leakage") = IF p \in Muxes THEN {} ELSE Share(p)
    BY <1>2 DEF SubPartsPowered
  <2> QED
    BY <2>1 DEF Total, Sum
<1>7. passed = Sum(Column \cup Muxes) /\ second \subseteq Sum(Selects \cup Muxes)
  <2>1. /\ \A p \in Selects \cup Muxes : Fig(v, p, "writeEnergy") = Share(p)
        /\ Fig(v, "senseAmp", "writeEnergy") = {}
    BY <1>2 DEF SubPartsPowered
  <2>2. passed = Total(v, Column \cup Muxes, "writeEnergy")
    BY <2>1, PowerLabels DEF Total
  <2>3. second = Total(v, Muxes, "writeEnergy")
    BY <2>1, PowerLabels DEF Total
  <2>4. Column \cup Muxes \subseteq Selects \cup Muxes
    BY PowerLabels
  <2>5. /\ Total(v, Column \cup Muxes, "writeEnergy") = Sum(Column \cup Muxes)
        /\ Total(v, Muxes, "writeEnergy") = Sum(Muxes)
    BY <2>1, <2>4, TotalSum
  <2> QED
    BY <2>2, <2>3, <2>5 DEF Sum
<1>8. written = Sum(Selects \cup Muxes)
  <2>1. Fig(v, "rowDecoder", "writeEnergy") = Sum({"rowDecoder"})
    BY <1>2, PowerLabels, SumOfOne DEF SubPartsPowered
  <2>2. /\ {"rowDecoder"} \subseteq Labels /\ Column \cup Muxes \subseteq Labels
        /\ {"rowDecoder"} \cap (Column \cup Muxes) = {}
        /\ {"rowDecoder"} \cup (Column \cup Muxes) = Selects \cup Muxes
    BY PowerLabels DEF SubPower
  <2> DEFINE B == Column \cup Muxes
  <2> HIDE DEF B
  <2>3. Sum({"rowDecoder"}) \oplus Sum(B) = Sum({"rowDecoder"} \cup B)
    BY <2>2, PlusPlain DEF B
  <2> QED
    BY <1>7, <2>1, <2>2, <2>3 DEF B
<1>9. Mixed(passed, SubPower) /\ Mixed(second, SubPower) /\ Clean(second, SubPower)
  <2>1. Column \cup Muxes \subseteq SubPower /\ Selects \cup Muxes \subseteq SubPower
    BY PowerLabels DEF SubPower
  <2>2. Clean(passed, Column \cup Muxes) /\ Clean(second, Selects \cup Muxes)
    BY <1>7 DEF Clean
  <2> HIDE DEF passed, second
  <2> QED
    BY <2>1, <2>2, CleanMore
<1>10. \A f \in Figure : Mixed(Fig(v, "rowDecoder", f), SubPower)
  <2>1. "rowDecoder" \in Units /\ {"rowDecoder"} \subseteq SubPower
    BY PowerLabels DEF SubPower
  <2>2. \A f \in Figure : Fig(v, "rowDecoder", f) \subseteq Sum({"rowDecoder"})
    BY <1>2, <2>1, SumOfOne DEF SubPartsPowered, Modest
  <2>3. \A f \in Figure : Clean(Fig(v, "rowDecoder", f), {"rowDecoder"})
    BY <2>2, CleanMore
  <2> QED
    BY <2>1, <2>3, CleanMore
<1>11. Mixed(rest, SubPower) /\ Mixed(again, SubPower)
  <2>1. "setEnergy" \in Figure /\ "resetEnergy" \in Figure
    BY DEF Figure
  <2> HIDE DEF passed
  <2> QED
    BY <1>9, <1>10, <2>1, CleanUnion
<1>12. /\ Mixed(CellSet(c), SubPower) /\ Mixed(CellReset(c), SubPower) /\ Mixed({"bitline"}, SubPower)
       /\ Mixed({"cellSet"}, SubPower) /\ Mixed({"cellReset"}, SubPower) /\ Mixed({}, SubPower)
  <2>1. CellPower \subseteq SubPower
    BY DEF SubPower
  <2>2. Clean({}, SubPower)
    BY CleanMore
  <2> QED
    BY <2>1, <2>2, CellShares, CleanMore
<1>13. /\ Fig(t, Sub, "setEnergy") = {} /\ Fig(t, Sub, "resetEnergy") = {}
       /\ Fig(t, Sub, "refreshEnergy") = {}
  BY DEF Powering, Timing, Latencies, Figure
<1> HIDE DEF rest, again
<1>14. Mixed(set, SubPower)
  <2>1. Mixed(IF nand THEN {"cellSet"} ELSE Fig(t, Sub, "setEnergy"), SubPower)
    BY <1>12, <1>13
  <2> HIDE DEF nand
  <2> QED
    BY <1>11, <1>12, <2>1, CleanUnion
<1> HIDE DEF set
<1>15. Mixed(reset, SubPower)
  <2>1. Mixed(IF nand THEN {"cellReset"} ELSE Fig(t, Sub, "resetEnergy"), SubPower)
    BY <1>12, <1>13
  <2> HIDE DEF nand
  <2> QED
    BY <1>11, <1>14, <2>1, CleanUnion
<1> HIDE DEF reset
<1>16. Clean(write, SubPower)
  <2>1. Clean(written, Selects \cup Muxes)
    BY <1>8, CleanMore
  <2>2. /\ CellPower \cap (Selects \cup Muxes) = {} /\ CellPower \subseteq Labels
        /\ Selects \cup Muxes \subseteq Labels
        /\ CellPower \cup (Selects \cup Muxes) \subseteq SubPower
    BY PowerLabels DEF SubPower
  <2> DEFINE B == Selects \cup Muxes
  <2> HIDE DEF B, written
  <2>3. Clean(WriteBase(c) \oplus written, CellPower \cup B)
    BY <2>1, <2>2, CellShares, CleanPlus DEF B
  <2> QED
    BY <2>2, <2>3, CleanMore DEF B
<1> HIDE DEF write, second
<1>17. Once("writeEnergy", both, SubPower)
  <2>1. Mixed(write, SubPower) /\ Mixed(second, SubPower)
    BY <1>9, <1>16, CleanMore
  <2>2. Mixed(write \oplus second, SubPower)
    BY <2>1, CleanUnion
  <2> QED
    BY <1>16, <2>1, <2>2 DEF Once, Doubled
<1> HIDE DEF both
<1>18. read = Sum(SubDraws) \cup Unset(c)
  <2> DEFINE D == {"bitline"} \cup ReadCells
  <2>1. /\ Sum({"bitline"}) = {"bitline"} /\ Sum(ReadCells) = ReadCells
        /\ {"bitline"} \subseteq Labels /\ ReadCells \subseteq Labels /\ {"bitline"} \cap ReadCells = {}
        /\ D \subseteq Labels /\ D \cap Ends = {} /\ Ends \subseteq Labels
    BY PowerLabels, OthersSum, UnitKinds DEF Labels
  <2>2. ({"bitline"} \cup Unset(c)) \oplus ReadCells = Sum(D) \cup Unset(c)
    <3>1. (Sum({"bitline"}) \cup Unset(c)) \oplus Sum(ReadCells) = Sum(D) \cup Unset(c)
      BY <1>3, <2>1, PlusUnset
    <3> QED
      BY <2>1, <3>1
  <2>3. SubDraws = D \cup Ends
    BY DEF SubDraws
  <2> HIDE DEF D
  <2>4. (Sum(D) \cup Unset(c)) \oplus Sum(Ends) = Sum(D \cup Ends) \cup Unset(c)
    BY <1>3, <2>1, PlusUnset
  <2> HIDE DEF cell
  <2> QED
    BY <1>4, <1>5, <2>2, <2>3, <2>4
<1>19. leakage = Sum(SubLeaks)
  <2>1. /\ Sum(LeakCells) = LeakCells /\ LeakCells \subseteq Labels
        /\ Ends \ Muxes \subseteq Labels /\ LeakCells \cap (Ends \ Muxes) = {}
    BY PowerLabels, OthersSum, UnitKinds DEF Labels
  <2> DEFINE B == Ends \ Muxes
  <2> HIDE DEF B
  <2>2. Sum(LeakCells) \oplus Sum(B) = Sum(LeakCells \cup B)
    BY <2>1, PlusPlain DEF B
  <2> QED
    BY <1>6, <2>1, <2>2 DEF B, SubLeaks
<1>20. Mixed(refresh, SubPower)
  <2>1. \A p \in {"rowDecoder", "precharger", "senseAmp"} : p \in Ends
    BY PowerLabels DEF Ends
  <2>2. Total(v, {"rowDecoder", "precharger", "senseAmp"}, "readEnergy") \subseteq Sum(Ends)
    BY <1>2, <2>1 DEF SubPartsPowered, Total, Sum
  <2>3. Mixed(Total(v, {"rowDecoder", "precharger", "senseAmp"}, "readEnergy"), SubPower)
    <3>1. Ends \subseteq SubPower
      BY DEF SubPower
    <3>2. Clean(Total(v, {"rowDecoder", "precharger", "senseAmp"}, "readEnergy"), Ends)
      BY <2>2, CleanMore
    <3> QED
      BY <3>1, <3>2, CleanMore
  <2>4. Mixed(IF c.cell = "eDRAM" THEN {"bitline"} ELSE Fig(t, Sub, "refreshEnergy"), SubPower)
    BY <1>12, <1>13
  <2> QED
    BY <2>3, <2>4, CleanUnion
<1>21. Mixed(read, SubPower) /\ Mixed(leakage, SubPower) /\ Mixed(cell, SubPower) /\ Mixed(both, SubPower)
  <2>1. Clean(read, SubDraws) /\ Clean(leakage, SubLeaks)
    <3> HIDE DEF read, leakage
    <3> QED
      BY <1>18, <1>19 DEF Clean
  <2>2. Clean(cell, ReadCells) /\ ReadCells \subseteq SubPower
    BY <1>4, OthersSum, PowerLabels DEF Clean, ReadCells, SubPower
  <2> HIDE DEF read, leakage, cell
  <2> QED
    BY <1>17, <2>1, <2>2, PowerLabels, CleanMore DEF Once
<1> HIDE DEF read, leakage, cell, refresh
<1>22. /\ DOMAIN new = Powering /\ new = [f \in Powering |-> new[f]]
       /\ new["readEnergy"] = read /\ new["leakage"] = leakage /\ new["writeEnergy"] = both
  <2>1. Powering = {"readEnergy", "writeEnergy", "resetEnergy", "setEnergy", "refreshEnergy",
                    "cellReadEnergy", "cellSetEnergy", "cellResetEnergy", "leakage"}
    BY DEF Powering, Timing, Latencies, Figure
  <2> QED
    BY <2>1
<1>23. \A f \in Powering : Mixed(new[f], SubPower)
  BY <1>12, <1>14, <1>15, <1>20, <1>21, <1>22
<1> HIDE DEF new
<1>24. /\ Sub \in Parts /\ Sub \in Sums \cup Kept /\ Powering \subseteq Fields
       /\ {"readEnergy", "leakage", "writeEnergy"} \subseteq Powering
       /\ Selects \subseteq Parts /\ Sub \notin Selects /\ "refreshEnergy" \in Fields
  <2>1. Selects \subseteq Units
    BY PowerLabels
  <2>2. {"readEnergy", "leakage", "writeEnergy"} \subseteq Powering /\ "refreshEnergy" \in Fields
    BY DEF Powering, Timing, Latencies, Figure, Fields
  <2> QED
    BY <2>1, <2>2, UnitNames, FieldNames DEF Sums
<1>25. /\ Computes(Parts, v, u)
       /\ \A q \in Parts, f \in Fields :
            Fig(u, q, f) = IF q = Sub /\ f \in Powering THEN new[f] ELSE Fig(v, q, f)
  <2>1. LET x == Put(v, Sub, new)
        IN  /\ Computes(Parts, v, x)
            /\ \A q \in Parts, f \in Fields :
                 Fig(x, q, f) = IF q = Sub /\ f \in Powering THEN new[f] ELSE Fig(v, q, f)
    BY <1>2, <1>22, <1>24, PutGives DEF SubPartsPowered, Works, Computes
  <2> QED
    BY <2>1
<1> HIDE DEF u
<1>26. Works(Parts, v, u, {Sub}, Powering)
  BY <1>25 DEF Works
<1>27. Works(Parts, t, u, SubUnits \cup Drivers \cup {Sub}, Powering)
  <2>1. Works(Parts, t, u, (SubUnits \cup Drivers) \cup {Sub}, Powering \cup Powering)
    BY <1>2, <1>26, WorksThen DEF SubPartsPowered
  <2> QED
    BY <2>1, WorksMore
<1>28. Modest(u)
  BY <1>2, <1>24, <1>26, SumsModest DEF SubPartsPowered
<1>29. \A p \in Selects : Fig(u, p, "refreshEnergy") = Fig(t, p, "refreshEnergy")
  BY <1>2, <1>24, <1>25 DEF SubPartsPowered
<1>30. \A f \in Powering : Fig(u, Sub, f) = new[f]
  BY <1>24, <1>25
<1> QED
  BY <1>1, <1>17, <1>18, <1>19, <1>22, <1>23, <1>24, <1>27, <1>28, <1>29, <1>30 DEF SubPowered

-----------------------------------------------------------------------------
(***************************************************************************)
(* Mat::CalculatePower()                                                   *)
(***************************************************************************)
Drawers == SubUnits \cup BlockSet \cup {"comparator"}   \* the units it calls

MatPartsDrawn(v, u) ==
  /\ Works(Parts, v, u, Drawers \cup Drivers \cup {Sub}, Powering) /\ Modest(u)
  /\ \A p \in Selects : Fig(u, p, "refreshEnergy") = Fig(v, p, "refreshEnergy")
  /\ \A p \in BlockSet \cup {"comparator"} : \A f \in Drawing : Fig(u, p, f) = Share(p)
  /\ Fig(u, Sub, "readEnergy") = Sum(SubDraws) \cup Unset(c)
  /\ Fig(u, Sub, "leakage") = Sum(SubLeaks)
  /\ Once("writeEnergy", Fig(u, Sub, "writeEnergy"), SubPower)
  /\ \A f \in Powering : Mixed(Fig(u, Sub, f), SubPower)

LEMMA BlocksDrawn ==
  ASSUME NEW v, IsState(Parts, v), Modest(v), \A p \in BlockSet : Known(v, p)
  PROVE  LET u == EachBlock(v, BlockPower)
         IN  /\ Works(Parts, v, u, BlockSet \cup Drivers, Drawing) /\ Modest(u)
             /\ \A p \in Selects : Fig(u, p, "refreshEnergy") = Fig(v, p, "refreshEnergy")
             /\ \A p \in BlockSet : \A f \in Drawing : Fig(u, p, f) = Share(p)
<1> DEFINE u == EachBlock(v, BlockPower)
<1>1. Done(v, u, {} \cup BlockSet, Drawing, Powers)
  <2>1. Drawing \cap {"gates", "cap"} = {} /\ Drawing \subseteq Drawing
    BY DEF Drawing, Energies
  <2>2. Done(v, v, {}, Drawing, Powers) /\ {} \subseteq Units \ BlockSet
    BY DoneNone
  <2> QED
    BY <2>1, <2>2, BlocksPower
<1> HIDE DEF u
<1>2. ASSUME NEW p \in BlockSet, NEW f \in Drawing PROVE Fig(u, p, f) = Share(p)
  <2>1. p \in Units /\ p \notin {"precharger"} \cup Amps \cup Muxes \cup {"globalMux"}
    BY TheBlocks, UnitKinds
  <2>2. f \in DOMAIN Powers[p] /\ Powers[p][f] = Share(p)
    BY <2>1, PowersIs DEF Drawing, Energies
  <2> QED
    BY <1>1, <2>2 DEF Done
<1> QED
  BY <1>1, <1>2 DEF Done, u

LEMMA MatPartsPower ==
  ASSUME NEW v, IsState(Parts, v), Modest(v), \A p \in MatUnits : Known(v, p), Stands(v, Sub),
         \A p \in Units \cup Sums, f \in Powering :
           p # "mat_tsv" \/ f \notin Carried => Fig(v, p, f) = {},
         Fig(v, "senseAmp", "readLatency") = Share("senseAmp")
  PROVE  MatPartsDrawn(v, MatPowerOfParts(v, c))
<1> DEFINE t1 == EachBlock(v, BlockPower)
           t2 == SubArrayPower(t1, c)
           t3 == IF MatCompares(c) THEN ComparatorPower(t2, "comparator") ELSE t2
<1>1. MatPowerOfParts(v, c) = t3
  BY DEF MatPowerOfParts
<1>2. /\ "comparator" \in Units /\ "comparator" \in Compares /\ "senseAmp" \in Units
      /\ {"comparator", "senseAmp", Sub} \cap (BlockSet \cup Drivers) = {}
      /\ "comparator" \notin SubUnits \cup {Sub} \cup Selects /\ Sub \in Parts /\ Sub \in Sums
      /\ {"senseAmp", "comparator", Sub} \cap {"mat_tsv"} = {} /\ SubUnits \cap BlockSet = {}
      /\ Selects \cap BlockSet = {} /\ Selects \subseteq Units /\ "comparator" \in Parts
      /\ {"senseAmp", Sub} \subseteq Parts /\ (BlockSet \cup {"comparator"}) \cap ({Sub} \cup Drivers) = {}
  <2>1. {"comparator", "mat_tsv"} \subseteq Units \ (SubUnits \cup BlockSet)
    BY TheBankUnits
  <2>2. "comparator" \in Compares /\ "senseAmp" \in Amps /\ Sub \in Sums
    BY DEF Compares, Amps, Sums
  <2>3. "senseAmp" \in Units /\ Selects \subseteq Units
    BY <2>2 DEF Units, Gated
  <2>4. "senseAmp" # "mat_tsv" /\ "comparator" # "mat_tsv" /\ Sub # "mat_tsv"
    BY DEF Sub
  <2> QED
    BY <2>1, <2>2, <2>3, <2>4, UnitNames, UnitKinds, TheBlocks, TheSubUnits
<1>3. /\ Works(Parts, v, t1, BlockSet \cup Drivers, Drawing) /\ Modest(t1)
      /\ \A p \in Selects : Fig(t1, p, "refreshEnergy") = Fig(v, p, "refreshEnergy")
      /\ \A p \in BlockSet : \A f \in Drawing : Fig(t1, p, f) = Share(p)
  BY TheBankUnits, BlocksDrawn
<1> HIDE DEF t1
<1>4. /\ {"gates", "cap"} \cap Drawing = {} /\ {"gates", "cap"} \cap Powering = {}
      /\ Drawing \subseteq Powering /\ Powering \subseteq Fields /\ "readLatency" \in Fields
      /\ "readLatency" \notin Drawing
  BY FieldNames DEF Drawing, Latencies
<1>5. SubPowered(t1, t2)
  <2>1. IsState(Parts, t1) /\ Stands(t1, Sub)
    BY <1>3 DEF Works, Computes, Stands
  <2>2. SubReady(t1)
    <3>1. \A p \in SubUnits : p \in Units /\ Known(v, p)
      BY TheBankUnits
    <3> QED
      BY <1>3, <1>4, <3>1, StaysReady DEF SubReady
  <2>3. \A f \in Powering : Fig(t1, "senseAmp", f) = {} /\ Fig(t1, Sub, f) = {}
    <3>1. ASSUME NEW p \in {"senseAmp", Sub}, NEW f \in Powering PROVE Fig(t1, p, f) = {}
      <4>1. p \in Parts /\ p \notin BlockSet \cup Drivers /\ p \in Units \cup Sums /\ p # "mat_tsv"
        BY <1>2
      <4>2. Fig(v, p, f) = {}
        BY <4>1
      <4> QED
        BY <1>3, <1>4, <4>1, <4>2 DEF Works
    <3> QED
      BY <3>1
  <2>4. Fig(t1, "senseAmp", "readLatency") = Share("senseAmp")
    BY <1>2, <1>3, <1>4 DEF Works
  <2> QED
    BY <1>3, <2>1, <2>2, <2>3, <2>4, SubArrayPowerGives
<1> HIDE DEF t2
<1>6. /\ Works(Parts, v, t2, SubUnits \cup BlockSet \cup Drivers \cup {Sub}, Powering)
      /\ \A p \in BlockSet : \A f \in Drawing : Fig(t2, p, f) = Share(p)
      /\ \A p \in Selects : Fig(t2, p, "refreshEnergy") = Fig(v, p, "refreshEnergy")
  <2>1. Works(Parts, v, t2, (BlockSet \cup Drivers) \cup (SubUnits \cup Drivers \cup {Sub}),
              Drawing \cup Powering)
    BY <1>3, <1>5, WorksThen DEF SubPowered
  <2>2. Works(Parts, v, t2, SubUnits \cup BlockSet \cup Drivers \cup {Sub}, Powering)
    BY <1>4, <2>1, WorksMore
  <2>3. \A p \in BlockSet : p \in Parts /\ p \notin SubUnits \cup Drivers \cup {Sub}
    BY <1>2, TheBlocks, UnitParts
  <2>4. \A p \in BlockSet : \A f \in Drawing : Fig(t2, p, f) = Share(p)
    BY <1>3, <1>4, <1>5, <2>3 DEF SubPowered, Works
  <2> QED
    BY <1>3, <1>5, <2>2, <2>4 DEF SubPowered
<1>7. /\ Works(Parts, t2, t3, {"comparator"}, Drawing) /\ Modest(t3)
      /\ \A f \in Drawing : Fig(t3, "comparator", f) = Share("comparator")
  <2>1. CASE MatCompares(c)
    <3>1. Known(v, "comparator") /\ Share("comparator") = {"comparator"}
      BY <2>1, TheBankUnits, OptionShares
    <3>2. Known(t2, "comparator")
      BY <1>2, <1>4, <1>6, <3>1, StaysReady
    <3>3. Step(t2, t3, "comparator", Drawing, Powers)
      BY <1>2, <2>1, <3>1, <3>2, ComparatorPowerStep
    <3> HIDE DEF t3
    <3>4. Modest(t3)
      BY <1>2, <1>5, <3>3, StepModest DEF SubPowered
    <3>5. Around("comparator") = {"comparator"}
      <4>1. "comparator" \notin Selects /\ "comparator" # "precharger"
        BY <1>2
      <4> QED
        BY <4>1 DEF Around, Driven
    <3>6. ASSUME NEW f \in Drawing
          PROVE  Fig(t3, "comparator", f) = Share("comparator")
      <4>1. "comparator" \notin {"precharger"} \cup Amps \cup Muxes \cup {"globalMux"}
        BY <1>2, UnitKinds
      <4>2. f \in DOMAIN Powers["comparator"] /\ Powers["comparator"][f] = Share("comparator")
        BY <1>2, <4>1, PowersIs DEF Drawing, Energies
      <4> QED
        BY <3>3, <4>2 DEF Step
    <3> QED
      BY <3>3, <3>4, <3>5, <3>6 DEF Step
  <2>2. CASE ~MatCompares(c)
    <3>1. t3 = t2 /\ Share("comparator") = {}
      BY <2>2, OptionShares
    <3>2. Works(Parts, t2, t2, {"comparator"}, Drawing)
      BY <1>5 DEF SubPowered, Works, Computes
    <3>3. "comparator" \notin SubUnits \cup BlockSet \cup Drivers \cup {Sub}
      BY <1>2
    <3>4. \A f \in Drawing : Fig(t2, "comparator", f) = {}
      BY <1>2, <1>4, <1>6, <3>3 DEF Works
    <3> QED
      BY <1>5, <3>1, <3>2, <3>4 DEF SubPowered
  <2> QED
    BY <2>1, <2>2
<1> HIDE DEF t3
<1>8. Works(Parts, v, t3, Drawers \cup Drivers \cup {Sub}, Powering)
  <2>1. Works(Parts, v, t3, (SubUnits \cup BlockSet \cup Drivers \cup {Sub}) \cup {"comparator"},
              Powering \cup Drawing)
    BY <1>6, <1>7, WorksThen
  <2> QED
    BY <1>4, <2>1, WorksMore DEF Drawers
<1>9. \A p \in Parts \ {"comparator"}, f \in Fields : Fig(t3, p, f) = Fig(t2, p, f)
  BY <1>7 DEF Works
<1>10. \A p \in Selects \cup BlockSet \cup {Sub} : p \in Parts \ {"comparator"}
  BY <1>2, TheBlocks, UnitParts
<1>11. Drawing \subseteq Fields /\ "refreshEnergy" \in Fields /\ "readEnergy" \in Fields
       /\ "writeEnergy" \in Fields /\ "leakage" \in Fields
  BY <1>4 DEF Fields, Figure
<1>12. /\ \A f \in Powering : Fig(t3, Sub, f) = Fig(t2, Sub, f)
       /\ Fig(t3, Sub, "readEnergy") = Fig(t2, Sub, "readEnergy")
       /\ Fig(t3, Sub, "leakage") = Fig(t2, Sub, "leakage")
       /\ Fig(t3, Sub, "writeEnergy") = Fig(t2, Sub, "writeEnergy")
  BY <1>4, <1>9, <1>10, <1>11
<1> QED
  <2>1. \A p \in Selects : Fig(t3, p, "refreshEnergy") = Fig(v, p, "refreshEnergy")
    BY <1>6, <1>9, <1>10, <1>11
  <2>2. \A p \in BlockSet \cup {"comparator"} : \A f \in Drawing : Fig(t3, p, f) = Share(p)
    BY <1>6, <1>7, <1>9, <1>10, <1>11
  <2>3. Modest(t3)
    BY <1>7
  <2> QED
    BY <1>1, <1>5, <1>8, <1>12, <2>1, <2>2, <2>3 DEF MatPartsDrawn, SubPowered

MatDraws  == (BlockSet \cup SubDraws) \cup ({"mat_tsv"} \cup {"comparator"})
MatLeaks  == (BlockSet \cup SubLeaks) \cup {"comparator"}
MatPowers == (BlockSet \cup SubPower) \cup ({"mat_tsv"} \cup {"comparator"})

LEMMA MatPowerLabels ==
  /\ MatPowers \subseteq Labels /\ MatDraws \subseteq MatPowers /\ MatLeaks \subseteq MatPowers
  /\ BlockSet \cap SubPower = {} /\ {"mat_tsv"} \cap {"comparator"} = {}
  /\ (BlockSet \cup SubPower) \cap {"mat_tsv", "comparator"} = {}
  /\ MatPowers \cap (Globals \cup Lines) = {} /\ BlockSet \subseteq MatPowers
<1>1. SubPower \subseteq SubUnits \cup {"senseAmp"} \cup Others
  BY SubLabels, PowerLabels DEF SubPower, Ends, Others
<1>2. /\ {"comparator", "mat_tsv", "bank_tsv", "globalSenseAmp", "globalMux", "globalComparator"}
           \subseteq Units \ (SubUnits \cup BlockSet)
      /\ BlockSet \subseteq Units /\ SubUnits \cap BlockSet = {}
  BY TheBankUnits, TheBlocks, TheSubUnits
<1>3. "senseAmp" \notin BlockSet /\ Units \cap Others = {} /\ "senseAmp" \in Units
  BY UnitKinds DEF Amps, Units
<1>4. BlockSet \cap SubPower = {}
  BY <1>1, <1>2, <1>3
<1>5. Lines \cap SubPower = {}
  <2>1. Lines \cap Ends = {}
    BY PowerLabels DEF Others, Lines
  <2> QED
    BY <2>1 DEF SubPower, CellPower, Lines
<1>6. Globals \cap SubPower = {}
  BY <1>1, <1>2, <1>3 DEF Globals
<1>7. {"mat_tsv", "comparator"} \cap (BlockSet \cup SubPower) = {}
  BY <1>1, <1>2, <1>3
<1>8. Lines \cap (BlockSet \cup {"mat_tsv", "comparator"}) = {} /\ Globals \cap (BlockSet \cup {"mat_tsv", "comparator"}) = {}
  BY <1>2, <1>3 DEF Globals, Others, Lines
<1>9. MatPowers \subseteq Labels
  BY <1>2, PowerLabels DEF MatPowers, Labels
<1>10. MatDraws \subseteq MatPowers /\ MatLeaks \subseteq MatPowers /\ BlockSet \subseteq MatPowers
  BY PowerLabels DEF MatDraws, MatLeaks, MatPowers
<1>11. MatPowers \cap (Globals \cup Lines) = {}
  BY <1>5, <1>6, <1>8 DEF MatPowers
<1> QED
  BY <1>4, <1>7, <1>9, <1>10, <1>11

MatDrawn(v, u) ==
  /\ Works(Parts, v, u, Drawers \cup Drivers \cup {Sub, "mat"}, Powering) /\ Modest(u)
  /\ \A p \in Selects : Fig(u, p, "refreshEnergy") = Fig(v, p, "refreshEnergy")
  /\ Fig(u, "mat", "readEnergy") = Sum(MatDraws) \cup Unset(c)
  /\ Fig(u, "mat", "leakage") = Sum(MatLeaks)
  /\ Once("writeEnergy", Fig(u, "mat", "writeEnergy"), MatPowers)
  /\ \A f \in Powering : /\ Mixed(Fig(u, "mat", f), MatPowers)
                         /\ Mixed(Fig(u, Sub, f), SubPower)

LEMMA PoweringIs ==
  Powering = {"readEnergy", "writeEnergy", "resetEnergy", "setEnergy", "refreshEnergy",
              "cellReadEnergy", "cellSetEnergy", "cellResetEnergy", "leakage"}
BY DEF Powering, Timing, Latencies, Figure

LEMMA MatPowerGives ==
  ASSUME NEW v, IsState(Parts, v), Modest(v), \A p \in MatUnits : Known(v, p), Stands(v, Sub),
         Stands(v, "mat"),
         \A p \in Units \cup Sums, f \in Powering :
           p # "mat_tsv" \/ f \notin Carried => Fig(v, p, f) = {},
         \A f \in Carried : Fig(v, "mat_tsv", f) = Share("mat_tsv"),
         Fig(v, "senseAmp", "readLatency") = Share("senseAmp")
  PROVE  MatDrawn(v, MatPower(v, c))
<1> DEFINE t == MatPowerOfParts(v, c)
           pre(f) == Total(t, BlockSet, f)
           tsv(f) == IF MatTsvs(c) THEN Fig(t, "mat_tsv", f) ELSE {}
           compare(f) == IF MatCompares(c) THEN Fig(t, "comparator", f) ELSE {}
           sub(f) == Fig(t, Sub, f)
           read  == (pre("readEnergy") \oplus sub("readEnergy"))
                      \oplus (tsv("readEnergy") \oplus compare("readEnergy"))
           write == (pre("writeEnergy") \oplus sub("writeEnergy"))
                      \oplus (tsv("writeEnergy") \oplus compare("writeEnergy"))
           reset == (pre("writeEnergy") \oplus sub("resetEnergy")) \oplus tsv("resetEnergy")
           set   == (pre("writeEnergy") \oplus sub("setEnergy")) \oplus tsv("setEnergy")
           refresh == (Total(t, RowSet, "readEnergy") \oplus sub("refreshEnergy"))
                        \oplus tsv("readEnergy")
           leakage == (pre("leakage") \oplus sub("leakage"))
                        \oplus (tsv("leakage") \oplus compare("leakage"))
           new == [readEnergy    |-> read,
                   writeEnergy   |-> write,
                   resetEnergy   |-> reset,
                   setEnergy     |-> set,
                   refreshEnergy |-> refresh,
                   cellReadEnergy  |-> sub("cellReadEnergy"),
                   cellSetEnergy   |-> sub("cellSetEnergy"),
                   cellResetEnergy |-> sub("cellResetEnergy"),
                   leakage       |-> leakage]
           u == Put(t, "mat", new)
<1>1. MatPower(v, c) = u
  BY DEF MatPower, MatEnergies, Rated, When, Stands
<1>2. MatPartsDrawn(v, t)
  BY MatPartsPower
<1> HIDE DEF t
<1>3. Unset(c) \subseteq {Garbage}
  BY CellShares
<1>4. "mat_tsv" \in Parts /\ "mat_tsv" \notin Drawers \cup Drivers \cup {Sub}
  <2>1. "mat_tsv" \in Units \ (SubUnits \cup BlockSet) /\ "mat_tsv" # "comparator" /\ "mat_tsv" # Sub
    BY TheBankUnits DEF Sub
  <2> QED
    BY <2>1, UnitNames DEF Drawers
<1>5. \A f \in Carried : tsv(f) = Sum({"mat_tsv"})
  <2>1. \A f \in Fields : Fig(t, "mat_tsv", f) = Fig(v, "mat_tsv", f)
    BY <1>2, <1>4 DEF MatPartsDrawn, Works
  <2>2. ~MatTsvs(c) => Sum({"mat_tsv"}) = {}
    BY OptionShares, SumOfOne
  <2> QED
    BY <2>1, <2>2, SumOfOne, MovingFields DEF Moving
<1>6. tsv("leakage") = {}
  <2>1. "leakage" \in Fields /\ "leakage" \in Powering /\ "leakage" \notin Carried /\ "mat_tsv" \in Units
    BY FieldNames, TheBankUnits DEF Carried
  <2> QED
    BY <1>2, <1>4, <2>1 DEF MatPartsDrawn, Works
<1>7. \A f \in Drawing : compare(f) = Sum({"comparator"})
  BY <1>2, OptionShares, SumOfOne DEF MatPartsDrawn
<1>8. \A f \in Drawing : pre(f) = Sum(BlockSet)
  BY <1>2, TotalSum DEF MatPartsDrawn
<1>9. Mixed(Total(t, RowSet, "readEnergy"), MatPowers)
  <2>1. RowSet \subseteq BlockSet
    BY DEF RowSet, BlockSet
  <2>2. "readEnergy" \in Drawing
    BY DEF Drawing, Energies
  <2>3. Total(t, RowSet, "readEnergy") = Sum(RowSet)
    BY <1>2, <2>1, <2>2, TotalSum DEF MatPartsDrawn
  <2>4. RowSet \subseteq MatPowers
    BY <2>1, MatPowerLabels
  <2> QED
    BY <2>3, <2>4, CleanMore
<1>10. /\ sub("readEnergy") = Sum(SubDraws) \cup Unset(c) /\ sub("leakage") = Sum(SubLeaks)
       /\ Once("writeEnergy", sub("writeEnergy"), SubPower) /\ \A f \in Powering : Mixed(sub(f), SubPower)
  BY <1>2 DEF MatPartsDrawn
<1>11. {"readEnergy", "writeEnergy", "leakage"} \subseteq Drawing
       /\ {"readEnergy", "writeEnergy", "resetEnergy", "setEnergy"} \subseteq Carried
  BY DEF Drawing, Energies, Carried
<1> HIDE DEF pre, tsv, compare, sub
<1>12. Sum({"mat_tsv"}) \oplus Sum({"comparator"}) = Sum({"mat_tsv"} \cup {"comparator"})
  BY MatPowerLabels, PlusPlain DEF MatPowers
<1>13. read = Sum(MatDraws) \cup Unset(c)
  <2>1. BlockSet \subseteq Labels /\ SubDraws \subseteq Labels /\ BlockSet \cap SubDraws = {}
    BY MatPowerLabels, PowerLabels DEF MatPowers
  <2>2. Sum(BlockSet) \oplus (Sum(SubDraws) \cup Unset(c)) = Sum(BlockSet \cup SubDraws) \cup Unset(c)
    BY <1>3, <2>1, PlusLeft
  <2> DEFINE A == BlockSet \cup SubDraws
             B == {"mat_tsv"} \cup {"comparator"}
  <2>3. A \subseteq Labels /\ B \subseteq Labels /\ A \cap B = {}
    BY <2>1, MatPowerLabels, PowerLabels DEF MatPowers
  <2> HIDE DEF A, B
  <2>4. (Sum(A) \cup Unset(c)) \oplus Sum(B) = Sum(A \cup B) \cup Unset(c)
    BY <1>3, <2>3, PlusUnset
  <2>5. pre("readEnergy") = Sum(BlockSet) /\ tsv("readEnergy") \oplus compare("readEnergy") = Sum(B)
    BY <1>5, <1>7, <1>8, <1>11, <1>12 DEF B
  <2> QED
    BY <1>10, <2>2, <2>4, <2>5 DEF A, B, MatDraws
<1>14. leakage = Sum(MatLeaks)
  <2>1. BlockSet \subseteq Labels /\ SubLeaks \subseteq Labels /\ BlockSet \cap SubLeaks = {}
    BY MatPowerLabels, PowerLabels DEF MatPowers
  <2>2. Sum(BlockSet) \oplus Sum(SubLeaks) = Sum(BlockSet \cup SubLeaks)
    BY <2>1, PlusPlain
  <2> DEFINE A == BlockSet \cup SubLeaks
             B == {"comparator"}
  <2>3. A \subseteq Labels /\ B \subseteq Labels /\ A \cap B = {}
    BY <2>1, MatPowerLabels, PowerLabels DEF MatPowers
  <2>4. {} \oplus Sum({"comparator"}) = Sum({"comparator"})
    BY DEF \oplus
  <2> HIDE DEF A, B
  <2>5. Sum(A) \oplus Sum(B) = Sum(A \cup B)
    BY <2>3, PlusPlain
  <2> QED
    BY <1>6, <1>7, <1>8, <1>10, <1>11, <2>2, <2>4, <2>5 DEF A, B, MatLeaks
<1>15. Once("writeEnergy", write, MatPowers)
  <2>1. Once("writeEnergy", Sum(BlockSet), BlockSet)
    BY CleanMore, CleanIsOnce
  <2>2. BlockSet \subseteq Labels /\ SubPower \subseteq Labels /\ BlockSet \cap SubPower = {}
    BY MatPowerLabels, PowerLabels DEF MatPowers
  <2> DEFINE B == {"mat_tsv"} \cup {"comparator"}
  <2>3. Once("writeEnergy", Sum(B), B) /\ B \subseteq Labels /\ (BlockSet \cup SubPower) \cap B = {}
    <3>1. B \subseteq Labels /\ (BlockSet \cup SubPower) \cap B = {}
      BY MatPowerLabels DEF MatPowers
    <3> HIDE DEF B
    <3>2. Clean(Sum(B), B)
      BY CleanMore
    <3> QED
      BY <3>1, <3>2, CleanIsOnce
  <2>4. pre("writeEnergy") = Sum(BlockSet) /\ tsv("writeEnergy") \oplus compare("writeEnergy") = Sum(B)
    BY <1>5, <1>7, <1>8, <1>11, <1>12 DEF B
  <2> HIDE DEF B
  <2>5. Once("writeEnergy", Sum(BlockSet) \oplus sub("writeEnergy"), BlockSet \cup SubPower)
    BY <1>10, <2>1, <2>2, OncePlus
  <2> DEFINE A == BlockSet \cup SubPower
             x == Sum(BlockSet) \oplus sub("writeEnergy")
  <2>6. A \subseteq Labels /\ A \cap B = {} /\ Once("writeEnergy", x, A)
    BY <2>2, <2>3, <2>5
  <2> HIDE DEF A, x
  <2>7. Once("writeEnergy", x \oplus Sum(B), A \cup B)
    BY <2>3, <2>6, OncePlus
  <2> QED
    BY <2>4, <2>7 DEF A, B, x, MatPowers
<1>16. Mixed(pre("writeEnergy"), MatPowers) /\ \A f \in Carried : Mixed(tsv(f), MatPowers)
  <2>1. {"mat_tsv"} \subseteq MatPowers
    BY DEF MatPowers
  <2>2. Mixed(Sum(BlockSet), MatPowers) /\ Mixed(Sum({"mat_tsv"}), MatPowers)
    BY <2>1, MatPowerLabels, CleanMore
  <2>3. "writeEnergy" \in Drawing
    BY <1>11
  <2> QED
    BY <1>5, <1>8, <2>2, <2>3
<1>17. \A f \in Powering : Mixed(sub(f), MatPowers)
  <2>1. SubPower \subseteq MatPowers
    BY DEF MatPowers
  <2> QED
    BY <1>10, <2>1, CleanMore
<1>18. \A f \in Powering : Mixed(new[f], MatPowers)
  <2>1. Mixed(reset, MatPowers) /\ Mixed(set, MatPowers)
    BY <1>11, <1>16, <1>17, PoweringIs, CleanUnion
  <2>2. Mixed(refresh, MatPowers)
    BY <1>9, <1>11, <1>16, <1>17, PoweringIs, CleanUnion
  <2>3. Clean(read, MatDraws) /\ Clean(leakage, MatLeaks)
    BY <1>13, <1>14 DEF Clean
  <2> HIDE DEF read, write, leakage, set, reset, refresh
  <2>4. Mixed(read, MatPowers) /\ Mixed(leakage, MatPowers) /\ Mixed(write, MatPowers)
    BY <1>15, <2>3, MatPowerLabels, CleanMore DEF Once
  <2> QED
    BY <1>17, <2>1, <2>2, <2>4, PoweringIs
<1>19. /\ DOMAIN new = Powering /\ new = [f \in Powering |-> new[f]]
       /\ new["readEnergy"] = Sum(MatDraws) \cup Unset(c)
       /\ new["leakage"] = Sum(MatLeaks) /\ Once("writeEnergy", new["writeEnergy"], MatPowers)
  <2> HIDE DEF set, reset, refresh
  <2>1. new["readEnergy"] = read /\ new["leakage"] = leakage /\ new["writeEnergy"] = write
    OBVIOUS
  <2> HIDE DEF read, write, leakage
  <2> QED
    BY <1>13, <1>14, <1>15, <2>1, PoweringIs
<1> HIDE DEF new
<1>20. "mat" \in Parts /\ "mat" \in Sums /\ "mat" # Sub /\ Powering \subseteq Fields
       /\ "mat" \notin Units /\ Sub \in Parts /\ Selects \subseteq Parts \ {"mat"}
  <2>1. "mat" \in Sums /\ Sub \in Sums /\ "mat" # Sub
    BY DEF Sums, Sub
  <2>2. Selects \subseteq Units
    BY DEF Units, Gated
  <2> QED
    BY <2>1, <2>2, UnitNames, FieldNames
<1>21. /\ Computes(Parts, t, u)
       /\ \A q \in Parts, f \in Fields :
            Fig(u, q, f) = IF q = "mat" /\ f \in Powering THEN new[f] ELSE Fig(t, q, f)
  <2>1. IsState(Parts, t)
    BY <1>2 DEF MatPartsDrawn, Works, Computes
  <2>2. LET x == Put(t, "mat", new)
        IN  /\ Computes(Parts, t, x)
            /\ \A q \in Parts, f \in Fields :
                 Fig(x, q, f) = IF q = "mat" /\ f \in Powering THEN new[f] ELSE Fig(t, q, f)
    BY <1>19, <1>20, <2>1, PutGives
  <2> QED
    BY <2>2
<1> HIDE DEF u
<1>22. Works(Parts, t, u, {"mat"}, Powering)
  BY <1>21 DEF Works
<1>23. Works(Parts, v, u, Drawers \cup Drivers \cup {Sub, "mat"}, Powering) /\ Modest(u)
  <2>1. Works(Parts, v, u, (Drawers \cup Drivers \cup {Sub}) \cup {"mat"}, Powering \cup Powering)
    BY <1>2, <1>22, WorksThen DEF MatPartsDrawn
  <2>2. Works(Parts, v, u, Drawers \cup Drivers \cup {Sub, "mat"}, Powering)
    BY <2>1, WorksMore
  <2>3. Modest(u)
    BY <1>2, <1>20, <1>22, SumsModest DEF MatPartsDrawn
  <2> QED
    BY <2>2, <2>3
<1>24. /\ Fig(u, "mat", "readEnergy") = new["readEnergy"]
       /\ Fig(u, "mat", "leakage") = new["leakage"]
       /\ Fig(u, "mat", "writeEnergy") = new["writeEnergy"]
       /\ \A f \in Powering : Fig(u, "mat", f) = new[f] /\ Fig(u, Sub, f) = Fig(t, Sub, f)
  BY <1>20, <1>21, PoweringIs
<1>25. \A p \in Selects : Fig(u, p, "refreshEnergy") = Fig(v, p, "refreshEnergy")
  <2>1. "refreshEnergy" \in Fields
    BY DEF Fields, Figure
  <2> QED
    BY <1>2, <1>20, <1>21, <2>1 DEF MatPartsDrawn
<1>26. \A f \in Powering : Mixed(Fig(t, Sub, f), SubPower)
  BY <1>2 DEF MatPartsDrawn
<1> QED
  BY <1>1, <1>18, <1>19, <1>23, <1>24, <1>25, <1>26 DEF MatDrawn

(***************************************************************************)
(* What the two leave of the mat and its parts, and a bank adds up later.  *)
(***************************************************************************)
MatAll == (MatTimes \cup {"comparator"}) \cup MatPowers

MatFigures(u) ==
  /\ \A f \in Figure \ {"area"} : /\ Mixed(Fig(u, "mat", f), MatAll)
                                  /\ Mixed(Fig(u, Sub, f), MatAll)
  /\ \A f \in Delays \cup Energies : Once(f, Fig(u, "mat", f), MatAll)
  /\ Fig(u, "mat", "readLatency") = Sum(MatReads) \cup Unset(c)
  /\ Fig(u, "mat", "readEnergy") = Sum(MatDraws) \cup Unset(c)
  /\ Fig(u, "mat", "leakage") = Sum(MatLeaks)
  /\ Fig(u, "predecoder", "readLatency") = Sum(Before)
  /\ \A f \in Carried : Fig(u, "mat_tsv", f) = Share("mat_tsv")
  /\ \A p \in Selects : Fig(u, p, "refreshEnergy") = {}

Primed(t) == Standing(t) /\ Idle(t) /\ Ready(t)

MatsMoved == Units \cup Drivers \cup {Sub, "mat", "predecoder"}

MatsWorked(t, u) ==
  /\ Works(Parts, t, u, MatsMoved, Moving) /\ Modest(u) /\ MatFigures(u)
  /\ \A p \in Globals, f \in Powering : Fig(u, p, f) = {}

LEMMA MatAllLabels ==
  /\ MatAll \subseteq Labels /\ MatAll \cap (Globals \cup Lines) = {}
  /\ SubTimes \subseteq MatAll /\ SubPower \subseteq MatAll /\ MatPowers \subseteq MatAll
  /\ MatTimes \cup {"comparator"} \subseteq MatAll
  /\ MatReads \subseteq MatAll /\ MatDraws \subseteq MatAll /\ MatLeaks \subseteq MatAll
<1>1. MatReads \subseteq MatTimes \cup {"comparator"}
  BY MatLabels DEF MatReads, MatTimes
<1>2. "comparator" \notin Globals \cup Lines
  BY DEF Globals, Lines
<1>3. SubTimes \subseteq MatTimes /\ SubPower \subseteq MatPowers
  BY DEF MatTimes, MatPowers
<1> QED
  BY <1>1, <1>2, <1>3, MatLabels, MatPowerLabels DEF MatAll

LEMMA FigureIs ==
  /\ Figure = (Delays \cup Powering) \cup {"area"} /\ Delays \cap Powering = {}
  /\ "area" \notin Delays \cup Powering
  /\ {"readLatency", "writeLatency"} \subseteq Delays
  /\ {"readEnergy", "writeEnergy", "leakage"} \subseteq Powering
BY PoweringIs DEF Figure, Delays, Latencies

LEMMA MatsWork ==
  ASSUME NEW t, Primed(t)
  PROVE  MatsWorked(t, MatPower(MatLatency(t, c), c))
<1> DEFINE v == MatLatency(t, c)
           u == MatPower(v, c)
<1>1. MatDelayed(t, v)
  BY MatLatencyGives DEF Primed
<1> HIDE DEF v
<1>2. /\ IsState(Parts, t) /\ Stands(t, "mat") /\ Stands(t, Sub) /\ Ready(t) /\ Idle(t)
      /\ \A p \in Selects : Fig(t, p, "refreshEnergy") = {}
  BY DEF Primed, Standing, Stands
<1>3. IsState(Parts, v) /\ Modest(v) /\ Stands(v, "mat") /\ Stands(v, Sub)
  BY <1>1, <1>2 DEF MatDelayed, Works, Computes, Stands
<1>4. \A p \in MatUnits : Known(v, p)
  <2>1. Moving \cap {"gates", "cap"} = {}
    BY MovingFields
  <2>2. \A p \in MatUnits : p \in Units /\ Known(t, p)
    BY <1>2, TheBankUnits DEF Ready
  <2>3. Works(Parts, t, v, Units \cup Drivers \cup {Sub, "mat", "predecoder"}, Moving)
    BY <1>1 DEF MatDelayed
  <2> QED
    BY <2>1, <2>2, <2>3, StaysReady
<1>5. \A p \in Units \cup Sums, f \in Powering :
        p # "mat_tsv" \/ f \notin Carried => Fig(v, p, f) = {}
  BY <1>1, <1>2, MovingFields DEF MatDelayed, Undrawn, Idle
<1>6. MatDrawn(v, u)
  BY <1>1, <1>3, <1>4, <1>5, MatPowerGives DEF MatDelayed
<1> HIDE DEF u
<1>7. /\ Globals \cup Selects \cup {"mat_tsv"} \subseteq Units
      /\ {"mat", Sub, "predecoder", "mat_tsv"} \subseteq Parts
      /\ "predecoder" \notin Drawers \cup Drivers \cup {Sub, "mat"}
      /\ "mat_tsv" \notin Drawers \cup Drivers \cup {Sub, "mat"}
      /\ Globals \cap (Drawers \cup Drivers \cup {Sub, "mat"}) = {}
      /\ Globals \subseteq Parts /\ "mat_tsv" \notin Globals
  <2>1. Globals \cup {"mat_tsv"} \subseteq Units \ (SubUnits \cup BlockSet)
    BY TheBankUnits DEF Globals
  <2>2. "comparator" \notin Globals \cup {"mat_tsv"} /\ "mat_tsv" \notin Globals
    BY DEF Globals
  <2>3. {"mat", Sub} \subseteq Sums /\ "predecoder" \in Kept
    BY DEF Sums, Kept
  <2>4. Drawers \subseteq Units
    BY TheBankUnits, TheBlocks, TheSubUnits DEF Drawers
  <2>5. Selects \subseteq Units
    BY DEF Units, Gated
  <2>6. "predecoder" \notin Units \cup Drivers \cup Sums
    BY <2>3, UnitNames
  <2>7. (Globals \cup {"mat_tsv"}) \cap (Drivers \cup Sums) = {}
    BY <2>1, UnitNames
  <2> QED
    BY <2>1, <2>2, <2>3, <2>4, <2>5, <2>6, <2>7, UnitNames DEF Drawers
<1>8. Works(Parts, t, u, MatsMoved, Moving)
  <2>1. Works(Parts, t, u, (Units \cup Drivers \cup {Sub, "mat", "predecoder"})
                             \cup (Drawers \cup Drivers \cup {Sub, "mat"}), Moving \cup Powering)
    BY <1>1, <1>6, WorksThen DEF MatDelayed, MatDrawn
  <2>2. Drawers \subseteq Units
    BY TheBankUnits, TheBlocks, TheSubUnits DEF Drawers
  <2>3. (Units \cup Drivers \cup {Sub, "mat", "predecoder"}) \cup (Drawers \cup Drivers \cup {Sub, "mat"})
          \subseteq MatsMoved
    BY <2>2 DEF MatsMoved
  <2>4. Moving \cup Powering \subseteq Moving
    BY MovingFields
  <2> QED
    BY <2>1, <2>3, <2>4, WorksMore
<1>9. ASSUME NEW p \in Globals, NEW f \in Powering PROVE Fig(u, p, f) = {}
  <2>1. Fig(v, p, f) = {}
    BY <1>5, <1>7
  <2>2. f \in Fields
    BY FieldNames
  <2> QED
    BY <1>6, <1>7, <2>1, <2>2 DEF MatDrawn, Works
<1>10. ASSUME NEW p \in {"mat", Sub}, NEW f \in Delays PROVE Fig(u, p, f) = Fig(v, p, f)
  <2>1. f \in Fields /\ f \notin Powering
    BY MovingFields, FieldNames, FigureIs
  <2> QED
    BY <1>6, <1>7, <2>1 DEF MatDrawn, Works
<1>11. ASSUME NEW f \in Delays
       PROVE  Once(f, Fig(u, "mat", f), MatAll) /\ Once(f, Fig(u, Sub, f), MatAll)
  <2>1. Once(f, Fig(v, "mat", f), MatTimes \cup {"comparator"}) /\ Once(f, Fig(v, Sub, f), SubTimes)
    BY <1>1 DEF MatDelayed
  <2>2. Fig(u, "mat", f) = Fig(v, "mat", f) /\ Fig(u, Sub, f) = Fig(v, Sub, f)
    BY <1>10
  <2> QED
    BY <2>1, <2>2, MatAllLabels, OnceMore
<1>12. ASSUME NEW f \in Figure \ {"area"}
       PROVE  Mixed(Fig(u, "mat", f), MatAll) /\ Mixed(Fig(u, Sub, f), MatAll)
  <2>1. CASE f \in Delays
    BY <1>11, <2>1 DEF Once
  <2>2. CASE f \in Powering
    <3>1. Mixed(Fig(u, "mat", f), MatPowers) /\ Mixed(Fig(u, Sub, f), SubPower)
      BY <1>6, <2>2 DEF MatDrawn
    <3> QED
      BY <3>1, MatAllLabels, CleanMore
  <2> QED
    BY <2>1, <2>2, FigureIs
<1>13. ASSUME NEW f \in Energies PROVE Once(f, Fig(u, "mat", f), MatAll)
  <2>1. Once("writeEnergy", Fig(u, "mat", "writeEnergy"), MatPowers)
    BY <1>6 DEF MatDrawn
  <2>2. Clean(Fig(u, "mat", "readEnergy"), MatDraws)
    BY <1>6 DEF MatDrawn, Clean
  <2>3. Once("writeEnergy", Fig(u, "mat", "writeEnergy"), MatAll)
    BY <2>1, MatAllLabels, OnceMore
  <2>4. Once("readEnergy", Fig(u, "mat", "readEnergy"), MatAll)
    BY <2>2, MatAllLabels, CleanMore, CleanIsOnce
  <2> QED
    BY <2>3, <2>4 DEF Energies
<1>14. /\ Fig(u, "predecoder", "readLatency") = Sum(Before)
       /\ Fig(u, "mat", "readLatency") = Sum(MatReads) \cup Unset(c)
  <2>1. "readLatency" \in Delays /\ "readLatency" \in Fields
    BY FigureIs, FieldNames
  <2>2. Fig(u, "predecoder", "readLatency") = Fig(v, "predecoder", "readLatency")
    BY <1>6, <1>7, <2>1 DEF MatDrawn, Works
  <2>3. Fig(u, "mat", "readLatency") = Fig(v, "mat", "readLatency")
    BY <1>10, <2>1
  <2> QED
    BY <1>1, <2>2, <2>3 DEF MatDelayed
<1>15. \A f \in Carried : Fig(u, "mat_tsv", f) = Share("mat_tsv")
  <2>1. Carried \subseteq Fields
    BY MovingFields
  <2> QED
    BY <1>1, <1>6, <1>7, <2>1 DEF MatDelayed, MatDrawn, Works
<1>16. ASSUME NEW p \in Selects PROVE Fig(u, p, "refreshEnergy") = {}
  <2>1. "refreshEnergy" \in Powering /\ "refreshEnergy" \notin Carried /\ p \in Units
    BY <1>7, PoweringIs DEF Carried
  <2>2. Fig(v, p, "refreshEnergy") = {}
    BY <1>5, <2>1
  <2> QED
    BY <1>6, <2>2 DEF MatDrawn
<1> QED
  <2>1. Modest(u)
    BY <1>6 DEF MatDrawn
  <2>2. MatFigures(u)
    BY <1>6, <1>11, <1>12, <1>13, <1>14, <1>15, <1>16 DEF MatFigures, MatDrawn
  <2> QED
    BY <1>8, <1>9, <2>1, <2>2 DEF MatsWorked, u, v

-----------------------------------------------------------------------------
(***************************************************************************)
(* The bank's own sense amplifiers, their multiplexer and comparator       *)
(***************************************************************************)
Outer == {"globalSenseAmp", "globalMux", "globalComparator"}

OuterShares(u) ==
  /\ \A f \in Latencies \cup Energies : Fig(u, "globalMux", f) = Share("globalMux")
  /\ Fig(u, "globalMux", "leakage") = {}
  /\ \A f \in {"readLatency", "readEnergy", "leakage"} :
       Fig(u, "globalSenseAmp", f) = Share("globalSenseAmp")
  /\ \A f \in {"writeLatency", "writeEnergy"} : Fig(u, "globalSenseAmp", f) = {}
  /\ c.tag => \A f \in Latencies \cup Drawing :
       Fig(u, "globalComparator", f) = Share("globalComparator")

LEMMA OuterNames ==
  /\ "globalSenseAmp" \in Amps /\ "globalMux" \in Muxes \cup {"globalMux"}
  /\ "globalComparator" \in Compares /\ Outer \subseteq Units /\ Outer \subseteq Parts
  /\ Outer \cap (Selects \cup {"precharger"}) = {} /\ Outer \cap ({"globalMux"} \cup BlockSet) = {"globalMux"}
  /\ \A p \in Outer : Around(p) = {p}
  /\ "globalSenseAmp" \notin Muxes \cup {"globalMux", "precharger"} /\ "globalMux" \notin Amps
  /\ "globalComparator" \notin Amps \cup Muxes \cup {"globalMux", "precharger"}
<1>1. "globalSenseAmp" \in Amps /\ "globalComparator" \in Compares
  BY DEF Amps, Compares
<1>2. Outer \subseteq Units
  BY <1>1 DEF Outer, Units, Gated
<1>3. Outer \cap (Selects \cup {"precharger"}) = {}
  BY <1>1, UnitKinds DEF Outer
<1>4. \A p \in Outer : Around(p) = {p}
  BY <1>3 DEF Around, Driven
<1>5. Outer \subseteq Parts
  BY <1>2, UnitNames
<1>6. Outer \cap ({"globalMux"} \cup BlockSet) = {"globalMux"}
  BY <1>1, UnitKinds DEF Outer
<1>7. /\ "globalSenseAmp" \notin Muxes \cup {"globalMux", "precharger"} /\ "globalMux" \notin Amps
      /\ "globalComparator" \notin Amps \cup Muxes \cup {"globalMux", "precharger"}
  BY <1>1, UnitKinds
<1> QED
  BY <1>1, <1>2, <1>3, <1>4, <1>5, <1>6, <1>7

(* One call on such a circuit: its own figures F, and no more.              *)
OuterDone(t, u, p, F, values) ==
  /\ IsState(Parts, u) /\ Modest(u) /\ Works(Parts, t, u, {p}, F)
  /\ Works(Parts, t, u, Outer, Moving)
  /\ \A q \in Outer : Known(t, q) => Known(u, q)
  /\ \A f \in DOMAIN values[p] : Fig(u, p, f) = values[p][f]

LEMMA OuterStep ==
  ASSUME NEW t, NEW u, NEW p \in Outer, NEW F, F \subseteq Moving, NEW values,
         Step(t, u, p, F, values), Modest(t)
  PROVE  OuterDone(t, u, p, F, values)
<1>1. Works(Parts, t, u, {p}, F) /\ Modest(u)
  BY OuterNames, StepModest DEF Step
<1>2. Works(Parts, t, u, Outer, Moving)
  BY <1>1, WorksMore
<1>3. F \cap {"gates", "cap"} = {}
  BY MovingFields
<1>4. \A q \in Outer : Known(t, q) => Known(u, q)
  BY <1>1, <1>3, OuterNames, StaysReady
<1>5. IsState(Parts, u)
  BY <1>1 DEF Works, Computes
<1> QED
  BY <1>1, <1>2, <1>4, <1>5 DEF Step, OuterDone

LEMMA SenseOutsideGives ==
  ASSUME NEW t, IsState(Parts, t), Modest(t), \A p \in BankUnits : Known(t, p)
  PROVE  LET u == SenseOutside(t, c)
         IN  /\ Works(Parts, t, u, Outer, Moving) /\ Modest(u)
             /\ ~c.internal => OuterShares(u)
<1>1. CASE c.internal
  <2>1. SenseOutside(t, c) = t
    BY <1>1 DEF SenseOutside
  <2>2. Works(Parts, t, t, Outer, Moving)
    BY DEF Works, Computes
  <2> QED
    BY <1>1, <2>1, <2>2
<1>2. CASE ~c.internal
  <2> DEFINE t1 == MuxLatency(t, "globalMux")
             t2 == SenseAmpLatency(t1, "globalSenseAmp")
             t3 == MuxPower(t2, "globalMux")
             t4 == SenseAmpPower(t3, "globalSenseAmp")
             t5 == ComparatorLatency(t4, "globalComparator", {})
             t6 == ComparatorPower(t5, "globalComparator")
             ramping == Latencies \cup {"ramp"}
             sensing == Latencies \cup {"refreshLatency"}
             drawing == Drawing \cup {"refreshEnergy"}
  <2>1. SenseOutside(t, c) = IF ~c.tag THEN t4 ELSE t6
    BY <1>2 DEF SenseOutside
  <2>2. /\ Known(t, "globalMux") /\ Known(t, "globalSenseAmp")
        /\ c.tag => Known(t, "globalComparator")
    BY <1>2 DEF BankUnits
  <2>3. /\ Share("globalSenseAmp") = {"globalSenseAmp"}
        /\ c.tag => Share("globalComparator") = {"globalComparator"}
    BY <1>2, OptionShares
  <2>4. "globalMux" \in Outer /\ "globalSenseAmp" \in Outer /\ "globalComparator" \in Outer
    BY DEF Outer
  <2>5. /\ ramping \subseteq Moving /\ sensing \subseteq Moving
        /\ Drawing \subseteq Moving /\ drawing \subseteq Moving
    BY MovingFields, FieldNames, PoweringIs DEF Drawing, Timing
  <2>6. Step(t, t1, "globalMux", ramping, Times)
    BY <2>2, OuterNames, MuxTime
  <2> HIDE DEF t1, ramping, sensing, drawing
  <2>7. /\ IsState(Parts, t1) /\ Modest(t1) /\ Works(Parts, t, t1, Outer, Moving)
        /\ \A q \in Outer : Known(t, q) => Known(t1, q)
        /\ \A f \in DOMAIN Times["globalMux"] : Fig(t1, "globalMux", f) = Times["globalMux"][f]
    <3>1. OuterDone(t, t1, "globalMux", ramping, Times)
      BY <2>4, <2>5, <2>6, OuterStep
    <3> QED
      BY <3>1 DEF OuterDone
  <2>8. Step(t1, t2, "globalSenseAmp", sensing, Times)
    BY <2>2, <2>3, <2>4, <2>7, OuterNames, AmpTime DEF sensing
  <2> HIDE DEF t2
  <2>9. /\ IsState(Parts, t2) /\ Modest(t2) /\ Works(Parts, t1, t2, Outer, Moving)
        /\ Works(Parts, t1, t2, {"globalSenseAmp"}, sensing)
        /\ \A q \in Outer : Known(t1, q) => Known(t2, q)
        /\ \A f \in DOMAIN Times["globalSenseAmp"] :
             Fig(t2, "globalSenseAmp", f) = Times["globalSenseAmp"][f]
    <3>1. OuterDone(t1, t2, "globalSenseAmp", sensing, Times)
      BY <2>4, <2>5, <2>7, <2>8, OuterStep
    <3> QED
      BY <3>1 DEF OuterDone
  <2>10. Step(t2, t3, "globalMux", Drawing, Powers)
    BY <2>2, <2>4, <2>7, <2>9, OuterNames, MuxPowerStep
  <2> HIDE DEF t3
  <2>11. /\ IsState(Parts, t3) /\ Modest(t3) /\ Works(Parts, t2, t3, Outer, Moving)
         /\ Works(Parts, t2, t3, {"globalMux"}, Drawing)
         /\ \A q \in Outer : Known(t2, q) => Known(t3, q)
         /\ \A f \in DOMAIN Powers["globalMux"] : Fig(t3, "globalMux", f) = Powers["globalMux"][f]
    <3>1. OuterDone(t2, t3, "globalMux", Drawing, Powers)
      BY <2>4, <2>5, <2>9, <2>10, OuterStep
    <3> QED
      BY <3>1 DEF OuterDone
  <2>12. Step(t3, t4, "globalSenseAmp", drawing, Powers)
    BY <2>2, <2>3, <2>4, <2>7, <2>9, <2>11, OuterNames, AmpPower DEF drawing
  <2> HIDE DEF t4
  <2>13. /\ IsState(Parts, t4) /\ Modest(t4) /\ Works(Parts, t3, t4, Outer, Moving)
         /\ Works(Parts, t3, t4, {"globalSenseAmp"}, drawing)
         /\ \A q \in Outer : Known(t3, q) => Known(t4, q)
         /\ \A f \in DOMAIN Powers["globalSenseAmp"] :
              Fig(t4, "globalSenseAmp", f) = Powers["globalSenseAmp"][f]
    <3>1. OuterDone(t3, t4, "globalSenseAmp", drawing, Powers)
      BY <2>4, <2>5, <2>11, <2>12, OuterStep
    <3> QED
      BY <3>1 DEF OuterDone
  <2>14. Works(Parts, t, t4, Outer, Moving)
    <3>1. Works(Parts, t, t2, Outer, Moving)
      BY <2>7, <2>9, WorksOn
    <3>2. Works(Parts, t, t3, Outer, Moving)
      BY <2>11, <3>1, WorksOn
    <3> QED
      BY <2>13, <3>2, WorksOn
  <2>15. /\ Latencies \subseteq Fields /\ Drawing \subseteq Fields
         /\ Latencies \cap drawing = {} /\ Latencies \cap Drawing = {}
         /\ Latencies = {"readLatency", "writeLatency"}
         /\ Drawing = {"readEnergy", "writeEnergy", "leakage"}
         /\ Energies = {"readEnergy", "writeEnergy"}
    BY FieldNames DEF Latencies, Drawing, Energies, drawing
  <2>16. /\ \A f \in Latencies \cup Energies : Fig(t4, "globalMux", f) = Share("globalMux")
         /\ Fig(t4, "globalMux", "leakage") = {}
    <3>1. /\ Times["globalMux"]["readLatency"] = Share("globalMux")
          /\ Times["globalMux"]["writeLatency"] = Share("globalMux")
          /\ Latencies \subseteq DOMAIN Times["globalMux"]
          /\ DOMAIN Powers["globalMux"] = Drawing
          /\ Powers["globalMux"]["readEnergy"] = Share("globalMux")
          /\ Powers["globalMux"]["writeEnergy"] = Share("globalMux")
          /\ Powers["globalMux"]["leakage"] = {}
      <4>1. /\ "globalMux" \in Units /\ "globalMux" \notin {"precharger"} \cup Amps
            /\ "globalMux" \notin Amps /\ "globalMux" # "precharger"
            /\ "globalMux" \in Muxes \cup {"globalMux"}
        BY <2>4, OuterNames
      <4>2. /\ Times["globalMux"]["readLatency"] = Share("globalMux")
            /\ Times["globalMux"]["writeLatency"] = Share("globalMux")
        BY <4>1, TimesIs
      <4>3. Latencies \subseteq DOMAIN Times["globalMux"]
        BY <4>1, TimesIs
      <4> QED
        BY <2>15, <4>1, <4>2, <4>3, PowersIs
    <3>2. \A f \in Latencies : Fig(t1, "globalMux", f) = Share("globalMux")
      BY <2>7, <2>15, <3>1
    <3>3. /\ \A f \in Energies : Fig(t3, "globalMux", f) = Share("globalMux")
          /\ Fig(t3, "globalMux", "leakage") = {}
      BY <2>11, <2>15, <3>1
    <3>4. "globalMux" \in Parts /\ "globalMux" \notin {"globalSenseAmp"}
      BY <2>4, OuterNames
    <3>5. \A f \in Fields : Fig(t2, "globalMux", f) = Fig(t1, "globalMux", f)
      BY <2>9, <3>4 DEF Works
    <3>6. \A f \in Fields : Fig(t4, "globalMux", f) = Fig(t3, "globalMux", f)
      BY <2>13, <3>4 DEF Works
    <3>7. \A f \in Latencies : Fig(t3, "globalMux", f) = Fig(t2, "globalMux", f)
      BY <2>11, <2>15, <3>4 DEF Works
    <3>8. \A f \in Latencies : f \in Fields
      BY <2>15
    <3>9. \A f \in Energies \cup {"leakage"} : f \in Fields
      BY <2>15
    <3> QED
      BY <3>2, <3>3, <3>5, <3>6, <3>7, <3>8, <3>9
  <2>17. /\ \A f \in {"readLatency", "readEnergy", "leakage"} :
              Fig(t4, "globalSenseAmp", f) = Share("globalSenseAmp")
         /\ \A f \in {"writeLatency", "writeEnergy"} : Fig(t4, "globalSenseAmp", f) = {}
    <3>1. /\ Times["globalSenseAmp"]["readLatency"] = Share("globalSenseAmp")
          /\ Times["globalSenseAmp"]["writeLatency"] = {}
          /\ Latencies \subseteq DOMAIN Times["globalSenseAmp"]
          /\ DOMAIN Powers["globalSenseAmp"] = Drawing
          /\ Powers["globalSenseAmp"]["readEnergy"] = Share("globalSenseAmp")
          /\ Powers["globalSenseAmp"]["writeEnergy"] = {}
          /\ Powers["globalSenseAmp"]["leakage"] = Share("globalSenseAmp")
      BY <2>4, <2>15, OuterNames, TimesIs, PowersIs
    <3>2. /\ Fig(t2, "globalSenseAmp", "readLatency") = Share("globalSenseAmp")
          /\ Fig(t2, "globalSenseAmp", "writeLatency") = {}
      BY <2>9, <2>15, <3>1
    <3>3. /\ Fig(t4, "globalSenseAmp", "readEnergy") = Share("globalSenseAmp")
          /\ Fig(t4, "globalSenseAmp", "leakage") = Share("globalSenseAmp")
          /\ Fig(t4, "globalSenseAmp", "writeEnergy") = {}
      BY <2>13, <2>15, <3>1
    <3>4. "globalSenseAmp" \in Parts /\ "globalSenseAmp" \notin {"globalMux"}
      BY <2>4, OuterNames
    <3>5. \A f \in Latencies : Fig(t4, "globalSenseAmp", f) = Fig(t2, "globalSenseAmp", f)
      <4>1. \A f \in Latencies : Fig(t3, "globalSenseAmp", f) = Fig(t2, "globalSenseAmp", f)
        BY <2>11, <2>15, <3>4 DEF Works
      <4>2. \A f \in Latencies : Fig(t4, "globalSenseAmp", f) = Fig(t3, "globalSenseAmp", f)
        BY <2>13, <2>15, <3>4 DEF Works
      <4> QED
        BY <4>1, <4>2
    <3>6. /\ Fig(t4, "globalSenseAmp", "readLatency") = Share("globalSenseAmp")
          /\ Fig(t4, "globalSenseAmp", "writeLatency") = {}
      BY <2>15, <3>2, <3>5
    <3> QED
      BY <3>3, <3>6
  <2>18. CASE ~c.tag
    <3>1. OuterShares(t4)
      BY <2>16, <2>17, <2>18 DEF OuterShares
    <3> QED
      BY <2>1, <2>13, <2>14, <2>18, <3>1
  <2>19. CASE c.tag
    <3>1. Step(t4, t5, "globalComparator", ramping, Times)
      BY <2>2, <2>3, <2>4, <2>7, <2>9, <2>11, <2>13, <2>19, OuterNames, ComparatorTime DEF ramping
    <3> HIDE DEF t5
    <3>2. /\ IsState(Parts, t5) /\ Modest(t5) /\ Works(Parts, t4, t5, Outer, Moving)
          /\ Works(Parts, t4, t5, {"globalComparator"}, ramping)
          /\ \A q \in Outer : Known(t4, q) => Known(t5, q)
          /\ \A f \in DOMAIN Times["globalComparator"] :
               Fig(t5, "globalComparator", f) = Times["globalComparator"][f]
      <4>1. OuterDone(t4, t5, "globalComparator", ramping, Times)
        BY <2>4, <2>5, <2>13, <3>1, OuterStep
      <4> QED
        BY <4>1 DEF OuterDone
    <3>3. Step(t5, t6, "globalComparator", Drawing, Powers)
      BY <2>2, <2>3, <2>4, <2>7, <2>9, <2>11, <2>13, <2>19, <3>2, OuterNames, ComparatorPowerStep
    <3> HIDE DEF t6
    <3>4. /\ IsState(Parts, t6) /\ Modest(t6) /\ Works(Parts, t5, t6, Outer, Moving)
          /\ Works(Parts, t5, t6, {"globalComparator"}, Drawing)
          /\ \A f \in DOMAIN Powers["globalComparator"] :
               Fig(t6, "globalComparator", f) = Powers["globalComparator"][f]
      <4>1. OuterDone(t5, t6, "globalComparator", Drawing, Powers)
        BY <2>4, <2>5, <3>2, <3>3, OuterStep
      <4> QED
        BY <4>1 DEF OuterDone
    <3>5. Works(Parts, t, t6, Outer, Moving)
      <4>1. Works(Parts, t, t5, Outer, Moving)
        BY <2>14, <3>2, WorksOn
      <4> QED
        BY <3>4, <4>1, WorksOn
    <3>6. /\ Times["globalComparator"]["readLatency"] = Share("globalComparator")
          /\ Times["globalComparator"]["writeLatency"] = Share("globalComparator")
          /\ Latencies \subseteq DOMAIN Times["globalComparator"]
          /\ DOMAIN Powers["globalComparator"] = Drawing
          /\ Powers["globalComparator"]["readEnergy"] = Share("globalComparator")
          /\ Powers["globalComparator"]["writeEnergy"] = Share("globalComparator")
          /\ Powers["globalComparator"]["leakage"] = Share("globalComparator")
      BY <2>4, <2>15, OuterNames, TimesIs, PowersIs
    <3>7. \A f \in Drawing : Fig(t6, "globalComparator", f) = Share("globalComparator")
      BY <2>15, <3>4, <3>6
    <3>8. \A f \in Latencies : Fig(t5, "globalComparator", f) = Share("globalComparator")
      BY <2>15, <3>2, <3>6
    <3>9. "globalComparator" \in Parts /\ {"globalMux", "globalSenseAmp"} \subseteq Parts \ {"globalComparator"}
      BY <2>4, OuterNames
    <3>10. \A f \in Latencies : Fig(t6, "globalComparator", f) = Share("globalComparator")
      BY <2>15, <3>4, <3>8, <3>9 DEF Works
    <3>11. ASSUME NEW p \in {"globalMux", "globalSenseAmp"}, NEW f \in Fields
           PROVE  Fig(t6, p, f) = Fig(t4, p, f)
      BY <3>2, <3>4, <3>9 DEF Works
    <3>12. \A f \in Latencies \cup Energies \cup Drawing : f \in Fields
      BY <2>15
    <3>13. /\ {"readLatency", "writeLatency", "readEnergy", "leakage", "writeEnergy"} \subseteq Fields
      BY <2>15
    <3>14. /\ \A f \in Latencies \cup Energies : Fig(t6, "globalMux", f) = Share("globalMux")
           /\ Fig(t6, "globalMux", "leakage") = {}
      BY <2>16, <3>11, <3>12, <3>13
    <3>15. /\ \A f \in {"readLatency", "readEnergy", "leakage"} :
                Fig(t6, "globalSenseAmp", f) = Share("globalSenseAmp")
           /\ \A f \in {"writeLatency", "writeEnergy"} : Fig(t6, "globalSenseAmp", f) = {}
      BY <2>17, <3>11, <3>13
    <3>16. OuterShares(t6)
      BY <3>7, <3>10, <3>14, <3>15 DEF OuterShares
    <3> QED
      BY <2>1, <2>19, <3>4, <3>5, <3>16
  <2> QED
    BY <2>18, <2>19
<1> QED
  BY <1>1, <1>2

-----------------------------------------------------------------------------
(***************************************************************************)
(* The totals of a bank before its TSVs are added, for both kinds of it    *)
(***************************************************************************)
Totals    == Figure \ ({"area"} \cup Cells)
Buffers   == IF c.internal THEN Wires(c) ELSE {}
BankWired == (MatAll \cup Lines) \cup Outer
BankReads == MatReads \cup ((Wiring \cup Shift(c)) \cup Outer)
BankDraws == MatDraws \cup (Wiring \cup Outer)
BankLeaks == MatLeaks \cup (Buffers \cup {"globalSenseAmp", "globalComparator"})

(* All the shares of these labels, and nothing else but marks.              *)
Fully(x, labels) == Sum(labels) \subseteq x /\ Mixed(x, labels)

LEMMA FullySum ==
  ASSUME NEW A
  PROVE  Fully(Sum(A), A) /\ Fully(Sum(A) \cup Unset(c), A)
BY DEF Fully, Mixed

LEMMA FullyPlus ==
  ASSUME NEW A, NEW B, NEW x, NEW y, Fully(x, A), Fully(y, B)
  PROVE  Fully(x \oplus y, A \cup B) /\ Fully(x \cup y, A \cup B)
<1>1. Sum(A \cup B) = Sum(A) \cup Sum(B)
  BY DEF Sum
<1>2. x \cup y \subseteq x \oplus y /\ x \oplus y \subseteq (x \cup y) \cup {Twice}
  BY DEF \oplus
<1> QED
  BY <1>1, <1>2 DEF Fully, Mixed

LEMMA FullyMore ==
  ASSUME NEW A, NEW B, NEW x, Fully(x, A), Sum(B) = {}
  PROVE  Fully(x, A \cup B)
<1>1. Sum(A \cup B) = Sum(A) \cup Sum(B)
  BY DEF Sum
<1> QED
  BY <1>1 DEF Fully, Mixed

Counted(f) == ~Doubled(f)

Shifted(f) == f = "readLatency" /\ Resensed(c)

BankTotals(u) ==
  /\ \A f \in Totals : "bitlineShift" \in Fig(u, "bank", f) <=> Shifted(f)
  /\ \A f \in Totals : /\ Fig(u, "mat", f) \subseteq Fig(u, "bank", f)
                       /\ Mixed(Fig(u, "bank", f), BankWired)
  /\ \A f \in Latencies \cup Drawing : Counted(f) => Clean(Fig(u, "bank", f), BankWired)
  /\ Fully(Fig(u, "bank", "readLatency"), BankReads)
  /\ Fully(Fig(u, "bank", "readEnergy"), BankDraws)
  /\ Fully(Fig(u, "bank", "leakage"), BankLeaks)

LEMMA TotalsAre ==
  /\ Totals = {"readLatency", "writeLatency", "resetLatency", "setLatency", "refreshLatency",
               "readEnergy", "writeEnergy", "resetEnergy", "setEnergy", "refreshEnergy",
               "leakage"}
  /\ Totals \subseteq Fields /\ Totals \subseteq Moving /\ Cells \subseteq Moving
  /\ Totals \cap Cells = {} /\ Latencies \cup Drawing \subseteq Totals
  /\ Totals \subseteq Figure \ {"area"} /\ Carried \subseteq Totals
<1>1. Totals = {"readLatency", "writeLatency", "resetLatency", "setLatency", "refreshLatency",
                "readEnergy", "writeEnergy", "resetEnergy", "setEnergy", "refreshEnergy",
                "leakage"}
  BY DEF Totals, Figure, Cells
<1>2. Totals \subseteq Fields /\ Totals \subseteq Moving /\ Cells \subseteq Moving
  BY <1>1 DEF Fields, Figure, Loose, Moving, Cells
<1>3. Latencies \cup Drawing \subseteq Totals /\ Carried \subseteq Totals
  BY <1>1 DEF Latencies, Drawing, Energies, Carried
<1> QED
  BY <1>1, <1>2, <1>3 DEF Totals

LEMMA WiredLabels ==
  /\ BankWired \subseteq Labels /\ MatAll \subseteq BankWired /\ Outer \subseteq BankWired
  /\ {"wire"} \subseteq Lines /\ Lines \subseteq Labels /\ Lines \subseteq BankWired
  /\ Wires(c) \subseteq {"wire"} /\ Sum(Wires(c)) = Wires(c) /\ Sum({"wire"}) = {"wire"}
  /\ {"wire"} \subseteq BankWired /\ {"wire"} \subseteq Labels /\ MatAll \cap {"wire"} = {}
  /\ Shift(c) \subseteq {"bitlineShift"} /\ Shift(c) \subseteq Lines /\ Sum(Shift(c)) = Shift(c)
  /\ MatAll \cap (Lines \cup Outer) = {} /\ Outer \cap Lines = {} /\ Outer \subseteq Labels
  /\ BankReads \subseteq BankWired /\ BankDraws \subseteq BankWired /\ BankLeaks \subseteq BankWired
  /\ "bank_tsv" \notin BankWired /\ "bank_tsv" \in Labels
<1>1. Wires(c) \subseteq {"wire"} /\ {"wire"} \subseteq Others
  BY DEF Wires, Others
<1>2. Sum(Wires(c)) = Wires(c) /\ Sum({"wire"}) = {"wire"} /\ {"wire"} \subseteq Labels
  <2>1. Wires(c) \subseteq Others
    BY <1>1
  <2> QED
    BY <1>1, <2>1, OthersSum
<1>12. Lines \subseteq Others /\ {"wire"} \subseteq Lines /\ Lines \subseteq Labels
  BY DEF Lines, Others, Labels
<1>13. Shift(c) \subseteq {"bitlineShift"} /\ Shift(c) \subseteq Lines /\ Sum(Shift(c)) = Shift(c)
  <2>1. Shift(c) \subseteq {"bitlineShift"} /\ {"bitlineShift"} \subseteq Lines
    BY DEF Shift, Lines
  <2>2. Shift(c) \subseteq Others
    BY <1>12, <2>1
  <2> QED
    BY <2>1, <2>2, OthersSum
<1>3. Outer \subseteq Labels /\ Outer \cap Lines = {}
  BY <1>12, OuterNames, UnitKinds
<1>4. Globals = Outer \cup {"bank_tsv"} /\ "bank_tsv" \notin Outer \cup Lines
  BY DEF Globals, Outer, Lines
<1>5. MatAll \cap (Lines \cup Outer) = {} /\ "bank_tsv" \notin MatAll
  BY <1>4, MatAllLabels
<1>6. Wiring \subseteq {"wire"} /\ Buffers \subseteq {"wire"}
  BY <1>1 DEF Wiring, Buffers
<1>7. BankReads \subseteq BankWired /\ BankDraws \subseteq BankWired /\ BankLeaks \subseteq BankWired
  BY <1>6, <1>12, <1>13, MatAllLabels DEF BankReads, BankDraws, BankLeaks, BankWired, Outer
<1>8. "bank_tsv" \in Labels
  BY TheBankUnits, UnitKinds
<1>9. /\ BankWired \subseteq Labels /\ MatAll \subseteq BankWired /\ Outer \subseteq BankWired
      /\ {"wire"} \subseteq BankWired /\ Lines \subseteq BankWired
  BY <1>2, <1>3, <1>12, MatAllLabels DEF BankWired
<1>10. "bank_tsv" \notin BankWired
  BY <1>4, <1>5 DEF BankWired
<1>11. MatAll \cap {"wire"} = {}
  BY <1>5, <1>12
<1> QED
  BY <1>1, <1>2, <1>3, <1>5, <1>7, <1>8, <1>9, <1>10, <1>11, <1>12, <1>13

(* The mats' figures have no difference of delays, the wires' may have.     *)
LEMMA MatUnshifted ==
  ASSUME NEW m, MatFigures(m), NEW f \in Totals
  PROVE  "bitlineShift" \notin Fig(m, "mat", f)
<1>1. Mixed(Fig(m, "mat", f), MatAll)
  BY TotalsAre DEF MatFigures
<1>2. MatAll \subseteq Labels \ {"bitlineShift"}
  BY MatAllLabels DEF Lines
<1> QED
  BY <1>1, <1>2, ShiftApart

LEMMA ShiftPlus ==
  ASSUME NEW x, NEW y, "bitlineShift" \notin y
  PROVE  /\ "bitlineShift" \in x \oplus y <=> "bitlineShift" \in x
         /\ "bitlineShift" \in y \oplus x <=> "bitlineShift" \in x
BY DEF \oplus, Twice

LEMMA MatFiguresStay ==
  ASSUME NEW m, NEW u, NEW Q, NEW F, Works(Parts, m, u, Q, F), MatFigures(m),
         Q \cap ({"mat", Sub, "predecoder", "mat_tsv"} \cup Selects) = {}
  PROVE  MatFigures(u)
<1>1. {"mat", Sub, "predecoder", "mat_tsv"} \cup Selects \subseteq Parts
  <2>1. {"mat", Sub} \subseteq Sums /\ "predecoder" \in Kept /\ {"mat_tsv"} \cup Selects \subseteq Units
    BY DEF Sums, Kept, Units, Gated, Tsvs
  <2> QED
    BY <2>1, UnitNames
<1>2. /\ Figure \ {"area"} \subseteq Fields /\ Delays \cup Energies \subseteq Fields
      /\ {"readLatency", "readEnergy", "leakage", "refreshEnergy"} \subseteq Fields
      /\ Carried \subseteq Fields
  <2>1. Figure \subseteq Fields /\ Delays \subseteq Fields /\ Energies \subseteq Fields
    BY MovingFields, FieldNames
  <2>2. {"readLatency", "readEnergy", "leakage", "refreshEnergy"} \subseteq Fields
    BY DEF Fields, Figure
  <2> QED
    BY <2>1, <2>2, MovingFields
<1>3. \A p \in {"mat", Sub, "predecoder", "mat_tsv"} \cup Selects, f \in Fields :
        Fig(u, p, f) = Fig(m, p, f)
  BY <1>1 DEF Works
<1>4. \A p \in Selects : Fig(u, p, "refreshEnergy") = {}
  BY <1>2, <1>3 DEF MatFigures
<1>5. \A f \in Carried : Fig(u, "mat_tsv", f) = Share("mat_tsv")
  BY <1>2, <1>3 DEF MatFigures
<1>6. \A f \in Fields : /\ Fig(u, "mat", f) = Fig(m, "mat", f)
                        /\ Fig(u, Sub, f) = Fig(m, Sub, f)
                        /\ Fig(u, "predecoder", f) = Fig(m, "predecoder", f)
  BY <1>3
<1> QED
  BY <1>2, <1>4, <1>5, <1>6 DEF MatFigures

(* What BankWithHtree adds up.                                              *)
LEMMA HtreeTotals ==
  ASSUME NEW m, IsState(Parts, m), MatFigures(m), c.internal
  PROVE  LET u == WithWires(m, c)
         IN  Works(Parts, m, u, {"bank"}, Moving) /\ BankTotals(u)
<1> DEFINE F == Figure \ {"area"}
           wired == [f \in Totals |-> Fig(m, "mat", f) \oplus Wires(c)]
           cells == [f \in Cells |-> Fig(m, "mat", f)]
           new == wired ++ cells
           u == Put(m, "bank", new)
<1>1. WithWires(m, c) = u
  BY DEF WithWires, Totals
<1>2. /\ new = [f \in F |-> new[f]]
      /\ \A f \in Totals : new[f] = Fig(m, "mat", f) \oplus Wires(c)
  <2>1. Totals \cup Cells = F
    BY TotalsAre DEF Totals, Cells, Figure
  <2>2. DOMAIN wired = Totals /\ DOMAIN cells = Cells
    OBVIOUS
  <2>3. \A f \in Totals : wired[f] = Fig(m, "mat", f) \oplus Wires(c)
    OBVIOUS
  <2> HIDE DEF wired, cells
  <2> QED
    BY <2>1, <2>2, <2>3 DEF ++
<1> HIDE DEF new
<1>3. "bank" \in Parts /\ F \subseteq Fields /\ F \subseteq Moving /\ "mat" \in Parts /\ "mat" # "bank"
  BY UnitNames, FieldNames DEF Sums, Moving
<1>4. /\ Computes(Parts, m, u)
      /\ \A q \in Parts, f \in Fields :
           Fig(u, q, f) = IF q = "bank" /\ f \in F THEN new[f] ELSE Fig(m, q, f)
  <2>1. LET x == Put(m, "bank", new)
        IN  /\ Computes(Parts, m, x)
            /\ \A q \in Parts, f \in Fields :
                 Fig(x, q, f) = IF q = "bank" /\ f \in F THEN new[f] ELSE Fig(m, q, f)
    <3> HIDE DEF F
    <3> QED
      BY <1>2, <1>3, PutGives
  <2> QED
    BY <2>1
<1> HIDE DEF u
<1>5. Works(Parts, m, u, {"bank"}, Moving)
  BY <1>3, <1>4 DEF Works
<1>6. ASSUME NEW f \in Totals
      PROVE  /\ Fig(u, "bank", f) = Fig(m, "mat", f) \oplus Wires(c)
             /\ Fig(u, "mat", f) = Fig(m, "mat", f)
  <2>1. f \in F /\ f \in Fields
    BY TotalsAre
  <2> QED
    BY <1>2, <1>3, <1>4, <2>1
<1>7. ASSUME NEW f \in Totals
      PROVE  /\ Fig(u, "mat", f) \subseteq Fig(u, "bank", f)
             /\ Mixed(Fig(u, "bank", f), BankWired)
  <2>1. Mixed(Fig(m, "mat", f), MatAll)
    BY TotalsAre DEF MatFigures
  <2>2. Mixed(Wires(c), {"wire"})
    BY WiredLabels DEF Mixed
  <2>3. Mixed(Fig(m, "mat", f), BankWired) /\ Mixed(Wires(c), BankWired)
    BY <2>1, <2>2, WiredLabels, CleanMore
  <2>4. Mixed(Fig(m, "mat", f) \oplus Wires(c), BankWired)
    BY <2>3, CleanUnion
  <2>5. Fig(m, "mat", f) \subseteq Fig(m, "mat", f) \oplus Wires(c)
    BY DEF \oplus
  <2> QED
    BY <1>6, <2>4, <2>5
<1>8. ASSUME NEW f \in Latencies \cup Drawing, Counted(f)
      PROVE  Clean(Fig(u, "bank", f), BankWired)
  <2>1. f \in Totals
    BY TotalsAre
  <2>2. Clean(Fig(m, "mat", f), MatAll)
    <3>1. CASE f = "leakage"
      <4>1. Clean(Fig(m, "mat", f), MatLeaks)
        BY <3>1, CleanMore DEF MatFigures
      <4> QED
        BY <4>1, MatAllLabels, CleanMore
    <3>2. CASE f # "leakage"
      BY <1>8, <3>2 DEF MatFigures, Delays, Drawing, Once, Counted
    <3> QED
      BY <3>1, <3>2
  <2>3. Clean(Wires(c), {"wire"})
    BY WiredLabels DEF Clean
  <2>4. Clean(Fig(m, "mat", f) \oplus Wires(c), MatAll \cup {"wire"})
    BY <2>2, <2>3, MatAllLabels, WiredLabels, CleanPlus
  <2>5. MatAll \cup {"wire"} \subseteq BankWired
    BY WiredLabels
  <2>6. Clean(Fig(m, "mat", f) \oplus Wires(c), BankWired)
    BY <2>4, <2>5, CleanMore
  <2> QED
    BY <1>6, <2>1, <2>6
<1>9. ASSUME NEW f \in Totals, NEW A, Fully(Fig(m, "mat", f), A)
      PROVE  Fully(Fig(u, "bank", f), A \cup Wires(c))
  <2>1. Fully(Wires(c), Wires(c))
    BY WiredLabels, FullySum
  <2> QED
    BY <1>6, <1>9, <2>1, FullyPlus
<1>10. /\ Sum(Outer) = {} /\ Wiring = Wires(c) /\ Buffers = Wires(c) /\ Shift(c) = {}
       /\ Sum({"globalSenseAmp", "globalComparator"}) = {}
  BY OptionShares DEF Sum, Outer, Wiring, Buffers, Shift, Resensed
<1>14. ASSUME NEW f \in Totals
       PROVE  "bitlineShift" \in Fig(u, "bank", f) <=> Shifted(f)
  <2>1. "bitlineShift" \notin Fig(m, "mat", f)
    BY MatUnshifted
  <2>2. "bitlineShift" \notin Wires(c)
    BY WiredLabels
  <2>3. "bitlineShift" \notin Fig(m, "mat", f) \oplus Wires(c)
    BY <2>1, <2>2, ShiftPlus
  <2> QED
    BY <1>6, <2>3 DEF Shifted, Resensed
<1>11. {"readLatency", "readEnergy", "leakage"} \subseteq Totals
  BY TotalsAre
<1>12. /\ Fully(Fig(u, "bank", "readLatency"), BankReads)
       /\ Fully(Fig(u, "bank", "readEnergy"), BankDraws)
  <2>1. /\ Fully(Fig(m, "mat", "readLatency"), MatReads)
        /\ Fully(Fig(m, "mat", "readEnergy"), MatDraws)
    BY FullySum DEF MatFigures
  <2>2. /\ Fully(Fig(u, "bank", "readLatency"), MatReads \cup Wires(c))
        /\ Fully(Fig(u, "bank", "readEnergy"), MatDraws \cup Wires(c))
    BY <1>9, <1>11, <2>1
  <2>3. /\ Fully(Fig(u, "bank", "readLatency"), (MatReads \cup Wires(c)) \cup Outer)
        /\ Fully(Fig(u, "bank", "readEnergy"), (MatDraws \cup Wires(c)) \cup Outer)
    BY <1>10, <2>2, FullyMore
  <2>4. /\ (MatReads \cup Wires(c)) \cup Outer = BankReads
        /\ (MatDraws \cup Wires(c)) \cup Outer = BankDraws
    BY <1>10 DEF BankReads, BankDraws
  <2> QED
    BY <2>3, <2>4
<1>13. Fully(Fig(u, "bank", "leakage"), BankLeaks)
  <2>1. Fully(Fig(m, "mat", "leakage"), MatLeaks)
    BY FullySum DEF MatFigures
  <2>2. Fully(Fig(u, "bank", "leakage"), MatLeaks \cup Wires(c))
    BY <1>9, <1>11, <2>1
  <2> DEFINE B == {"globalSenseAmp", "globalComparator"}
  <2>3. Sum(B) = {} /\ (MatLeaks \cup Wires(c)) \cup B = BankLeaks
    BY <1>10 DEF BankLeaks
  <2> HIDE DEF B
  <2>4. Fully(Fig(u, "bank", "leakage"), (MatLeaks \cup Wires(c)) \cup B)
    BY <2>2, <2>3, FullyMore
  <2> QED
    BY <2>3, <2>4
<1> QED
  BY <1>1, <1>5, <1>7, <1>8, <1>12, <1>13, <1>14 DEF BankTotals

(* What BankWithoutHtree adds up before the mats: its wires and, if they    *)
(* are not in the subarrays, its sense amplifiers.                          *)
Ending == {"globalMux", "globalSenseAmp"}

Routes(R) ==
  /\ R = [f \in Latencies \cup Drawing |-> R[f]]
  /\ \A f \in Latencies \cup Drawing :
       /\ Mixed(R[f], Lines \cup Outer)
       /\ Counted(f) => Clean(R[f], Lines \cup Outer)
       /\ "bitlineShift" \in R[f] <=> Shifted(f)
  /\ Fully(R["readLatency"], (Wiring \cup Shift(c)) \cup Outer)
  /\ Fully(R["readEnergy"], Wiring \cup Outer)
  /\ Fully(R["leakage"], Buffers \cup {"globalSenseAmp", "globalComparator"})

LEMMA WiredInside ==
  ASSUME ~c.htree, c.internal, NEW m
  PROVE  Routes(BusRouting(m, c))
<1> DEFINE R == BusRouting(m, c)
<1>1. R = [f \in Latencies \cup Drawing |-> {"wire"}]
  <2>1. Compared \ {"area"} = Latencies \cup Drawing
    BY DEF Compared, Latencies, Drawing, Energies
  <2> QED
    BY <2>1 DEF BusRouting, All
<1> HIDE DEF R
<1>2. R = [f \in Latencies \cup Drawing |-> R[f]] /\ \A f \in Latencies \cup Drawing : R[f] = {"wire"}
  BY <1>1
<1>3. Clean({"wire"}, Lines \cup Outer) /\ Mixed({"wire"}, Lines \cup Outer)
  <2>1. {"wire"} \subseteq Sum({"wire"})
    BY WiredLabels
  <2>2. {"wire"} \subseteq Lines \cup Outer
    BY WiredLabels
  <2>3. Clean({"wire"}, {"wire"})
    BY <2>1, CleanMore
  <2> QED
    BY <2>2, <2>3, CleanMore
<1>4. /\ Sum(Outer) = {} /\ Wiring = {"wire"} /\ Buffers = {"wire"} /\ Shift(c) = {}
      /\ Sum({"globalSenseAmp", "globalComparator"}) = {} /\ \A f : ~Shifted(f)
  BY OptionShares DEF Sum, Outer, Wiring, Buffers, Wires, Shift, Shifted, Resensed
<1>5. Fully({"wire"}, {"wire"})
  BY WiredLabels, FullySum
<1> DEFINE B == {"globalSenseAmp", "globalComparator"}
<1> HIDE DEF B
<1>6. Fully({"wire"}, {"wire"} \cup Outer) /\ Fully({"wire"}, {"wire"} \cup B)
  BY <1>4, <1>5, FullyMore DEF B
<1>7. {"readLatency", "readEnergy", "leakage"} \subseteq Latencies \cup Drawing
  BY DEF Latencies, Drawing, Energies
<1> QED
  <2>1. R["readLatency"] = {"wire"} /\ R["readEnergy"] = {"wire"} /\ R["leakage"] = {"wire"}
    BY <1>2, <1>7
  <2>2. (Wiring \cup Shift(c)) \cup Outer = {"wire"} \cup Outer
    BY <1>4
  <2>3. \A f \in Latencies \cup Drawing :
          /\ Mixed(R[f], Lines \cup Outer) /\ (Counted(f) => Clean(R[f], Lines \cup Outer))
          /\ "bitlineShift" \in R[f] <=> Shifted(f)
    BY <1>2, <1>3, <1>4
  <2>4. /\ Fully(R["readLatency"], (Wiring \cup Shift(c)) \cup Outer)
        /\ Fully(R["readEnergy"], Wiring \cup Outer)
        /\ Fully(R["leakage"], Buffers \cup {"globalSenseAmp", "globalComparator"})
    BY <1>4, <1>6, <2>1, <2>2 DEF B
  <2> QED
    BY <1>2, <2>3, <2>4 DEF Routes, R

LEMMA EndingSums ==
  ASSUME NEW m, ~c.internal, OuterShares(m)
  PROVE  /\ Total(m, Ending, "readLatency") = Sum(Ending)
         /\ Total(m, {"globalMux"}, "readLatency") = Sum({"globalMux"})
         /\ Total(m, Ending, "writeLatency") = Sum({"globalMux"})
         /\ Total(m, Ending, "readEnergy") = Sum(Ending)
         /\ Total(m, Ending, "writeEnergy") = Sum({"globalMux"})
         /\ Total(m, Ending, "leakage") = Sum({"globalSenseAmp"})
         /\ \A f \in {"readLatency", "readEnergy", "leakage"} :
              (IF c.tag THEN Fig(m, "globalComparator", f) ELSE {}) = Sum({"globalComparator"})
<1>1. {"readLatency", "writeLatency", "readEnergy", "writeEnergy"} \subseteq Latencies \cup Energies
  BY DEF Latencies, Energies
<1>2. /\ \A p \in Ending : Fig(m, p, "readLatency") = Share(p)
      /\ \A p \in Ending : Fig(m, p, "readEnergy") = Share(p)
  BY <1>1 DEF OuterShares, Ending
<1>3. Total(m, Ending, "readLatency") = Sum(Ending) /\ Total(m, Ending, "readEnergy") = Sum(Ending)
  BY <1>2, TotalSum
<1>4. Total(m, {"globalMux"}, "readLatency") = Sum({"globalMux"})
  <2>1. \A p \in {"globalMux"} : Fig(m, p, "readLatency") = Share(p)
    BY <1>2 DEF Ending
  <2> QED
    BY <2>1, TotalSum
<1>5. \A f : Total(m, Ending, f) = Fig(m, "globalMux", f) \cup Fig(m, "globalSenseAmp", f)
  BY DEF Total, Ending
<1>6. /\ Total(m, Ending, "writeLatency") = Sum({"globalMux"})
      /\ Total(m, Ending, "writeEnergy") = Sum({"globalMux"})
  <2>1. /\ Fig(m, "globalMux", "writeLatency") = Share("globalMux")
        /\ Fig(m, "globalMux", "writeEnergy") = Share("globalMux")
        /\ Fig(m, "globalSenseAmp", "writeLatency") = {}
        /\ Fig(m, "globalSenseAmp", "writeEnergy") = {}
    BY <1>1 DEF OuterShares
  <2> QED
    BY <1>5, <2>1, SumOfOne
<1>7. Total(m, Ending, "leakage") = Sum({"globalSenseAmp"})
  BY <1>5, SumOfOne DEF OuterShares
<1>8. ASSUME NEW f \in {"readLatency", "readEnergy", "leakage"}
      PROVE  (IF c.tag THEN Fig(m, "globalComparator", f) ELSE {}) = Sum({"globalComparator"})
  <2>1. f \in Latencies \cup Drawing
    BY DEF Latencies, Drawing, Energies
  <2>2. c.tag => Fig(m, "globalComparator", f) = Share("globalComparator")
    BY <2>1 DEF OuterShares
  <2>3. ~c.tag => Share("globalComparator") = {}
    BY OptionShares
  <2> QED
    BY <2>2, <2>3, SumOfOne
<1> QED
  BY <1>3, <1>4, <1>6, <1>7, <1>8

LEMMA WiredOutside ==
  ASSUME ~c.htree, ~c.internal, NEW m, OuterShares(m)
  PROVE  Routes(BusRouting(m, c))
<1> DEFINE bitline == IF c.cell = "SLCNAND" THEN {} ELSE {"wire"}
           compare(f) == IF c.tag THEN Fig(m, "globalComparator", f) ELSE {}
           passed(f, share) == share \oplus Total(m, Ending, f)
           sram(parts) == IF c.cell = "SRAM"
                          THEN bitline \oplus Total(m, parts, "readLatency") ELSE bitline
           sensed == IF NonVolatile(c) THEN Unset(c) ELSE {}
           resensed == IF c.voltage THEN sensed ELSE {}
           S == Shift(c)
           rl == passed("readLatency", sram(Ending) \cup sensed \cup S) \oplus compare("readLatency")
           wl == passed("writeLatency", sram({"globalMux"}))
           re == passed("readEnergy", bitline \cup resensed) \oplus compare("readEnergy")
           we == passed("writeEnergy", bitline)
           lk == passed("leakage", {}) \oplus compare("leakage")
           R == [readLatency |-> rl, writeLatency |-> wl, readEnergy |-> re, writeEnergy |-> we,
                 leakage |-> lk]
           W == Wiring
           C == {"globalComparator"}
           M == {"globalMux"}
           A == {"globalSenseAmp"}
           all == Lines \cup Outer
<1>1. BusRouting(m, c) = R
  BY DEF BusRouting, Ending
<1>2. /\ Total(m, Ending, "readLatency") = Sum(Ending) /\ Total(m, M, "readLatency") = Sum(M)
      /\ Total(m, Ending, "writeLatency") = Sum(M) /\ Total(m, Ending, "readEnergy") = Sum(Ending)
      /\ Total(m, Ending, "writeEnergy") = Sum(M) /\ Total(m, Ending, "leakage") = Sum(A)
      /\ compare("readLatency") = Sum(C) /\ compare("readEnergy") = Sum(C)
      /\ compare("leakage") = Sum(C)
  BY EndingSums
<1>18. /\ sensed \subseteq Unset(c) /\ sensed \subseteq {Garbage}
       /\ resensed \subseteq Unset(c) /\ resensed \subseteq {Garbage}
       /\ (c.cell = "SRAM" => sensed = {} /\ S = {}) /\ (~Resensed(c) => S = {})
       /\ (Resensed(c) => S = {"bitlineShift"})
  BY DEF Unset, Shift, Resensed, NonVolatile
<1>19. S \subseteq {"bitlineShift"} /\ S \subseteq Lines /\ Sum(S) = S /\ S \subseteq Labels
  BY WiredLabels
<1>3. bitline = Sum(W) /\ W \subseteq {"wire"} /\ W \subseteq Labels /\ Buffers = {}
  <2>1. bitline = W /\ W \subseteq {"wire"} /\ Buffers = {}
    BY DEF Wiring, Wires, Buffers
  <2>2. W \subseteq Others
    BY <2>1 DEF Others
  <2> HIDE DEF bitline, W
  <2>3. Sum(W) = W /\ W \subseteq Labels
    BY <2>2, OthersSum
  <2> QED
    BY <2>1, <2>3
<1>4. /\ W \cap Ending = {} /\ (W \cup Ending) \cap C = {} /\ Ending \cup C = Outer
      /\ W \cap M = {} /\ A \cap C = {}
      /\ Ending \subseteq Labels /\ C \subseteq Labels /\ M \subseteq Labels /\ A \subseteq Labels
      /\ W \cup Ending \subseteq Labels /\ W \subseteq Lines
      /\ W \cup S \subseteq Labels /\ (W \cup S) \cap Outer = {} /\ W \cap S = {} /\ W \cap Outer = {}
      /\ "bitlineShift" \notin W \cup Outer /\ W \cup Outer \subseteq Labels
  <2>1. /\ Ending \cup C = Outer /\ A \subseteq Outer /\ M \subseteq Ending /\ A \cap C = {}
        /\ Ending \cap C = {} /\ Ending \subseteq Outer /\ C \subseteq Outer
    BY DEF Ending, Outer
  <2>2. Outer \subseteq Labels /\ Outer \cap {"wire"} = {} /\ Outer \cap Lines = {}
    BY WiredLabels
  <2>3. W \cap Outer = {}
    BY <1>3, <2>2
  <2>4. {"wire"} \subseteq Lines /\ "bitlineShift" \in Lines /\ "bitlineShift" # "wire"
    BY DEF Lines
  <2> HIDE DEF W, C, M, A, S
  <2> QED
    BY <1>3, <1>19, <2>1, <2>2, <2>3, <2>4
<1>5. /\ W \cup M \subseteq all /\ A \cup C \subseteq all /\ W \cup Outer \subseteq all
      /\ (W \cup S) \cup Outer \subseteq all
      /\ W \cup M \subseteq W \cup Outer /\ A \cup C \subseteq W \cup Outer
      /\ (W \cup Ending) \cup C = W \cup Outer /\ Outer = Ending \cup C
  BY <1>3, <1>4, <1>19 DEF Outer
<1> HIDE DEF bitline, compare, W, C, M, A, S, all, sensed, resensed
<1>6. ASSUME NEW V, V \subseteq Labels, V \cap Outer = {}, NEW g, g \subseteq {Garbage}
      PROVE  ((Sum(V) \cup g) \oplus Sum(Ending)) \oplus Sum(C) = Sum(V \cup Outer) \cup g
  <2>1. V \cap Ending = {} /\ Ending \subseteq Labels
    BY <1>4, <1>6
  <2>2. (Sum(V) \cup g) \oplus Sum(Ending) = Sum(V \cup Ending) \cup g
    BY <1>6, <2>1, PlusUnset
  <2> DEFINE B == V \cup Ending
  <2>3. B \subseteq Labels /\ B \cap C = {} /\ B \cup C = V \cup Outer
    BY <1>4, <1>5, <1>6
  <2> HIDE DEF B
  <2>4. (Sum(B) \cup g) \oplus Sum(C) = Sum(B \cup C) \cup g
    BY <1>4, <1>6, <2>3, PlusUnset
  <2> QED
    BY <2>2, <2>3, <2>4 DEF B
<1>20. re = Sum(W \cup Outer) \cup resensed
  BY <1>2, <1>3, <1>4, <1>6, <1>18
<1>21. c.cell # "SRAM" => rl = Sum((W \cup S) \cup Outer) \cup sensed
  <2>1. (Sum(W) \cup sensed) \cup S = Sum(W \cup S) \cup sensed
    BY <1>19 DEF Sum
  <2> DEFINE V == W \cup S
  <2>2. V \subseteq Labels /\ V \cap Outer = {}
    BY <1>4
  <2> HIDE DEF V
  <2>3. ((Sum(V) \cup sensed) \oplus Sum(Ending)) \oplus Sum(C) = Sum(V \cup Outer) \cup sensed
    BY <1>6, <1>18, <2>2
  <2>4. c.cell # "SRAM" => rl = (((Sum(W) \cup sensed) \cup S) \oplus Sum(Ending)) \oplus Sum(C)
    BY <1>2, <1>3
  <2> QED
    BY <2>1, <2>3, <2>4 DEF V
<1>7. we = Sum(W \cup M)
  BY <1>2, <1>3, <1>4, PlusPlain
<1>8. lk = Sum(A \cup C)
  <2>1. {} \oplus Sum(A) = Sum(A)
    BY DEF \oplus
  <2> QED
    BY <1>2, <1>4, <2>1, PlusPlain
<1>9. c.cell # "SRAM" => wl = we
  BY <1>2
<1>22. ASSUME NEW B, NEW g, g \subseteq Unset(c)
       PROVE  Fully(Sum(B) \cup g, B) /\ Clean(Sum(B) \cup g, B)
  BY <1>22 DEF Fully, Mixed, Clean
<1>10. Fully(rl, (W \cup S) \cup Outer)
  <2>1. Fully(Sum(W), W) /\ Fully(Sum(Ending), Ending) /\ Fully(Sum(C), C)
    BY FullySum
  <2>2. CASE c.cell = "SRAM"
    <3>1. Fully(Sum(W) \oplus Sum(Ending), W \cup Ending)
      BY <2>1, FullyPlus
    <3> DEFINE x == Sum(W) \oplus Sum(Ending)
               B == W \cup Ending
    <3>2. rl = (x \oplus Sum(Ending)) \oplus Sum(C)
      BY <1>2, <1>3, <1>18, <2>2
    <3>3. B \cup Ending = B
      OBVIOUS
    <3> HIDE DEF x, B
    <3>4. Fully(x \oplus Sum(Ending), B \cup Ending)
      BY <2>1, <3>1, FullyPlus DEF x, B
    <3>5. Fully(x \oplus Sum(Ending), B)
      BY <3>3, <3>4
    <3>6. Fully((x \oplus Sum(Ending)) \oplus Sum(C), B \cup C)
      BY <2>1, <3>5, FullyPlus
    <3> QED
      BY <1>5, <1>18, <2>2, <3>2, <3>6 DEF B
  <2>3. CASE c.cell # "SRAM"
    BY <1>18, <1>21, <1>22, <2>3
  <2> QED
    BY <2>2, <2>3
<1>11. Mixed(wl, W \cup M)
  <2>1. CASE c.cell = "SRAM"
    <3>1. wl = (Sum(W) \oplus Sum(M)) \oplus Sum(M)
      BY <1>2, <1>3, <2>1 DEF M
    <3>2. W \subseteq W \cup M /\ M \subseteq W \cup M
      OBVIOUS
    <3> DEFINE B == W \cup M
    <3>3. Clean(Sum(W), W) /\ Clean(Sum(M), M)
      BY CleanMore
    <3> HIDE DEF B
    <3>4. Mixed(Sum(W), B) /\ Mixed(Sum(M), B)
      BY <3>2, <3>3, CleanMore DEF B
    <3>5. Mixed(Sum(W) \oplus Sum(M), B)
      BY <3>4, CleanUnion
    <3>6. Mixed((Sum(W) \oplus Sum(M)) \oplus Sum(M), B)
      BY <3>4, <3>5, CleanUnion
    <3> QED
      BY <3>1, <3>6 DEF B
  <2>2. CASE c.cell # "SRAM"
    BY <1>7, <1>9, <2>2 DEF Mixed
  <2> QED
    BY <2>1, <2>2
<1>12. /\ DOMAIN R = Latencies \cup Drawing /\ R = [f \in Latencies \cup Drawing |-> R[f]]
       /\ R["readLatency"] = rl /\ R["writeLatency"] = wl /\ R["readEnergy"] = re
       /\ R["writeEnergy"] = we /\ R["leakage"] = lk
  <2> HIDE DEF rl, wl, re, we, lk
  <2> QED
    BY DEF Latencies, Drawing, Energies
<1> HIDE DEF rl, wl, re, we, lk, R
<1>13. /\ Clean(re, W \cup Outer) /\ Clean(we, W \cup Outer) /\ Clean(lk, W \cup Outer)
       /\ Mixed(wl, W \cup Outer) /\ Mixed(rl, (W \cup S) \cup Outer)
       /\ (c.cell # "SRAM" => Clean(rl, (W \cup S) \cup Outer) /\ Clean(wl, W \cup Outer))
  <2>1. Clean(re, W \cup Outer) /\ Clean(we, W \cup M) /\ Clean(lk, A \cup C)
    BY <1>7, <1>8, <1>18, <1>20, <1>22, CleanMore
  <2>2. Clean(we, W \cup Outer) /\ Clean(lk, W \cup Outer) /\ Mixed(wl, W \cup Outer)
    BY <1>5, <1>11, <2>1, CleanMore
  <2>3. Mixed(rl, (W \cup S) \cup Outer)
    BY <1>10 DEF Fully
  <2>4. c.cell # "SRAM" => Clean(rl, (W \cup S) \cup Outer)
    BY <1>18, <1>21, <1>22
  <2> QED
    BY <1>9, <2>1, <2>2, <2>3, <2>4
<1>14. /\ Clean(re, all) /\ Clean(we, all) /\ Clean(lk, all) /\ Mixed(rl, all) /\ Mixed(wl, all)
       /\ (c.cell # "SRAM" => Clean(rl, all) /\ Clean(wl, all))
       /\ Mixed(re, all) /\ Mixed(we, all) /\ Mixed(lk, all)
       /\ Mixed(re, W \cup Outer) /\ Mixed(we, W \cup Outer) /\ Mixed(lk, W \cup Outer)
  BY <1>5, <1>13, CleanMore
<1>23. /\ \A x \in {wl, re, we, lk} : "bitlineShift" \notin x
       /\ "bitlineShift" \in rl <=> Resensed(c)
  <2>1. W \cup Outer \subseteq Labels \ {"bitlineShift"}
    BY <1>4
  <2>2. \A x \in {wl, re, we, lk} : "bitlineShift" \notin x
    BY <1>13, <1>14, <2>1, ShiftApart
  <2>3. Resensed(c) => "bitlineShift" \in rl
    <3>1. Sum(S) \subseteq Sum((W \cup S) \cup Outer)
      BY DEF Sum
    <3> QED
      BY <1>10, <1>18, <1>19, <3>1 DEF Fully
  <2>4. ~Resensed(c) => "bitlineShift" \notin rl
    <3>1. ~Resensed(c) => (W \cup S) \cup Outer = W \cup Outer
      BY <1>18
    <3> QED
      BY <1>13, <2>1, <3>1, ShiftApart
  <2> QED
    BY <2>2, <2>3, <2>4
<1>15. ASSUME NEW f \in Latencies \cup Drawing
       PROVE  /\ Mixed(R[f], all) /\ (Counted(f) => Clean(R[f], all))
              /\ "bitlineShift" \in R[f] <=> Shifted(f)
  <2>1. Latencies = {"readLatency", "writeLatency"} /\ Drawing = {"readEnergy", "writeEnergy", "leakage"}
    BY DEF Latencies, Drawing, Energies
  <2>2. CASE f \in Latencies
    <3>1. Counted(f) => c.cell # "SRAM"
      BY <2>2 DEF Counted, Doubled
    <3>2. CASE f = "readLatency"
      BY <1>12, <1>14, <1>23, <3>1, <3>2 DEF Shifted
    <3>3. CASE f = "writeLatency"
      BY <1>12, <1>14, <1>23, <3>1, <3>3 DEF Shifted
    <3> QED
      BY <2>1, <2>2, <3>2, <3>3
  <2>3. CASE f \in Drawing
    <3>1. f # "readLatency"
      BY <2>1, <2>3
    <3>2. R[f] \in {re, we, lk}
      BY <1>12, <2>1, <2>3
    <3> QED
      BY <1>14, <1>23, <3>1, <3>2 DEF Shifted
  <2> QED
    BY <2>2, <2>3
<1>16. Fully(re, W \cup Outer) /\ Fully(lk, A \cup C)
  BY <1>8, <1>18, <1>20, <1>22, FullySum
<1>17. A \cup C = Buffers \cup {"globalSenseAmp", "globalComparator"}
  BY <1>3 DEF A, C
<1> QED
  BY <1>1, <1>10, <1>12, <1>15, <1>16, <1>17 DEF Routes, W, S, all

(* BankWithoutHtree: the mats are added to these.                           *)
LEMMA BusWiresGive ==
  ASSUME NEW t, Stands(t, "bank"), NEW m, IsState(Parts, m), Routes(BusRouting(m, c))
  PROVE  LET w == BusWires(t, m, c)
         IN  /\ Works(Parts, m, w, {"bank"}, Totals)
             /\ \A f \in Latencies \cup Drawing : Fig(w, "bank", f) = BusRouting(m, c)[f]
             /\ \A f \in {"refreshLatency", "refreshEnergy"} :
                  Fig(w, "bank", f) = Fig(m, "mat", f) \oplus
                                        (IF c.internal THEN {"wire"} ELSE {})
<1> DEFINE wire == IF c.internal THEN {"wire"} ELSE {}
           R == BusRouting(m, c)
           D == Latencies \cup Drawing
           again == [refreshLatency |-> Fig(m, "mat", "refreshLatency") \oplus wire,
                     refreshEnergy  |-> Fig(m, "mat", "refreshEnergy") \oplus wire]
           new == R ++ again
           F == D \cup {"refreshLatency", "refreshEnergy"}
           w == Put(m, "bank", new)
<1>1. BusWires(t, m, c) = w
  BY DEF BusWires, Rated, When, Stands
<1>2. DOMAIN R = D /\ D \cap {"refreshLatency", "refreshEnergy"} = {} /\ F \subseteq Totals
  BY TotalsAre DEF Routes, Latencies, Drawing, Energies
<1>3. /\ DOMAIN again = {"refreshLatency", "refreshEnergy"}
      /\ \A f \in {"refreshLatency", "refreshEnergy"} : again[f] = Fig(m, "mat", f) \oplus wire
  <2> HIDE DEF wire
  <2> QED
    OBVIOUS
<1> HIDE DEF again, R, D, wire
<1>4. /\ new = [f \in F |-> new[f]] /\ \A f \in D : new[f] = R[f]
      /\ \A f \in {"refreshLatency", "refreshEnergy"} : new[f] = again[f]
  BY <1>2, <1>3 DEF ++
<1> HIDE DEF new, F
<1>5. "bank" \in Parts /\ F \subseteq Fields
  BY <1>2, UnitNames, TotalsAre DEF Sums
<1>6. /\ Computes(Parts, m, w)
      /\ \A q \in Parts, f \in Fields :
           Fig(w, q, f) = IF q = "bank" /\ f \in F THEN new[f] ELSE Fig(m, q, f)
  <2>1. LET x == Put(m, "bank", new)
        IN  /\ Computes(Parts, m, x)
            /\ \A q \in Parts, f \in Fields :
                 Fig(x, q, f) = IF q = "bank" /\ f \in F THEN new[f] ELSE Fig(m, q, f)
    BY <1>4, <1>5, PutGives
  <2> QED
    BY <2>1
<1> HIDE DEF w
<1>7. Works(Parts, m, w, {"bank"}, Totals)
  BY <1>2, <1>6 DEF Works
<1>8. \A f \in F : Fig(w, "bank", f) = new[f]
  BY <1>5, <1>6
<1>9. \A f \in D : f \in F
  BY DEF F
<1>10. \A f \in {"refreshLatency", "refreshEnergy"} : f \in F
  BY DEF F
<1> QED
  BY <1>1, <1>3, <1>4, <1>7, <1>8, <1>9, <1>10 DEF D, R, wire

Started(f) ==   \* the figure of the wires that a figure of the bank starts from
  CASE f \in {"resetLatency", "setLatency"} -> "writeLatency"
    [] f \in {"resetEnergy", "setEnergy"} -> "writeEnergy"
    [] OTHER -> f

LEMMA WithMatsGive ==
  ASSUME NEW w, IsState(Parts, w)
  PROVE  /\ Works(Parts, w, WithMats(w), {"bank"}, Moving)
         /\ \A f \in Carried \cup {"leakage"} :
              Fig(WithMats(w), "bank", f) = Fig(w, "bank", Started(f)) \oplus Fig(w, "mat", f)
         /\ \A f \in {"refreshLatency", "refreshEnergy"} :
              Fig(WithMats(w), "bank", f) = Fig(w, "bank", f)
<1> DEFINE add(f, g) == Fig(w, "bank", f) \oplus Fig(w, "mat", g)
           D == Compared \ {"area"}
           E == {"resetLatency", "setLatency", "resetEnergy", "setEnergy"}
           own == [f \in D |-> add(f, f)]
           written == [resetLatency |-> add("writeLatency", "resetLatency"),
                       setLatency   |-> add("writeLatency", "setLatency"),
                       resetEnergy  |-> add("writeEnergy", "resetEnergy"),
                       setEnergy    |-> add("writeEnergy", "setEnergy")]
           cells == [f \in Cells |-> Fig(w, "mat", f)]
           new == (own ++ written) ++ cells
           F == (D \cup E) \cup Cells
           u == Put(w, "bank", new)
<1>1. WithMats(w) = u
  BY DEF WithMats
<1>2. /\ D = {"readLatency", "writeLatency", "readEnergy", "writeEnergy", "leakage"}
      /\ D \cup E = Carried \cup {"leakage"} /\ D \cap E = {}
      /\ F \subseteq Fields /\ F \subseteq Moving
      /\ F \cap {"refreshLatency", "refreshEnergy"} = {}
      /\ {"refreshLatency", "refreshEnergy"} \subseteq Fields
  <2>1. D = {"readLatency", "writeLatency", "readEnergy", "writeEnergy", "leakage"}
    BY DEF Compared, Latencies, Energies
  <2>2. D \cup E = Carried \cup {"leakage"} /\ D \cap E = {}
    BY <2>1 DEF Carried
  <2>3. Carried \cup {"leakage"} \subseteq Moving /\ Cells \subseteq Moving /\ Moving \subseteq Fields
    BY MovingFields, TotalsAre DEF Drawing
  <2>4. (Carried \cup {"leakage"} \cup Cells) \cap {"refreshLatency", "refreshEnergy"} = {}
    BY DEF Carried, Cells
  <2>5. {"refreshLatency", "refreshEnergy"} \subseteq Fields
    BY DEF Fields, Figure
  <2> QED
    BY <2>1, <2>2, <2>3, <2>4, <2>5
<1>3. /\ DOMAIN own = D /\ DOMAIN written = E /\ DOMAIN cells = Cells
      /\ \A f \in D : own[f] = add(f, f)
      /\ \A f \in E : written[f] = add(Started(f), f)
  <2> HIDE DEF add, D
  <2>1. Started("resetLatency") = "writeLatency" /\ Started("setLatency") = "writeLatency"
        /\ Started("resetEnergy") = "writeEnergy" /\ Started("setEnergy") = "writeEnergy"
    BY DEF Started
  <2> QED
    BY <2>1
<1>4. \A f \in D : Started(f) = f
  BY <1>2 DEF Started
<1>5. Cells \cap (D \cup E) = {}
  BY <1>2 DEF Carried, Cells
<1> HIDE DEF own, written, cells, D, E
<1>6. /\ new = [f \in F |-> new[f]]
      /\ \A f \in D \cup E : new[f] = Fig(w, "bank", Started(f)) \oplus Fig(w, "mat", f)
  <2>1. DOMAIN (own ++ written) = D \cup E /\ \A f \in D : (own ++ written)[f] = own[f]
    BY <1>3 DEF ++
  <2>2. \A f \in E : (own ++ written)[f] = written[f]
    BY <1>2, <1>3 DEF ++
  <2> DEFINE both == own ++ written
  <2> HIDE DEF both
  <2>3. /\ both ++ cells = [f \in F |-> (both ++ cells)[f]]
        /\ \A f \in D \cup E : (both ++ cells)[f] = both[f]
    BY <1>3, <2>1 DEF ++, both
  <2> QED
    BY <1>3, <1>4, <2>1, <2>2, <2>3 DEF both
<1> HIDE DEF new, F
<1>7. /\ Computes(Parts, w, u)
      /\ \A q \in Parts, f \in Fields :
           Fig(u, q, f) = IF q = "bank" /\ f \in F THEN new[f] ELSE Fig(w, q, f)
  <2>1. "bank" \in Parts
    BY UnitNames DEF Sums
  <2>2. LET x == Put(w, "bank", new)
        IN  /\ Computes(Parts, w, x)
            /\ \A q \in Parts, f \in Fields :
                 Fig(x, q, f) = IF q = "bank" /\ f \in F THEN new[f] ELSE Fig(w, q, f)
    BY <1>2, <1>6, <2>1, PutGives
  <2> QED
    BY <2>2
<1> HIDE DEF u
<1>8. Works(Parts, w, u, {"bank"}, Moving)
  BY <1>2, <1>7 DEF Works
<1>9. "bank" \in Parts /\ \A f \in D \cup E : f \in F /\ f \in Fields
  BY <1>2, UnitNames DEF Sums, F
<1>10. \A f \in D \cup E : Fig(u, "bank", f) = new[f]
  BY <1>7, <1>9
<1>11. \A f \in {"refreshLatency", "refreshEnergy"} : Fig(u, "bank", f) = Fig(w, "bank", f)
  BY <1>2, <1>7, <1>9
<1> QED
  BY <1>1, <1>2, <1>6, <1>8, <1>10, <1>11

LEMMA BusTotals ==
  ASSUME NEW t, Stands(t, "bank"), NEW m, IsState(Parts, m), MatFigures(m),
         ~c.htree, ~c.internal => OuterShares(m)
  PROVE  LET u == WithMats(BusWires(t, m, c))
         IN  Works(Parts, m, u, {"bank"}, Moving) /\ BankTotals(u)
<1> DEFINE w == BusWires(t, m, c)
           u == WithMats(w)
           R == BusRouting(m, c)
           D == Latencies \cup Drawing
           wired == Lines \cup Outer
           wire == IF c.internal THEN {"wire"} ELSE {}
<1>1. Routes(R)
  BY WiredInside, WiredOutside
<1> HIDE DEF R
<1>2. /\ Works(Parts, m, w, {"bank"}, Totals) /\ \A f \in D : Fig(w, "bank", f) = R[f]
      /\ \A f \in {"refreshLatency", "refreshEnergy"} :
           Fig(w, "bank", f) = Fig(m, "mat", f) \oplus wire
  BY <1>1, BusWiresGive DEF R
<1> HIDE DEF w
<1>3. /\ Works(Parts, w, u, {"bank"}, Moving)
      /\ \A f \in Carried \cup {"leakage"} :
           Fig(u, "bank", f) = Fig(w, "bank", Started(f)) \oplus Fig(w, "mat", f)
      /\ \A f \in {"refreshLatency", "refreshEnergy"} : Fig(u, "bank", f) = Fig(w, "bank", f)
  BY <1>2, WithMatsGive DEF Works, Computes
<1> HIDE DEF u
<1>4. Works(Parts, m, u, {"bank"}, Moving)
  <2>1. Works(Parts, m, u, {"bank"} \cup {"bank"}, Totals \cup Moving)
    BY <1>2, <1>3, WorksThen
  <2>2. Totals \cup Moving \subseteq Moving /\ {"bank"} \cup {"bank"} \subseteq {"bank"}
    BY TotalsAre
  <2> QED
    BY <2>1, <2>2, WorksMore
<1>5. \A f \in Fields : Fig(w, "mat", f) = Fig(m, "mat", f) /\ Fig(u, "mat", f) = Fig(m, "mat", f)
  <2>1. "mat" \in Parts /\ "mat" \notin {"bank"}
    BY UnitNames DEF Sums
  <2> QED
    BY <1>2, <1>4, <2>1 DEF Works
<1>6. /\ Totals \subseteq Fields /\ D \subseteq Carried \cup {"leakage"}
      /\ Totals = (Carried \cup {"leakage"}) \cup {"refreshLatency", "refreshEnergy"}
      /\ \A f \in D : Started(f) = f
      /\ \A g \in Carried \cup {"leakage"} : Started(g) \in D
  <2>1. Totals = (Carried \cup {"leakage"}) \cup {"refreshLatency", "refreshEnergy"}
    BY TotalsAre DEF Carried
  <2>2. D = {"readLatency", "writeLatency", "readEnergy", "writeEnergy", "leakage"}
    BY DEF Latencies, Drawing, Energies
  <2>3. \A f \in D : Started(f) = f
    BY <2>2 DEF Started
  <2>4. \A g \in Carried \cup {"leakage"} : Started(g) \in D
    BY <2>2 DEF Started, Carried
  <2> QED
    BY <2>1, <2>2, <2>3, <2>4, TotalsAre DEF Carried
<1>7. \A f \in Carried \cup {"leakage"} :
        Fig(u, "bank", f) = R[Started(f)] \oplus Fig(m, "mat", f)
  BY <1>2, <1>3, <1>5, <1>6
<1>8. \A f \in D : Fig(u, "bank", f) = R[f] \oplus Fig(m, "mat", f)
  BY <1>6, <1>7
<1>9. \A f \in {"refreshLatency", "refreshEnergy"} :
        Fig(u, "bank", f) = Fig(m, "mat", f) \oplus wire
  BY <1>2, <1>3
<1>10. wired \subseteq BankWired
  BY WiredLabels DEF BankWired
<1>11. /\ \A f \in D : /\ Mixed(R[f], wired)
                       /\ Counted(f) => Clean(R[f], wired)
                       /\ "bitlineShift" \in R[f] <=> Shifted(f)
       /\ Fully(R["readLatency"], (Wiring \cup Shift(c)) \cup Outer)
       /\ Fully(R["readEnergy"], Wiring \cup Outer)
       /\ Fully(R["leakage"], Buffers \cup {"globalSenseAmp", "globalComparator"})
  BY <1>1 DEF Routes
<1> HIDE DEF wired
<1>12. ASSUME NEW f \in Totals
       PROVE  /\ Fig(u, "mat", f) \subseteq Fig(u, "bank", f)
              /\ Mixed(Fig(u, "bank", f), BankWired)
  <2>1. Mixed(Fig(m, "mat", f), BankWired)
    <3>1. Mixed(Fig(m, "mat", f), MatAll)
      BY TotalsAre DEF MatFigures
    <3> QED
      BY <3>1, WiredLabels, CleanMore
  <2>2. CASE f \in Carried \cup {"leakage"}
    <3>1. Mixed(R[Started(f)], BankWired)
      <4>1. Started(f) \in D
        BY <1>6, <2>2
      <4>2. Mixed(R[Started(f)], wired)
        BY <1>11, <4>1
      <4> QED
        BY <1>10, <4>2, CleanMore
    <3>2. Mixed(R[Started(f)] \oplus Fig(m, "mat", f), BankWired)
      BY <2>1, <3>1, CleanUnion
    <3>3. Fig(m, "mat", f) \subseteq R[Started(f)] \oplus Fig(m, "mat", f)
      BY DEF \oplus
    <3> QED
      BY <1>5, <1>6, <1>7, <2>2, <3>2, <3>3
  <2>3. CASE f \in {"refreshLatency", "refreshEnergy"}
    <3>1. Mixed(wire, BankWired)
      <4>1. wire \subseteq {"wire"} /\ {"wire"} = Sum({"wire"})
        BY WiredLabels
      <4>2. Clean(wire, {"wire"})
        BY <4>1 DEF Clean
      <4> QED
        BY <4>2, WiredLabels, CleanMore
    <3> HIDE DEF wire
    <3>2. Mixed(Fig(m, "mat", f) \oplus wire, BankWired)
      BY <2>1, <3>1, CleanUnion
    <3>3. Fig(m, "mat", f) \subseteq Fig(m, "mat", f) \oplus wire
      BY DEF \oplus
    <3> QED
      BY <1>5, <1>6, <1>9, <2>3, <3>2, <3>3
  <2> QED
    BY <1>6, <2>2, <2>3
<1>13. ASSUME NEW f \in D, Counted(f) PROVE Clean(Fig(u, "bank", f), BankWired)
  <2>1. Clean(Fig(m, "mat", f), MatAll)
    <3>1. CASE f = "leakage"
      <4>1. Clean(Fig(m, "mat", f), MatLeaks)
        BY <3>1, CleanMore DEF MatFigures
      <4> QED
        BY <4>1, MatAllLabels, CleanMore
    <3>2. CASE f # "leakage"
      BY <1>13, <3>2 DEF MatFigures, Delays, Drawing, Once, Counted
    <3> QED
      BY <3>1, <3>2
  <2>2. wired \subseteq Labels /\ wired \cap MatAll = {} /\ wired \cup MatAll \subseteq BankWired
    BY WiredLabels DEF wired
  <2>3. Clean(R[f] \oplus Fig(m, "mat", f), wired \cup MatAll)
    BY <1>11, <1>13, <2>1, <2>2, MatAllLabels, CleanPlus
  <2>4. Clean(R[f] \oplus Fig(m, "mat", f), BankWired)
    BY <2>2, <2>3, CleanMore
  <2> QED
    BY <1>8, <2>4
<1>14. ASSUME NEW f \in D, NEW A, NEW B, Fully(R[f], B), Fully(Fig(m, "mat", f), A)
       PROVE  Fully(Fig(u, "bank", f), A \cup B)
  <2>1. Fully(R[f] \oplus Fig(m, "mat", f), B \cup A) /\ B \cup A = A \cup B
    BY <1>14, FullyPlus
  <2> QED
    BY <1>8, <2>1
<1>15. /\ Fully(Fig(m, "mat", "readLatency"), MatReads) /\ Fully(Fig(m, "mat", "readEnergy"), MatDraws)
       /\ Fully(Fig(m, "mat", "leakage"), MatLeaks)
  BY FullySum DEF MatFigures
<1>16. "readLatency" \in D /\ "readEnergy" \in D /\ "leakage" \in D
  BY DEF Latencies, Drawing, Energies
<1>20. ASSUME NEW f \in Totals
       PROVE  "bitlineShift" \in Fig(u, "bank", f) <=> Shifted(f)
  <2>1. "bitlineShift" \notin Fig(m, "mat", f)
    BY MatUnshifted
  <2>2. CASE f \in Carried \cup {"leakage"}
    <3>1. Started(f) \in D
      BY <1>6, <2>2
    <3>2. Shifted(Started(f)) <=> Shifted(f)
      BY DEF Shifted, Started
    <3>3. "bitlineShift" \in R[Started(f)] \oplus Fig(m, "mat", f) <=> "bitlineShift" \in R[Started(f)]
      BY <2>1, ShiftPlus
    <3>4. "bitlineShift" \in R[Started(f)] <=> Shifted(Started(f))
      BY <1>11, <3>1
    <3> QED
      BY <1>7, <2>2, <3>2, <3>3, <3>4
  <2>3. CASE f \in {"refreshLatency", "refreshEnergy"}
    <3>1. "bitlineShift" \notin wire /\ ~Shifted(f)
      BY <2>3 DEF Shifted
    <3>2. "bitlineShift" \notin Fig(m, "mat", f) \oplus wire
      BY <2>1, <3>1, ShiftPlus
    <3> QED
      BY <1>9, <2>3, <3>1, <3>2
  <2> QED
    BY <1>6, <2>2, <2>3
<1> DEFINE RO == Wiring \cup Outer
           SO == (Wiring \cup Shift(c)) \cup Outer
           BO == Buffers \cup {"globalSenseAmp", "globalComparator"}
<1>17. BankReads = MatReads \cup SO /\ BankDraws = MatDraws \cup RO /\ BankLeaks = MatLeaks \cup BO
  BY DEF BankReads, BankDraws, BankLeaks
<1>18. Fully(R["readLatency"], SO) /\ Fully(R["readEnergy"], RO) /\ Fully(R["leakage"], BO)
  BY <1>11
<1> HIDE DEF RO, SO, BO, D
<1>19. /\ Fully(Fig(u, "bank", "readLatency"), BankReads)
       /\ Fully(Fig(u, "bank", "readEnergy"), BankDraws)
       /\ Fully(Fig(u, "bank", "leakage"), BankLeaks)
  BY <1>14, <1>15, <1>16, <1>17, <1>18
<1> QED
  BY <1>4, <1>12, <1>13, <1>19, <1>20 DEF BankTotals, u, w, D

-----------------------------------------------------------------------------
(* Bank: what is left of its figures without the mats'.                     *)
Subtracted(f) == f \notin {"refreshLatency", "refreshEnergy"} \/ ~c.many

LEMMA RoutedGives ==
  ASSUME NEW t, IsState(Parts, t)
  PROVE  LET u == Routed(t, c)
         IN  /\ Works(Parts, t, u, {"routing"}, Moving)
             /\ \A f \in Totals : Fig(u, "routing", f) =
                  Less(Fig(t, "bank", f), Fig(t, "mat", f), Subtracted(f))
<1> DEFINE left(f, same) == Less(Fig(t, "bank", f), Fig(t, "mat", f), same)
           F1 == Carried \cup {"leakage"}
           one == [f \in {"readLatency", "writeLatency", "resetLatency", "setLatency",
                "readEnergy", "writeEnergy", "resetEnergy", "setEnergy", "leakage"} |->
                     left(f, TRUE)]
           two == All({"refreshLatency"}, left("refreshLatency", ~c.many))
           three == All({"refreshEnergy"}, left("refreshEnergy", ~c.many))
           new == (one ++ two) ++ three
           u == Put(t, "routing", new)
<1>1. Routed(t, c) = u
  BY DEF Routed
<1>2. /\ F1 = {"readLatency", "writeLatency", "resetLatency", "setLatency",
                "readEnergy", "writeEnergy", "resetEnergy", "setEnergy", "leakage"}
      /\ Totals = (F1 \cup {"refreshLatency"}) \cup {"refreshEnergy"}
      /\ F1 \cap {"refreshLatency"} = {} /\ (F1 \cup {"refreshLatency"}) \cap {"refreshEnergy"} = {}
  <2>1. F1 = {"readLatency", "writeLatency", "resetLatency", "setLatency",
                "readEnergy", "writeEnergy", "resetEnergy", "setEnergy", "leakage"}
    BY DEF Carried
  <2>2. Totals = (F1 \cup {"refreshLatency"}) \cup {"refreshEnergy"}
    BY <2>1, TotalsAre
  <2> QED
    BY <2>1, <2>2
<1>3. /\ DOMAIN one = F1 /\ DOMAIN two = {"refreshLatency"} /\ DOMAIN three = {"refreshEnergy"}
      /\ \A f \in F1 : one[f] = left(f, TRUE)
      /\ two["refreshLatency"] = left("refreshLatency", ~c.many)
      /\ three["refreshEnergy"] = left("refreshEnergy", ~c.many)
  <2> HIDE DEF left
  <2> QED
    BY <1>2 DEF All
<1>4. \A f \in F1 : Subtracted(f) = TRUE
  BY <1>2 DEF Subtracted
<1>5. Subtracted("refreshLatency") <=> ~c.many
  BY DEF Subtracted
<1>6. Subtracted("refreshEnergy") <=> ~c.many
  BY DEF Subtracted
<1>7. \A f : Less(Fig(t, "bank", f), Fig(t, "mat", f), Subtracted(f)) =
             IF Subtracted(f) THEN Fig(t, "bank", f) \ Fig(t, "mat", f) ELSE Fig(t, "bank", f)
  BY DEF Less
<1> HIDE DEF one, two, three, F1
<1>8. DOMAIN (one ++ two) = F1 \cup {"refreshLatency"}
      /\ (\A f \in F1 : (one ++ two)[f] = one[f])
      /\ (one ++ two)["refreshLatency"] = two["refreshLatency"]
  BY <1>2, <1>3 DEF ++
<1> DEFINE both == one ++ two
<1> HIDE DEF both
<1>9. both ++ three = [f \in Totals |-> (both ++ three)[f]]
      /\ (\A f \in F1 \cup {"refreshLatency"} : (both ++ three)[f] = both[f])
      /\ (both ++ three)["refreshEnergy"] = three["refreshEnergy"]
  BY <1>2, <1>3, <1>8 DEF ++, both
<1>10. /\ new = [f \in Totals |-> new[f]]
       /\ \A f \in F1 : new[f] = left(f, TRUE)
       /\ new["refreshLatency"] = left("refreshLatency", ~c.many)
       /\ new["refreshEnergy"] = left("refreshEnergy", ~c.many)
  BY <1>3, <1>8, <1>9 DEF both
<1> HIDE DEF new
<1>11. \A f \in Totals : new[f] = Less(Fig(t, "bank", f), Fig(t, "mat", f), Subtracted(f))
  <2>1. \A f \in F1 : new[f] = Less(Fig(t, "bank", f), Fig(t, "mat", f), Subtracted(f))
    BY <1>4, <1>7, <1>10 DEF Less
  <2>2. new["refreshLatency"] = Less(Fig(t, "bank", "refreshLatency"), Fig(t, "mat", "refreshLatency"), Subtracted("refreshLatency"))
    BY <1>5, <1>7, <1>10 DEF Less
  <2>3. new["refreshEnergy"] = Less(Fig(t, "bank", "refreshEnergy"), Fig(t, "mat", "refreshEnergy"), Subtracted("refreshEnergy"))
    BY <1>6, <1>7, <1>10 DEF Less
  <2> QED
    BY <1>2, <2>1, <2>2, <2>3
<1>12. /\ Computes(Parts, t, u)
       /\ \A q \in Parts, f \in Fields :
            Fig(u, q, f) = IF q = "routing" /\ f \in Totals THEN new[f] ELSE Fig(t, q, f)
  <2>1. "routing" \in Parts
    BY UnitNames DEF Kept
  <2>2. LET x == Put(t, "routing", new)
        IN  /\ Computes(Parts, t, x)
            /\ \A q \in Parts, f \in Fields :
                 Fig(x, q, f) = IF q = "routing" /\ f \in Totals THEN new[f] ELSE Fig(t, q, f)
    BY <1>10, <2>1, TotalsAre, PutGives
  <2> QED
    BY <2>2
<1> HIDE DEF u
<1>13. "routing" \in Parts /\ \A f \in Totals : f \in Fields
  BY UnitNames, TotalsAre DEF Kept
<1>14. Works(Parts, t, u, {"routing"}, Moving)
  BY <1>12, TotalsAre DEF Works
<1>15. \A f \in Totals : Fig(u, "routing", f) = new[f]
  BY <1>12, <1>13
<1> QED
  BY <1>1, <1>11, <1>14, <1>15

(* What the way to the furthest die adds to a figure of the bank.           *)
Extra(f) ==
  IF ~Stacked(c) \/ f = "leakage" \/ (c.htree /\ f = "refreshLatency") THEN {}
  ELSE {"bank_tsv"}

Across(t, u) ==
  /\ Works(Parts, t, u, {"bank", "bank_tsv"}, Moving) /\ Modest(u)
  /\ \A f \in Totals : Fig(u, "bank", f) = Fig(t, "bank", f) \oplus Extra(f)
  /\ Stacked(c) => \A f \in Carried : Fig(u, "bank_tsv", f) = {"bank_tsv"}

LEMMA PlusNothing ==
  ASSUME NEW x
  PROVE  x \oplus {} = x
BY DEF \oplus

(* Bank: the TSVs to the furthest die.                                      *)
LEMMA WithTsvsGives ==
  ASSUME NEW t, IsState(Parts, t), Modest(t), Stacked(c) => Known(t, "bank_tsv"),
         \A f \in Powering : Fig(t, "bank_tsv", f) = {}
  PROVE  Across(t, WithTsvs(t, c))
<1>1. CASE ~Stacked(c)
  <2>1. WithTsvs(t, c) = t
    BY <1>1 DEF WithTsvs
  <2>2. \A f \in Totals : Fig(t, "bank", f) = Fig(t, "bank", f) \oplus Extra(f)
    BY <1>1, PlusNothing DEF Extra
  <2>3. Works(Parts, t, t, {"bank", "bank_tsv"}, Moving)
    BY DEF Works, Computes
  <2> QED
    BY <1>1, <2>1, <2>2, <2>3 DEF Across
<1>2. CASE Stacked(c)
  <2> DEFINE v == TsvLatencyAndPower(t, "bank_tsv")
             add(f, share) == Fig(v, "bank", f) \oplus share
             tsv(f) == Fig(v, "bank_tsv", f)
             down == IF c.htree THEN {} ELSE tsv("writeLatency")
             new == [readLatency   |-> add("readLatency", tsv("readLatency") \cup tsv("writeLatency")),
              writeLatency  |-> add("writeLatency", tsv("writeLatency")),
              resetLatency  |-> add("resetLatency", tsv("resetLatency")),
              setLatency    |-> add("setLatency", tsv("setLatency")),
              refreshLatency |-> add("refreshLatency", down),
              readEnergy    |-> add("readEnergy", tsv("writeEnergy") \cup tsv("readEnergy")),
              writeEnergy   |-> add("writeEnergy", tsv("writeEnergy")),
              resetEnergy   |-> add("resetEnergy", tsv("resetEnergy")),
              setEnergy     |-> add("setEnergy", tsv("setEnergy")),
              refreshEnergy |-> add("refreshEnergy", tsv("writeEnergy")),
              leakage       |-> add("leakage", tsv("leakage"))]
             u == Put(v, "bank", new)
  <2>1. WithTsvs(t, c) = u
    BY <1>2 DEF WithTsvs
  <2>2. Crossed(t, v, "bank_tsv")
    <3>1. {"readEnergy", "writeEnergy"} \subseteq Powering
      BY PoweringIs
    <3>2. "bank_tsv" \in Tsvs
      BY DEF Tsvs
    <3> QED
      BY <1>2, <3>1, <3>2, TsvStep
  <2> HIDE DEF v
  <2>3. /\ Works(Parts, t, v, {"bank_tsv"}, Moving) /\ IsState(Parts, v)
        /\ \A f \in Carried : tsv(f) = {"bank_tsv"}
        /\ tsv("leakage") = {}
    <3>1. Works(Parts, t, v, {"bank_tsv"}, Carried) /\ \A f \in Carried : tsv(f) = {"bank_tsv"}
      BY <2>2 DEF Crossed, Carried
    <3>2. Works(Parts, t, v, {"bank_tsv"}, Moving)
      BY <3>1, MovingFields, WorksMore
    <3>3. "bank_tsv" \in Parts /\ "leakage" \in Fields /\ "leakage" \notin Carried /\ "leakage" \in Powering
      BY UnitNames, UnitKinds, PoweringIs DEF Units, Tsvs, Fields, Figure, Carried
    <3>4. Fig(v, "bank_tsv", "leakage") = {}
      BY <3>1, <3>3 DEF Works
    <3> QED
      BY <3>1, <3>2, <3>4 DEF Works, Computes
  <2>4. \A f \in Totals : Fig(v, "bank", f) = Fig(t, "bank", f)
    <3>1. "bank" \in Parts /\ "bank" \notin {"bank_tsv"}
      BY UnitNames DEF Sums
    <3> QED
      BY <2>3, <3>1, TotalsAre DEF Works
  <2>5. down = IF c.htree THEN {} ELSE {"bank_tsv"}
    BY <2>3 DEF Carried
  <2>6. new = [f \in Totals |-> new[f]]
    <3> HIDE DEF add, tsv, down
    <3> QED
      BY TotalsAre
  <2>7. \A f \in Totals : new[f] = add(f, Extra(f))
    <3>1. \A f \in Carried \cup {"refreshEnergy"} : Extra(f) = {"bank_tsv"}
      BY <1>2 DEF Extra, Carried
    <3>2. Extra("refreshLatency") = down /\ Extra("leakage") = {}
      BY <1>2, <2>5 DEF Extra
    <3>3. tsv("readLatency") \cup tsv("writeLatency") = {"bank_tsv"}
          /\ tsv("writeEnergy") \cup tsv("readEnergy") = {"bank_tsv"}
      BY <2>3 DEF Carried
    <3>4. \A f \in Carried \ {"readLatency", "readEnergy"} : new[f] = add(f, tsv(f))
      <4> HIDE DEF add, tsv, down
      <4> QED
        BY DEF Carried
    <3>5. /\ new["readLatency"] = add("readLatency", tsv("readLatency") \cup tsv("writeLatency"))
          /\ new["readEnergy"] = add("readEnergy", tsv("writeEnergy") \cup tsv("readEnergy"))
          /\ new["refreshEnergy"] = add("refreshEnergy", tsv("writeEnergy"))
          /\ new["refreshLatency"] = add("refreshLatency", down)
          /\ new["leakage"] = add("leakage", tsv("leakage"))
      <4> HIDE DEF add, tsv, down
      <4> QED
        OBVIOUS
    <3>6. \A f \in Carried : f \in Carried \ {"readLatency", "readEnergy"} \/ f = "readLatency" \/ f = "readEnergy"
      OBVIOUS
    <3>7. "writeEnergy" \in Carried /\ "readLatency" \in Carried /\ "readEnergy" \in Carried
      BY DEF Carried
    <3>8. Totals = (Carried \cup {"leakage"}) \cup {"refreshLatency", "refreshEnergy"}
      BY TotalsAre DEF Carried
    <3> HIDE DEF add, new, down, tsv
    <3>9. \A f \in Carried : new[f] = add(f, Extra(f))
      BY <2>3, <3>1, <3>3, <3>4, <3>5, <3>6 DEF tsv
    <3>10. new["refreshEnergy"] = add("refreshEnergy", Extra("refreshEnergy"))
      BY <2>3, <3>1, <3>5, <3>7 DEF tsv
    <3>11. new["refreshLatency"] = add("refreshLatency", Extra("refreshLatency")) /\ new["leakage"] = add("leakage", Extra("leakage"))
      BY <2>3, <3>2, <3>5 DEF tsv
    <3> QED
      BY <3>8, <3>9, <3>10, <3>11
  <2> HIDE DEF new, down
  <2>8. /\ Computes(Parts, v, u)
        /\ \A q \in Parts, f \in Fields :
             Fig(u, q, f) = IF q = "bank" /\ f \in Totals THEN new[f] ELSE Fig(v, q, f)
    <3>1. "bank" \in Parts
      BY UnitNames DEF Sums
    <3>2. LET x == Put(v, "bank", new)
          IN  /\ Computes(Parts, v, x)
              /\ \A q \in Parts, f \in Fields :
                   Fig(x, q, f) = IF q = "bank" /\ f \in Totals THEN new[f] ELSE Fig(v, q, f)
      BY <2>3, <2>6, <3>1, TotalsAre, PutGives
    <3> QED
      BY <3>2
  <2> HIDE DEF u
  <2>9. Works(Parts, v, u, {"bank"}, Moving)
    BY <2>8, TotalsAre DEF Works
  <2>10. \A f \in Totals : Fig(u, "bank", f) = Fig(t, "bank", f) \oplus Extra(f)
    <3>1. "bank" \in Parts /\ \A f \in Totals : f \in Fields
      BY UnitNames, TotalsAre DEF Sums
    <3>2. \A f \in Totals : Fig(u, "bank", f) = new[f]
      BY <2>8, <3>1
    <3> QED
      BY <2>4, <2>7, <3>2
  <2>11. Works(Parts, t, u, {"bank", "bank_tsv"}, Moving)
    <3>1. Works(Parts, t, u, {"bank_tsv"} \cup {"bank"}, Moving \cup Moving)
      BY <2>3, <2>9, WorksThen
    <3> QED
      BY <3>1, WorksMore
  <2>12. \A f \in Carried : Fig(u, "bank_tsv", f) = {"bank_tsv"}
    <3>1. "bank_tsv" \in Parts /\ "bank_tsv" \notin {"bank"} /\ \A f \in Carried : f \in Fields
      BY UnitNames, MovingFields, FieldNames DEF Units, Tsvs
    <3>2. \A f \in Carried : Fig(u, "bank_tsv", f) = Fig(v, "bank_tsv", f)
      BY <2>9, <3>1 DEF Works
    <3> QED
      BY <2>3, <3>2
  <2>13. Modest(u)
    <3>1. Modest(v)
      <4>1. \A f \in Carried : {"bank_tsv"} \subseteq Share("bank_tsv")
        BY <1>2, OptionShares
      <4>2. ASSUME NEW p \in Units, NEW f \in Figure PROVE Fig(v, p, f) \subseteq Share(p)
        <5>1. p \in Parts /\ f \in Fields /\ Fig(t, p, f) \subseteq Share(p)
          BY UnitParts, FieldNames DEF Modest
        <5>2. CASE p = "bank_tsv" /\ f \in Carried
          BY <2>3, <4>1, <5>2
        <5>3. CASE ~(p = "bank_tsv" /\ f \in Carried)
          <6>1. Fig(v, p, f) = Fig(t, p, f)
            BY <2>2, <5>1, <5>3 DEF Crossed, Works, Carried
          <6> QED
            BY <5>1, <6>1
        <5> QED
          BY <5>2, <5>3
      <4> QED
        BY <4>2 DEF Modest
    <3>2. "bank" \in Sums \cup Kept
      BY DEF Sums
    <3> QED
      BY <2>9, <3>1, <3>2, SumsModest
  <2> QED
    BY <2>1, <2>10, <2>11, <2>12, <2>13 DEF Across
<1> QED
  BY <1>1, <1>2

-----------------------------------------------------------------------------
(* The figures of a bank when its last method has run: what its lines take, *)
(* what each of its mats takes, and the way between the dies.               *)
BankAll  == BankWired \cup {"bank_tsv"}

FinalTotals(x) ==
  /\ \A f \in Totals : "bitlineShift" \in Fig(x, "bank", f) <=> Shifted(f)
  /\ \A f \in Totals :
       /\ Mixed(Fig(x, "bank", f), BankAll)
       /\ Fig(x, "mat", f) \subseteq Fig(x, "bank", f) /\ "bank_tsv" \notin Fig(x, "mat", f)
       /\ "bank_tsv" \in Fig(x, "bank", f) <=> Extra(f) # {}
       /\ Fig(x, "routing", f) = Less(Fig(x, "bank", f) \ {"bank_tsv"}, Fig(x, "mat", f), Subtracted(f))
  /\ \A f \in Latencies \cup Drawing : Counted(f) => Clean(Fig(x, "bank", f), BankAll)
  /\ Fully(Fig(x, "bank", "readLatency"), BankReads \cup {"bank_tsv"})
  /\ Fully(Fig(x, "bank", "readEnergy"), BankDraws \cup {"bank_tsv"})
  /\ Fully(Fig(x, "bank", "leakage"), BankLeaks)
  /\ Stacked(c) => \A f \in Carried : Fig(x, "bank_tsv", f) = {"bank_tsv"}

BankMoved == MatsMoved \cup {"bank", "routing"}

Finished(t, x) ==
  /\ Works(Parts, t, x, BankMoved, Moving) /\ Modest(x) /\ MatFigures(x) /\ FinalTotals(x)

LEMMA TsvApart ==
  /\ "bank_tsv" \notin Sum(BankWired) \cup Unset(c) \cup {Twice} \cup {Garbage}
  /\ \A f : Extra(f) \subseteq Sum({"bank_tsv"}) /\ Extra(f) \subseteq {"bank_tsv"}
  /\ Extra("readLatency") = Sum({"bank_tsv"}) /\ Extra("readEnergy") = Sum({"bank_tsv"})
  /\ Extra("leakage") = {}
<1>1. "bank_tsv" \notin Sum(BankWired)
  <2>1. ASSUME NEW p \in BankWired PROVE "bank_tsv" \notin Share(p)
    <3>1. p \in Labels /\ "bank_tsv" \in Labels /\ p # "bank_tsv"
      BY WiredLabels
    <3>2. Around(p) \cap Around("bank_tsv") = {} /\ Share(p) \subseteq Around(p)
      BY <3>1, AroundsDiffer, ShareIs
    <3>3. "bank_tsv" \in Around("bank_tsv")
      BY DEF Around
    <3> QED
      BY <3>2, <3>3
  <2> QED
    BY <2>1 DEF Sum
<1>2. "bank_tsv" \notin Unset(c) \cup {Twice} \cup {Garbage}
  BY DEF Unset, Twice, Garbage
<1>3. Sum({"bank_tsv"}) = IF Stacked(c) THEN {"bank_tsv"} ELSE {}
  BY SumOfOne, OptionShares
<1>4. \A f : Extra(f) \subseteq Sum({"bank_tsv"}) /\ Extra(f) \subseteq {"bank_tsv"}
  BY <1>3 DEF Extra
<1>5. Extra("readLatency") = Sum({"bank_tsv"}) /\ Extra("readEnergy") = Sum({"bank_tsv"}) /\ Extra("leakage") = {}
  BY <1>3 DEF Extra
<1> QED
  BY <1>1, <1>2, <1>4, <1>5

LEMMA PlusExtra ==
  ASSUME NEW x, Mixed(x, BankWired), NEW f
  PROVE  x \oplus Extra(f) = x \cup Extra(f) /\ "bank_tsv" \notin x
<1>1. "bank_tsv" \notin x
  BY TsvApart DEF Mixed
<1>2. x \cap Extra(f) = {}
  BY <1>1, TsvApart
<1> QED
  BY <1>1, <1>2 DEF \oplus

(* The last two steps of both CalculateLatencyAndPower(): the lines by      *)
(* subtraction, and the TSVs.                                               *)
LEMMA TotalsFinal ==
  ASSUME NEW v, IsState(Parts, v), Modest(v), MatFigures(v), BankTotals(v),
         Stacked(c) => Known(v, "bank_tsv"), \A f \in Powering : Fig(v, "bank_tsv", f) = {}
  PROVE  LET x == WithTsvs(Routed(v, c), c)
         IN  /\ Works(Parts, v, x, {"bank", "bank_tsv", "routing"}, Moving)
             /\ Modest(x) /\ MatFigures(x) /\ FinalTotals(x)
<1> DEFINE r == Routed(v, c)
           x == WithTsvs(r, c)
<1>1. /\ Works(Parts, v, r, {"routing"}, Moving)
      /\ \A f \in Totals : Fig(r, "routing", f) =
           Less(Fig(v, "bank", f), Fig(v, "mat", f), Subtracted(f))
  BY RoutedGives
<1> HIDE DEF r
<1>2. /\ "routing" \in Kept /\ {"bank", "mat", Sub, "routing", "bank_tsv"} \subseteq Parts
      /\ "bank_tsv" \in Units /\ "routing" \notin Units
      /\ {"bank", "mat", "routing"} \cap {"bank_tsv"} = {} /\ "routing" \notin {"bank", "mat"}
  BY UnitNames DEF Kept, Sums, Units, Tsvs
<1>3. IsState(Parts, r) /\ Modest(r)
  <2>1. "routing" \in Sums \cup Kept
    BY <1>2
  <2> QED
    BY <1>1, <2>1, SumsModest DEF Works, Computes
<1>4. Stacked(c) => Known(r, "bank_tsv")
  BY <1>1, <1>2, MovingFields, StaysReady
<1>5. \A f \in Powering : Fig(r, "bank_tsv", f) = {}
  BY <1>1, <1>2, FieldNames DEF Works
<1>6. Across(r, x)
  BY <1>3, <1>4, <1>5, WithTsvsGives
<1> HIDE DEF x
<1>7. Works(Parts, v, x, {"bank", "bank_tsv", "routing"}, Moving)
  <2>1. Works(Parts, v, x, {"routing"} \cup {"bank", "bank_tsv"}, Moving \cup Moving)
    BY <1>1, <1>6, WorksThen DEF Across
  <2> QED
    BY <2>1, WorksMore
<1>8. {"bank", "bank_tsv", "routing"} \cap ({"mat", Sub, "predecoder", "mat_tsv"} \cup Selects) = {}
  BY DEF Sub, Selects, Column
<1>9. MatFigures(x)
  BY <1>7, <1>8, MatFiguresStay
<1>10. ASSUME NEW f \in Totals
       PROVE  /\ Fig(x, "bank", f) = Fig(v, "bank", f) \cup Extra(f)
              /\ "bank_tsv" \notin Fig(v, "bank", f)
              /\ Fig(x, "mat", f) = Fig(v, "mat", f)
              /\ Fig(x, "routing", f) = Less(Fig(v, "bank", f), Fig(v, "mat", f), Subtracted(f))
  <2>1. f \in Fields
    BY TotalsAre
  <2>2. Fig(r, "bank", f) = Fig(v, "bank", f)
    BY <1>1, <1>2, <2>1 DEF Works
  <2>3. Fig(x, "mat", f) = Fig(v, "mat", f)
    BY <1>2, <1>7, <2>1 DEF Works
  <2>4. Fig(x, "routing", f) = Fig(r, "routing", f)
    BY <1>2, <1>6, <2>1 DEF Works, Across
  <2>5. Mixed(Fig(v, "bank", f), BankWired)
    BY DEF BankTotals
  <2> QED
    BY <1>1, <1>6, <2>2, <2>3, <2>4, <2>5, PlusExtra DEF Across
<1>11. \A f \in Totals :
         /\ Fig(v, "mat", f) \subseteq Fig(v, "bank", f) /\ Mixed(Fig(v, "bank", f), BankWired)
  BY DEF BankTotals
<1>12. \A f : Clean(Extra(f), {"bank_tsv"}) /\ Clean(Extra(f), BankAll)
  <2>1. \A f : Clean(Extra(f), {"bank_tsv"})
    BY TsvApart, CleanMore
  <2> QED
    BY <2>1, CleanMore DEF BankAll
<1>13. ASSUME NEW f \in Totals
       PROVE  /\ Mixed(Fig(x, "bank", f), BankAll)
              /\ Fig(x, "mat", f) \subseteq Fig(x, "bank", f) /\ "bank_tsv" \notin Fig(x, "mat", f)
              /\ "bank_tsv" \in Fig(x, "bank", f) <=> Extra(f) # {}
              /\ Fig(x, "routing", f) = Less(Fig(x, "bank", f) \ {"bank_tsv"}, Fig(x, "mat", f), Subtracted(f))
  <2>1. Mixed(Fig(v, "bank", f), BankAll) /\ Mixed(Extra(f), BankAll)
    BY <1>11, <1>12, CleanMore DEF BankAll
  <2>2. Mixed(Fig(x, "bank", f), BankAll)
    BY <1>10, <2>1, CleanUnion
  <2>3. Extra(f) \subseteq {"bank_tsv"}
    BY TsvApart
  <2>4. Fig(x, "bank", f) \ {"bank_tsv"} = Fig(v, "bank", f)
    BY <1>10, <2>3
  <2> QED
    BY <1>10, <1>11, <2>2, <2>3, <2>4
<1>14. ASSUME NEW f \in Latencies \cup Drawing, Counted(f) PROVE Clean(Fig(x, "bank", f), BankAll)
  <2>1. Clean(Fig(v, "bank", f), BankWired) /\ f \in Totals
    BY <1>14, TotalsAre DEF BankTotals
  <2>2. Clean(Fig(v, "bank", f), BankAll)
    BY <2>1, CleanMore DEF BankAll
  <2> QED
    BY <1>10, <1>12, <2>1, <2>2, CleanUnion
<1>15. /\ Fully(Fig(x, "bank", "readLatency"), BankReads \cup {"bank_tsv"})
       /\ Fully(Fig(x, "bank", "readEnergy"), BankDraws \cup {"bank_tsv"})
       /\ Fully(Fig(x, "bank", "leakage"), BankLeaks)
  <2>1. Fully(Sum({"bank_tsv"}), {"bank_tsv"})
    BY FullySum
  <2>2. "readLatency" \in Totals /\ "readEnergy" \in Totals /\ "leakage" \in Totals
    BY TotalsAre
  <2>3. /\ Fully(Fig(v, "bank", "readLatency"), BankReads) /\ Fully(Fig(v, "bank", "readEnergy"), BankDraws)
        /\ Fully(Fig(v, "bank", "leakage"), BankLeaks)
    BY DEF BankTotals
  <2>4. Fig(x, "bank", "leakage") = Fig(v, "bank", "leakage")
    BY <1>10, <2>2, TsvApart
  <2>5. /\ Fig(x, "bank", "readLatency") = Fig(v, "bank", "readLatency") \cup Sum({"bank_tsv"})
        /\ Fig(x, "bank", "readEnergy") = Fig(v, "bank", "readEnergy") \cup Sum({"bank_tsv"})
    BY <1>10, <2>2, TsvApart
  <2>6. Fully(Fig(v, "bank", "readLatency") \cup Sum({"bank_tsv"}), BankReads \cup {"bank_tsv"})
    BY <2>1, <2>3, FullyPlus
  <2>7. Fully(Fig(v, "bank", "readEnergy") \cup Sum({"bank_tsv"}), BankDraws \cup {"bank_tsv"})
    BY <2>1, <2>3, FullyPlus
  <2> QED
    BY <2>3, <2>4, <2>5, <2>6, <2>7
<1>16. Stacked(c) => \A f \in Carried : Fig(x, "bank_tsv", f) = {"bank_tsv"}
  BY <1>6 DEF Across
<1>19. ASSUME NEW f \in Totals
       PROVE  "bitlineShift" \in Fig(x, "bank", f) <=> Shifted(f)
  <2>1. "bitlineShift" \notin Extra(f)
    BY TsvApart
  <2> QED
    BY <1>10, <2>1 DEF BankTotals
<1>17. FinalTotals(x)
  BY <1>13, <1>14, <1>15, <1>16, <1>19 DEF FinalTotals
<1>18. Modest(x)
  BY <1>6 DEF Across
<1> QED
  BY <1>7, <1>9, <1>17, <1>18 DEF x, r

(* Both CalculateLatencyAndPower(), but for the check of the retention.     *)
LEMMA HtreeFinishes ==
  ASSUME NEW t, Primed(t), c.htree, c.internal
  PROVE  \E x : Finished(t, x) /\ BankLatencyAndPower(t, c) = Retained(x, c)
<1> DEFINE m == MatPower(MatLatency(t, c), c)
           v == WithWires(m, c)
           x == WithTsvs(Routed(v, c), c)
<1>1. MatsWorked(t, m)
  BY MatsWork
<1>2. BankLatencyAndPower(t, c) = Retained(x, c)
  <2>1. "bank" \in t.made /\ "bank" \notin t.bad
    BY DEF Primed, Standing
  <2> QED
    BY <2>1 DEF BankLatencyAndPower, HtreeLatencyAndPower, Rated, When
<1> HIDE DEF m
<1>3. IsState(Parts, m) /\ MatFigures(m) /\ Modest(m)
  BY <1>1 DEF MatsWorked, Works, Computes
<1>4. Works(Parts, m, v, {"bank"}, Moving) /\ BankTotals(v)
  BY <1>3, HtreeTotals
<1> HIDE DEF v
<1>5. Modest(v) /\ IsState(Parts, v) /\ MatFigures(v)
  <2>1. "bank" \in Sums \cup Kept
    BY DEF Sums
  <2>2. {"bank"} \cap ({"mat", Sub, "predecoder", "mat_tsv"} \cup Selects) = {}
    BY DEF Sub, Selects, Column
  <2>3. Modest(v) /\ MatFigures(v)
    BY <1>3, <1>4, <2>1, <2>2, SumsModest, MatFiguresStay
  <2> QED
    BY <1>4, <2>3 DEF Works, Computes
<1>6. Works(Parts, t, v, MatsMoved \cup {"bank"}, Moving)
  <2>1. Works(Parts, t, v, MatsMoved \cup {"bank"}, Moving \cup Moving)
    BY <1>1, <1>4, WorksThen DEF MatsWorked
  <2> QED
    BY <2>1, WorksMore
<1>7. Stacked(c) => Known(v, "bank_tsv")
  <2>1. "bank_tsv" \in Units /\ (Stacked(c) => "bank_tsv" \in BankUnits)
    BY DEF Units, Tsvs, BankUnits
  <2> QED
    BY <1>6, <2>1, MovingFields, StaysReady DEF Primed, Ready
<1>8. \A f \in Powering : Fig(v, "bank_tsv", f) = {}
  <2>1. "bank_tsv" \in Globals /\ "bank_tsv" \in Parts /\ "bank_tsv" \notin {"bank"}
    BY UnitNames DEF Globals, Units, Tsvs
  <2> QED
    BY <1>1, <1>4, <2>1, FieldNames DEF MatsWorked, Works
<1>9. Works(Parts, v, x, {"bank", "bank_tsv", "routing"}, Moving) /\ Modest(x) /\ MatFigures(x) /\ FinalTotals(x)
  BY <1>4, <1>5, <1>7, <1>8, TotalsFinal
<1> HIDE DEF x
<1>10. Works(Parts, t, x, BankMoved, Moving)
  <2>1. Works(Parts, t, x, (MatsMoved \cup {"bank"}) \cup {"bank", "bank_tsv", "routing"}, Moving \cup Moving)
    BY <1>6, <1>9, WorksThen
  <2>2. (MatsMoved \cup {"bank"}) \cup {"bank", "bank_tsv", "routing"} \subseteq BankMoved
    BY DEF BankMoved, MatsMoved, Units, Tsvs
  <2> QED
    BY <2>1, <2>2, WorksMore
<1> QED
  BY <1>2, <1>9, <1>10 DEF Finished

LEMMA BusFinishes ==
  ASSUME NEW t, Primed(t), ~c.htree
  PROVE  \E x : Finished(t, x) /\ BankLatencyAndPower(t, c) = Retained(x, c)
<1> DEFINE m0 == MatPower(MatLatency(t, c), c)
           m == SenseOutside(m0, c)
           w == BusWires(t, m, c)
           v == WithMats(w)
           x == WithTsvs(Routed(v, c), c)
<1>1. MatsWorked(t, m0)
  BY MatsWork
<1>2. "bank" \in t.made /\ "bank" \notin t.bad
  BY DEF Primed, Standing
<1>3. BankLatencyAndPower(t, c) = Retained(x, c)
  BY <1>2 DEF BankLatencyAndPower, BusLatencyAndPower, BusTsvs
<1> HIDE DEF m0
<1>4. Units \cap {"gates", "cap"} = {} /\ Moving \cap {"gates", "cap"} = {}
  BY MovingFields DEF Units, Gated, Selects, Column, Muxes, BlockSet, Amps, Compares, Tsvs
<1>5. IsState(Parts, m0) /\ Modest(m0) /\ \A p \in BankUnits : Known(m0, p)
  <2>1. ASSUME NEW p \in BankUnits PROVE Known(m0, p)
    BY <1>1, <1>4, TheBankUnits, StaysReady DEF MatsWorked, Primed, Ready
  <2> QED
    BY <1>1, <2>1 DEF MatsWorked, Works, Computes
<1>6. Works(Parts, m0, m, Outer, Moving) /\ Modest(m) /\ (~c.internal => OuterShares(m))
  BY <1>5, SenseOutsideGives
<1> HIDE DEF m
<1>7. IsState(Parts, m) /\ MatFigures(m)
  <2>1. Outer \cap ({"mat", Sub, "predecoder", "mat_tsv"} \cup Selects) = {}
    BY DEF Outer, Sub, Selects, Column
  <2>2. MatFigures(m0)
    BY <1>1 DEF MatsWorked
  <2>3. MatFigures(m)
    BY <1>6, <2>1, <2>2, MatFiguresStay
  <2> QED
    BY <1>6, <2>3 DEF Works, Computes
<1>8. Stands(t, "bank")
  BY <1>2 DEF Stands
<1>9. Works(Parts, m, v, {"bank"}, Moving) /\ BankTotals(v)
  BY <1>6, <1>7, <1>8, BusTotals
<1> HIDE DEF v
<1>10. Modest(v) /\ IsState(Parts, v) /\ MatFigures(v)
  <2>1. "bank" \in Sums \cup Kept
    BY DEF Sums
  <2>2. {"bank"} \cap ({"mat", Sub, "predecoder", "mat_tsv"} \cup Selects) = {}
    BY DEF Sub, Selects, Column
  <2>3. Modest(v)
    BY <1>6, <1>9, <2>1, SumsModest
  <2>4. MatFigures(v)
    BY <1>7, <1>9, <2>2, MatFiguresStay
  <2> QED
    BY <1>9, <2>3, <2>4 DEF Works, Computes
<1>11. Works(Parts, t, v, MatsMoved \cup {"bank"}, Moving)
  <2>1. Works(Parts, t, m, MatsMoved \cup Outer, Moving \cup Moving)
    BY <1>1, <1>6, WorksThen DEF MatsWorked
  <2>2. Works(Parts, t, v, (MatsMoved \cup Outer) \cup {"bank"}, (Moving \cup Moving) \cup Moving)
    BY <1>9, <2>1, WorksThen
  <2>3. (MatsMoved \cup Outer) \cup {"bank"} \subseteq MatsMoved \cup {"bank"}
    BY OuterNames DEF MatsMoved
  <2> QED
    BY <2>2, <2>3, WorksMore
<1>12. Stacked(c) => Known(v, "bank_tsv")
  <2>1. "bank_tsv" \in Units /\ (Stacked(c) => "bank_tsv" \in BankUnits)
    BY DEF Units, Tsvs, BankUnits
  <2> QED
    BY <1>11, <2>1, MovingFields, StaysReady DEF Primed, Ready
<1>13. \A f \in Powering : Fig(v, "bank_tsv", f) = {}
  <2>1. "bank_tsv" \in Globals /\ "bank_tsv" \in Parts /\ "bank_tsv" \notin {"bank"} /\ "bank_tsv" \notin Outer
    BY UnitNames DEF Globals, Units, Tsvs, Outer
  <2>2. \A f \in Powering : Fig(m, "bank_tsv", f) = Fig(m0, "bank_tsv", f)
    BY <1>6, <2>1, FieldNames DEF Works
  <2>3. \A f \in Powering : Fig(v, "bank_tsv", f) = Fig(m, "bank_tsv", f)
    BY <1>9, <2>1, FieldNames DEF Works
  <2> QED
    BY <1>1, <2>1, <2>2, <2>3 DEF MatsWorked
<1>14. Works(Parts, v, x, {"bank", "bank_tsv", "routing"}, Moving) /\ Modest(x) /\ MatFigures(x) /\ FinalTotals(x)
  BY <1>9, <1>10, <1>12, <1>13, TotalsFinal
<1> HIDE DEF x
<1>15. Works(Parts, t, x, BankMoved, Moving)
  <2>1. Works(Parts, t, x, (MatsMoved \cup {"bank"}) \cup {"bank", "bank_tsv", "routing"}, Moving \cup Moving)
    BY <1>11, <1>14, WorksThen
  <2>2. (MatsMoved \cup {"bank"}) \cup {"bank", "bank_tsv", "routing"} \subseteq BankMoved
    BY DEF BankMoved, MatsMoved, Units, Tsvs
  <2> QED
    BY <2>1, <2>2, WorksMore
<1> QED
  BY <1>3, <1>14, <1>15 DEF Finished

(* What the retention check of a DRAM does to a bank.                       *)
LEMMA RetainedGives ==
  ASSUME NEW x, IsState(Parts, x)
  PROVE  LET y == Retained(x, c)
         IN  /\ IsState(Parts, y) /\ y.made = x.made /\ y.complaints = x.complaints
             /\ \A q \in Parts, f \in Fields : Fig(y, q, f) = Fig(x, q, f)
             /\ y = x \/ (y.bad = x.bad \cup {"bank"} /\ c.fault = "retention")
<1>1. "bank" \in Parts
  BY UnitNames DEF Sums
<1> QED
  BY <1>1, InvalidateGives DEF Retained

-----------------------------------------------------------------------------
(* A bank that is being initialized: the units in S are, nothing is invalid *)
(* or has complained, and no figure but areas is known.                     *)
Start == [fig |-> Constructed, made |-> {}, bad |-> {}, complaints |-> {}]

Built(t, S) ==
  /\ IsState(Parts, t) /\ t.bad = {} /\ t.complaints = {} /\ Modest(t) /\ Idle(t)
  /\ \A p \in Units \ S : Around(p) \cap t.made = {}
  /\ \A p \in S : Begun(t, p)

Building == {"gates", "cap"}

(* What an Initialize(), with the CalculateRC() behind it, does to a unit.  *)
Raises(t, u, p) ==
  /\ Initializes(Parts, t, u, Around(p))
  /\ \A q \in Parts, f \in Fields :
       q \notin Around(p) \/ f \notin Building => Fig(u, q, f) = Fig(t, q, f)
  /\ Begun(u, p)

Same(t, u) ==
  /\ \A q \in Parts, f \in Fields \ Building : Fig(u, q, f) = Fig(t, q, f)
  /\ Sums \cap u.made = Sums \cap t.made

LEMMA StartIsState ==
  /\ IsState(Parts, Start) /\ Start.made = {} /\ Start.bad = {} /\ Start.complaints = {}
  /\ \A p \in Parts \ Kept, f \in Figure : Fig(Start, p, f) = {}
<1>1. Start.fig = Constructed /\ Start.made = {} /\ Start.bad = {} /\ Start.complaints = {}
  BY DEF Start
<1>2. Constructed = [p \in Parts |-> Constructed[p]]
  BY DEF Constructed
<1>3. ASSUME NEW p \in Parts
      PROVE  Constructed[p] = Fresh(IF p \in Kept THEN Figure \cup Loose ELSE Loose)
  BY DEF Constructed
<1>4. \A x : Fresh(x) = [f \in Fields |-> Fresh(x)[f]]
  BY DEF Fresh, Fields
<1>5. \A p \in Parts : Constructed[p] = [f \in Fields |-> Constructed[p][f]]
  BY <1>3, <1>4
<1>6. Start = [fig |-> Start.fig, made |-> Start.made, bad |-> Start.bad, complaints |-> Start.complaints]
  BY DEF Start
<1>7. IsState(Parts, Start)
  BY <1>1, <1>2, <1>5, <1>6 DEF IsState
<1>8. \A f \in Figure : f \notin Loose /\ f \in Figure \cup Loose
  BY DEF Figure, Loose
<1>9. \A p \in Parts \ Kept, f \in Figure : Fig(Start, p, f) = {}
  BY <1>1, <1>3, <1>8 DEF Fresh, Fig
<1> QED
  BY <1>1, <1>7, <1>9

LEMMA StartBuilt == Built(Start, {})
<1>1. \A p \in Units \cup Sums : p \in Parts \ Kept
  BY UnitNames
<1>2. \A p \in Units \cup Sums, f \in Figure : Fig(Start, p, f) = {}
  BY <1>1, StartIsState
<1>3. Modest(Start) /\ Idle(Start)
  BY <1>2 DEF Modest, Idle
<1> QED
  BY <1>3, StartIsState DEF Built

LEMMA SameSame ==
  ASSUME NEW t, NEW u, NEW v
  PROVE  Same(t, t) /\ (Same(t, u) /\ Same(u, v) => Same(t, v))
BY DEF Same

LEMMA BuildingFields == \A f \in Figure : f \in Fields /\ f \in Fields \ Building
BY FieldNames DEF Building

LEMMA BegunOn ==
  ASSUME NEW t, NEW u, NEW p \in Units, NEW q \in Units, p # q, Raises(t, u, p), Begun(t, q)
  PROVE  Begun(u, q)
<1>1. Around(p) \cap Around(q) = {} /\ q \in Around(q) /\ (q \in Driven => Driver(q) \in Around(q))
  BY UnitKinds, AroundsDiffer DEF Around
<1>2. q \in Parts /\ (q \in Driven => Driver(q) \in Parts)
  BY UnitParts, UnitNames, DriverNamesDiffer
<1>3. "gates" \in Fields /\ "cap" \in Fields
  BY FieldNames
<1>4. /\ Fig(u, q, "gates") = Fig(t, q, "gates") /\ Fig(u, q, "cap") = Fig(t, q, "cap")
      /\ q \in Driven => Fig(u, Driver(q), "cap") = Fig(t, Driver(q), "cap")
  BY <1>1, <1>2, <1>3 DEF Raises
<1>5. IsState(Parts, u) /\ t.made \subseteq u.made /\ u.bad = t.bad
  BY DEF Raises, Initializes
<1>6. Fine(t, q) => Fine(u, q)
  BY <1>4, <1>5 DEF Fine
<1>7. Known(t, q) => Known(u, q)
  BY <1>4, <1>6 DEF Known
<1> QED
  BY <1>6, <1>7 DEF Begun

LEMMA BuiltStep ==
  ASSUME NEW t, NEW u, NEW S, S \subseteq Units, NEW p \in Units \ S, Built(t, S), Raises(t, u, p)
  PROVE  Built(u, S \cup {p}) /\ Same(t, u)
<1>1. IsState(Parts, u) /\ u.made = t.made \cup Around(p) /\ u.bad = {} /\ u.complaints = {}
  BY DEF Raises, Initializes, Built
<1>2. \A q \in Parts, f \in Figure : Fig(u, q, f) = Fig(t, q, f)
  BY BuildingFields DEF Raises
<1>3. \A q \in Units \cup Sums : q \in Parts
  BY UnitNames
<1>4. Modest(u) /\ Idle(u)
  BY <1>2, <1>3 DEF Built, Modest, Idle
<1>5. ASSUME NEW q \in Units \ (S \cup {p}) PROVE Around(q) \cap u.made = {}
  <2>1. Around(q) \cap Around(p) = {}
    BY UnitKinds, AroundsDiffer
  <2> QED
    BY <1>1, <2>1 DEF Built
<1>6. ASSUME NEW q \in S \cup {p} PROVE Begun(u, q)
  <2>1. CASE q = p
    BY <2>1 DEF Raises
  <2>2. CASE q # p
    BY <2>2, BegunOn DEF Built
  <2> QED
    BY <2>1, <2>2
<1>7. Sums \cap Around(p) = {}
  BY AroundUnit, UnitNames
<1>8. Same(t, u)
  BY <1>1, <1>7 DEF Same, Raises
<1> QED
  BY <1>1, <1>4, <1>5, <1>6, <1>8 DEF Built

LEMMA BuiltArea ==
  ASSUME NEW t, NEW u, NEW S, S \subseteq Units, NEW Q, Built(t, S),
         Works(Parts, t, u, Q, {"area"}), Modest(u)
  PROVE  Built(u, S)
<1>1. IsState(Parts, u) /\ u.made = t.made /\ u.bad = {} /\ u.complaints = {}
  BY DEF Works, Computes, Built
<1>2. Idle(u)
  BY IdleStays DEF Built
<1>3. \A p \in S : Begun(u, p)
  BY BegunStays DEF Built
<1> QED
  BY <1>1, <1>2, <1>3 DEF Built

LEMMA BuiltSum ==
  ASSUME NEW t, NEW S, S \subseteq Units, NEW p \in Sums, Built(t, S), p \notin t.made
  PROVE  LET u == Made(t, p)
         IN  /\ Built(u, S) /\ u.made = t.made \cup {p}
             /\ \A q \in Parts, f \in Fields : Fig(u, q, f) = Fig(t, q, f)
<1> DEFINE u == Made(t, p)
<1>1. p \in Parts /\ IsState(Parts, t)
  BY UnitNames DEF Built
<1>2. /\ IsState(Parts, u) /\ u.made = t.made \cup {p} /\ u.bad = t.bad
      /\ u.complaints = t.complaints
      /\ \A q \in Parts, f \in Fields : Fig(u, q, f) = Fig(t, q, f)
  BY <1>1, MadeGives
<1> HIDE DEF u
<1>3. \A q \in Units \cup Sums, f \in Figure : Fig(u, q, f) = Fig(t, q, f)
  BY <1>2, UnitNames, FieldNames
<1>4. Modest(u) /\ Idle(u)
  BY <1>3 DEF Built, Modest, Idle
<1>5. \A q \in Units \ S : Around(q) \cap u.made = {}
  <2>1. \A q \in Units : p \notin Around(q)
    BY AroundUnit, UnitNames
  <2> QED
    BY <1>2, <2>1 DEF Built
<1>6. ASSUME NEW q \in S PROVE Begun(u, q)
  <2>1. Begun(t, q)
    BY DEF Built
  <2>2. q \in Parts /\ "gates" \in Fields /\ "cap" \in Fields /\ (q \in Driven => Driver(q) \in Parts)
    BY UnitParts, FieldNames, UnitNames, DriverNamesDiffer
  <2>3. Fine(t, q) => Fine(u, q)
    BY <1>2, <2>2 DEF Fine
  <2>4. Known(t, q) => Known(u, q)
    BY <1>2, <2>2, <2>3 DEF Known
  <2> QED
    BY <2>1, <2>3, <2>4 DEF Begun
<1> QED
  BY <1>2, <1>4, <1>5, <1>6 DEF Built, u

-----------------------------------------------------------------------------
LEMMA GatesAre ==
  /\ \A p \in Selects : Gates(p) = IF BitsOf(c)[p] > 3 THEN {p} ELSE {}
  /\ \A p \in Muxes : Gates(p) = IF BitsOf(c)[p] > 0 THEN {p} ELSE {}
  /\ Gates("globalMux") = IF ~c.internal /\ c.many THEN {"globalMux"} ELSE {}
  /\ \A p \in BlockSet : Gates(p) = IF BlockBits(c)[p] > 0 THEN {p} ELSE {}
<1>1. \A p \in Gated : p \notin Drivers
  BY UnitKinds, UnitNames
<1>2. \A p \in Driven : Driver(p) \in Drivers
  BY DriverNamesDiffer
<1>3. Selects \subseteq Driven /\ Selects \cup Muxes \cup BlockSet \cup {"globalMux"} \subseteq Gated
  BY DEF Driven, Gated
<1>4. \A p \in Gated : p \in Decoding <=> p \in Selects /\ BitsOf(c)[p] > 3
  BY <1>1, <1>2, <1>3 DEF Decoding
<1>5. \A p : p \in Choosing <=> (p \in Muxes /\ BitsOf(c)[p] > 0)
                                  \/ (p = "globalMux" /\ ~c.internal /\ c.many)
  BY DEF Choosing
<1>6. \A p : p \in Predecoding <=> p \in BlockSet /\ BlockBits(c)[p] > 0
  BY DEF Predecoding
<1>7. "globalMux" \notin Muxes
  BY DEF Muxes
<1>8. \A p \in Gated : Gates(p) = IF p \in Decoding \/ p \in Choosing \/ p \in Predecoding THEN {p} ELSE {}
  BY DEF Gates
<1>9. \A p \in Selects : Gates(p) = IF BitsOf(c)[p] > 3 THEN {p} ELSE {}
  BY <1>3, <1>4, <1>5, <1>6, <1>8, UnitKinds
<1>10. \A p \in Muxes : Gates(p) = IF BitsOf(c)[p] > 0 THEN {p} ELSE {}
  BY <1>3, <1>4, <1>5, <1>6, <1>7, <1>8, UnitKinds
<1>11. Gates("globalMux") = IF ~c.internal /\ c.many THEN {"globalMux"} ELSE {}
  BY <1>3, <1>4, <1>5, <1>6, <1>7, <1>8, UnitKinds
<1>12. \A p \in BlockSet : Gates(p) = IF BlockBits(c)[p] > 0 THEN {p} ELSE {}
  BY <1>3, <1>4, <1>5, <1>6, <1>8, UnitKinds
<1> QED
  BY <1>9, <1>10, <1>11, <1>12

LEMMA BlockBitsNat ==
  ASSUME c \in Configs
  PROVE  \A p \in BlockSet : BlockBits(c)[p] \in Nat
<1>1. {c.rowBits, c.senseBits, c.lev1Bits, c.lev2Bits} \subseteq Nat
  BY ConfigAssumption
<1>2. \A n \in Nat : Block1(n) \in Nat /\ Block2(n) \in Nat
  BY DEF Block1, Block2
<1> QED
  BY <1>1, <1>2 DEF BlockBits, BlockSet

LEMMA BuiltUndone ==
  ASSUME NEW t, NEW S, NEW p \in Units \ S, Built(t, S)
  PROVE  /\ IsState(Parts, t) /\ p \notin t.made /\ p \notin t.bad
         /\ p \in Driven => Undone(Parts, t, p)
<1>1. Around(p) \cap t.made = {} /\ p \in Around(p) /\ t.bad = {} /\ IsState(Parts, t)
  BY DEF Built, Around
<1>2. ASSUME p \in Driven PROVE Undone(Parts, t, p)
  <2>1. Around(p) = {p, Driver(p)} /\ p \in Parts /\ Driver(p) \in Parts
    BY <1>2, UnitParts, UnitNames, DriverNamesDiffer DEF Around
  <2>2. Driver(p) # p
    BY <1>2, DriverNamesDiffer, UnitNames
  <2> QED
    BY <1>1, <2>1, <2>2 DEF Undone
<1> QED
  BY <1>1, <1>2

LEMMA PrechargerRaised ==
  ASSUME NEW t, NEW S, "precharger" \notin S, Built(t, S)
  PROVE  Raises(t, PrechargerRC(PrechargerInitialize(t, "precharger"), "precharger"), "precharger")
<1> DEFINE p == "precharger"
           v == PrechargerInitialize(t, p)
           u == PrechargerRC(v, p)
<1>1. p \in Units /\ p \in Driven /\ p \notin Gated /\ p \notin BlockSet \cup Compares
  BY UnitKinds DEF Units, Driven, Gated
<1>2. Undone(Parts, t, p) /\ t.bad = {}
  BY <1>1, BuiltUndone DEF Built
<1> HIDE DEF p
<1>3. /\ Initializes(Parts, t, v, {p, Driver(p)})
      /\ \A q \in Parts, f \in Fields : Fig(v, q, f) = Fig(t, q, f)
  <2>1. LET w == PrechargerInitialize(t, p)
        IN  /\ Initializes(Parts, t, w, {p, Driver(p)})
            /\ \A q \in Parts, f \in Fields : Fig(w, q, f) = Fig(t, q, f)
    BY <1>2, PrechargerInitializeGives
  <2> QED
    BY <2>1
<1> HIDE DEF v
<1>4. Decodes(Parts, v, p)
  BY <1>2, <1>3 DEF Decodes, Undone, Initializes
<1>5. Sets(Parts, v, u, Driver(p), {"cap"}, {})
  BY <1>4, PrechargerRCGives
<1> HIDE DEF u
<1>6. Around(p) = {p, Driver(p)} /\ Driver(p) \in Parts
  BY <1>1, <1>2 DEF Around, Undone
<1>7. Initializes(Parts, t, u, Around(p))
  BY <1>3, <1>5, <1>6 DEF Initializes, Sets, Computes
<1>8. \A q \in Parts, f \in Fields :
        q \notin Around(p) \/ f \notin Building => Fig(u, q, f) = Fig(t, q, f)
  BY <1>3, <1>5, <1>6 DEF Sets, Building
<1>9. Fig(u, Driver(p), "cap") = {}
  BY <1>5, <1>6, FieldNames DEF Sets
<1>10. Fine(u, p)
  <2>1. IsState(Parts, u) /\ {p, Driver(p)} \subseteq u.made /\ u.bad = {}
    BY <1>2, <1>6, <1>7 DEF Initializes
  <2> QED
    BY <1>1, <2>1 DEF Fine
<1>11. Begun(u, p)
  <2>1. p = "precharger"
    BY DEF p
  <2>2. Known(u, p)
    BY <1>1, <1>9, <1>10, <2>1 DEF Known
  <2> QED
    BY <1>1, <2>2 DEF Begun
<1> QED
  BY <1>7, <1>8, <1>11 DEF Raises, u, v, p

LEMMA SelectRaised ==
  ASSUME NEW t, NEW S, NEW p \in Selects, p \notin S, Built(t, S)
  PROVE  Raises(t, MakeDecoder(t, p, c, TRUE), p)
<1> DEFINE g == IF BitsOf(c)[p] > 3 THEN {p} ELSE {}
           v == RowDecoderInitialize(t, p, g, TRUE)
           u == RowDecoderRC(v, p)
<1>1. p \in Units /\ p \in Driven /\ p \in Gated /\ p \notin BlockSet \cup Compares
  BY UnitKinds DEF Units, Driven, Gated
<1>2. Undone(Parts, t, p) /\ t.bad = {}
  BY <1>1, BuiltUndone DEF Built
<1>3. g = Gates(p)
  BY GatesAre
<1> HIDE DEF g
<1>4. Prepares(Parts, t, v, p, Gates(p))
  BY <1>2, <1>3, RowDecoderInitializeGives
<1>5. MakeDecoder(t, p, c, TRUE) = u
  BY <1>2, <1>4 DEF MakeDecoder, g, Prepares, Initializes
<1> HIDE DEF v
<1>6. Decodes(Parts, v, p)
  BY <1>2, <1>4 DEF Decodes, Undone, Initializes, Prepares
<1>7. /\ Works(Parts, v, u, {p, Driver(p)}, {"cap"})
      /\ Fig(u, p, "cap") = {} /\ Fig(u, Driver(p), "cap") = {}
  BY <1>6, RowDecoderRCGives
<1> HIDE DEF u
<1>8. Around(p) = {p, Driver(p)} /\ p \in Parts /\ "gates" \in Fields /\ "gates" \notin {"cap"}
  BY <1>1, <1>2, FieldNames DEF Around, Undone
<1>9. Initializes(Parts, t, u, Around(p))
  BY <1>4, <1>7, <1>8 DEF Initializes, Prepares, Works, Computes
<1>10. \A q \in Parts, f \in Fields :
         q \notin Around(p) \/ f \notin Building => Fig(u, q, f) = Fig(t, q, f)
  BY <1>4, <1>7, <1>8 DEF Works, Prepares, Building
<1>11. Fig(u, p, "gates") = Gates(p)
  BY <1>4, <1>7, <1>8 DEF Works, Prepares
<1>12. Fine(u, p)
  BY <1>1, <1>2, <1>8, <1>9, <1>11 DEF Fine, Initializes
<1>13. Begun(u, p)
  BY <1>1, <1>7, <1>12 DEF Begun, Known
<1> QED
  BY <1>5, <1>9, <1>10, <1>13 DEF Raises

LEMMA AnyMuxRaised ==
  ASSUME NEW t, NEW S, NEW p \in Muxes \cup {"globalMux"}, p \notin S, Built(t, S),
         NEW selects \in BOOLEAN, Gates(p) = IF selects THEN {p} ELSE {}
  PROVE  Raises(t, MuxRC(MuxInitialize(t, p, selects), p), p)
<1> DEFINE v == MuxInitialize(t, p, selects)
           u == MuxRC(v, p)
<1>1. p \in Units /\ p \notin Driven /\ p \in Gated /\ p \notin BlockSet \cup Compares
  BY UnitKinds DEF Units, Driven, Gated
<1>2. IsState(Parts, t) /\ p \in Parts /\ p \notin t.made /\ t.bad = {}
  BY <1>1, BuiltUndone, UnitParts DEF Built
<1>3. GivenGates(Parts, t, v, p, Gates(p))
  <2>1. GivenGates(Parts, t, v, p, IF selects THEN {p} ELSE {})
    BY <1>2, MuxInitializeGives
  <2> QED
    BY <2>1
<1> HIDE DEF v
<1>4. IsState(Parts, v) /\ p \in v.made /\ Fig(v, p, "gates") = Gates(p)
  BY <1>2, <1>3, FieldNames DEF GivenGates, Initializes
<1>5. /\ Works(Parts, v, u, {p}, {"cap"})
      /\ Fig(v, p, "gates") # {} => Fig(u, p, "cap") = {}
  BY <1>2, <1>4, MuxRCGives
<1> HIDE DEF u
<1>6. Around(p) = {p} /\ "gates" \in Fields /\ "gates" \notin {"cap"}
  BY <1>1, FieldNames DEF Around
<1>7. Initializes(Parts, t, u, Around(p))
  BY <1>3, <1>5, <1>6 DEF Initializes, GivenGates, Works, Computes
<1>8. \A q \in Parts, f \in Fields :
         q \notin Around(p) \/ f \notin Building => Fig(u, q, f) = Fig(t, q, f)
  BY <1>3, <1>5, <1>6 DEF Works, GivenGates, Building
<1>9. Fig(u, p, "gates") = Gates(p)
  BY <1>2, <1>4, <1>5, <1>6 DEF Works
<1>10. Fine(u, p)
  BY <1>1, <1>2, <1>6, <1>7, <1>9 DEF Fine, Initializes
<1>11. Begun(u, p)
  BY <1>1, <1>4, <1>5, <1>10 DEF Begun, Known
<1> QED
  BY <1>7, <1>8, <1>11 DEF Raises, u, v

LEMMA MuxRaised ==
  ASSUME NEW t, NEW S, NEW p \in Muxes, p \notin S, Built(t, S)
  PROVE  Raises(t, MakeMux(t, p, c), p)
<1> DEFINE selects == BitsOf(c)[p] > 0
<1>1. selects \in BOOLEAN /\ Gates(p) = IF selects THEN {p} ELSE {}
  BY GatesAre
<1>2. MakeMux(t, p, c) = MuxRC(MuxInitialize(t, p, selects), p)
  BY DEF MakeMux
<1> HIDE DEF selects
<1> QED
  BY <1>1, <1>2, AnyMuxRaised

LEMMA MadeRaises ==
  ASSUME NEW t, NEW S, NEW p \in Units \ (Driven \cup Gated), p \notin S, Built(t, S)
  PROVE  LET u == Made(t, p)
         IN  /\ Initializes(Parts, t, u, {p}) /\ Fine(u, p)
             /\ \A q \in Parts, f \in Fields : Fig(u, q, f) = Fig(t, q, f)
<1> DEFINE u == Made(t, p)
<1>1. IsState(Parts, t) /\ p \in Parts /\ p \notin t.made /\ t.bad = {}
  BY BuiltUndone, UnitParts DEF Built
<1>2. /\ IsState(Parts, u) /\ u.made = t.made \cup {p} /\ u.bad = t.bad
      /\ u.complaints = t.complaints
      /\ \A q \in Parts, f \in Fields : Fig(u, q, f) = Fig(t, q, f)
  BY <1>1, MadeGives
<1> HIDE DEF u
<1>3. Fine(u, p)
  BY <1>1, <1>2 DEF Fine
<1> QED
  BY <1>2, <1>3 DEF Initializes, u

LEMMA ComparatorRaised ==
  ASSUME NEW t, NEW S, NEW p \in Compares, p \notin S, Built(t, S)
  PROVE  Raises(t, ComparatorInitialize(t, p), p)
<1> DEFINE u == Made(t, p)
<1>1. p \in Units \ (Driven \cup Gated) /\ Around(p) = {p}
  BY UnitKinds DEF Units, Around, Driven, Gated
<1>2. /\ Initializes(Parts, t, u, {p}) /\ Fine(u, p)
      /\ \A q \in Parts, f \in Fields : Fig(u, q, f) = Fig(t, q, f)
  BY <1>1, MadeRaises
<1> HIDE DEF u
<1>3. Begun(u, p)
  BY <1>2 DEF Begun
<1> QED
  BY <1>1, <1>2, <1>3 DEF Raises, u, ComparatorInitialize

LEMMA AmpRaised ==
  ASSUME NEW t, NEW S, NEW p \in Amps, p \notin S, Built(t, S)
  PROVE  Raises(t, SenseAmpRC(SenseAmpInitialize(t, p, TRUE), p), p)
<1> DEFINE v == Made(t, p)
           u == SenseAmpRC(v, p)
<1>1. p \in Units \ (Driven \cup Gated) /\ Around(p) = {p} /\ p \in Parts /\ p \notin BlockSet \cup Compares
  BY UnitKinds, UnitParts DEF Units, Around, Driven, Gated
<1>2. /\ Initializes(Parts, t, v, {p}) /\ Fine(v, p)
      /\ \A q \in Parts, f \in Fields : Fig(v, q, f) = Fig(t, q, f)
  BY <1>1, MadeRaises
<1>3. SenseAmpInitialize(t, p, TRUE) = v
  BY DEF SenseAmpInitialize
<1> HIDE DEF v
<1>4. IsState(Parts, v) /\ p \in v.made /\ p \notin v.bad
  BY <1>2 DEF Fine
<1>5. Sets(Parts, v, u, p, {"cap"}, {})
  BY <1>1, <1>4, SenseAmpRCGives
<1> HIDE DEF u
<1>6. Initializes(Parts, t, u, Around(p))
  BY <1>1, <1>2, <1>5 DEF Initializes, Sets, Computes
<1>7. /\ \A q \in Parts, f \in Fields :
           q \notin Around(p) \/ f \notin Building => Fig(u, q, f) = Fig(t, q, f)
      /\ Fig(u, p, "cap") = {}
  BY <1>1, <1>2, <1>5, FieldNames DEF Sets, Building
<1>8. Fine(u, p)
  BY <1>1, <1>4, <1>5 DEF Fine, Sets, Computes
<1>9. Begun(u, p)
  BY <1>1, <1>7, <1>8 DEF Begun, Known
<1> QED
  BY <1>3, <1>6, <1>7, <1>9 DEF Raises, u

LEMMA BlockRaised ==
  ASSUME c \in Configs, NEW t, NEW S, NEW p \in BlockSet, p \notin S, Built(t, S)
  PROVE  Raises(t, MakeBlock(t, p, c), p)
<1> DEFINE g == IF BlockBits(c)[p] = 0 THEN {} ELSE {p}
           u == Made(Put(t, p, [gates |-> g]), p)
<1>1. g = Gates(p)
  BY GatesAre, BlockBitsNat
<1>2. MakeBlock(t, p, c) = u
  BY DEF MakeBlock
<1> HIDE DEF g
<1>3. p \in Units /\ p \notin Driven /\ p \in Gated /\ Around(p) = {p} /\ p \in Parts
  BY TheBlocks, UnitParts
<1>4. IsState(Parts, t) /\ p \notin t.made /\ t.bad = {}
  BY <1>3, BuiltUndone DEF Built
<1>5. GivenGates(Parts, t, u, p, g)
  BY <1>3, <1>4, GatedGives
<1> HIDE DEF u
<1>6. /\ \A q \in Parts, f \in Fields :
           q \notin Around(p) \/ f \notin Building => Fig(u, q, f) = Fig(t, q, f)
      /\ Fig(u, p, "gates") = Gates(p)
  BY <1>1, <1>3, <1>5, FieldNames DEF GivenGates, Building
<1>7. Initializes(Parts, t, u, Around(p))
  BY <1>3, <1>5 DEF GivenGates
<1>8. Fine(u, p)
  BY <1>3, <1>4, <1>6, <1>7 DEF Fine, Initializes
<1> QED
  BY <1>2, <1>6, <1>7, <1>8 DEF Raises, Begun

LEMMA TsvRaised ==
  ASSUME NEW t, NEW S, NEW p \in Tsvs, p \notin S, Built(t, S)
  PROVE  Raises(t, TsvInitialize(t, p), p)
<1> DEFINE u == TsvInitialize(t, p)
<1>1. p \in Units /\ p \notin Driven \cup Gated /\ Around(p) = {p} /\ p \in Parts /\ p \notin BlockSet \cup Compares
  BY UnitKinds, UnitParts DEF Units, Around, Driven, Gated
<1>2. IsState(Parts, t) /\ t.bad = {}
  BY DEF Built
<1>3. /\ Initializes(Parts, t, u, {p})
      /\ \A q \in Parts, f \in Fields :
           Fig(u, q, f) = IF q = p /\ f = "cap" THEN {} ELSE Fig(t, q, f)
  BY <1>1, <1>2, TsvInitializeGives
<1> HIDE DEF u
<1>4. /\ \A q \in Parts, f \in Fields :
           q \notin Around(p) \/ f \notin Building => Fig(u, q, f) = Fig(t, q, f)
      /\ Fig(u, p, "cap") = {}
  BY <1>1, <1>3, FieldNames DEF Building
<1>5. Fine(u, p)
  BY <1>1, <1>2, <1>3 DEF Fine, Initializes
<1>6. Begun(u, p)
  BY <1>1, <1>4, <1>5 DEF Begun, Known
<1> QED
  BY <1>1, <1>3, <1>4, <1>6 DEF Raises, u

-----------------------------------------------------------------------------
(* One more unit, and nothing else changed.                                 *)
Grows(t0, t, S) == Built(t, S) /\ Same(t0, t)

LEMMA GrowsStep ==
  ASSUME NEW t0, NEW t, NEW u, NEW S, S \subseteq Units, NEW p \in Units \ S, Grows(t0, t, S),
         Built(t, S) => Raises(t, u, p)
  PROVE  Grows(t0, u, S \cup {p})
BY BuiltStep, SameSame DEF Grows

(* Mat: the eight blocks.                                                   *)
BuildBlock(t, p) == MakeBlock(t, p, c)

LEMMA BlocksRaised ==
  ASSUME c \in Configs, NEW t, NEW S, S \subseteq Units, S \cap BlockSet = {}, Built(t, S)
  PROVE  Grows(t, EachBlock(t, BuildBlock), S \cup BlockSet)
<1> DEFINE t1 == BuildBlock(t, "rowBlock1")
           t2 == BuildBlock(t1, "rowBlock2")
           t3 == BuildBlock(t2, "muxBlock1")
           t4 == BuildBlock(t3, "muxBlock2")
           t5 == BuildBlock(t4, "lev1Block1")
           t6 == BuildBlock(t5, "lev1Block2")
           t7 == BuildBlock(t6, "lev2Block1")
           t8 == BuildBlock(t7, "lev2Block2")
<1>1. EachBlock(t, BuildBlock) = t8
  BY DEF EachBlock, Each4, Each3
<1>2. ASSUME NEW x, NEW R, R \subseteq Units, NEW p \in BlockSet, p \notin R, Grows(t, x, R)
      PROVE  Grows(t, BuildBlock(x, p), R \cup {p})
  <2>1. Raises(x, BuildBlock(x, p), p) /\ p \in Units
    BY <1>2, BlockRaised, TheBlocks DEF BuildBlock, Grows
  <2> QED
    BY <1>2, <2>1, GrowsStep
<1> HIDE DEF t1, t2, t3, t4, t5, t6, t7, t8
<1>3. Grows(t, t, S)
  BY SameSame DEF Grows
<1>4. /\ "rowBlock1" \in BlockSet /\ "rowBlock2" \in BlockSet /\ "muxBlock1" \in BlockSet
      /\ "muxBlock2" \in BlockSet /\ "lev1Block1" \in BlockSet /\ "lev1Block2" \in BlockSet
      /\ "lev2Block1" \in BlockSet /\ "lev2Block2" \in BlockSet
  BY DEF BlockSet
<1>5. Grows(t, t1, S \cup {"rowBlock1"})
  BY <1>2, <1>3, <1>4 DEF t1
<1>6. Grows(t, t2, S \cup {"rowBlock1", "rowBlock2"})
  <2>1. S \cup {"rowBlock1"} \subseteq Units /\ "rowBlock2" \notin S \cup {"rowBlock1"}
    BY <1>4, TheBlocks
  <2>2. Grows(t, t2, (S \cup {"rowBlock1"}) \cup {"rowBlock2"})
    BY <1>2, <1>4, <1>5, <2>1 DEF t2
  <2>3. (S \cup {"rowBlock1"}) \cup {"rowBlock2"} = S \cup {"rowBlock1", "rowBlock2"}
    OBVIOUS
  <2> QED
    BY <2>2, <2>3
<1>7. Grows(t, t3, S \cup {"rowBlock1", "rowBlock2", "muxBlock1"})
  <2>1. S \cup {"rowBlock1", "rowBlock2"} \subseteq Units /\ "muxBlock1" \notin S \cup {"rowBlock1", "rowBlock2"}
    BY <1>4, TheBlocks
  <2>2. Grows(t, t3, (S \cup {"rowBlock1", "rowBlock2"}) \cup {"muxBlock1"})
    BY <1>2, <1>4, <1>6, <2>1 DEF t3
  <2>3. (S \cup {"rowBlock1", "rowBlock2"}) \cup {"muxBlock1"} = S \cup {"rowBlock1", "rowBlock2", "muxBlock1"}
    OBVIOUS
  <2> QED
    BY <2>2, <2>3
<1>8. Grows(t, t4, S \cup {"rowBlock1", "rowBlock2", "muxBlock1", "muxBlock2"})
  <2>1. S \cup {"rowBlock1", "rowBlock2", "muxBlock1"} \subseteq Units /\ "muxBlock2" \notin S \cup {"rowBlock1", "rowBlock2", "muxBlock1"}
    BY <1>4, TheBlocks
  <2>2. Grows(t, t4, (S \cup {"rowBlock1", "rowBlock2", "muxBlock1"}) \cup {"muxBlock2"})
    BY <1>2, <1>4, <1>7, <2>1 DEF t4
  <2>3. (S \cup {"rowBlock1", "rowBlock2", "muxBlock1"}) \cup {"muxBlock2"} = S \cup {"rowBlock1", "rowBlock2", "muxBlock1", "muxBlock2"}
    OBVIOUS
  <2> QED
    BY <2>2, <2>3
<1>9. Grows(t, t5, S \cup {"rowBlock1", "rowBlock2", "muxBlock1", "muxBlock2", "lev1Block1"})
  <2>1. S \cup {"rowBlock1", "rowBlock2", "muxBlock1", "muxBlock2"} \subseteq Units /\ "lev1Block1" \notin S \cup {"rowBlock1", "rowBlock2", "muxBlock1", "muxBlock2"}
    BY <1>4, TheBlocks
  <2>2. Grows(t, t5, (S \cup {"rowBlock1", "rowBlock2", "muxBlock1", "muxBlock2"}) \cup {"lev1Block1"})
    BY <1>2, <1>4, <1>8, <2>1 DEF t5
  <2>3. (S \cup {"rowBlock1", "rowBlock2", "muxBlock1", "muxBlock2"}) \cup {"lev1Block1"} = S \cup {"rowBlock1", "rowBlock2", "muxBlock1", "muxBlock2", "lev1Block1"}
    OBVIOUS
  <2> QED
    BY <2>2, <2>3
<1>10. Grows(t, t6, S \cup {"rowBlock1", "rowBlock2", "muxBlock1", "muxBlock2", "lev1Block1", "lev1Block2"})
  <2>1. S \cup {"rowBlock1", "rowBlock2", "muxBlock1", "muxBlock2", "lev1Block1"} \subseteq Units /\ "lev1Block2" \notin S \cup {"rowBlock1", "rowBlock2", "muxBlock1", "muxBlock2", "lev1Block1"}
    BY <1>4, TheBlocks
  <2>2. Grows(t, t6, (S \cup {"rowBlock1", "rowBlock2", "muxBlock1", "muxBlock2", "lev1Block1"}) \cup {"lev1Block2"})
    BY <1>2, <1>4, <1>9, <2>1 DEF t6
  <2>3. (S \cup {"rowBlock1", "rowBlock2", "muxBlock1", "muxBlock2", "lev1Block1"}) \cup {"lev1Block2"} = S \cup {"rowBlock1", "rowBlock2", "muxBlock1", "muxBlock2", "lev1Block1", "lev1Block2"}
    OBVIOUS
  <2> QED
    BY <2>2, <2>3
<1>11. Grows(t, t7, S \cup {"rowBlock1", "rowBlock2", "muxBlock1", "muxBlock2", "lev1Block1", "lev1Block2", "lev2Block1"})
  <2>1. S \cup {"rowBlock1", "rowBlock2", "muxBlock1", "muxBlock2", "lev1Block1", "lev1Block2"} \subseteq Units /\ "lev2Block1" \notin S \cup {"rowBlock1", "rowBlock2", "muxBlock1", "muxBlock2", "lev1Block1", "lev1Block2"}
    BY <1>4, TheBlocks
  <2>2. Grows(t, t7, (S \cup {"rowBlock1", "rowBlock2", "muxBlock1", "muxBlock2", "lev1Block1", "lev1Block2"}) \cup {"lev2Block1"})
    BY <1>2, <1>4, <1>10, <2>1 DEF t7
  <2>3. (S \cup {"rowBlock1", "rowBlock2", "muxBlock1", "muxBlock2", "lev1Block1", "lev1Block2"}) \cup {"lev2Block1"} = S \cup {"rowBlock1", "rowBlock2", "muxBlock1", "muxBlock2", "lev1Block1", "lev1Block2", "lev2Block1"}
    OBVIOUS
  <2> QED
    BY <2>2, <2>3
<1>12. Grows(t, t8, S \cup {"rowBlock1", "rowBlock2", "muxBlock1", "muxBlock2", "lev1Block1", "lev1Block2", "lev2Block1", "lev2Block2"})
  <2>1. S \cup {"rowBlock1", "rowBlock2", "muxBlock1", "muxBlock2", "lev1Block1", "lev1Block2", "lev2Block1"} \subseteq Units /\ "lev2Block2" \notin S \cup {"rowBlock1", "rowBlock2", "muxBlock1", "muxBlock2", "lev1Block1", "lev1Block2", "lev2Block1"}
    BY <1>4, TheBlocks
  <2>2. Grows(t, t8, (S \cup {"rowBlock1", "rowBlock2", "muxBlock1", "muxBlock2", "lev1Block1", "lev1Block2", "lev2Block1"}) \cup {"lev2Block2"})
    BY <1>2, <1>4, <1>11, <2>1 DEF t8
  <2>3. (S \cup {"rowBlock1", "rowBlock2", "muxBlock1", "muxBlock2", "lev1Block1", "lev1Block2", "lev2Block1"}) \cup {"lev2Block2"} = S \cup {"rowBlock1", "rowBlock2", "muxBlock1", "muxBlock2", "lev1Block1", "lev1Block2", "lev2Block1", "lev2Block2"}
    OBVIOUS
  <2> QED
    BY <2>2, <2>3
<1> QED
  BY <1>1, <1>12 DEF BlockSet

-----------------------------------------------------------------------------
(* SubArray::Initialize(): the sensing path of a subarray that can be.      *)
Pitched == c.internal => c.fault # "pitch"

LEMMA SensingRaised ==
  ASSUME NEW t0, NEW t, Grows(t0, t, {"precharger"} \cup Selects), Pitched
  PROVE  Grows(t0, MakeSensing(t, c), SubUnits)
<1> DEFINE S0 == {"precharger"} \cup Selects
           t1 == MakeMux(t, "lev2", c)
           t2 == MakeMux(t1, "lev1", c)
           t3 == IF c.internal THEN SenseAmpRC(SenseAmpInitialize(t2, "senseAmp", TRUE), "senseAmp") ELSE t2
           S3 == (S0 \cup {"lev2", "lev1"}) \cup (IF c.internal THEN {"senseAmp"} ELSE {})
           t4 == MakeMux(t3, "bitlineMux", c)
<1>1. /\ S0 \subseteq Units /\ {"lev2", "lev1", "bitlineMux", "senseAmp"} \subseteq Units
      /\ {"lev2", "lev1", "bitlineMux"} \subseteq Muxes /\ "senseAmp" \in Amps
      /\ {"lev2", "lev1", "bitlineMux", "senseAmp"} \cap S0 = {}
      /\ Muxes = {"lev2", "lev1", "bitlineMux"}
  BY UnitKinds DEF Units, Gated, Muxes, Amps, Driven, Selects, Column
<1>2. Grows(t0, t1, S0 \cup {"lev2"})
  <2>1. Built(t, S0) => Raises(t, t1, "lev2")
    BY <1>1, MuxRaised
  <2> QED
    BY <1>1, <2>1, GrowsStep
<1> HIDE DEF t1
<1>3. Grows(t0, t2, S0 \cup {"lev2", "lev1"})
  <2>1. Built(t1, S0 \cup {"lev2"}) => Raises(t1, t2, "lev1")
    BY <1>1, MuxRaised
  <2>2. Grows(t0, t2, (S0 \cup {"lev2"}) \cup {"lev1"})
    BY <1>1, <1>2, <2>1, GrowsStep
  <2>3. (S0 \cup {"lev2"}) \cup {"lev1"} = S0 \cup {"lev2", "lev1"}
    OBVIOUS
  <2> QED
    BY <2>2, <2>3
<1> HIDE DEF t2, S0
<1>4. Grows(t0, t3, S3)
  <2>1. CASE ~c.internal
    <3>1. t3 = t2 /\ S3 = S0 \cup {"lev2", "lev1"}
      BY <2>1
    <3> QED
      BY <1>3, <3>1
  <2>2. CASE c.internal
    <3> DEFINE u == SenseAmpRC(SenseAmpInitialize(t2, "senseAmp", TRUE), "senseAmp")
               R == S0 \cup {"lev2", "lev1"}
    <3>1. t3 = u /\ S3 = R \cup {"senseAmp"}
      BY <2>2
    <3>2. R \subseteq Units /\ "senseAmp" \in Units \ R
      BY <1>1
    <3>3. Built(t2, R) => Raises(t2, u, "senseAmp")
      BY <1>1, <3>2, AmpRaised
    <3> HIDE DEF R, u
    <3>4. Grows(t0, t2, R)
      BY <1>3 DEF R
    <3>5. Grows(t0, u, R \cup {"senseAmp"})
      BY <3>2, <3>3, <3>4, GrowsStep
    <3> QED
      BY <3>1, <3>5
  <2> QED
    BY <2>1, <2>2
<1>5. S3 \subseteq Units /\ "bitlineMux" \in Units \ S3 /\ S3 \cup {"bitlineMux"} = SubUnits
  BY <1>1 DEF SubUnits, S0
<1> HIDE DEF t3, S3
<1>6. Grows(t0, t4, SubUnits)
  <2>1. Built(t3, S3) => Raises(t3, t4, "bitlineMux")
    BY <1>1, <1>5, MuxRaised
  <2> QED
    BY <1>4, <1>5, <2>1, GrowsStep
<1> HIDE DEF t4
<1>7. MakeSensing(t, c) = t4
  <2>1. CASE ~c.internal
    <3>1. "senseAmp" \notin t2.bad
      BY <1>3 DEF Grows, Built
    <3> QED
      BY <2>1, <3>1 DEF MakeSensing, t4, t3, t2, t1
  <2>2. CASE c.internal
    <3>1. SenseAmpInitialize(t2, "senseAmp", c.fault # "pitch") = SenseAmpInitialize(t2, "senseAmp", TRUE)
      BY <2>2 DEF SenseAmpInitialize, Pitched
    <3>2. "senseAmp" \notin SenseAmpInitialize(t2, "senseAmp", TRUE).bad
      <4>1. IsState(Parts, t2) /\ t2.bad = {}
        BY <1>3 DEF Grows, Built
      <4>2. "senseAmp" \in Parts
        BY <1>1, UnitParts
      <4> QED
        BY <4>1, <4>2, MadeGives DEF SenseAmpInitialize
    <3> QED
      BY <2>2, <3>1, <3>2 DEF MakeSensing, t4, t3, t2, t1
  <2> QED
    BY <2>1, <2>2
<1> QED
  BY <1>6, <1>7

BuildDecoder(t, p) == MakeDecoder(t, p, c, TRUE)

LEMMA DecodersRaised ==
  ASSUME NEW t0, NEW t, Grows(t0, t, {"precharger", "rowDecoder"})
  PROVE  Grows(t0, EachDecoder(t, BuildDecoder), {"precharger"} \cup Selects)
<1> DEFINE S0 == {"precharger", "rowDecoder"}
           t1 == BuildDecoder(t, "bitlineMuxDecoder")
           t2 == BuildDecoder(t1, "lev1Decoder")
           t3 == BuildDecoder(t2, "lev2Decoder")
<1>1. /\ S0 \subseteq Units /\ {"bitlineMuxDecoder", "lev1Decoder", "lev2Decoder"} \subseteq Units
      /\ {"bitlineMuxDecoder", "lev1Decoder", "lev2Decoder"} \subseteq Selects
      /\ {"bitlineMuxDecoder", "lev1Decoder", "lev2Decoder"} \cap S0 = {}
      /\ Selects = {"rowDecoder", "bitlineMuxDecoder", "lev1Decoder", "lev2Decoder"}
  BY UnitKinds DEF Units, Gated, Driven, Selects, Column
<1>2. ASSUME NEW x, NEW R, R \subseteq Units, NEW p \in Selects, p \notin R, Grows(t0, x, R)
      PROVE  Grows(t0, BuildDecoder(x, p), R \cup {p})
  <2>1. Raises(x, BuildDecoder(x, p), p) /\ p \in Units
    BY <1>2, SelectRaised, UnitKinds DEF BuildDecoder, Grows, Driven
  <2> QED
    BY <1>2, <2>1, GrowsStep
<1>3. EachDecoder(t, BuildDecoder) = t3
  BY DEF EachDecoder, Each3
<1> HIDE DEF t1, t2, t3
<1>4. Grows(t0, t1, S0 \cup {"bitlineMuxDecoder"})
  BY <1>1, <1>2 DEF t1
<1>5. Grows(t0, t2, S0 \cup {"bitlineMuxDecoder", "lev1Decoder"})
  <2>1. Grows(t0, t2, (S0 \cup {"bitlineMuxDecoder"}) \cup {"lev1Decoder"})
    BY <1>1, <1>2, <1>4 DEF t2
  <2>2. (S0 \cup {"bitlineMuxDecoder"}) \cup {"lev1Decoder"} = S0 \cup {"bitlineMuxDecoder", "lev1Decoder"}
    OBVIOUS
  <2> QED
    BY <2>1, <2>2
<1>6. Grows(t0, t3, S0 \cup {"bitlineMuxDecoder", "lev1Decoder", "lev2Decoder"})
  <2>1. Grows(t0, t3, (S0 \cup {"bitlineMuxDecoder", "lev1Decoder"}) \cup {"lev2Decoder"})
    BY <1>1, <1>2, <1>5 DEF t3
  <2>2. (S0 \cup {"bitlineMuxDecoder", "lev1Decoder"}) \cup {"lev2Decoder"}
          = S0 \cup {"bitlineMuxDecoder", "lev1Decoder", "lev2Decoder"}
    OBVIOUS
  <2> QED
    BY <2>1, <2>2
<1>7. S0 \cup {"bitlineMuxDecoder", "lev1Decoder", "lev2Decoder"} = {"precharger"} \cup Selects
  BY <1>1
<1> QED
  BY <1>3, <1>6, <1>7

Legal == ~Illegal(c) /\ ~Overloaded(c) /\ ~Unreadable(c) /\ c.fault # "rowDriver" /\ Pitched

(* A part that is turned down, for what it is made of.                      *)
Turned(t, p) ==
  /\ IsState(Parts, t) /\ p \in t.bad /\ t.complaints = {}

LEMMA SumNames ==
  /\ "bank" \in Sums /\ "mat" \in Sums /\ Sub \in Sums
  /\ "bank" \in Parts /\ "mat" \in Parts /\ Sub \in Parts
  /\ "bank" # "mat" /\ "bank" # Sub /\ "mat" # Sub
  /\ Sums = {"bank", "mat", Sub} /\ Sums \subseteq Parts
BY UnitNames DEF Sums, Sub

(* A part that is found invalid and is initialized all the same.            *)
LEMMA TurnDown ==
  ASSUME NEW t, IsState(Parts, t), t.complaints = {}, NEW p \in Parts
  PROVE  /\ Turned(Invalidate(t, p), p) /\ Invalidate(t, p).made = t.made
         /\ p \notin t.made => /\ Turned(Made(Invalidate(t, p), p), p)
                               /\ Made(Invalidate(t, p), p).made = t.made \cup {p}
<1> DEFINE u == Invalidate(t, p)
           v == Made(u, p)
<1>1. /\ IsState(Parts, u) /\ u.made = t.made /\ u.bad = t.bad \cup {p}
      /\ u.complaints = t.complaints
  BY InvalidateGives
<1> HIDE DEF u
<1>2. /\ IsState(Parts, v) /\ v.made = u.made \cup {p} /\ v.bad = u.bad
      /\ p \notin u.made => v.complaints = u.complaints
  BY <1>1, MadeGives
<1> HIDE DEF v
<1> QED
  BY <1>1, <1>2 DEF Turned, u, v

LEMMA GrowsMade ==
  ASSUME NEW t, NEW S, Grows(Start, t, S)
  PROVE  /\ IsState(Parts, t) /\ t.bad = {} /\ t.complaints = {} /\ Sums \cap t.made = {}
         /\ \A p \in Sums : p \notin t.made
BY StartIsState DEF Grows, Built, Same

(* SubArray::Initialize()                                                   *)
SubArrayStands(t) ==
  /\ Built(t, SubUnits) /\ Sums \cap t.made = {Sub}

LEMMA SubArrayBuilt ==
  ASSUME Legal
  PROVE  SubArrayStands(SubArrayInitialize(Start, c))
<1> DEFINE t1 == PrechargerRC(PrechargerInitialize(Start, "precharger"), "precharger")
           t2 == MakeDecoder(t1, "rowDecoder", c, TRUE)
           t3 == EachDecoder(t2, BuildDecoder)
           t4 == MakeSensing(t3, c)
           u == Made(t4, Sub)
<1>1. Grows(Start, Start, {})
  BY StartBuilt, SameSame DEF Grows
<1>2. /\ "precharger" \in Units /\ "rowDecoder" \in Units /\ "rowDecoder" \in Selects
      /\ "rowDecoder" # "precharger" /\ SubUnits \subseteq Units
  BY UnitKinds, TheSubUnits DEF Selects, Driven
<1>3. Grows(Start, t1, {"precharger"})
  <2>1. Raises(Start, t1, "precharger")
    BY StartBuilt, PrechargerRaised
  <2>2. Grows(Start, t1, {} \cup {"precharger"})
    BY <1>1, <1>2, <2>1, GrowsStep
  <2> QED
    BY <2>2
<1> HIDE DEF t1
<1>4. Grows(Start, t2, {"precharger", "rowDecoder"})
  <2>1. Built(t1, {"precharger"}) => Raises(t1, t2, "rowDecoder")
    BY <1>2, SelectRaised
  <2>2. Grows(Start, t2, {"precharger"} \cup {"rowDecoder"})
    BY <1>2, <1>3, <2>1, GrowsStep
  <2>3. {"precharger"} \cup {"rowDecoder"} = {"precharger", "rowDecoder"}
    OBVIOUS
  <2> QED
    BY <2>2, <2>3
<1> HIDE DEF t2
<1>5. Grows(Start, t3, {"precharger"} \cup Selects)
  BY <1>4, DecodersRaised
<1> HIDE DEF t3
<1>6. Grows(Start, t4, SubUnits)
  BY <1>5, SensingRaised DEF Legal
<1> HIDE DEF t4
<1>7. SubArrayStands(u)
  <2>1. Built(t4, SubUnits) /\ Sums \cap t4.made = {} /\ Sub \notin t4.made
    BY <1>6, GrowsMade, SumNames DEF Grows
  <2>2. Built(u, SubUnits) /\ u.made = t4.made \cup {Sub}
    BY <1>2, <2>1, SumNames, BuiltSum
  <2> QED
    BY <2>1, <2>2, SumNames DEF SubArrayStands
<1> HIDE DEF u
<1>8. SubArrayInitialize(Start, c) = u
  <2>1. MakeDecoder(t1, "rowDecoder", c, c.fault # "rowDriver") = t2
    BY DEF Legal, MakeDecoder, RowDecoderInitialize, DriverInitialize, t2
  <2>2. "rowDecoder" \notin t2.bad
    BY <1>4 DEF Grows, Built
  <2> QED
    BY <2>1, <2>2 DEF SubArrayInitialize, Legal, u, t4, t3, t1, EachDecoder, Each3, BuildDecoder
<1> QED
  BY <1>7, <1>8

LEMMA SubArrayTurned ==
  ASSUME ~Legal
  PROVE  LET u == SubArrayInitialize(Start, c)
         IN  Turned(u, Sub) /\ "mat" \notin u.made /\ "bank" \notin u.made
<1> DEFINE t1 == PrechargerRC(PrechargerInitialize(Start, "precharger"), "precharger")
           g == IF BitsOf(c)["rowDecoder"] > 3 THEN {"rowDecoder"} ELSE {}
           t2 == RowDecoderInitialize(t1, "rowDecoder", g, FALSE)
           w == MakeDecoder(t1, "rowDecoder", c, TRUE)
           t3 == EachDecoder(w, BuildDecoder)
<1>1. Grows(Start, Start, {})
  BY StartBuilt, SameSame DEF Grows
<1>2. /\ "precharger" \in Units /\ "rowDecoder" \in Units /\ "rowDecoder" \in Selects
      /\ "rowDecoder" # "precharger" /\ SubUnits \subseteq Units
      /\ {"lev2", "lev1", "senseAmp"} \subseteq Units /\ {"lev2", "lev1"} \subseteq Muxes
  BY UnitKinds, TheSubUnits DEF Selects, Driven, Muxes, Gated, Amps, Units
<1>3. Grows(Start, t1, {"precharger"})
  <2>1. Raises(Start, t1, "precharger")
    BY StartBuilt, PrechargerRaised
  <2>2. Grows(Start, t1, {} \cup {"precharger"})
    BY <1>1, <1>2, <2>1, GrowsStep
  <2> QED
    BY <2>2
<1> HIDE DEF t1
<1>4. CASE Illegal(c)
  <2>1. SubArrayInitialize(Start, c) = Made(Invalidate(Start, Sub), Sub)
    BY <1>4 DEF SubArrayInitialize
  <2> QED
    BY <2>1, StartIsState, SumNames, TurnDown
<1>5. CASE ~Illegal(c) /\ (Overloaded(c) \/ Unreadable(c))
  <2>1. SubArrayInitialize(Start, c) = Invalidate(Start, Sub)
    BY <1>5 DEF SubArrayInitialize
  <2> QED
    BY <2>1, StartIsState, SumNames, TurnDown
<1>6. CASE ~Illegal(c) /\ ~Overloaded(c) /\ ~Unreadable(c) /\ c.fault = "rowDriver"
  <2>1. Undone(Parts, t1, "rowDecoder")
    BY <1>2, <1>3, BuiltUndone DEF Grows, Driven
  <2>2. /\ IsState(Parts, t2) /\ t2.made = t1.made /\ t2.complaints = t1.complaints
        /\ "rowDecoder" \in t2.bad
    <3>1. Refuses(Parts, t1, t2, "rowDecoder")
      <4> HIDE DEF g
      <4> QED
        BY <2>1, RowDecoderRefuses
    <3> QED
      BY <3>1 DEF Refuses
  <2>3. MakeDecoder(t1, "rowDecoder", c, c.fault # "rowDriver") = t2
    <3>1. RowDecoderInitialize(t1, "rowDecoder", g, c.fault # "rowDriver") = t2
      BY <1>6 DEF RowDecoderInitialize, DriverInitialize
    <3> HIDE DEF t2
    <3> QED
      BY <2>2, <3>1 DEF MakeDecoder
  <2> HIDE DEF t2
  <2>4. SubArrayInitialize(Start, c) = Invalidate(t2, Sub)
    BY <1>6, <2>2, <2>3 DEF SubArrayInitialize, t1
  <2>5. t2.complaints = {} /\ "mat" \notin t2.made /\ "bank" \notin t2.made
    BY <1>3, <2>2, GrowsMade, SumNames
  <2> QED
    BY <2>2, <2>4, <2>5, SumNames, TurnDown
<1>7. CASE ~Illegal(c) /\ ~Overloaded(c) /\ ~Unreadable(c) /\ c.fault # "rowDriver" /\ ~Pitched
  <2> DEFINE t5 == MakeMux(t3, "lev2", c)
             t6 == MakeMux(t5, "lev1", c)
             t7 == Made(Invalidate(t6, "senseAmp"), "senseAmp")
             t8 == Made(Invalidate(t7, Sub), Sub)
             S0 == {"precharger"} \cup Selects
  <2>1. Grows(Start, w, {"precharger", "rowDecoder"})
    <3>1. Built(t1, {"precharger"}) => Raises(t1, w, "rowDecoder")
      BY <1>2, SelectRaised
    <3>2. Grows(Start, w, {"precharger"} \cup {"rowDecoder"})
      BY <1>2, <1>3, <3>1, GrowsStep
    <3>3. {"precharger"} \cup {"rowDecoder"} = {"precharger", "rowDecoder"}
      OBVIOUS
    <3> QED
      BY <3>2, <3>3
  <2> HIDE DEF w
  <2>2. Grows(Start, t3, S0)
    BY <2>1, DecodersRaised
  <2> HIDE DEF t3
  <2>3. S0 \subseteq Units /\ {"lev2", "lev1", "senseAmp"} \cap S0 = {}
    BY UnitKinds DEF Units, Gated, Driven, Selects, Column
  <2>4. Grows(Start, t5, S0 \cup {"lev2"})
    <3>1. Built(t3, S0) => Raises(t3, t5, "lev2")
      BY <1>2, <2>3, MuxRaised
    <3> QED
      BY <1>2, <2>2, <2>3, <3>1, GrowsStep
  <2> HIDE DEF t5
  <2>5. Grows(Start, t6, (S0 \cup {"lev2"}) \cup {"lev1"})
    <3>1. Built(t5, S0 \cup {"lev2"}) => Raises(t5, t6, "lev1")
      BY <1>2, <2>3, MuxRaised
    <3> QED
      BY <1>2, <2>3, <2>4, <3>1, GrowsStep
  <2> HIDE DEF t6
  <2>6. "senseAmp" \notin t6.made /\ "senseAmp" \in Parts
    BY <1>2, <2>3, <2>5, BuiltUndone, UnitParts DEF Grows
  <2>7. IsState(Parts, t6) /\ t6.complaints = {} /\ Sums \cap t6.made = {}
    BY <2>5, GrowsMade
  <2>8. Turned(t7, "senseAmp") /\ t7.made = t6.made \cup {"senseAmp"}
    BY <2>6, <2>7, TurnDown
  <2>9. "senseAmp" \notin Sums
    BY <1>2, UnitNames
  <2>10. MakeSensing(t3, c) = Invalidate(t7, Sub)
    <3>1. c.internal /\ c.fault = "pitch"
      BY <1>7 DEF Pitched
    <3>2. SenseAmpInitialize(t6, "senseAmp", c.fault # "pitch") = t7
      BY <3>1 DEF SenseAmpInitialize
    <3> HIDE DEF t7
    <3> QED
      BY <2>8, <3>1, <3>2 DEF MakeSensing, t6, t5, Turned
  <2>11. SubArrayInitialize(Start, c) = t8
    <3>1. MakeDecoder(t1, "rowDecoder", c, c.fault # "rowDriver") = w
      BY <1>7 DEF MakeDecoder, RowDecoderInitialize, DriverInitialize, w
    <3>2. "rowDecoder" \notin w.bad
      BY <2>1 DEF Grows, Built
    <3> HIDE DEF t7
    <3> QED
      BY <1>7, <2>10, <3>1, <3>2 DEF SubArrayInitialize, t3, t1, EachDecoder, Each3, BuildDecoder
  <2> HIDE DEF t7
  <2>12. IsState(Parts, t7) /\ t7.complaints = {} /\ Sums \cap t7.made = {}
    BY <2>7, <2>8, <2>9 DEF Turned
  <2>13. Turned(t8, Sub) /\ t8.made = t7.made \cup {Sub}
    BY <2>12, SumNames, TurnDown
  <2> QED
    BY <2>11, <2>12, <2>13, SumNames
<1> QED
  BY <1>4, <1>5, <1>6, <1>7 DEF Legal

(* Mat::Initialize()                                                        *)
MatStands(t) ==
  /\ Built(t, MatUnits) /\ Sums \cap t.made = {"mat", Sub}
  /\ Fig(t, Sub, "area") = Sum(SubAreas)

Mattable == Legal /\ c.fault \notin {"partition", "rowAddress"}

LEMMA SubArraySized ==
  ASSUME Legal
  PROVE  LET u == SubArrayArea(SubArrayInitialize(Start, c), c)
         IN  /\ Built(u, SubUnits) /\ Sums \cap u.made = {Sub}
             /\ Fig(u, Sub, "area") = Sum(SubAreas)
<1> DEFINE t == SubArrayInitialize(Start, c)
           u == SubArrayArea(t, c)
<1>1. Built(t, SubUnits) /\ Sums \cap t.made = {Sub}
  BY SubArrayBuilt DEF SubArrayStands
<1> HIDE DEF t
<1>2. IsState(Parts, t) /\ Modest(t) /\ t.bad = {}
  BY <1>1 DEF Built
<1>3. SubReady(t)
  <2>1. ASSUME NEW p \in SubUnits PROVE Known(t, p)
    <3>1. Begun(t, p) /\ p \notin BlockSet \cup Compares
      BY <1>1, TheBankUnits DEF Built
    <3> QED
      BY <3>1 DEF Begun
  <2> QED
    BY <2>1 DEF SubReady
<1>4. Stands(t, Sub)
  BY <1>1, <1>2, SumNames DEF Stands
<1>5. /\ Works(Parts, t, u, Units \cup Drivers \cup {Sub}, {"area"}) /\ Modest(u)
      /\ Fig(u, Sub, "area") = Sum(SubAreas)
  BY <1>2, <1>3, <1>4, SubArrayAreaGives
<1> HIDE DEF u
<1>6. Built(u, SubUnits)
  BY <1>1, <1>5, TheSubUnits, BuiltArea
<1>7. u.made = t.made
  BY <1>5 DEF Works, Computes
<1> QED
  BY <1>1, <1>5, <1>6, <1>7 DEF u, t

LEMMA MatBuilt ==
  ASSUME c \in Configs, Mattable
  PROVE  MatStands(MatInitialize(Start, c))
<1> DEFINE sub == SubArrayInitialize(Start, c)
           sized == SubArrayArea(sub, c)
           blocks == EachBlock(sized, BuildBlock)
           compare == IF MatCompares(c) THEN ComparatorInitialize(blocks, "comparator") ELSE blocks
           done == IF MatTsvs(c) THEN TsvInitialize(compare, "mat_tsv") ELSE compare
           u == Made(done, "mat")
           S1 == SubUnits \cup BlockSet
           S2 == S1 \cup (IF MatCompares(c) THEN {"comparator"} ELSE {})
<1>1. Sub \notin sub.bad
  BY SubArrayBuilt DEF SubArrayStands, Built, Mattable
<1>2. /\ Built(sized, SubUnits) /\ Sums \cap sized.made = {Sub}
      /\ Fig(sized, Sub, "area") = Sum(SubAreas)
  BY SubArraySized DEF Mattable
<1>3. MatInitialize(Start, c) = u
  BY <1>1 DEF MatInitialize, MatMakes, Mattable, EachBlock, Each4, Each3, BuildBlock
<1> HIDE DEF sub, sized
<1>4. Grows(sized, blocks, S1)
  BY <1>2, TheSubUnits, BlocksRaised
<1> HIDE DEF blocks
<1>5. /\ S1 \subseteq Units /\ "comparator" \in Units \ S1 /\ "mat_tsv" \in Units \ S1
      /\ "comparator" \in Compares /\ "mat_tsv" \in Tsvs /\ "comparator" # "mat_tsv"
  BY TheBankUnits, TheSubUnits, TheBlocks DEF Compares, Tsvs
<1> HIDE DEF S1
<1>6. Grows(sized, compare, S2)
  <2>1. CASE ~MatCompares(c)
    <3>1. compare = blocks /\ S2 = S1
      BY <2>1
    <3> QED
      BY <1>4, <3>1
  <2>2. CASE MatCompares(c)
    <3> DEFINE x == ComparatorInitialize(blocks, "comparator")
    <3>1. compare = x /\ S2 = S1 \cup {"comparator"}
      BY <2>2
    <3>2. Built(blocks, S1) => Raises(blocks, x, "comparator")
      BY <1>5, ComparatorRaised
    <3> HIDE DEF x
    <3>3. Grows(sized, x, S1 \cup {"comparator"})
      BY <1>4, <1>5, <3>2, GrowsStep
    <3> QED
      BY <3>1, <3>3
  <2> QED
    BY <2>1, <2>2
<1>7. S2 \subseteq Units /\ "mat_tsv" \in Units \ S2
      /\ MatUnits = S2 \cup (IF MatTsvs(c) THEN {"mat_tsv"} ELSE {})
  BY <1>5 DEF MatUnits, S1
<1> HIDE DEF compare, S2
<1>8. Grows(sized, done, MatUnits)
  <2>1. CASE ~MatTsvs(c)
    <3>1. done = compare /\ MatUnits = S2
      BY <1>7, <2>1
    <3> QED
      BY <1>6, <3>1
  <2>2. CASE MatTsvs(c)
    <3> DEFINE x == TsvInitialize(compare, "mat_tsv")
    <3>1. done = x /\ MatUnits = S2 \cup {"mat_tsv"}
      BY <1>7, <2>2
    <3>2. Built(compare, S2) => Raises(compare, x, "mat_tsv")
      BY <1>5, <1>7, TsvRaised
    <3> HIDE DEF x
    <3>3. Grows(sized, x, S2 \cup {"mat_tsv"})
      BY <1>6, <1>7, <3>2, GrowsStep
    <3> QED
      BY <3>1, <3>3
  <2> QED
    BY <2>1, <2>2
<1> HIDE DEF done
<1>9. Built(done, MatUnits) /\ Sums \cap done.made = {Sub} /\ "mat" \notin done.made
  BY <1>2, <1>8, SumNames DEF Grows, Same
<1>10. "area" \in Fields \ Building
  BY BuildingFields, FigureIs
<1>11. Fig(done, Sub, "area") = Sum(SubAreas)
  BY <1>2, <1>8, <1>10, SumNames DEF Grows, Same
<1>12. /\ Built(u, MatUnits) /\ u.made = done.made \cup {"mat"}
       /\ \A q \in Parts, f \in Fields : Fig(u, q, f) = Fig(done, q, f)
  <2>1. MatUnits \subseteq Units
    BY TheBankUnits
  <2> QED
    BY <1>9, <2>1, SumNames, BuiltSum
<1> HIDE DEF u
<1>13. Sums \cap u.made = {"mat", Sub}
  BY <1>9, <1>12, SumNames
<1>14. Fig(u, Sub, "area") = Sum(SubAreas)
  BY <1>10, <1>11, <1>12, SumNames
<1> QED
  BY <1>3, <1>12, <1>13, <1>14 DEF MatStands

LEMMA MatTurned ==
  ASSUME ~Mattable
  PROVE  LET u == MatInitialize(Start, c)
         IN  Turned(u, "mat") /\ "bank" \notin u.made
<1> DEFINE sub == SubArrayInitialize(Start, c)
           sized == SubArrayArea(sub, c)
<1>1. CASE c.fault = "partition"
  <2>1. MatInitialize(Start, c) = Made(Invalidate(Start, "mat"), "mat")
    BY <1>1 DEF MatInitialize, MatMakes
  <2> QED
    BY <2>1, StartIsState, SumNames, TurnDown
<1>2. CASE c.fault # "partition" /\ ~Legal
  <2>1. Turned(sub, Sub) /\ "mat" \notin sub.made /\ "bank" \notin sub.made
    BY <1>2, SubArrayTurned
  <2>2. MatInitialize(Start, c) = Made(Invalidate(sub, "mat"), "mat")
    BY <1>2, <2>1 DEF MatInitialize, MatMakes, Turned
  <2> HIDE DEF sub
  <2> QED
    BY <2>1, <2>2, SumNames, TurnDown DEF Turned
<1>3. CASE c.fault = "rowAddress" /\ Legal
  <2>1. Sub \notin sub.bad
    BY <1>3, SubArrayBuilt DEF SubArrayStands, Built
  <2>2. Built(sized, SubUnits) /\ Sums \cap sized.made = {Sub}
    BY <1>3, SubArraySized
  <2>3. MatInitialize(Start, c) = Made(Invalidate(sized, "mat"), "mat")
    BY <1>3, <2>1 DEF MatInitialize, MatMakes
  <2> HIDE DEF sized
  <2>4. IsState(Parts, sized) /\ sized.complaints = {} /\ "mat" \notin sized.made /\ "bank" \notin sized.made
    BY <2>2, SumNames DEF Built
  <2> QED
    BY <2>3, <2>4, SumNames, TurnDown
<1> QED
  BY <1>1, <1>2, <1>3 DEF Mattable

-----------------------------------------------------------------------------
(* The end of both Initialize(): what a bank senses and compares with       *)
(* outside its mats, and its TSVs.                                          *)
GlobalUnits ==
  MatUnits \cup (IF c.internal THEN {} ELSE {"globalSenseAmp", "globalMux"})
    \cup (IF c.tag /\ ~c.internal THEN {"globalComparator"} ELSE {})

LEMMA TheGlobalUnits ==
  /\ MatUnits \subseteq Units
  /\ "globalSenseAmp" \in Units \ MatUnits
  /\ "globalMux" \in Units \ (MatUnits \cup {"globalSenseAmp"})
  /\ "globalComparator" \in Units \ (MatUnits \cup {"globalSenseAmp"} \cup {"globalMux"})
  /\ GlobalUnits \subseteq Units /\ "bank_tsv" \in Units \ GlobalUnits
  /\ "globalSenseAmp" \in Amps /\ "globalComparator" \in Compares /\ "bank_tsv" \in Tsvs
  /\ BankUnits = GlobalUnits \cup (IF c.htree \/ Stacked(c) THEN {"bank_tsv"} ELSE {})
<1> DEFINE X == {"globalSenseAmp", "globalMux", "globalComparator", "bank_tsv"}
<1>1. X \subseteq Units \ (SubUnits \cup BlockSet)
  BY TheBankUnits
<1>2. X \cap MatUnits = {} /\ MatUnits \subseteq Units
  BY <1>1, TheBankUnits DEF MatUnits
<1>3. GlobalUnits \subseteq MatUnits \cup {"globalSenseAmp", "globalMux", "globalComparator"}
  BY DEF GlobalUnits
<1>4. BankUnits = GlobalUnits \cup (IF c.htree \/ Stacked(c) THEN {"bank_tsv"} ELSE {})
  BY DEF BankUnits, GlobalUnits
<1>5. "globalSenseAmp" \in Amps /\ "globalComparator" \in Compares /\ "bank_tsv" \in Tsvs
  BY DEF Amps, Compares, Tsvs
<1> QED
  BY <1>1, <1>2, <1>3, <1>4, <1>5

LEMMA GlobalsRaised ==
  ASSUME c \in Configs, ~c.internal, c.fault # "globalPitch", NEW t, Built(t, MatUnits)
  PROVE  Grows(t, GlobalSense(t, c), GlobalUnits)
<1> DEFINE sense == SenseAmpInitialize(t, "globalSenseAmp", TRUE)
           known == SenseAmpRC(sense, "globalSenseAmp")
           mux   == MuxRC(MuxInitialize(known, "globalMux", c.many), "globalMux")
           end   == ComparatorInitialize(mux, "globalComparator")
           M1    == MatUnits \cup {"globalSenseAmp"}
           M2    == M1 \cup {"globalMux"}
<1>1. sense.bad = {}
  <2>1. IsState(Parts, t) /\ t.bad = {} /\ "globalSenseAmp" \in Parts
    BY OuterNames DEF Built, Outer
  <2> QED
    BY <2>1, MadeGives DEF SenseAmpInitialize
<1>2. GlobalSense(t, c) = IF c.tag THEN end ELSE mux
  BY <1>1 DEF GlobalSense
<1>3. Grows(t, t, MatUnits)
  BY SameSame DEF Grows
<1>4. Built(t, MatUnits) => Raises(t, known, "globalSenseAmp")
  BY TheGlobalUnits, AmpRaised
<1> HIDE DEF known
<1>5. Grows(t, known, M1)
  BY <1>3, <1>4, TheGlobalUnits, GrowsStep
<1>6. M1 \subseteq Units /\ "globalMux" \in Units \ M1
  BY TheGlobalUnits
<1>7. c.many \in BOOLEAN /\ Gates("globalMux") = IF c.many THEN {"globalMux"} ELSE {}
  BY ConfigAssumption, GatesAre
<1>8. Built(known, M1) => Raises(known, mux, "globalMux")
  BY <1>6, <1>7, AnyMuxRaised
<1> HIDE DEF M1, mux
<1>9. Grows(t, mux, M2)
  BY <1>5, <1>6, <1>8, GrowsStep
<1>10. M2 \subseteq Units /\ "globalComparator" \in Units \ M2
  BY TheGlobalUnits DEF M1
<1>11. Built(mux, M2) => Raises(mux, end, "globalComparator")
  BY <1>10, TheGlobalUnits, ComparatorRaised
<1>12. GlobalUnits = M2 \cup (IF c.tag THEN {"globalComparator"} ELSE {})
  BY DEF GlobalUnits, M1
<1> HIDE DEF M2, end
<1>13. Grows(t, end, M2 \cup {"globalComparator"})
  BY <1>9, <1>10, <1>11, GrowsStep
<1>14. CASE c.tag
  BY <1>2, <1>12, <1>13, <1>14
<1>15. CASE ~c.tag
  <2>1. GlobalUnits = M2
    BY <1>12, <1>15
  <2> QED
    BY <1>2, <1>9, <1>15, <2>1
<1> QED
  BY <1>14, <1>15

LEMMA GlobalsTurned ==
  ASSUME ~c.internal, c.fault = "globalPitch", NEW t, Built(t, MatUnits), "bank" \notin t.made
  PROVE  LET u == GlobalSense(t, c)
         IN  Turned(u, "bank") /\ "bank" \notin u.made
<1> DEFINE p == "globalSenseAmp"
           off == Invalidate(t, p)
           sense == SenseAmpInitialize(t, p, FALSE)
<1>1. p \in Units \ MatUnits /\ p \in Parts
  BY TheGlobalUnits, UnitParts
<1>2. IsState(Parts, t) /\ p \notin t.made /\ t.complaints = {}
  BY <1>1, BuiltUndone DEF Built
<1>3. sense = Made(off, p)
  BY DEF SenseAmpInitialize
<1>4. p # "bank"
  OBVIOUS
<1>5. GlobalSense(t, c) = IF p \in sense.bad THEN Invalidate(sense, "bank") ELSE GlobalSense(t, c)
  BY DEF GlobalSense
<1> HIDE DEF p
<1>6. IsState(Parts, off) /\ off.made = t.made /\ off.bad = t.bad \cup {p} /\ off.complaints = {}
  BY <1>1, <1>2, InvalidateGives
<1> HIDE DEF off, sense
<1>7. IsState(Parts, sense) /\ sense.made = t.made \cup {p} /\ sense.bad = t.bad \cup {p}
      /\ sense.complaints = {}
  <2>1. p \notin off.made
    BY <1>2, <1>6
  <2> QED
    BY <1>1, <1>3, <1>6, <2>1, MadeGives
<1>8. GlobalSense(t, c) = Invalidate(sense, "bank") /\ "bank" \notin sense.made
  BY <1>4, <1>5, <1>7
<1> QED
  BY <1>7, <1>8, SumNames, TurnDown

(* Initialize() of both kinds of banks: what stands, and what is refused.   *)
Bankable ==
  /\ ~NeverReady /\ c.fault # "routing" /\ Mattable
  /\ c.internal \/ c.fault # "globalPitch"

MatsStand(mat, u) ==
  /\ Built(u, MatUnits) /\ u.made = mat.made
  /\ Fig(u, Sub, "area") = Sum(SubAreas) /\ (~c.htree => MatsSized(u))

LEMMA MatsOfBank ==
  ASSUME NEW mat, MatStands(mat)
  PROVE  MatsStand(mat, IF c.htree THEN mat ELSE MatArea(mat, c))
<1>1. CASE c.htree
  BY <1>1 DEF MatStands, MatsStand
<1>2. CASE ~c.htree
  <2> DEFINE u == MatArea(mat, c)
  <2>0. (IF c.htree THEN mat ELSE MatArea(mat, c)) = u
    BY <1>2
  <2>1. IsState(Parts, mat) /\ Modest(mat) /\ Idle(mat) /\ \A p \in MatUnits : Begun(mat, p)
    BY DEF MatStands, Built
  <2>2. Stands(mat, "mat") /\ Fig(mat, Sub, "area") = Sum(SubAreas)
    BY DEF MatStands, Built, Stands
  <2>3. MatSized(mat, u)
    BY <2>1, <2>2, MatAreaGives
  <2> HIDE DEF u
  <2>4. Works(Parts, mat, u, Units \cup Drivers \cup {"mat", "logic"}, {"area"}) /\ Modest(u)
        /\ MatsSized(u)
    BY <2>3 DEF MatSized, MatsSized
  <2>5. Built(mat, MatUnits) /\ MatUnits \subseteq Units
    BY TheGlobalUnits DEF MatStands
  <2>6. Built(u, MatUnits)
    BY <2>4, <2>5, BuiltArea
  <2>7. u.made = mat.made
    BY <2>4 DEF Works, Computes
  <2>8. Sub \in Parts /\ "area" \in Fields /\ Sub \notin Units \cup Drivers \cup {"mat", "logic"}
    <3>1. "logic" \in Kept /\ "area" \in Figure /\ Figure \subseteq Fields
      BY FieldNames, FigureIs DEF Kept
    <3>2. Sub \in Sums /\ Sub \in Parts /\ Sub # "mat"
      BY SumNames
    <3> QED
      BY <3>1, <3>2, UnitNames
  <2>9. Fig(u, Sub, "area") = Sum(SubAreas)
    BY <2>2, <2>4, <2>8 DEF Works
  <2> QED
    BY <1>2, <2>0, <2>4, <2>6, <2>7, <2>9 DEF MatsStand
<1> QED
  BY <1>1, <1>2

LEMMA BankMakesGives ==
  ASSUME c \in Configs, NEW mat, MatStands(mat), c.internal \/ c.fault # "globalPitch"
  PROVE  Raised(BankMakes(mat, c))
<1> DEFINE sized == IF c.htree THEN mat ELSE MatArea(mat, c)
           sense == IF c.internal THEN sized ELSE GlobalSense(sized, c)
           tsvs  == IF c.htree \/ Stacked(c) THEN TsvInitialize(sense, "bank_tsv") ELSE sense
           u     == Made(tsvs, "bank")
<1>1. mat.bad = {} /\ Sums \cap mat.made = {"mat", Sub}
  BY DEF MatStands, Built
<1>2. BankMakes(mat, c) = IF "bank" \in sense.bad THEN Made(sense, "bank") ELSE u
  BY <1>1 DEF BankMakes
<1>3. MatsStand(mat, sized)
  BY MatsOfBank
<1> HIDE DEF sized
<1>4. Grows(sized, sense, GlobalUnits)
  <2>1. CASE c.internal
    <3>1. sense = sized /\ GlobalUnits = MatUnits
      BY <2>1 DEF GlobalUnits
    <3> QED
      BY <1>3, <3>1, SameSame DEF Grows, MatsStand
  <2>2. CASE ~c.internal
    <3>1. Grows(sized, GlobalSense(sized, c), GlobalUnits)
      BY <1>3, <2>2, GlobalsRaised DEF MatsStand
    <3> QED
      BY <2>2, <3>1
  <2> QED
    BY <2>1, <2>2
<1> HIDE DEF sense
<1>5. Grows(sized, tsvs, BankUnits)
  <2>1. CASE c.htree \/ Stacked(c)
    <3> DEFINE x == TsvInitialize(sense, "bank_tsv")
    <3>1. tsvs = x /\ BankUnits = GlobalUnits \cup {"bank_tsv"}
      BY <2>1, TheGlobalUnits
    <3>2. Built(sense, GlobalUnits) => Raises(sense, x, "bank_tsv")
      BY TheGlobalUnits, TsvRaised
    <3> HIDE DEF x
    <3>3. Grows(sized, x, GlobalUnits \cup {"bank_tsv"})
      BY <1>4, <3>2, TheGlobalUnits, GrowsStep
    <3> QED
      BY <3>1, <3>3
  <2>2. CASE ~(c.htree \/ Stacked(c))
    <3>1. tsvs = sense /\ BankUnits = GlobalUnits
      BY <2>2, TheGlobalUnits
    <3> QED
      BY <1>4, <3>1
  <2> QED
    BY <2>1, <2>2
<1>6. BankMakes(mat, c) = u
  BY <1>2, <1>4 DEF Grows, Built
<1> HIDE DEF tsvs
<1>7. Built(tsvs, BankUnits) /\ Sums \cap tsvs.made = {"mat", Sub} /\ "bank" \notin tsvs.made
  BY <1>1, <1>3, <1>5, SumNames DEF Grows, Same, MatsStand
<1>8. "area" \in Fields \ Building
  BY BuildingFields, FigureIs
<1>9. BankUnits \subseteq Units
  BY TheBankUnits
<1>10. /\ Built(u, BankUnits) /\ u.made = tsvs.made \cup {"bank"}
       /\ \A q \in Parts, f \in Fields : Fig(u, q, f) = Fig(tsvs, q, f)
  BY <1>7, <1>9, SumNames, BuiltSum
<1> HIDE DEF u
<1>11. \A q \in Parts : Fig(u, q, "area") = Fig(sized, q, "area")
  BY <1>5, <1>8, <1>10 DEF Grows, Same
<1>12. "logic" \in Parts
  BY UnitNames DEF Kept
<1>13. Fig(u, Sub, "area") = Sum(SubAreas) /\ (~c.htree => MatsSized(u))
  BY <1>3, <1>11, <1>12, SumNames DEF MatsStand, MatsSized
<1>14. IsState(Parts, u) /\ Modest(u) /\ Idle(u) /\ u.bad = {} /\ u.complaints = {}
       /\ \A p \in BankUnits : Begun(u, p)
  BY <1>10 DEF Built
<1>15. {"bank", "mat", Sub} \subseteq u.made
  BY <1>7, <1>10
<1>16. \A p \in Selects : Fig(u, p, "refreshEnergy") = {}
  <2>1. Selects \subseteq Units /\ "refreshEnergy" \in Figure \ {"area"}
    BY UnitKinds, TotalsAre DEF Driven
  <2> QED
    BY <1>14, <2>1 DEF Idle
<1>17. Standing(u)
  BY <1>14, <1>15, <1>16 DEF Standing
<1> QED
  BY <1>6, <1>13, <1>14, <1>17 DEF Raised

LEMMA BankBuilt ==
  ASSUME c \in Configs, Bankable
  PROVE  Raised(BankInitialize(Start, c))
<1>1. BankInitialize(Start, c) = BankMakes(MatInitialize(Start, c), c)
  BY DEF Bankable, NeverReady, BankInitialize
<1>2. MatStands(MatInitialize(Start, c))
  BY MatBuilt DEF Bankable
<1>3. c.internal \/ c.fault # "globalPitch"
  BY DEF Bankable
<1> QED
  BY <1>1, <1>2, <1>3, BankMakesGives

LEMMA BankTurned ==
  ASSUME c \in Configs, ~NeverReady, ~Bankable
  PROVE  LET u == BankInitialize(Start, c)
         IN  Turned(u, "bank") /\ "bank" \in u.made
<1> DEFINE mat == MatInitialize(Start, c)
           sized == IF c.htree THEN mat ELSE MatArea(mat, c)
           sense == GlobalSense(sized, c)
<1>1. CASE c.fault = "routing"
  <2>1. BankInitialize(Start, c) = Made(Invalidate(Start, "bank"), "bank")
    BY <1>1 DEF BankInitialize, NeverReady
  <2> QED
    BY <2>1, StartIsState, SumNames, TurnDown
<1>2. CASE c.fault # "routing" /\ ~Mattable
  <2>1. Turned(mat, "mat") /\ "bank" \notin mat.made
    BY <1>2, MatTurned
  <2>2. BankInitialize(Start, c) = Made(Invalidate(mat, "bank"), "bank")
    BY <1>2, <2>1 DEF BankInitialize, BankMakes, NeverReady, Turned
  <2> HIDE DEF mat
  <2> QED
    BY <2>1, <2>2, SumNames, TurnDown DEF Turned
<1>3. CASE Mattable /\ ~c.internal /\ c.fault = "globalPitch"
  <2>1. MatStands(mat)
    BY <1>3, MatBuilt
  <2>2. MatsStand(mat, sized)
    BY <2>1, MatsOfBank
  <2>3. mat.bad = {} /\ "bank" \notin mat.made
    BY <2>1, SumNames DEF MatStands, Built
  <2>4. Built(sized, MatUnits) /\ "bank" \notin sized.made
    BY <2>2, <2>3 DEF MatsStand
  <2>5. BankInitialize(Start, c) = BankMakes(mat, c)
    BY <1>3 DEF BankInitialize, NeverReady
  <2> HIDE DEF mat
  <2>6. BankMakes(mat, c) = IF "bank" \in sense.bad THEN Made(sense, "bank") ELSE BankMakes(mat, c)
    BY <1>3, <2>3 DEF BankMakes
  <2> HIDE DEF sized
  <2>7. Turned(sense, "bank") /\ "bank" \notin sense.made
    BY <1>3, <2>4, GlobalsTurned
  <2> HIDE DEF sense
  <2>8. BankInitialize(Start, c) = Made(sense, "bank")
    BY <2>5, <2>6, <2>7 DEF Turned
  <2>9. IsState(Parts, sense) /\ "bank" \in sense.bad /\ sense.complaints = {}
    BY <2>7 DEF Turned
  <2> QED
    BY <2>7, <2>8, <2>9, SumNames, MadeGives DEF Turned
<1> QED
  BY <1>1, <1>2, <1>3 DEF Bankable

LEMMA NeverBegun ==
  ASSUME NeverReady
  PROVE  LET u == BankInitialize(Start, c)
         IN  Turned(u, "bank") /\ u.made = {}
<1>1. BankInitialize(Start, c) = Invalidate(Start, "bank")
  BY DEF BankInitialize, NeverReady
<1> QED
  BY <1>1, StartIsState, SumNames, TurnDown

-----------------------------------------------------------------------------
(* A bank from call to call.  It stands, and its figures are what the       *)
(* lemmas above say; or it is turned down, with the worst value in what is  *)
(* worked out after that; or its methods only complain.                     *)
AreasKnown(t) ==
  /\ Fig(t, "bank", "area") = Sum(BankAreaSum) /\ MatsSized(t)
  /\ Fig(t, Sub, "area") = Sum(SubAreas)

Sized(t) == Standing(t) /\ Idle(t) /\ (\A p \in BankUnits : Begun(t, p)) /\ AreasKnown(t)

Ended(t) ==
  /\ IsState(Parts, t) /\ Modest(t) /\ t.complaints = {}
  /\ MatFigures(t) /\ FinalTotals(t) /\ AreasKnown(t)
  /\ t.bad = {} \/ (t.bad = {"bank"} /\ c.fault = "retention")

WorstIn(t, F) == \A f \in F : Worst \in Fig(t, "bank", f)
Ruined(t, F)  == Turned(t, "bank") /\ "bank" \in t.made /\ WorstIn(t, F)
Unready(t) ==
  /\ NeverReady /\ IsState(Parts, t) /\ "bank" \in t.bad /\ "bank" \notin t.made
  /\ t.complaints \subseteq {"bank"}

LEMMA MovedAreas ==
  ASSUME NEW t, NEW u, NEW Q, NEW F, Works(Parts, t, u, Q, F), "area" \notin F, AreasKnown(t)
  PROVE  AreasKnown(u)
<1>1. {"bank", "mat", Sub, "logic"} \subseteq Parts
  BY SumNames, UnitNames DEF Kept
<1>2. "area" \in Fields
  BY FieldNames, FigureIs
<1>3. \A q \in {"bank", "mat", Sub, "logic"} : Fig(u, q, "area") = Fig(t, q, "area")
  BY <1>1, <1>2 DEF Works
<1> QED
  BY <1>3 DEF AreasKnown, MatsSized

LEMMA StandsOn ==
  ASSUME NEW t, NEW u, NEW Q, NEW F, Works(Parts, t, u, Q, F), "refreshEnergy" \notin F,
         Modest(u), Standing(t)
  PROVE  Standing(u)
<1>1. Selects \subseteq Parts /\ "refreshEnergy" \in Fields
  BY UnitNames, UnitKinds, FieldNames, FigureIs, TotalsAre DEF Driven
<1>2. \A p \in Selects : Fig(u, p, "refreshEnergy") = Fig(t, p, "refreshEnergy")
  BY <1>1 DEF Works
<1> QED
  BY <1>2 DEF Standing, Works, Computes

(* CalculateArea() of a bank that stands: it gets its area, or it is found  *)
(* out of shape.                                                            *)
LEMMA AreaOnward ==
  ASSUME NEW t, Raised(t)
  PROVE  LET u == BankArea(t, c) IN Sized(u) \/ Ruined(u, {"area"})
<1> DEFINE u == BankArea(t, c)
           Q == Units \cup Drivers \cup {"mat", "logic", "bank"}
<1>1. (~Misshapen => BankSized(t, u)) /\ (Misshapen => Refused(t, u))
  BY BankAreaGives
<1> HIDE DEF u
<1>2. CASE Misshapen
  <2>1. Turned(u, "bank") /\ "bank" \in u.made
    BY <1>1, <1>2 DEF Refused, Turned, Raised, Standing
  <2>2. WorstIn(u, {"area"})
    BY <1>1, <1>2 DEF Refused, WorstIn
  <2> QED
    BY <2>1, <2>2 DEF Ruined, u
<1>3. CASE ~Misshapen
  <2>1. /\ Works(Parts, t, u, Q, {"area"}) /\ Modest(u)
        /\ Fig(u, "bank", "area") = Sum(BankAreaSum) /\ MatsSized(u)
    BY <1>1, <1>3 DEF BankSized, MatsSized
  <2>2. Sub \in Parts /\ "area" \in Fields /\ Sub \notin Q
    <3>1. "logic" \in Kept /\ "area" \in Figure /\ Figure \subseteq Fields
      BY FieldNames, FigureIs DEF Kept
    <3>2. Sub \in Sums /\ Sub \in Parts /\ Sub # "mat" /\ Sub # "bank"
      BY SumNames
    <3> QED
      BY <3>1, <3>2, UnitNames
  <2> HIDE DEF Q
  <2>3. Fig(u, Sub, "area") = Sum(SubAreas)
    BY <2>1, <2>2 DEF Works, Raised
  <2>4. Idle(u)
    BY <2>1, IdleStays DEF Raised
  <2>5. \A p \in BankUnits : Begun(u, p)
    <3> TAKE p \in BankUnits
    <3>1. p \in Units /\ Begun(t, p)
      BY TheBankUnits DEF Raised
    <3> QED
      BY <2>1, <3>1, BegunStays
  <2>6. Standing(u)
    BY <2>1, StandsOn DEF Raised
  <2> QED
    BY <2>1, <2>3, <2>4, <2>5, <2>6 DEF Sized, AreasKnown, u
<1> QED
  BY <1>2, <1>3

(* CalculateRC() of a bank that stands.                                     *)
LEMMA RCOnward ==
  ASSUME NEW t, Sized(t)
  PROVE  LET u == BankRC(t, c) IN Primed(u) /\ AreasKnown(u)
<1> DEFINE u == BankRC(t, c)
<1>1. Works(Parts, t, u, Units, {"cap"}) /\ Ready(u)
  BY BankRCGives DEF Sized
<1> HIDE DEF u
<1>2. "cap" \notin Figure /\ Figure \subseteq Fields /\ "area" \notin {"cap"} /\ "refreshEnergy" \notin {"cap"}
  BY FieldNames
<1>3. AreasKnown(u)
  BY <1>1, <1>2, MovedAreas DEF Sized
<1>4. Units \cup Sums \subseteq Parts
  BY UnitNames
<1>5. \A p \in Units \cup Sums, f \in Figure : Fig(u, p, f) = Fig(t, p, f)
  BY <1>1, <1>2, <1>4 DEF Works
<1>6. Modest(u)
  BY <1>5 DEF Modest, Sized, Standing
<1>7. Idle(u)
  BY <1>5 DEF Idle, Sized
<1>8. Standing(u)
  BY <1>1, <1>2, <1>6, StandsOn DEF Sized
<1> QED
  BY <1>1, <1>3, <1>7, <1>8 DEF Primed, u

LEMMA SameFigures ==
  ASSUME NEW x, NEW y, y.fig = x.fig
  PROVE  /\ Modest(x) => Modest(y)
         /\ MatFigures(x) => MatFigures(y)
         /\ FinalTotals(x) => FinalTotals(y)
         /\ AreasKnown(x) => AreasKnown(y)
<1>1. \A p, f : Fig(y, p, f) = Fig(x, p, f)
  BY DEF Fig
<1>2. Modest(x) => Modest(y)
  BY <1>1 DEF Modest
<1>3. MatFigures(x) => MatFigures(y)
  BY <1>1 DEF MatFigures
<1>4. FinalTotals(x) => FinalTotals(y)
  BY <1>1 DEF FinalTotals
<1>5. AreasKnown(x) => AreasKnown(y)
  BY <1>1 DEF AreasKnown, MatsSized
<1> QED
  BY <1>2, <1>3, <1>4, <1>5

(* CalculateLatencyAndPower() of a bank that stands.                        *)
LEMMA LatencyOnward ==
  ASSUME c \in Configs, NEW t, Primed(t), AreasKnown(t)
  PROVE  Ended(BankLatencyAndPower(t, c))
<1>1. c.htree => c.internal
  BY ConfigAssumption
<1>2. PICK x : Finished(t, x) /\ BankLatencyAndPower(t, c) = Retained(x, c)
  BY <1>1, HtreeFinishes, BusFinishes
<1>3. Works(Parts, t, x, BankMoved, Moving) /\ Modest(x) /\ MatFigures(x) /\ FinalTotals(x)
  BY <1>2 DEF Finished
<1>4. AreasKnown(x)
  BY <1>3, MovedAreas, MovingFields
<1>5. IsState(Parts, x) /\ x.bad = {} /\ x.complaints = {}
  BY <1>3 DEF Works, Computes, Primed, Standing
<1> DEFINE y == Retained(x, c)
<1>6. /\ IsState(Parts, y) /\ y.complaints = {}
      /\ y = x \/ (y.bad = {"bank"} /\ c.fault = "retention")
  BY <1>5, RetainedGives
<1>7. y.fig = x.fig
  BY <1>5 DEF Retained, Invalidate, IsState
<1> HIDE DEF y
<1>8. Modest(y) /\ MatFigures(y) /\ FinalTotals(y) /\ AreasKnown(y)
  BY <1>3, <1>4, <1>7, SameFigures
<1>9. y.bad = {} \/ (y.bad = {"bank"} /\ c.fault = "retention")
  BY <1>5, <1>6
<1>10. Ended(y)
  BY <1>6, <1>8, <1>9 DEF Ended
<1> QED
  BY <1>2, <1>10 DEF y

-----------------------------------------------------------------------------
(* A bank that is turned down: its methods write the worst value, and what  *)
(* a bus adds to that and subtracts from it leaves it there.                *)
LEMMA RuinedArea ==
  ASSUME NEW t, Ruined(t, {})
  PROVE  Ruined(BankArea(t, c), {"area"})
<1> DEFINE u == Put(t, "bank", All({"area"}, {Worst}))
<1>1. "bank" \in t.made /\ "bank" \in t.bad /\ IsState(Parts, t) /\ t.complaints = {}
  BY DEF Ruined, Turned
<1>2. BankArea(t, c) = u
  BY <1>1 DEF BankArea, BankAreas, Rated, When
<1>3. "bank" \in Parts /\ {"area"} \subseteq Fields
  BY SumNames, Names
<1>4. Sets(Parts, t, u, "bank", {"area"}, {Worst})
  BY <1>1, <1>3, PutAll
<1> HIDE DEF u
<1>5. Turned(u, "bank") /\ "bank" \in u.made
  BY <1>1, <1>4 DEF Sets, Computes, Turned
<1>6. Fig(u, "bank", "area") = {Worst}
  BY <1>3, <1>4 DEF Sets
<1> QED
  BY <1>2, <1>5, <1>6 DEF Ruined, WorstIn

LEMMA RuinedRC ==
  ASSUME NEW t, NEW F, Ruined(t, F)
  PROVE  BankRC(t, c) = t
BY DEF Ruined, Turned, BankRC, When

LEMMA RuinedRetained ==
  ASSUME NEW x, NEW F, F \subseteq Fields, Ruined(x, F)
  PROVE  Ruined(Retained(x, c), F)
<1> DEFINE y == Retained(x, c)
<1>1. "bank" \in x.bad /\ "bank" \in x.made /\ IsState(Parts, x) /\ x.complaints = {}
  BY DEF Ruined, Turned
<1>2. /\ IsState(Parts, y) /\ y.made = x.made /\ y.complaints = x.complaints
      /\ \A q \in Parts, f \in Fields : Fig(y, q, f) = Fig(x, q, f)
      /\ y = x \/ (y.bad = x.bad \cup {"bank"} /\ c.fault = "retention")
  BY <1>1, RetainedGives
<1> HIDE DEF y
<1>3. Turned(y, "bank") /\ "bank" \in y.made
  BY <1>1, <1>2 DEF Turned
<1>4. WorstIn(y, F)
  BY <1>2, SumNames DEF WorstIn, Ruined
<1>5. Ruined(y, F)
  BY <1>3, <1>4 DEF Ruined
<1> QED
  BY <1>5 DEF y

LEMMA ComparedIs ==
  /\ Compared = {"area"} \cup (Latencies \cup Drawing) /\ "area" \notin Latencies \cup Drawing
  /\ Compared \subseteq Fields /\ Latencies \cup Drawing \subseteq Carried \cup {"leakage"}
  /\ \A f \in Latencies \cup Drawing : Started(f) = f
  /\ Compared \ {"area"} = Latencies \cup Drawing
BY FieldNames DEF Compared, Latencies, Energies, Drawing, Carried, Figure, Fields, Loose, Started

LEMMA RuinedLatency ==
  ASSUME NEW t, Ruined(t, {"area"})
  PROVE  Ruined(BankLatencyAndPower(t, c), Compared)
<1> DEFINE w == Put(t, "bank", All(Compared \ {"area"}, {Worst}))
           v == WithMats(w)
           r == Routed(v, c)
<1>1. "bank" \in t.made /\ "bank" \in t.bad /\ IsState(Parts, t) /\ t.complaints = {}
  BY DEF Ruined, Turned
<1>2. "bank" \in Parts /\ Compared \subseteq Fields /\ "area" \in Fields
  BY SumNames, Names, ComparedIs
<1>3. Sets(Parts, t, w, "bank", Compared \ {"area"}, {Worst})
  BY <1>1, <1>2, PutAll
<1>4. BankLatencyAndPower(t, c) = Retained(IF c.htree THEN w ELSE BusTsvs(t, r, c), c)
  <2>1. CASE c.htree
    BY <1>1, <2>1 DEF BankLatencyAndPower, HtreeLatencyAndPower, Rated, When
  <2>2. CASE ~c.htree
    <3>1. \A m : BusWires(t, m, c) = w
      BY <1>1 DEF BusWires, Rated, When
    <3> QED
      BY <2>2, <3>1 DEF BankLatencyAndPower, BusLatencyAndPower
  <2> QED
    BY <2>1, <2>2
<1>5. BusTsvs(t, r, c) = r
  BY <1>1 DEF BusTsvs
<1> HIDE DEF w
<1>6. Turned(w, "bank") /\ "bank" \in w.made /\ IsState(Parts, w)
  BY <1>1, <1>3 DEF Sets, Computes, Turned
<1>7. WorstIn(w, Compared)
  <2> SUFFICES ASSUME NEW f \in Compared PROVE Worst \in Fig(w, "bank", f)
    BY DEF WorstIn
  <2>1. CASE f = "area"
    <3>1. Fig(w, "bank", f) = Fig(t, "bank", f)
      BY <1>2, <1>3, <2>1 DEF Sets
    <3> QED
      BY <2>1, <3>1 DEF Ruined, WorstIn
  <2>2. CASE f # "area"
    <3>1. Fig(w, "bank", f) = {Worst}
      BY <1>2, <1>3, <2>2 DEF Sets
    <3> QED
      BY <3>1
  <2> QED
    BY <2>1, <2>2
<1>8. Ruined(w, Compared)
  BY <1>6, <1>7 DEF Ruined
<1>9. Ruined(r, Compared)
  <2>1. /\ Works(Parts, w, v, {"bank"}, Moving)
        /\ \A f \in Carried \cup {"leakage"} :
             Fig(v, "bank", f) = Fig(w, "bank", Started(f)) \oplus Fig(w, "mat", f)
    BY <1>6, WithMatsGive
  <2> HIDE DEF v
  <2>2. IsState(Parts, v) /\ v.made = w.made /\ v.bad = w.bad /\ v.complaints = w.complaints
    BY <2>1 DEF Works, Computes
  <2>3. Works(Parts, v, r, {"routing"}, Moving)
    BY <2>2, RoutedGives
  <2> HIDE DEF r
  <2>4. Turned(r, "bank") /\ "bank" \in r.made
    BY <1>6, <2>2, <2>3 DEF Works, Computes, Turned
  <2>5. \A f \in Compared : Fig(r, "bank", f) = Fig(v, "bank", f)
    BY <1>2, <2>3 DEF Works
  <2>6. Worst \in Fig(v, "bank", "area")
    <3>1. "area" \notin Moving
      BY MovingFields
    <3>2. Fig(v, "bank", "area") = Fig(w, "bank", "area")
      BY <1>2, <2>1, <3>1 DEF Works
    <3> QED
      BY <1>7, <3>2, ComparedIs DEF WorstIn
  <2>7. ASSUME NEW f \in Latencies \cup Drawing PROVE Worst \in Fig(v, "bank", f)
    <3>1. Fig(v, "bank", f) = Fig(w, "bank", f) \oplus Fig(w, "mat", f)
      BY <2>1, ComparedIs
    <3>2. Worst \in Fig(w, "bank", f)
      BY <1>7, ComparedIs DEF WorstIn
    <3> QED
      BY <3>1, <3>2 DEF \oplus
  <2> QED
    BY <2>4, <2>5, <2>6, <2>7, ComparedIs DEF Ruined, WorstIn
<1> HIDE DEF r
<1>10. Ruined(IF c.htree THEN w ELSE BusTsvs(t, r, c), Compared)
  BY <1>5, <1>8, <1>9
<1> QED
  BY <1>2, <1>4, <1>10, RuinedRetained

(* The DRAM that is sensed outside its mats was never ready: its methods    *)
(* complain, and nothing else about it changes that is looked at.           *)
LEMMA UnreadyComplains ==
  ASSUME NEW t, Unready(t)
  PROVE  Unready(Complain(t, "bank")) /\ IsState(Parts, Complain(t, "bank"))
<1>1. IsState(Parts, t) /\ "bank" \in Parts
  BY SumNames DEF Unready
<1> DEFINE u == Complain(t, "bank")
<1>2. IsState(Parts, u) /\ u.made = t.made /\ u.bad = t.bad
      /\ u.complaints = t.complaints \cup {"bank"}
  BY <1>1, ComplainGives
<1> HIDE DEF u
<1>3. Unready(u) /\ IsState(Parts, u)
  BY <1>2 DEF Unready
<1> QED
  BY <1>3 DEF u

LEMMA UnreadyStays ==
  ASSUME c \in Configs, NEW t, Unready(t)
  PROVE  Unready(BankArea(t, c)) /\ Unready(BankRC(t, c)) /\ Unready(BankLatencyAndPower(t, c))
<1> DEFINE w == Complain(t, "bank")
           v == WithMats(w)
           r == Routed(v, c)
<1>1. "bank" \notin t.made /\ "bank" \in t.bad /\ ~c.htree
  BY ConfigAssumption DEF Unready, NeverReady
<1>2. Unready(w) /\ IsState(Parts, w)
  BY UnreadyComplains
<1>3. BankArea(t, c) = w /\ BankRC(t, c) = w
  BY <1>1 DEF BankArea, BankAreas, BankRC, Rated, When
<1>4. \A m : BusWires(t, m, c) = w
  BY <1>1 DEF BusWires, Rated, When
<1>5. BankLatencyAndPower(t, c) = Retained(BusTsvs(t, r, c), c)
  BY <1>1, <1>4 DEF BankLatencyAndPower, BusLatencyAndPower
<1>6. BusTsvs(t, r, c) = r
  BY <1>1 DEF BusTsvs
<1> HIDE DEF w
<1>7. Works(Parts, w, v, {"bank"}, Moving)
  BY <1>2, WithMatsGive
<1> HIDE DEF v
<1>8. Works(Parts, v, r, {"routing"}, Moving)
  <2>1. IsState(Parts, v)
    BY <1>7 DEF Works, Computes
  <2> QED
    BY <2>1, RoutedGives
<1> HIDE DEF r
<1>9. IsState(Parts, r) /\ r.made = w.made /\ r.bad = w.bad /\ r.complaints = w.complaints
  BY <1>7, <1>8 DEF Works, Computes
<1> DEFINE y == Retained(r, c)
<1>10. /\ IsState(Parts, y) /\ y.made = r.made /\ y.complaints = r.complaints
       /\ y = r \/ y.bad = r.bad \cup {"bank"}
  BY <1>9, RetainedGives
<1> HIDE DEF y
<1>11. Unready(y)
  BY <1>2, <1>9, <1>10 DEF Unready
<1> QED
  BY <1>2, <1>3, <1>5, <1>6, <1>11 DEF y

-----------------------------------------------------------------------------
(* The inductive invariant: the state is what the calls made so far give,   *)
(* from the constructed bank on, and what is kept is a copy of it.          *)
Calls == {"Initialize", "CalculateArea", "CalculateRC", "CalculateLatencyAndPower"}
Outcomes == {"compare", "printed", "dropped"}

AfterInitialize == BankInitialize(Start, c)
AfterArea       == BankArea(AfterInitialize, c)
AfterRC         == BankRC(AfterArea, c)
AfterLatency    == BankLatencyAndPower(AfterRC, c)

CopyOf ==
  [p \in Parts |->
     [f \in DOMAIN Constructed[p] |->
        IF f \in Copied(p) THEN Fig(s, p, f) ELSE Constructed[p][f]]]

History ==
  /\ c \in Configs /\ next \in Calls \cup Outcomes
  /\ next = "Initialize" => s = Start
  /\ next = "CalculateArea" => s = AfterInitialize
  /\ next = "CalculateRC" => s = AfterArea
  /\ next = "CalculateLatencyAndPower" => s = AfterRC
  /\ next \in Outcomes => s = AfterLatency
  /\ next = "printed" => "bank" \notin s.bad /\ best = CopyOf
  /\ next = "dropped" => "bank" \in s.bad
  /\ next # "printed" => best = <<>>

(* A bank's life is the sequence of its calls, INITIAL_BASE to the report.  *)
THEOREM SpecHistory == Spec => []History
<1>1. Init => History
  BY DEF Init, History, Start, Calls, Outcomes
<1>2. History /\ [Next]_vars => History'
  <2> SUFFICES ASSUME History, [Next]_vars PROVE History'
    OBVIOUS
  <2>1. CASE Initialize
    <3>1. /\ next = "Initialize" /\ next' = "CalculateArea" /\ s' = BankInitialize(s, c)
          /\ c' = c /\ best' = best
      BY <2>1 DEF Initialize, Call
    <3>2. s' = AfterInitialize'
      BY <3>1 DEF AfterInitialize, History, Start, Constructed
    <3> QED
      BY <3>1, <3>2 DEF History, Calls, Outcomes
  <2>2. CASE CalculateArea
    <3>1. /\ next = "CalculateArea" /\ next' = "CalculateRC" /\ s' = BankArea(s, c)
          /\ c' = c /\ best' = best
      BY <2>2 DEF CalculateArea, Call
    <3>2. s' = AfterArea'
      BY <3>1 DEF AfterArea, AfterInitialize, History, Start, Constructed
    <3> QED
      BY <3>1, <3>2 DEF History, Calls, Outcomes
  <2>3. CASE CalculateRC
    <3>1. /\ next = "CalculateRC" /\ next' = "CalculateLatencyAndPower" /\ s' = BankRC(s, c)
          /\ c' = c /\ best' = best
      BY <2>3 DEF CalculateRC, Call
    <3>2. s' = AfterRC'
      BY <3>1 DEF AfterRC, AfterArea, AfterInitialize, History, Start, Constructed
    <3> QED
      BY <3>1, <3>2 DEF History, Calls, Outcomes
  <2>4. CASE CalculateLatencyAndPower
    <3>1. /\ next = "CalculateLatencyAndPower" /\ next' = "compare"
          /\ s' = BankLatencyAndPower(s, c) /\ c' = c /\ best' = best
      BY <2>4 DEF CalculateLatencyAndPower, Call
    <3>2. s' = AfterLatency'
      BY <3>1 DEF AfterLatency, AfterRC, AfterArea, AfterInitialize, History, Start, Constructed
    <3> QED
      BY <3>1, <3>2 DEF History, Calls, Outcomes
  <2>5. c' = c /\ s' = s => AfterLatency' = AfterLatency /\ CopyOf' = CopyOf
    BY DEF AfterLatency, AfterRC, AfterArea, AfterInitialize, Start, Constructed, CopyOf, Copied
  <2>6. CASE Keep
    <3>1. /\ next = "compare" /\ "bank" \notin s.bad /\ next' = "printed" /\ c' = c /\ s' = s
          /\ best' = CopyOf
      BY <2>6 DEF Keep, CopyOf
    <3> QED
      BY <2>5, <3>1 DEF History, Calls, Outcomes
  <2>7. CASE Drop
    <3>1. /\ next = "compare" /\ "bank" \in s.bad /\ next' = "dropped" /\ c' = c /\ s' = s
          /\ best' = best
      BY <2>7 DEF Drop
    <3> QED
      BY <2>5, <3>1 DEF History, Calls, Outcomes
  <2>8. CASE UNCHANGED vars
    <3>1. c' = c /\ next' = next /\ s' = s /\ best' = best
      BY <2>8 DEF vars
    <3>2. /\ AfterInitialize' = AfterInitialize /\ AfterArea' = AfterArea
          /\ AfterRC' = AfterRC
      BY <3>1 DEF AfterRC, AfterArea, AfterInitialize, Start, Constructed
    <3> QED
      BY <2>5, <3>1, <3>2 DEF History
  <2> QED
    BY <2>1, <2>2, <2>3, <2>4, <2>6, <2>7, <2>8 DEF Next
<1> QED
  BY <1>1, <1>2, PTL DEF Spec

-----------------------------------------------------------------------------
(* What the history says of the bank at each call.                          *)
Told ==
  /\ next = "Initialize" => s = Start
  /\ next = "CalculateArea" => Raised(s) \/ Ruined(s, {}) \/ Unready(s)
  /\ next = "CalculateRC" => Sized(s) \/ Ruined(s, {"area"}) \/ Unready(s)
  /\ next = "CalculateLatencyAndPower" =>
       (Primed(s) /\ AreasKnown(s)) \/ Ruined(s, {"area"}) \/ Unready(s)
  /\ next \in Outcomes => Ended(s) \/ Ruined(s, Compared) \/ Unready(s)

LEMMA HistoryTells == History => Told
<1> SUFFICES ASSUME History PROVE Told
  OBVIOUS
<1>1. c \in Configs
  BY DEF History
<1>2. Raised(AfterInitialize) \/ Ruined(AfterInitialize, {}) \/ Unready(AfterInitialize)
  <2>1. CASE Bankable
    BY <1>1, <2>1, BankBuilt DEF AfterInitialize
  <2>2. CASE ~NeverReady /\ ~Bankable
    <3>1. Turned(AfterInitialize, "bank") /\ "bank" \in AfterInitialize.made
      BY <1>1, <2>2, BankTurned DEF AfterInitialize
    <3> QED
      BY <3>1 DEF Ruined, WorstIn
  <2>3. CASE NeverReady
    <3>1. Turned(AfterInitialize, "bank") /\ AfterInitialize.made = {}
      BY <2>3, NeverBegun DEF AfterInitialize
    <3> QED
      BY <2>3, <3>1 DEF Unready, Turned
  <2> QED
    BY <2>1, <2>2, <2>3
<1>3. Sized(AfterArea) \/ Ruined(AfterArea, {"area"}) \/ Unready(AfterArea)
  BY <1>1, <1>2, AreaOnward, RuinedArea, UnreadyStays DEF AfterArea
<1>4. \/ Primed(AfterRC) /\ AreasKnown(AfterRC)
      \/ Ruined(AfterRC, {"area"}) \/ Unready(AfterRC)
  BY <1>1, <1>3, RCOnward, RuinedRC, UnreadyStays DEF AfterRC
<1>5. Ended(AfterLatency) \/ Ruined(AfterLatency, Compared) \/ Unready(AfterLatency)
  BY <1>1, <1>4, LatencyOnward, RuinedLatency, UnreadyStays DEF AfterLatency
<1> QED
  BY <1>2, <1>3, <1>4, <1>5 DEF History, Told

-----------------------------------------------------------------------------
(* Type correctness: the calls and what they leave.                         *)
THEOREM SpecTypeOK == Spec => []TypeOK
<1>1. History => TypeOK
  <2> SUFFICES ASSUME History PROVE TypeOK
    OBVIOUS
  <2>1. IsState(Parts, s)
    <3>1. Told
      BY HistoryTells
    <3>2. Raised(s) \/ Sized(s) \/ Primed(s) \/ Ended(s) \/ Unready(s) \/ Turned(s, "bank") \/ s = Start
      BY <3>1 DEF Told, History, Calls, Outcomes, Ruined
    <3> QED
      BY <3>2, StartIsState DEF Raised, Sized, Primed, Standing, Ended, Unready, Turned
  <2>2. DOMAIN s.fig = Parts /\ s.made \cup s.bad \cup s.complaints \subseteq DOMAIN s.fig
    BY <2>1 DEF IsState
  <2>3. best # <<>> => DOMAIN best = Parts
    BY DEF History, CopyOf
  <2> QED
    BY <2>2, <2>3 DEF TypeOK, History, Calls, Outcomes
<1> QED
  BY <1>1, SpecHistory, PTL

(* No part is called before it is initialized, nor initialized twice, but   *)
(* for the bank on a bus that is turned down at once.                       *)
THEOREM SpecCallsInOrder == Spec => []CallsInOrder
<1>1. History => CallsInOrder
  <2> SUFFICES ASSUME History PROVE CallsInOrder
    OBVIOUS
  <2>1. Told
    BY HistoryTells
  <2>2. \/ Raised(s) \/ Sized(s) \/ Primed(s) \/ Ended(s) \/ Turned(s, "bank") \/ s = Start
        \/ Unready(s)
    BY <2>1 DEF Told, History, Calls, Outcomes, Ruined
  <2>3. s.complaints = {} \/ Unready(s)
    BY <2>2, StartIsState DEF Raised, Sized, Primed, Standing, Ended, Turned
  <2> QED
    BY <2>3 DEF CallsInOrder, Unready
<1> QED
  BY <1>1, SpecHistory, PTL

(* A bank that is dropped has the worst value in all figures compared, but  *)
(* for those found out at the very end and the one that only complains.     *)
THEOREM SpecRejectedIsWorst == Spec => []RejectedIsWorst
<1>1. History => RejectedIsWorst
  <2> SUFFICES ASSUME History, next = "dropped", c.fault # "retention", ~NeverReady
               PROVE  \A f \in Compared : Worst \in Fig(s, "bank", f)
    BY DEF RejectedIsWorst
  <2>1. Ended(s) \/ Ruined(s, Compared) \/ Unready(s)
    BY HistoryTells DEF Told, Outcomes
  <2>2. "bank" \in s.bad
    BY DEF History
  <2>3. ~Ended(s) /\ ~Unready(s)
    BY <2>2 DEF Ended, Unready
  <2> QED
    BY <2>1, <2>3 DEF Ruined, WorstIn
<1> QED
  BY <1>1, SpecHistory, PTL

(* What is printed is a bank whose figures the lemmas above give.           *)
LEMMA PrintedEnded ==
  ASSUME History, Printed
  PROVE  Ended(s) /\ s.bad = {} /\ best = CopyOf
<1>1. Ended(s) \/ Ruined(s, Compared) \/ Unready(s)
  BY HistoryTells DEF Told, Outcomes, Printed
<1>2. "bank" \notin s.bad /\ best = CopyOf
  BY DEF History, Printed
<1> QED
  BY <1>1, <1>2 DEF Ended, Ruined, Turned, Unready

LEMMA FinalLabels ==
  /\ BankAll \subseteq Labels /\ BankAreaSum \subseteq Labels /\ MatAll \subseteq BankAll
  /\ MatAreaSum \subseteq BankAreaSum /\ SubAreas \subseteq BankAreaSum
  /\ BlockSet \cup {"comparator"} \subseteq Labels /\ Before \subseteq Labels
<1>1. BankAll \subseteq Labels /\ MatAll \subseteq BankAll
  BY WiredLabels DEF BankAll
<1>2. BlockSet \cup {"comparator", "mat_tsv"} \cup Globals \subseteq Units
  BY TheBankUnits, TheBlocks DEF Globals
<1>3. SubAreas \subseteq Labels /\ Units \subseteq Labels
  BY SubLabels, UnitKinds
<1>4. MatAreaSum \subseteq Labels
  BY <1>2, <1>3 DEF MatAreaSum
<1>5. BankAreaSum \subseteq Labels
  BY <1>2, <1>3, <1>4, WiredLabels DEF BankAreaSum
<1> QED
  BY <1>1, <1>2, <1>3, <1>5, MatLabels DEF BankAreaSum, MatAreaSum

(* No share is counted twice in what is printed, but where Doubled says: in *)
(* the latencies of SRAM on a bus that of the bank's multiplexer and sense  *)
(* amplifier, in the writes of a cross-point array the energy of its        *)
(* multiplexers, and for some cells the time to charge its lines.           *)
THEOREM SpecCountedOnce == Spec => []CountedOnce
<1>1. History => CountedOnce
  <2> SUFFICES ASSUME History, Printed, NEW f \in Compared, ~Doubled(f)
               PROVE  Twice \notin Fig(s, "bank", f)
    BY DEF CountedOnce
  <2>1. FinalTotals(s) /\ AreasKnown(s)
    BY PrintedEnded DEF Ended
  <2>2. BankAll \subseteq Labels /\ BankAreaSum \subseteq Labels
    BY FinalLabels
  <2>3. Twice \notin Sum(BankAll) /\ Twice \notin Sum(BankAreaSum) /\ Twice \notin Unset(c)
    <3>1. Sum(BankAll) \cap Marks = {} /\ Sum(BankAreaSum) \cap Marks = {}
      BY <2>2, SharesDiffer DEF Sum
    <3> QED
      BY <3>1 DEF Marks, Unset, Twice, Garbage
  <2>4. CASE f = "area"
    BY <2>1, <2>3, <2>4 DEF AreasKnown
  <2>5. CASE f # "area"
    <3>1. f \in Latencies \cup Drawing /\ Counted(f)
      BY <2>5, ComparedIs DEF Counted
    <3>2. Clean(Fig(s, "bank", f), BankAll)
      BY <2>1, <3>1 DEF FinalTotals
    <3> QED
      BY <2>3, <3>2 DEF Clean
  <2> QED
    BY <2>4, <2>5
<1> QED
  BY <1>1, SpecHistory, PTL

-----------------------------------------------------------------------------
(* The figures a report prints, by the kind of part they are of.            *)
Plainly(p, f) ==   \* of a circuit
  \/ p \in Selects /\ f \in NoRefresh
  \/ p = "rowDecoder" /\ f = "refreshEnergy"
  \/ p \in Muxes /\ f \in {"readLatency", "readEnergy", "writeEnergy"}
  \/ p \in {"precharger", "senseAmp"} /\ f \in Figure
  \/ p = "comparator" /\ f = "readLatency" /\ MatCompares(c)
  \/ p \in Tsvs /\ f \in NoRefresh

Summed(p, f) ==    \* of what is made of circuits
  \/ p \in Sums /\ f = "area"
  \/ p \in {"bank", "routing"} /\ f \in Totals
  \/ p \in {"mat", Sub} /\ f \in Figure \ {"area"}
  \/ p = "predecoder" /\ f = "readLatency"
  \/ p = "logic" /\ f = "area"

LEMMA OperationFigures ==
  \A o \in Operations :
    /\ Latency(o) \in {"readLatency", "writeLatency", "resetLatency", "setLatency", "refreshLatency"}
    /\ Energy(o) \in {"readEnergy", "writeEnergy", "resetEnergy", "setEnergy", "refreshEnergy"}
    /\ o # "refresh" => Latency(o) # "refreshLatency" /\ Energy(o) # "refreshEnergy"
<1> TAKE o \in Operations
<1>1. o \in {"read", "write", "reset", "set", "refresh"}
  BY DEF Operations
<1>2. CASE o = "read"
  BY <1>2 DEF Latency, Energy
<1>3. CASE o = "write"
  BY <1>3 DEF Latency, Energy
<1>4. CASE o = "reset"
  BY <1>4 DEF Latency, Energy
<1>5. CASE o = "set"
  BY <1>5 DEF Latency, Energy
<1>6. CASE o = "refresh"
  BY <1>6 DEF Latency, Energy
<1> QED
  BY <1>1, <1>2, <1>3, <1>4, <1>5, <1>6

LEMMA ReportFields ==
  /\ Latencies \cup Energies \cup {"area", "leakage", "resetLatency", "setLatency", "resetEnergy"}
       \subseteq NoRefresh
  /\ NoRefresh \subseteq Figure /\ Latencies = {"readLatency", "writeLatency"}
  /\ Energies = {"readEnergy", "writeEnergy"} /\ Cells \subseteq Figure \ {"area"}
  /\ "refreshEnergy" \in Figure \ {"area"}
BY DEF NoRefresh, Figure, Latencies, Energies, Cells

LEMMA AreaKinds ==
  ASSUME NEW x \in AreaLines
  PROVE  Plainly(x[1], x[2]) \/ Summed(x[1], x[2])
<1>1. x[2] = "area" /\ x[1] \in Sums \cup Tsvs \cup {"logic"}
  BY DEF AreaLines, Sums, Tsvs
<1> QED
  BY <1>1, ReportFields DEF Plainly, Summed

LEMMA TimingKinds ==
  ASSUME NEW x \in TimingLines
  PROVE  Plainly(x[1], x[2]) \/ Summed(x[1], x[2])
<1> DEFINE D == {Latency(o) : o \in Operations}
           E == {Latency(o) : o \in InSub}
<1>1. D \subseteq Delays /\ E \subseteq D
  <2>1. InSub \subseteq Operations
    BY DEF InSub, Operations
  <2>2. D \subseteq Delays
    BY OperationFigures DEF Delays, Latencies
  <2> QED
    BY <2>1, <2>2
<1>2. Delays \subseteq Totals /\ Delays \subseteq Figure \ {"area"}
  BY TotalsAre DEF Delays, Latencies
<1>3. \/ x[1] \in Levels /\ x[2] \in D
      \/ x[1] = Sub /\ x[2] \in E
      \/ x[1] \in InMat /\ x[2] = "readLatency"
      \/ x[1] = "predecoder" /\ x[2] = "readLatency"
      \/ x[1] = "rowDecoder" /\ x[2] = "writeLatency"
      \/ x[1] = "comparator" /\ x[2] = "readLatency" /\ MatCompares(c)
      \/ x[1] = "bank_tsv" /\ x[2] \in Latencies \cup {"resetLatency", "setLatency"}
      \/ x[1] = "mat_tsv" /\ x[2] = "writeLatency"
  BY DEF TimingLines
<1> HIDE DEF D, E
<1>4. CASE x[1] \in Levels /\ x[2] \in D
  BY <1>1, <1>2, <1>4 DEF Levels, Summed
<1>5. CASE x[1] = Sub /\ x[2] \in E
  BY <1>1, <1>2, <1>5 DEF Summed
<1>6. CASE x[1] \in InMat /\ x[2] = "readLatency"
  <2>1. x[1] \in {"rowDecoder", "precharger", "senseAmp"} \cup Muxes
    BY <1>6 DEF InMat
  <2>2. "rowDecoder" \in Selects
    BY DEF Selects
  <2> QED
    BY <1>6, <2>1, <2>2, ReportFields DEF Plainly
<1>7. CASE x[1] = "predecoder" /\ x[2] = "readLatency"
  BY <1>7 DEF Summed
<1>8. CASE x[1] = "rowDecoder" /\ x[2] = "writeLatency"
  BY <1>8, ReportFields DEF Plainly, Selects
<1>9. CASE x[1] = "comparator" /\ x[2] = "readLatency" /\ MatCompares(c)
  BY <1>9 DEF Plainly
<1>10. CASE x[1] = "bank_tsv" /\ x[2] \in Latencies \cup {"resetLatency", "setLatency"}
  BY <1>10, ReportFields DEF Plainly, Tsvs
<1>11. CASE x[1] = "mat_tsv" /\ x[2] = "writeLatency"
  BY <1>11, ReportFields DEF Plainly, Tsvs
<1> QED
  BY <1>3, <1>4, <1>5, <1>6, <1>7, <1>8, <1>9, <1>10, <1>11

LEMMA PowerKinds ==
  ASSUME NEW x \in PowerLines
  PROVE  Plainly(x[1], x[2]) \/ Summed(x[1], x[2])
<1> DEFINE D == {Energy(o) : o \in Operations} \cup {"leakage"}
<1>1. D \subseteq Totals /\ D \subseteq Figure \ {"area"}
  BY OperationFigures, TotalsAre
<1>2. \/ x[1] \in Levels /\ x[2] \in D
      \/ x[1] = Sub /\ x[2] \in Energies \cup Cells
      \/ x[1] \in InMat /\ x[2] = "readEnergy"
      \/ x[1] \in Column /\ x[2] \in Energies
      \/ x[1] \in Muxes \cup {"rowDecoder"} /\ x[2] = "writeEnergy"
      \/ x[1] \in {Sub, "rowDecoder", "senseAmp", "precharger"} /\ x[2] = "refreshEnergy"
      \/ x[1] = "bank_tsv" /\ x[2] \in Energies \cup {"resetEnergy", "leakage"}
      \/ x[1] = "mat_tsv" /\ x[2] \in {"writeEnergy", "leakage"}
  BY DEF PowerLines
<1> HIDE DEF D
<1>3. CASE x[1] \in Levels /\ x[2] \in D
  BY <1>1, <1>3 DEF Levels, Summed
<1>4. CASE x[1] = Sub /\ x[2] \in Energies \cup Cells
  BY <1>4, ReportFields, TotalsAre DEF Summed
<1>5. CASE x[1] \in InMat /\ x[2] = "readEnergy"
  <2>1. x[1] \in {"rowDecoder", "precharger", "senseAmp"} \cup Muxes
    BY <1>5 DEF InMat
  <2>2. "rowDecoder" \in Selects
    BY DEF Selects
  <2> QED
    BY <1>5, <2>1, <2>2, ReportFields DEF Plainly
<1>6. CASE x[1] \in Column /\ x[2] \in Energies
  BY <1>6, ReportFields DEF Plainly, Selects
<1>7. CASE x[1] \in Muxes \cup {"rowDecoder"} /\ x[2] = "writeEnergy"
  BY <1>7, ReportFields DEF Plainly, Selects
<1>8. CASE x[1] \in {Sub, "rowDecoder", "senseAmp", "precharger"} /\ x[2] = "refreshEnergy"
  BY <1>8, ReportFields DEF Plainly, Summed
<1>9. CASE x[1] = "bank_tsv" /\ x[2] \in Energies \cup {"resetEnergy", "leakage"}
  BY <1>9, ReportFields DEF Plainly, Tsvs
<1>10. CASE x[1] = "mat_tsv" /\ x[2] \in {"writeEnergy", "leakage"}
  BY <1>10, ReportFields DEF Plainly, Tsvs
<1> QED
  BY <1>2, <1>3, <1>4, <1>5, <1>6, <1>7, <1>8, <1>9, <1>10

LEMMA ReportedKinds ==
  ASSUME NEW x \in Reported
  PROVE  Plainly(x[1], x[2]) \/ Summed(x[1], x[2])
BY AreaKinds, TimingKinds, PowerKinds DEF Reported

LEMMA PlainUnits ==
  ASSUME NEW p, NEW f, Plainly(p, f)
  PROVE  p \in Units /\ f \in Figure
<1>1. Selects \cup Muxes \cup Tsvs \cup {"precharger", "senseAmp", "comparator"} \subseteq Units
  BY DEF Units, Gated, Amps, Compares
<1> QED
  BY <1>1, ReportFields DEF Plainly, Selects

(* A sum of a finished design has the mark of an unset member only where the *)
(* configuration leaves a member unset that its circuits read.              *)
LEMMA SummedDefined ==
  ASSUME NEW t, Ended(t), Unset(c) = {}, NEW p, NEW f, Summed(p, f)
  PROVE  Garbage \notin Fig(t, p, f)
<1>1. FinalTotals(t) /\ MatFigures(t) /\ AreasKnown(t)
  BY DEF Ended
<1>2. \A A : A \subseteq Labels => Garbage \notin Sum(A)
  BY SharesDiffer DEF Sum, Marks
<1>3. Garbage \notin Sum(BankAll) /\ Garbage \notin Sum(BankAreaSum) /\ Garbage \notin Sum(MatAll)
  BY <1>2, FinalLabels
<1>4. Garbage # Twice
  BY DEF Garbage, Twice
<1>5. \A x : Mixed(x, BankAll) \/ Mixed(x, MatAll) => Garbage \notin x
  BY <1>3, <1>4 DEF Mixed
<1>6. CASE p \in Sums /\ f = "area"
  <2>1. MatAreaSum \subseteq Labels /\ SubAreas \subseteq Labels
    BY FinalLabels
  <2>2. Garbage \notin Sum(MatAreaSum) /\ Garbage \notin Sum(SubAreas)
    BY <1>2, <2>1
  <2> QED
    BY <1>1, <1>3, <1>6, <2>2 DEF AreasKnown, MatsSized, Sums
<1>7. CASE p \in {"bank", "routing"} /\ f \in Totals
  <2>1. Garbage \notin Fig(t, "bank", f)
    BY <1>1, <1>5, <1>7 DEF FinalTotals
  <2>2. Fig(t, "routing", f) \subseteq Fig(t, "bank", f)
    BY <1>1, <1>7 DEF FinalTotals, Less
  <2> QED
    BY <1>7, <2>1, <2>2
<1>8. CASE p \in {"mat", Sub} /\ f \in Figure \ {"area"}
  BY <1>1, <1>5, <1>8 DEF MatFigures
<1>9. CASE p = "predecoder" /\ f = "readLatency"
  BY <1>1, <1>2, <1>9, FinalLabels DEF MatFigures
<1>10. CASE p = "logic" /\ f = "area"
  BY <1>1, <1>2, <1>10, FinalLabels DEF AreasKnown, MatsSized
<1> QED
  BY <1>6, <1>7, <1>8, <1>9, <1>10 DEF Summed

(* No figure compared or printed rests on a member nothing was assigned to, *)
(* but with BJT access devices, the resistance of whose cells is "TO-DO".   *)
THEOREM SpecFiguresDefined == Spec => []FiguresDefined
<1>1. History => FiguresDefined
  <2> SUFFICES ASSUME History, Printed, NEW x \in Reported \cup ({"bank"} \X Compared),
                      c.access # "BJT"
               PROVE  Garbage \notin Fig(s, x[1], x[2])
    BY DEF FiguresDefined
  <2>1. Ended(s)
    BY PrintedEnded
  <2>2. Unset(c) = {}
    BY DEF Unset
  <2>3. Plainly(x[1], x[2]) \/ Summed(x[1], x[2])
    <3>1. CASE x \in Reported
      BY <3>1, ReportedKinds
    <3>2. CASE x \in {"bank"} \X Compared
      <4>1. x[1] = "bank" /\ x[2] \in Compared
        BY <3>2
      <4>2. x[2] = "area" \/ x[2] \in Totals
        BY <4>1, ComparedIs, TotalsAre
      <4> QED
        BY <4>1, <4>2, SumNames DEF Summed
    <3> QED
      BY <3>1, <3>2
  <2>4. CASE Summed(x[1], x[2])
    BY <2>1, <2>2, <2>4, SummedDefined
  <2>5. CASE Plainly(x[1], x[2])
    <3>1. x[1] \in Units /\ x[2] \in Figure
      BY <2>5, PlainUnits
    <3>2. Fig(s, x[1], x[2]) \subseteq Share(x[1])
      BY <2>1, <3>1 DEF Ended, Modest
    <3>3. Garbage \notin Share(x[1])
      BY <3>1, UnitKinds, SharesDiffer DEF Marks
    <3> QED
      BY <3>2, <3>3
  <2> QED
    BY <2>3, <2>4, <2>5
<1> QED
  BY <1>1, SpecHistory, PTL

(* The copy the reports are printed from shows what the bank showed: what   *)
(* the assignment operators leave out is printed nowhere, but for the       *)
(* refresh energy of the row decoder, which is zero on both sides.          *)
LEMMA PlainlyCopied ==
  ASSUME NEW p, NEW f, Plainly(p, f)
  PROVE  f \in Copied(p) \/ (p = "rowDecoder" /\ f = "refreshEnergy")
<1>1. /\ Selects \cap ({"bank", "mat", Sub} \cup Muxes \cup {"precharger", "senseAmp", "comparator"}
                        \cup Tsvs \cup BlockSet \cup Kept \cup Drivers) = {}
      /\ Muxes \cap ({"bank", "mat", Sub, "precharger", "senseAmp", "comparator"}
                        \cup Tsvs \cup BlockSet \cup Kept \cup Drivers) = {}
      /\ Tsvs \cap ({"bank", "mat", Sub, "precharger", "senseAmp", "comparator"}
                        \cup BlockSet \cup Kept \cup Drivers) = {}
      /\ {"precharger", "senseAmp", "comparator"}
           \cap ({"bank", "mat", Sub} \cup BlockSet \cup Kept \cup Drivers) = {}
  <2>1. {"bank", "mat", Sub} = Sums
    BY SumNames
  <2>2. Selects \cup Muxes \cup Tsvs \cup {"precharger", "senseAmp", "comparator"} \subseteq Units
    BY DEF Units, Gated, Amps, Compares
  <2>3. (Selects \cup Muxes \cup Tsvs \cup {"precharger", "senseAmp", "comparator"})
          \cap (Sums \cup Kept \cup Drivers) = {}
    BY <2>2, UnitNames
  <2>4. "senseAmp" \in Amps /\ "comparator" \in Compares
    BY DEF Amps, Compares
  <2>5. (Selects \cup Muxes \cup Tsvs \cup {"precharger", "senseAmp", "comparator"}) \cap BlockSet = {}
    BY <2>4, UnitKinds
  <2>6. Selects \cap (Muxes \cup {"precharger", "senseAmp", "comparator"} \cup Tsvs) = {}
    BY <2>4, UnitKinds
  <2>7. Muxes \cap ({"precharger", "senseAmp", "comparator"} \cup Tsvs) = {}
    BY <2>4, UnitKinds
  <2>8. Tsvs \cap {"precharger", "senseAmp", "comparator"} = {}
    BY <2>4, UnitKinds
  <2> QED
    BY <2>1, <2>3, <2>5, <2>6, <2>7, <2>8
<1>2. CASE p \in Selects /\ f \in NoRefresh
  <2>1. Copied(p) = RowDecoderCopied
    BY <1>1, <1>2 DEF Copied
  <2> QED
    BY <1>2, <2>1 DEF RowDecoderCopied
<1>3. CASE p = "rowDecoder" /\ f = "refreshEnergy"
  BY <1>3
<1>4. CASE p \in Muxes /\ f \in {"readLatency", "readEnergy", "writeEnergy"}
  <2>1. Copied(p) = MuxCopied
    BY <1>1, <1>4 DEF Copied
  <2> QED
    BY <1>4, <2>1 DEF MuxCopied, Latencies, Energies
<1>5. CASE p \in {"precharger", "senseAmp"} /\ f \in Figure
  <2>1. Figure \subseteq Copied(p)
    BY <1>1, <1>5 DEF Copied, PrechargerCopied, SenseAmpCopied
  <2> QED
    BY <1>5, <2>1
<1>6. CASE p = "comparator" /\ f = "readLatency" /\ MatCompares(c)
  <2>1. Copied(p) = ComparatorCopied
    BY <1>1, <1>6 DEF Copied
  <2> QED
    BY <1>6, <2>1, ReportFields DEF ComparatorCopied
<1>7. CASE p \in Tsvs /\ f \in NoRefresh
  <2>1. Copied(p) = TsvCopied
    BY <1>1, <1>7 DEF Copied
  <2> QED
    BY <1>7, <2>1 DEF TsvCopied
<1> QED
  BY <1>2, <1>3, <1>4, <1>5, <1>6, <1>7 DEF Plainly

LEMMA SummedCopied ==
  ASSUME NEW p, NEW f, Summed(p, f)
  PROVE  f \in Copied(p) /\ p \in Parts /\ f \in Figure
<1>1. f \in Figure
  BY TotalsAre, FigureIs DEF Summed
<1>2. p \in {"bank", "mat", Sub} \cup Kept
  BY DEF Summed, Sums, Kept
<1>3. Sums \cap Kept = {} /\ Sums = {"bank", "mat", Sub} /\ Sums \cup Kept \subseteq Parts
      /\ Kept \cap (Units \cup Drivers) = {}
  BY UnitNames, SumNames
<1> DEFINE U == Selects \cup Muxes \cup Tsvs \cup BlockSet \cup {"precharger", "senseAmp", "comparator"}
<1>4. U \subseteq Units
  BY DEF Units, Gated, Amps, Compares
<1>6. p \notin U /\ p \notin Drivers
  BY <1>2, <1>3, <1>4, UnitNames
<1>7. "bank" # Sub /\ "mat" # Sub /\ {"bank", "mat", Sub} \cap Kept = {}
  BY <1>3, SumNames
<1>5. Copied(p) = Figure
  <2>1. CASE p \in {"bank", "mat"}
    BY <1>6, <1>7, <2>1 DEF Copied
  <2>2. CASE p = Sub
    BY <1>6, <1>7, <2>2 DEF Copied, SubArrayCopied
  <2>3. CASE p \in Kept
    BY <1>6, <1>7, <2>3 DEF Copied
  <2> QED
    BY <1>2, <2>1, <2>2, <2>3
<1> QED
  BY <1>1, <1>2, <1>3, <1>5

(* The copy kept as the best design shows what the bank showed: operator=   *)
(* copies every figure a report prints, or it is never assigned in either.  *)
THEOREM SpecCopyPrintsTheSame == Spec => []CopyPrintsTheSame
<1>1. History => CopyPrintsTheSame
  <2> SUFFICES ASSUME History, Printed, NEW x \in Reported
               PROVE  best[x[1]][x[2]] = Fig(s, x[1], x[2])
    BY DEF CopyPrintsTheSame
  <2> DEFINE p == x[1]
             f == x[2]
  <2>1. Ended(s) /\ best = CopyOf
    BY PrintedEnded
  <2>2. Plainly(p, f) \/ Summed(p, f)
    BY ReportedKinds
  <2> HIDE DEF p, f
  <2>3. p \in Parts /\ f \in Figure
    BY <2>2, PlainUnits, UnitParts, SummedCopied
  <2>4. f \in DOMAIN Constructed[p]
    BY <2>3 DEF Constructed, Fresh
  <2>5. best[p][f] = IF f \in Copied(p) THEN Fig(s, p, f) ELSE Constructed[p][f]
    BY <2>1, <2>3, <2>4 DEF CopyOf
  <2>6. f \in Copied(p) \/ (p = "rowDecoder" /\ f = "refreshEnergy")
    BY <2>2, PlainlyCopied, SummedCopied
  <2>7. ASSUME p = "rowDecoder", f = "refreshEnergy"
        PROVE  Fig(s, p, f) = {} /\ Constructed[p][f] = {}
    <3>1. p \in Selects
      BY <2>7 DEF Selects
    <3>2. Fig(s, p, f) = {}
      BY <2>1, <2>7, <3>1 DEF Ended, MatFigures
    <3>3. p \notin Kept /\ f \notin Loose
      BY <2>7 DEF Kept, Loose
    <3>4. Constructed[p][f] = {}
      BY <2>3, <3>3 DEF Constructed, Fresh
    <3> QED
      BY <3>2, <3>4
  <2>8. best[p][f] = Fig(s, p, f)
    BY <2>5, <2>6, <2>7
  <2> QED
    BY <2>8 DEF p, f
<1> QED
  BY <1>1, SpecHistory, PTL

(* The TSVs of a line, by the configuration.                                *)
LineOf(f) ==   \* the TSVs under the total of f
  IF ~Stacked(c) \/ Unlisted(f) THEN {}
  ELSE {"bank_tsv"} \cup (IF f \in {"readLatency", "readEnergy"} THEN Share("mat_tsv") ELSE {})

LEMMA LineGives ==
  ASSUME Ended(s), NEW f \in Totals \ {"leakage"}
  PROVE  /\ TsvLine(f) \subseteq LineOf(f) /\ ("bank_tsv" \in TsvLine(f) <=> "bank_tsv" \in LineOf(f))
         /\ LineOf(f) \subseteq {"bank_tsv"} \cup Fig(s, "mat", f)
<1>1. FinalTotals(s) /\ MatFigures(s)
  BY DEF Ended
<1>2. Stacked(c) => \A g \in Carried : Fig(s, "bank_tsv", g) = {"bank_tsv"}
  BY <1>1 DEF FinalTotals
<1>3. \A g \in Carried : Fig(s, "mat_tsv", g) = Share("mat_tsv")
  BY <1>1 DEF MatFigures
<1>4. Share("mat_tsv") \subseteq {"mat_tsv"}
  BY OptionShares
<1>5. f \in Carried \cup {"refreshLatency", "refreshEnergy"}
  BY TotalsAre DEF Carried
<1>6. TsvLine(f) \subseteq LineOf(f) /\ ("bank_tsv" \in TsvLine(f) <=> "bank_tsv" \in LineOf(f))
  <2>1. CASE ~Stacked(c)
    BY <2>1 DEF TsvLine, LineOf
  <2>2. CASE Unlisted(f)
    BY <2>2 DEF TsvLine, LineOf
  <2>7. f \notin {"setLatency", "setEnergy"} => ~Unlisted(f)
    BY DEF Unlisted
  <2>3. CASE Stacked(c) /\ f \in {"readLatency", "readEnergy"}
    <3>1. f \in Carried /\ "writeLatency" \in Carried /\ "writeEnergy" \in Carried
      BY <2>3 DEF Carried
    <3>2. CASE f = "readLatency"
      <4>1. TsvLine(f) = Fig(s, "bank_tsv", f) \cup
              (IF LogicLayer(c) THEN Fig(s, "mat_tsv", "writeLatency")
               ELSE Fig(s, "bank_tsv", "writeLatency"))
        BY <2>3, <2>7, <3>2 DEF TsvLine
      <4> QED
        BY <1>2, <1>3, <2>3, <2>7, <3>1, <3>2, <4>1 DEF LineOf
    <3>3. CASE f = "readEnergy"
      <4>1. TsvLine(f) = Fig(s, "bank_tsv", f) \cup Fig(s, "bank_tsv", "writeEnergy") \cup
              (IF LogicLayer(c) THEN Fig(s, "mat_tsv", "writeEnergy") ELSE {})
        BY <2>3, <2>7, <3>3 DEF TsvLine
      <4> QED
        BY <1>2, <1>3, <2>3, <2>7, <3>1, <3>3, <4>1 DEF LineOf
    <3> QED
      BY <2>3, <3>2, <3>3
  <2>4. CASE Stacked(c) /\ f = "refreshLatency"
    <3>1. TsvLine(f) = Fig(s, "bank_tsv", "writeLatency") /\ "writeLatency" \in Carried
      BY <2>4, <2>7 DEF TsvLine, Carried
    <3> QED
      BY <1>2, <2>4, <2>7, <3>1 DEF LineOf
  <2>5. CASE Stacked(c) /\ f = "refreshEnergy"
    <3>1. TsvLine(f) = Fig(s, "bank_tsv", "writeEnergy") /\ "writeEnergy" \in Carried
      BY <2>5, <2>7 DEF TsvLine, Carried
    <3> QED
      BY <1>2, <2>5, <2>7, <3>1 DEF LineOf
  <2>6. CASE Stacked(c) /\ ~Unlisted(f) /\ f \in Carried \ {"readLatency", "readEnergy"}
    <3>1. f \notin {"refreshLatency", "refreshEnergy"}
      BY <2>6 DEF Carried
    <3>2. TsvLine(f) = Fig(s, "bank_tsv", f)
      BY <2>6, <3>1 DEF TsvLine
    <3> QED
      BY <1>2, <2>6, <3>2 DEF LineOf
  <2> QED
    BY <1>5, <2>1, <2>2, <2>3, <2>4, <2>5, <2>6
<1>7. f \in {"readLatency", "readEnergy"} => Share("mat_tsv") \subseteq Fig(s, "mat", f)
  <2>1. "mat_tsv" \in MatReads /\ "mat_tsv" \in MatDraws
    BY DEF MatReads, MatDraws, Before
  <2>2. Share("mat_tsv") \subseteq Sum(MatReads) /\ Share("mat_tsv") \subseteq Sum(MatDraws)
    BY <2>1 DEF Sum
  <2> QED
    BY <1>1, <2>2 DEF MatFigures
<1> QED
  BY <1>6, <1>7 DEF LineOf

(* The lines printed under a total are the shares it is made of: the wires' *)
(* line is what is left without the mats', and the TSVs' goes with it.      *)
THEOREM SpecSharesAddUp == Spec => []SharesAddUp
<1>1. History => SharesAddUp
  <2> DEFINE lines(f) == TsvLine(f) \cup Fig(s, "routing", f) \cup Fig(s, "mat", f)
             total(f) == Fig(s, "bank", f)
             Adds(o, f) ==
               /\ lines(f) \ total(f) = IF Unadded(f) THEN {"bank_tsv"} ELSE {}
               /\ total(f) \ lines(f) = IF Unlisted(f) THEN {"bank_tsv"} ELSE {}
               /\ TsvLine(f) \cap Fig(s, "routing", f) = {}
               /\ \/ Fig(s, "routing", f) \cap Fig(s, "mat", f) = {}
                  \/ o = "refresh" /\ c.many
               /\ "bitlineShift" \in Fig(s, "routing", f) <=> f = "readLatency" /\ Resensed(c)
  <2> SUFFICES ASSUME History, Printed, NEW o \in Operations, NEW f \in {Latency(o), Energy(o)}
                 PROVE  Adds(o, f)
    BY DEF SharesAddUp
  <2>2. Ended(s)
    BY PrintedEnded
  <2>3. f \in Totals \ {"leakage"} /\ (o # "refresh" => f \notin {"refreshLatency", "refreshEnergy"})
    BY OperationFigures, TotalsAre
  <2> DEFINE mat == Fig(s, "mat", f)
             bank == Fig(s, "bank", f)
             wires == Fig(s, "routing", f)
  <2>4. /\ mat \subseteq bank /\ "bank_tsv" \notin mat
        /\ "bank_tsv" \in bank <=> Extra(f) # {}
        /\ wires = Less(bank \ {"bank_tsv"}, mat, Subtracted(f))
    BY <2>2, <2>3 DEF Ended, FinalTotals
  <2>5. /\ TsvLine(f) \subseteq LineOf(f) /\ ("bank_tsv" \in TsvLine(f) <=> "bank_tsv" \in LineOf(f))
        /\ LineOf(f) \subseteq {"bank_tsv"} \cup mat
    BY <2>2, <2>3, LineGives
  <2> HIDE DEF mat, bank, wires
  <2>6. wires \cup mat = bank \ {"bank_tsv"}
    BY <2>4 DEF Less
  <2>7. "bank_tsv" \in TsvLine(f) <=> Stacked(c) /\ ~Unlisted(f)
    BY <2>5 DEF LineOf
  <2>8. "bank_tsv" \in bank <=> Stacked(c) /\ ~(c.htree /\ f = "refreshLatency")
    BY <2>3, <2>4 DEF Extra
  <2>9. (TsvLine(f) \cup wires \cup mat) \ bank = IF Unadded(f) THEN {"bank_tsv"} ELSE {}
    BY <2>4, <2>5, <2>6, <2>7, <2>8 DEF Unadded, Unlisted
  <2>10. bank \ (TsvLine(f) \cup wires \cup mat) = IF Unlisted(f) THEN {"bank_tsv"} ELSE {}
    <3>1. Unlisted(f) => Stacked(c) /\ f # "refreshLatency"
      BY DEF Unlisted
    <3>2. "bank_tsv" \in bank \ (TsvLine(f) \cup wires \cup mat) <=> Unlisted(f)
      BY <2>4, <2>6, <2>7, <2>8, <3>1
    <3> QED
      BY <2>6, <3>2
  <2>11. TsvLine(f) \cap wires = {}
    <3>1. "bank_tsv" \notin wires
      BY <2>6
    <3>2. CASE f \in {"readLatency", "readEnergy"}
      <4>1. wires \cap mat = {}
        BY <2>4, <3>2 DEF Less, Subtracted
      <4> QED
        BY <2>5, <3>1, <4>1
    <3>3. CASE f \notin {"readLatency", "readEnergy"}
      BY <2>5, <3>1, <3>3 DEF LineOf
    <3> QED
      BY <3>2, <3>3
  <2>12. wires \cap mat = {} \/ (o = "refresh" /\ c.many)
    BY <2>3, <2>4 DEF Less, Subtracted
  <2>13. "bitlineShift" \in wires <=> f = "readLatency" /\ Resensed(c)
    <3>1. "bitlineShift" \notin mat
      BY <2>2, <2>3, MatUnshifted DEF Ended, mat
    <3>2. "bitlineShift" \in bank <=> Shifted(f)
      BY <2>2, <2>3 DEF Ended, FinalTotals, bank
    <3> QED
      BY <2>6, <3>1, <3>2 DEF Shifted
  <2> QED
    BY <2>9, <2>10, <2>11, <2>12, <2>13 DEF mat, bank, wires
<1> QED
  BY <1>1, SpecHistory, PTL

-----------------------------------------------------------------------------
(* The shares of the kinds of circuits are the circuits a design has.       *)
LEMMA KindsApart ==
  /\ Decoding \subseteq Selects \cup Drivers /\ Choosing \subseteq Muxes \cup {"globalMux"}
  /\ Amplifying \subseteq Amps /\ Predecoding \subseteq BlockSet /\ Matching \subseteq Compares
  /\ Stacking \subseteq Tsvs
  /\ (Selects \cup Drivers) \cap (Muxes \cup {"globalMux"} \cup Amps \cup BlockSet \cup Compares) = {}
  /\ (Muxes \cup {"globalMux"}) \cap (Amps \cup BlockSet \cup Compares) = {}
  /\ Amps \cap (BlockSet \cup Compares) = {} /\ BlockSet \cap Compares = {}
<1>1. Decoding \subseteq Selects \cup Drivers
  BY DriverNamesDiffer DEF Decoding, Driven
<1>2. /\ Choosing \subseteq Muxes \cup {"globalMux"} /\ Amplifying \subseteq Amps
      /\ Predecoding \subseteq BlockSet /\ Matching \subseteq Compares /\ Stacking \subseteq Tsvs
  BY DEF Choosing, Amplifying, Amps, Predecoding, Matching, Compares, Stacking, Tsvs
<1>3. Muxes \cup {"globalMux"} \cup Amps \cup BlockSet \cup Compares \subseteq Units
  BY DEF Units, Gated
<1>4. Drivers \cap (Muxes \cup {"globalMux"} \cup Amps \cup BlockSet \cup Compares) = {}
  BY <1>3, UnitNames
<1> QED
  BY <1>1, <1>2, <1>4, UnitKinds

LEMMA KindsSum ==
  /\ Sum({"precharger"}) = RowCircuits /\ Sum(Selects) = Decoding
  /\ \A M : M \subseteq Muxes \cup {"globalMux"} => Sum(M) = Choosing \cap M
  /\ Sum(BlockSet) = Predecoding
  /\ \A M : M \subseteq Amps => Sum(M) = Amplifying \cap M
  /\ \A M : M \subseteq Compares => Sum(M) = Matching \cap M
  /\ \A M : M \subseteq Tsvs => Sum(M) = Stacking \cap M
<1>1. Sum({"precharger"}) = RowCircuits
  BY SumOfOne, ShareIs DEF RowCircuits
<1>2. Sum(Selects) = Decoding
  <2>1. \A p \in Selects : Share(p) = {Driver(p)} \cup (IF BitsOf(c)[p] > 3 THEN {p} ELSE {})
    BY ShareIs, GatesAre
  <2> QED
    BY <2>1 DEF Sum, Decoding
<1>3. ASSUME NEW M, M \subseteq Muxes \cup {"globalMux"} PROVE Sum(M) = Choosing \cap M
  <2>1. \A p \in M : Share(p) = Gates(p)
    BY <1>3, ShareIs
  <2>2. \A p \in M : p \notin Decoding \cup Predecoding
    BY <1>3, KindsApart
  <2>3. \A p \in M : Share(p) = {p} \cap Choosing
    BY <2>1, <2>2 DEF Gates
  <2> QED
    BY <2>3 DEF Sum
<1>4. Sum(BlockSet) = Predecoding
  <2>1. \A p \in BlockSet : Share(p) = Gates(p)
    BY ShareIs
  <2>2. \A p \in BlockSet : p \notin Decoding \cup Choosing
    BY KindsApart
  <2>3. \A p \in BlockSet : Share(p) = {p} \cap Predecoding
    BY <2>1, <2>2 DEF Gates
  <2>4. Predecoding \subseteq BlockSet
    BY KindsApart
  <2> QED
    BY <2>3, <2>4 DEF Sum
<1>5. \A p \in Amps \cup Compares \cup Tsvs : Share(p) = {p} \cap Existing
  BY ShareIs
<1>6. /\ Amps \cap (Compares \cup Tsvs) = {} /\ Compares \cap Tsvs = {}
      /\ Amplifying \subseteq Amps /\ Matching \subseteq Compares /\ Stacking \subseteq Tsvs
  BY UnitKinds, KindsApart
<1>7. ASSUME NEW M, M \subseteq Amps PROVE Sum(M) = Amplifying \cap M
  <2>1. \A p \in M : Share(p) = {p} \cap Amplifying
    BY <1>5, <1>6, <1>7 DEF Existing
  <2> QED
    BY <2>1 DEF Sum
<1>8. ASSUME NEW M, M \subseteq Compares PROVE Sum(M) = Matching \cap M
  <2>1. \A p \in M : Share(p) = {p} \cap Matching
    BY <1>5, <1>6, <1>8 DEF Existing
  <2> QED
    BY <2>1 DEF Sum
<1>9. ASSUME NEW M, M \subseteq Tsvs PROVE Sum(M) = Stacking \cap M
  <2>1. \A p \in M : Share(p) = {p} \cap Stacking
    BY <1>5, <1>6, <1>9 DEF Existing
  <2> QED
    BY <2>1 DEF Sum
<1> QED
  BY <1>1, <1>2, <1>3, <1>4, <1>7, <1>8, <1>9

LEMMA WholeSums ==
  /\ Sum({"precharger"}) = RowCircuits /\ Sum(Selects) = Decoding /\ Sum(BlockSet) = Predecoding
  /\ Sum(Muxes \cup {"globalMux"}) = Choosing /\ Sum(Amps) = Amplifying
  /\ Sum(Compares) = Matching /\ Sum(Tsvs) = Stacking
  /\ Sum(Wires(c)) = Wires(c) /\ Sum(Wiring) = Wiring /\ Sum(Buffers) = Buffers
<1>1. Wires(c) \subseteq {"wire"} /\ {"wire"} \subseteq Others
  BY WiredLabels DEF Others
<1>2. Wiring \subseteq Others /\ Buffers \subseteq Others /\ Wires(c) \subseteq Others
  BY <1>1 DEF Wiring, Buffers
<1>3. Sum(Wires(c)) = Wires(c) /\ Sum(Wiring) = Wiring /\ Sum(Buffers) = Buffers
  BY <1>2, OthersSum
<1>4. Sum(Muxes \cup {"globalMux"}) = Choosing \cap (Muxes \cup {"globalMux"})
  BY KindsSum
<1>5. Sum(Amps) = Amplifying \cap Amps
  BY KindsSum
<1>6. Sum(Compares) = Matching \cap Compares
  BY KindsSum
<1>7. Sum(Tsvs) = Stacking \cap Tsvs
  BY KindsSum
<1>8. Sum({"precharger"}) = RowCircuits /\ Sum(Selects) = Decoding /\ Sum(BlockSet) = Predecoding
  BY KindsSum
<1> QED
  BY <1>3, <1>4, <1>5, <1>6, <1>7, <1>8, KindsApart

LEMMA NoMarks ==
  ASSUME NEW A, A \subseteq Labels, NEW x
  PROVE  (Fully(x, A) => x \ Marks = Sum(A)) /\ Sum(A) \ Marks = Sum(A)
<1>1. Sum(A) \cap Marks = {}
  BY SharesDiffer DEF Sum
<1>2. Unset(c) \cup {Twice} \subseteq Marks
  BY DEF Unset, Marks
<1> QED
  BY <1>1, <1>2 DEF Fully, Mixed

(* The four figures, each the sum over the circuits that enter it.          *)
LEMMA AreaCounts ==
  Sum(BankAreaSum) =
    {"cells"} \cup RowCircuits
      \cup (Circuits \ IF LogicLayer(c) THEN Predecoding \cup (Matching \ {"globalComparator"}) ELSE {})
      \cup Buffers \cup (IF LogicLayer(c) THEN Stacking ELSE Stacking \ {"mat_tsv"})
<1> DEFINE Inner == {"cells"} \cup {"precharger"} \cup Selects \cup (Muxes \cup {"globalMux"}) \cup Amps
           Rest  == IF LogicLayer(c) THEN {"globalComparator"} \cup Tsvs
                    ELSE BlockSet \cup Compares \cup {"bank_tsv"}
<1>1. BankAreaSum = (Inner \cup Buffers) \cup Rest
  BY DEF BankAreaSum, MatAreaSum, SubAreas, Sensing, Globals, Buffers, Amps, Compares, Tsvs
<1>2. Sum({"cells"}) = {"cells"}
  BY OthersSum DEF Others
<1>3. Sum(Inner) = {"cells"} \cup RowCircuits \cup Decoding \cup Choosing \cup Amplifying
  <2>1. Sum(Inner) = Sum({"cells"}) \cup Sum({"precharger"}) \cup Sum(Selects)
                       \cup Sum(Muxes \cup {"globalMux"}) \cup Sum(Amps)
    BY DEF Sum
  <2> QED
    BY <1>2, <2>1, WholeSums
<1>4. Sum(Buffers) = Buffers
  BY WholeSums
<1> HIDE DEF Inner
<1>5. {"globalComparator"} \subseteq Compares /\ {"bank_tsv"} \subseteq Tsvs
      /\ Tsvs = {"bank_tsv", "mat_tsv"} /\ "bank_tsv" # "mat_tsv"
  BY DEF Compares, Tsvs
<1>6. CASE LogicLayer(c)
  <2>1. Sum(Rest) = (Matching \cap {"globalComparator"}) \cup Stacking
    <3>1. Sum(Rest) = Sum({"globalComparator"}) \cup Sum(Tsvs)
      BY <1>6 DEF Sum
    <3>2. Sum({"globalComparator"}) = Matching \cap {"globalComparator"}
      BY <1>5, KindsSum
    <3> QED
      BY <3>1, <3>2, WholeSums
  <2> HIDE DEF Rest
  <2>2. Sum(BankAreaSum) = Sum(Inner) \cup Sum(Buffers) \cup Sum(Rest)
    BY <1>1 DEF Sum
  <2>3. Circuits \ (Predecoding \cup (Matching \ {"globalComparator"}))
          = Decoding \cup Choosing \cup Amplifying \cup (Matching \cap {"globalComparator"})
    BY KindsApart DEF Circuits
  <2> QED
    BY <1>3, <1>4, <1>6, <2>1, <2>2, <2>3
<1>7. CASE ~LogicLayer(c)
  <2>1. Stacking \cap {"bank_tsv"} = Stacking \ {"mat_tsv"}
    BY <1>5, KindsApart
  <2>2. Sum(Rest) = Predecoding \cup Matching \cup (Stacking \ {"mat_tsv"})
    <3>1. Sum(Rest) = Sum(BlockSet) \cup Sum(Compares) \cup Sum({"bank_tsv"})
      BY <1>7 DEF Sum
    <3>2. Sum({"bank_tsv"}) = Stacking \cap {"bank_tsv"}
      BY <1>5, KindsSum
    <3> QED
      BY <2>1, <3>1, <3>2, WholeSums
  <2> HIDE DEF Rest
  <2>3. Sum(BankAreaSum) = Sum(Inner) \cup Sum(Buffers) \cup Sum(Rest)
    BY <1>1 DEF Sum
  <2> QED
    BY <1>3, <1>4, <1>7, <2>2, <2>3 DEF Circuits
<1> QED
  BY <1>6, <1>7

LEMMA ReadCounts ==
  Sum(BankReads \cup {"bank_tsv"}) =
    {"bitline"} \cup (Circuits \ IF c.cell = "eDRAM" THEN {"bitlineMux"} ELSE {})
      \cup Wiring \cup Shift(c) \cup Stacking
<1> DEFINE off == IF c.cell = "eDRAM" THEN {"bitlineMux"} ELSE {}
           M   == (Muxes \cup {"globalMux"}) \ off
<1>1. "bitlineMux" \in Muxes /\ "bitlineMux" \notin Amps
  BY KindsApart DEF Muxes
<1>2. BankReads \cup {"bank_tsv"} =
        {"bitline"} \cup Selects \cup M \cup Amps \cup BlockSet \cup Compares \cup Tsvs
          \cup Wiring \cup Shift(c)
  BY <1>1 DEF BankReads, MatReads, Before, SubReads, Sensed, Sensing, Outer, Amps, Compares, Tsvs
<1>3. Sum({"bitline"}) = {"bitline"}
  BY OthersSum DEF Others
<1>4. Sum(M) = Choosing \ off
  BY KindsSum, KindsApart
<1> HIDE DEF M
<1>5. Sum(BankReads \cup {"bank_tsv"}) =
        {"bitline"} \cup Decoding \cup (Choosing \ off) \cup Amplifying \cup Predecoding \cup Matching
          \cup Stacking \cup Wiring \cup Shift(c)
  <2>1. Sum(BankReads \cup {"bank_tsv"}) =
          Sum({"bitline"}) \cup Sum(Selects) \cup Sum(M) \cup Sum(Amps) \cup Sum(BlockSet)
            \cup Sum(Compares) \cup Sum(Tsvs) \cup Sum(Wiring) \cup Sum(Shift(c))
    BY <1>2 DEF Sum
  <2> QED
    BY <1>3, <1>4, <2>1, WholeSums, WiredLabels
<1>6. Circuits \ off = Decoding \cup (Choosing \ off) \cup Amplifying \cup Predecoding \cup Matching
  <2>1. off \subseteq Muxes
    BY <1>1
  <2> HIDE DEF off
  <2> QED
    BY <2>1, KindsApart DEF Circuits
<1> QED
  BY <1>5, <1>6

LEMMA DrawCounts ==
  Sum(BankDraws \cup {"bank_tsv"}) =
    {"bitline"} \cup ReadCells \cup RowCircuits \cup Circuits \cup Wiring \cup Stacking
<1>1. BankDraws \cup {"bank_tsv"} =
        {"bitline"} \cup ReadCells \cup {"precharger"} \cup Selects \cup (Muxes \cup {"globalMux"})
          \cup Amps \cup BlockSet \cup Compares \cup Tsvs \cup Wiring
  BY DEF BankDraws, MatDraws, SubDraws, Ends, Sensing, Outer, Amps, Compares, Tsvs
<1>2. Sum({"bitline"}) = {"bitline"} /\ Sum(ReadCells) = ReadCells
  BY OthersSum, PowerLabels
<1>3. Sum(BankDraws \cup {"bank_tsv"}) =
        {"bitline"} \cup ReadCells \cup RowCircuits \cup Decoding \cup Choosing
          \cup Amplifying \cup Predecoding \cup Matching \cup Stacking \cup Wiring
  <2>1. Sum(BankDraws \cup {"bank_tsv"}) =
          Sum({"bitline"}) \cup Sum(ReadCells) \cup Sum({"precharger"}) \cup Sum(Selects)
            \cup Sum(Muxes \cup {"globalMux"}) \cup Sum(Amps) \cup Sum(BlockSet)
            \cup Sum(Compares) \cup Sum(Tsvs) \cup Sum(Wiring)
    BY <1>1 DEF Sum
  <2> QED
    BY <1>2, <2>1, WholeSums
<1> QED
  BY <1>3 DEF Circuits

LEMMA LeakCounts ==
  Sum(BankLeaks) = LeakCells \cup RowCircuits \cup (Circuits \ Choosing) \cup Buffers
<1>1. ({"precharger"} \cup Selects \cup {"senseAmp"}) \cap Muxes = {}
  <2>1. "senseAmp" \in Amps
    BY DEF Amps
  <2> QED
    BY <2>1, UnitKinds
<1>2. BankLeaks = LeakCells \cup {"precharger"} \cup Selects \cup Amps \cup BlockSet \cup Compares \cup Buffers
  BY <1>1 DEF BankLeaks, MatLeaks, SubLeaks, Ends, Sensing, Amps, Compares
<1>3. Sum(LeakCells) = LeakCells
  BY OthersSum, PowerLabels
<1>4. Sum(BankLeaks) =
        LeakCells \cup RowCircuits \cup Decoding \cup Amplifying \cup Predecoding \cup Matching \cup Buffers
  <2>1. Sum(BankLeaks) =
          Sum(LeakCells) \cup Sum({"precharger"}) \cup Sum(Selects) \cup Sum(Amps)
            \cup Sum(BlockSet) \cup Sum(Compares) \cup Sum(Buffers)
    BY <1>2 DEF Sum
  <2> QED
    BY <1>3, <2>1, WholeSums
<1>5. Circuits \ Choosing = Decoding \cup Amplifying \cup Predecoding \cup Matching
  BY KindsApart DEF Circuits
<1> QED
  BY <1>4, <1>5

(* Every circuit of a printed design has its share in the bank's figures,   *)
(* and nothing else has one, but for what the code leaves out.              *)
THEOREM SpecEveryPartCounts == Spec => []EveryPartCounts
<1>1. History => EveryPartCounts
  <2> SUFFICES ASSUME History, Printed
               PROVE  /\ Fig(s, "bank", "area") \ Marks = Sum(BankAreaSum)
                      /\ Fig(s, "bank", "readLatency") \ Marks = Sum(BankReads \cup {"bank_tsv"})
                      /\ Fig(s, "bank", "readEnergy") \ Marks = Sum(BankDraws \cup {"bank_tsv"})
                      /\ Fig(s, "bank", "leakage") \ Marks = Sum(BankLeaks)
    BY AreaCounts, ReadCounts, DrawCounts, LeakCounts
       DEF EveryPartCounts, Buffers, ReadCells, LeakCells
  <2>1. FinalTotals(s) /\ AreasKnown(s)
    BY PrintedEnded DEF Ended
  <2>2. /\ BankAreaSum \subseteq Labels /\ BankReads \cup {"bank_tsv"} \subseteq Labels
        /\ BankDraws \cup {"bank_tsv"} \subseteq Labels /\ BankLeaks \subseteq Labels
    BY FinalLabels, WiredLabels DEF BankAll
  <2> QED
    BY <2>1, <2>2, NoMarks DEF FinalTotals, AreasKnown
<1> QED
  BY <1>1, SpecHistory, PTL
=============================================================================
