--------------------------- MODULE Figures_proofs ---------------------------
(***************************************************************************)
(* What every call of Figures does to a state, one lemma a call, for any   *)
(* parts whatever: the figures it sets, and that it leaves alone all       *)
(* others, and who is initialized, invalid or complained about.            *)
(***************************************************************************)
EXTENDS Figures, TLAPS

Fields == Figure \cup Loose

(* A state of the parts in P, all of them with all figures.                 *)
IsState(P, s) ==
  /\ s = [fig |-> s.fig, made |-> s.made, bad |-> s.bad, complaints |-> s.complaints]
  /\ s.fig = [p \in P |-> s.fig[p]]
  /\ \A p \in P : s.fig[p] = [f \in Fields |-> s.fig[p][f]]
  /\ s.made \subseteq P /\ s.bad \subseteq P /\ s.complaints \subseteq P

(* A call that only computes.                                               *)
Computes(P, s, t) ==
  IsState(P, t) /\ t.made = s.made /\ t.bad = s.bad /\ t.complaints = s.complaints

(* A call that only initializes the parts in Q.                             *)
Initializes(P, s, t, Q) ==
  /\ IsState(P, t) /\ t.made = s.made \cup Q
  /\ t.bad = s.bad /\ t.complaints = s.complaints

(* A call that only assigns figures of part p: x to those in F, y to those  *)
(* in G, and z to those in H.                                               *)
Sets(P, s, t, p, F, x) ==
  /\ Computes(P, s, t)
  /\ \A q \in P, f \in Fields :
       Fig(t, q, f) = IF q = p /\ f \in F THEN x ELSE Fig(s, q, f)

SetsTwo(P, s, t, p, F, x, G, y) ==
  /\ Computes(P, s, t)
  /\ \A q \in P, f \in Fields :
       Fig(t, q, f) = IF q = p /\ f \in F THEN x
                      ELSE IF q = p /\ f \in G THEN y ELSE Fig(s, q, f)

SetsThree(P, s, t, p, F, x, G, y, H, z) ==
  /\ Computes(P, s, t)
  /\ \A q \in P, f \in Fields :
       Fig(t, q, f) = IF q = p /\ f \in F THEN x
                      ELSE IF q = p /\ f \in G THEN y
                      ELSE IF q = p /\ f \in H THEN z ELSE Fig(s, q, f)

(* A call that only computes, and assigns nothing but figures F of parts Q. *)
Works(P, s, t, Q, F) ==
  /\ Computes(P, s, t)
  /\ \A q \in P, f \in Fields : q \notin Q \/ f \notin F => Fig(t, q, f) = Fig(s, q, f)

-----------------------------------------------------------------------------
(* Assignments to figures.                                                  *)

LEMMA PutGives ==
  ASSUME NEW P, NEW s, IsState(P, s), NEW p \in P, NEW F, F \subseteq Fields,
         NEW new, new = [f \in F |-> new[f]]
  PROVE  LET t == Put(s, p, new)
         IN  /\ Computes(P, s, t)
             /\ \A q \in P, f \in Fields :
                  Fig(t, q, f) = IF q = p /\ f \in F THEN new[f] ELSE Fig(s, q, f)
<1> DEFINE t == Put(s, p, new)
           row == new ++ s.fig[p]
<1>1. row = [f \in Fields |-> IF f \in F THEN new[f] ELSE s.fig[p][f]]
  BY DEF IsState, ++
<1>2. t = [fig |-> [q \in P |-> IF q = p THEN row ELSE s.fig[q]],
           made |-> s.made, bad |-> s.bad, complaints |-> s.complaints]
  <2> HIDE DEF row
  <2>1. t = [s EXCEPT !.fig = [s.fig EXCEPT ![p] = row]]
    BY DEF Put, IsState, row
  <2> HIDE DEF t
  <2> QED
    BY <2>1 DEF IsState
<1> HIDE DEF t, row
<1>3. Computes(P, s, t)
  BY <1>1, <1>2 DEF IsState, Computes
<1>4. ASSUME NEW q \in P, NEW f \in Fields
      PROVE  Fig(t, q, f) = IF q = p /\ f \in F THEN new[f] ELSE Fig(s, q, f)
  BY <1>1, <1>2 DEF Fig
<1> QED
  BY <1>3, <1>4 DEF t

(* One value for some fields.                                               *)
LEMMA PutAll ==
  ASSUME NEW P, NEW s, IsState(P, s), NEW p \in P, NEW F, F \subseteq Fields, NEW x
  PROVE  Sets(P, s, Put(s, p, All(F, x)), p, F, x)
<1> DEFINE new == All(F, x)
<1>1. new = [f \in F |-> new[f]] /\ \A f \in F : new[f] = x
  BY DEF All
<1> HIDE DEF new
<1>2. LET t == Put(s, p, new)
      IN  /\ Computes(P, s, t)
          /\ \A q \in P, f \in Fields :
               Fig(t, q, f) = IF q = p /\ f \in F THEN new[f] ELSE Fig(s, q, f)
  BY <1>1, PutGives
<1> QED
  BY <1>1, <1>2 DEF new, Sets

(* One value for some fields, and another for others.                       *)
LEMMA PutTwo ==
  ASSUME NEW P, NEW s, IsState(P, s), NEW p \in P,
         NEW F, F \subseteq Fields, NEW G, G \subseteq Fields, NEW x, NEW y
  PROVE  SetsTwo(P, s, Put(s, p, All(F, x) ++ All(G, y)), p, F, x, G, y)
<1> DEFINE new == All(F, x) ++ All(G, y)
           H   == F \cup G
<1>1. /\ new = [f \in H |-> new[f]] /\ H \subseteq Fields
      /\ \A f \in H : new[f] = IF f \in F THEN x ELSE y
  BY DEF All, ++
<1>2. \A f : f \in H <=> f \in F \/ f \in G
  OBVIOUS
<1> HIDE DEF new, H
<1>3. LET t == Put(s, p, new)
      IN  /\ Computes(P, s, t)
          /\ \A q \in P, f \in Fields :
               Fig(t, q, f) = IF q = p /\ f \in H THEN new[f] ELSE Fig(s, q, f)
  BY <1>1, PutGives
<1> QED
  BY <1>1, <1>2, <1>3 DEF new, SetsTwo

LEMMA PutThree ==
  ASSUME NEW P, NEW s, IsState(P, s), NEW p \in P, NEW F, F \subseteq Fields,
         NEW G, G \subseteq Fields, NEW H, H \subseteq Fields, NEW x, NEW y, NEW z
  PROVE  SetsThree(P, s, Put(s, p, All(F, x) ++ (All(G, y) ++ All(H, z))), p,
                   F, x, G, y, H, z)
<1> DEFINE new == All(F, x) ++ (All(G, y) ++ All(H, z))
           K   == F \cup G \cup H
<1>1. /\ new = [f \in K |-> new[f]] /\ K \subseteq Fields
      /\ \A f \in K : new[f] = IF f \in F THEN x ELSE IF f \in G THEN y ELSE z
  BY DEF All, ++
<1>2. \A f : f \in K <=> f \in F \/ f \in G \/ f \in H
  OBVIOUS
<1> HIDE DEF new, K
<1>3. LET t == Put(s, p, new)
      IN  /\ Computes(P, s, t)
          /\ \A q \in P, f \in Fields :
               Fig(t, q, f) = IF q = p /\ f \in K THEN new[f] ELSE Fig(s, q, f)
  BY <1>1, PutGives
<1> QED
  BY <1>1, <1>2, <1>3 DEF new, SetsThree

(* Assignments to one part and then to another.                             *)
LEMMA SetsAgain ==
  ASSUME NEW P, NEW s, NEW u, NEW t, NEW p, NEW q, NEW F, NEW x, NEW y,
         Sets(P, s, u, q, F, x), Sets(P, u, t, p, F, y)
  PROVE  Works(P, s, t, {p, q}, F)
BY DEF Sets, Works, Computes

LEMMA SetsTwoAgain ==
  ASSUME NEW P, NEW s, NEW u, NEW t, NEW p, NEW q, NEW F, NEW G,
         NEW x, NEW y, NEW x2, NEW y2,
         SetsTwo(P, s, u, q, F, x, G, y), SetsTwo(P, u, t, p, F, x2, G, y2)
  PROVE  Works(P, s, t, {p, q}, F \cup G)
BY DEF SetsTwo, Works, Computes

(* A call after another.                                                    *)
LEMMA WorksOn ==
  ASSUME NEW P, NEW s, NEW t, NEW u, NEW Q, NEW R, NEW F, NEW G,
         Works(P, s, t, Q, F), Works(P, t, u, R, G), R \subseteq Q, G \subseteq F
  PROVE  Works(P, s, u, Q, F)
BY DEF Works, Computes

LEMMA MadeGives ==
  ASSUME NEW P, NEW s, IsState(P, s), NEW p \in P
  PROVE  LET t == Made(s, p)
         IN  /\ IsState(P, t) /\ t.made = s.made \cup {p} /\ t.bad = s.bad
             /\ p \notin s.made => t.complaints = s.complaints
             /\ \A q \in P, f \in Fields : Fig(t, q, f) = Fig(s, q, f)
<1> DEFINE t == Made(s, p)
           warned == IF p \in s.made THEN s.complaints \cup {p} ELSE s.complaints
<1>1. t = [fig |-> s.fig, made |-> s.made \cup {p}, bad |-> s.bad,
           complaints |-> warned]
  <2> HIDE DEF warned
  <2>1. t = [s EXCEPT !.complaints = warned, !.made = s.made \cup {p}]
    BY DEF Made, warned
  <2> HIDE DEF t
  <2> QED
    BY <2>1 DEF IsState
<1>2. warned \subseteq P /\ (p \notin s.made => warned = s.complaints)
  BY DEF IsState
<1> HIDE DEF t, warned
<1>3. IsState(P, t)
  BY <1>1, <1>2 DEF IsState
<1>4. \A q \in P, f \in Fields : Fig(t, q, f) = Fig(s, q, f)
  BY <1>1 DEF Fig
<1> QED
  BY <1>1, <1>2, <1>3, <1>4 DEF t

(* initialized = true, without the warning.                                 *)
LEMMA ReadyGives ==
  ASSUME NEW P, NEW s, IsState(P, s), NEW p \in P
  PROVE  LET t == [s EXCEPT !.made = @ \cup {p}]
         IN  /\ Initializes(P, s, t, {p})
             /\ \A q \in P, f \in Fields : Fig(t, q, f) = Fig(s, q, f)
<1> DEFINE t == [s EXCEPT !.made = @ \cup {p}]
<1>1. t = [fig |-> s.fig, made |-> s.made \cup {p}, bad |-> s.bad,
           complaints |-> s.complaints]
  BY DEF IsState
<1> HIDE DEF t
<1> QED
  BY <1>1 DEF IsState, Initializes, Fig, t

LEMMA InvalidateGives ==
  ASSUME NEW P, NEW s, IsState(P, s), NEW p \in P
  PROVE  LET t == Invalidate(s, p)
         IN  /\ IsState(P, t) /\ t.made = s.made /\ t.bad = s.bad \cup {p}
             /\ t.complaints = s.complaints
             /\ \A q \in P, f \in Fields : Fig(t, q, f) = Fig(s, q, f)
<1> DEFINE t == Invalidate(s, p)
<1>1. t = [fig |-> s.fig, made |-> s.made, bad |-> s.bad \cup {p},
           complaints |-> s.complaints]
  BY DEF Invalidate, IsState
<1> HIDE DEF t
<1> QED
  BY <1>1 DEF IsState, Fig, t

LEMMA ComplainGives ==
  ASSUME NEW P, NEW s, IsState(P, s), NEW p \in P
  PROVE  LET t == Complain(s, p)
         IN  /\ IsState(P, t) /\ t.made = s.made /\ t.bad = s.bad
             /\ t.complaints = s.complaints \cup {p}
             /\ \A q \in P, f \in Fields : Fig(t, q, f) = Fig(s, q, f)
<1> DEFINE t == Complain(s, p)
<1>1. t = [fig |-> s.fig, made |-> s.made, bad |-> s.bad,
           complaints |-> s.complaints \cup {p}]
  BY DEF Complain, IsState
<1> HIDE DEF t
<1> QED
  BY <1>1 DEF IsState, Fig, t

(* A record of one field.                                                   *)
LEMMA OneField ==
  ASSUME NEW x
  PROVE  /\ [ramp |-> x] = All({"ramp"}, x) /\ [area |-> x] = All({"area"}, x)
         /\ [leakage |-> x] = All({"leakage"}, x) /\ [cap |-> x] = All({"cap"}, x)
         /\ [gates |-> x] = All({"gates"}, x)
         /\ [writeLatency |-> x] = All({"writeLatency"}, x)
         /\ [readLatency |-> x] = All({"readLatency"}, x)
BY DEF All

(* The names of figures that calls assign.                                  *)
LEMMA Names ==
  /\ {"ramp"} \subseteq Fields /\ {"cap"} \subseteq Fields /\ {"gates"} \subseteq Fields
  /\ {"area"} \subseteq Fields /\ {"leakage"} \subseteq Fields
  /\ Latencies \subseteq Fields /\ Energies \subseteq Fields
BY DEF Fields, Figure, Loose, Latencies, Energies

-----------------------------------------------------------------------------
(* The output driver.                                                       *)

LEMMA DriverAreaGives ==
  ASSUME NEW P, NEW s, IsState(P, s), NEW d \in P, d \in s.made, d \notin s.bad
  PROVE  Sets(P, s, DriverArea(s, d), d, {"area"}, {d})
<1>1. DriverArea(s, d) = Put(s, d, All({"area"}, {d}))
  BY OneField DEF DriverArea, Rated, When
<1> QED
  BY <1>1, Names, PutAll

LEMMA DriverRCGives ==
  ASSUME NEW P, NEW s, IsState(P, s), NEW d \in P, d \in s.made, d \notin s.bad
  PROVE  Sets(P, s, DriverRC(s, d), d, {"cap"}, {})
<1>1. DriverRC(s, d) = Put(s, d, All({"cap"}, {}))
  BY OneField DEF DriverRC, When
<1> QED
  BY <1>1, Names, PutAll

LEMMA DriverLatencyGives ==
  ASSUME NEW P, NEW s, IsState(P, s), NEW d \in P, d \in s.made, d \notin s.bad,
         NEW ramp, NEW delay, delay = {d} \cup Fig(s, d, "cap") \cup ramp
  PROVE  SetsTwo(P, s, DriverLatency(s, d, ramp), d, Latencies, delay,
                 {"ramp"}, delay \ {d})
<1>1. DriverLatency(s, d, ramp)
        = Put(s, d, All(Latencies, delay) ++ All({"ramp"}, delay \ {d}))
  BY OneField DEF DriverLatency, Rated, When
<1> QED
  BY <1>1, Names, PutTwo

LEMMA DriverPowerGives ==
  ASSUME NEW P, NEW s, IsState(P, s), NEW d \in P, d \in s.made, d \notin s.bad
  PROVE  SetsTwo(P, s, DriverPower(s, d), d, Energies, {d} \cup Fig(s, d, "cap"),
                 {"leakage"}, {d})
<1>1. DriverPower(s, d)
        = Put(s, d, All(Energies, {d} \cup Fig(s, d, "cap")) ++ All({"leakage"}, {d}))
  BY OneField DEF DriverPower, Rated, When
<1> QED
  BY <1>1, Names, PutTwo

-----------------------------------------------------------------------------
(* A row decoder, or a basic decoder, and its driver.                       *)

(* Both are initialized, and neither is invalid.                            *)
Decodes(P, s, p) ==
  /\ IsState(P, s) /\ {p, Driver(p)} \subseteq P /\ Driver(p) # p
  /\ {p, Driver(p)} \subseteq s.made /\ Driver(p) \notin s.bad

(* A call that initializes both, and gives the decoder these gates.         *)
Prepares(P, s, t, p, gates) ==
  /\ Initializes(P, s, t, {p, Driver(p)})
  /\ \A q \in P, f \in Fields :
       Fig(t, q, f) = IF q = p /\ f = "gates" THEN gates ELSE Fig(s, q, f)

(* None of it is.                                                           *)
Undone(P, s, p) ==
  /\ IsState(P, s) /\ {p, Driver(p)} \subseteq P /\ Driver(p) # p
  /\ s.made \cap {p, Driver(p)} = {} /\ s.bad \cap {p, Driver(p)} = {}

LEMMA RowDecoderInitializeGives ==
  ASSUME NEW P, NEW s, NEW p, Undone(P, s, p), NEW gates
  PROVE  Prepares(P, s, RowDecoderInitialize(s, p, gates, TRUE), p, gates)
<1> DEFINE u == Put(s, p, All({"gates"}, gates))
           v == Made(u, Driver(p))
<1>1. IsState(P, s) /\ p \in P /\ Driver(p) \in P /\ Driver(p) # p
  BY DEF Undone
<1>3. Sets(P, s, u, p, {"gates"}, gates)
  BY <1>1, Names, PutAll
<1> HIDE DEF u
<1>4. /\ IsState(P, v) /\ v.made = s.made \cup {Driver(p)} /\ v.bad = s.bad
      /\ v.complaints = s.complaints
      /\ \A q \in P, f \in Fields : Fig(v, q, f) = Fig(u, q, f)
  BY <1>1, <1>3, MadeGives DEF Undone, Computes, Sets
<1>5. RowDecoderInitialize(s, p, gates, TRUE) = Made(v, p)
  <2>1. v = DriverInitialize(Put(s, p, [gates |-> gates]), Driver(p), TRUE)
    BY DEF u, DriverInitialize, All
  <2> HIDE DEF v
  <2> QED
    BY <2>1, <1>4 DEF RowDecoderInitialize, Undone
<1> HIDE DEF v
<1>6. /\ IsState(P, Made(v, p)) /\ Made(v, p).made = v.made \cup {p}
      /\ Made(v, p).bad = v.bad /\ Made(v, p).complaints = v.complaints
      /\ \A q \in P, f \in Fields : Fig(Made(v, p), q, f) = Fig(v, q, f)
  BY <1>1, <1>4, MadeGives DEF Undone
<1>7. Made(v, p).made = s.made \cup {p, Driver(p)}
  BY <1>4, <1>6
<1>8. Initializes(P, s, Made(v, p), {p, Driver(p)})
  BY <1>3, <1>4, <1>6, <1>7 DEF Initializes, Sets, Computes
<1>9. \A q \in P, f \in Fields :
        Fig(Made(v, p), q, f) = IF q = p /\ f = "gates" THEN gates ELSE Fig(s, q, f)
  BY <1>3, <1>4, <1>6 DEF Sets
<1> QED
  BY <1>5, <1>8, <1>9 DEF Prepares

LEMMA RowDecoderAreaGives ==
  ASSUME NEW P, NEW s, NEW p, Decodes(P, s, p)
  PROVE  LET t == RowDecoderArea(s, p)
         IN  /\ Works(P, s, t, {p, Driver(p)}, {"area"})
             /\ Fig(t, p, "area") = {Driver(p)} \oplus Fig(s, p, "gates")
<1> DEFINE u == DriverArea(s, Driver(p))
           x == {Driver(p)} \oplus Fig(s, p, "gates")
<1>1. /\ IsState(P, s) /\ p \in P /\ Driver(p) \in P /\ Driver(p) # p
      /\ p \in s.made /\ Driver(p) \in s.made /\ Driver(p) \notin s.bad
  BY DEF Decodes
<1>2. Sets(P, s, u, Driver(p), {"area"}, {Driver(p)})
  BY <1>1, DriverAreaGives
<1>3. "area" \in Fields /\ "gates" \in Fields
  BY Names
<1>4. Fig(u, Driver(p), "area") = {Driver(p)} /\ Fig(u, p, "gates") = Fig(s, p, "gates")
  BY <1>1, <1>2, <1>3 DEF Sets
<1>5. RowDecoderArea(s, p) = Put(u, p, All({"area"}, x))
  BY <1>1, <1>4, OneField DEF RowDecoderArea, When
<1> HIDE DEF u, x
<1>6. IsState(P, u)
  BY <1>2 DEF Sets, Computes
<1>7. Sets(P, u, Put(u, p, All({"area"}, x)), p, {"area"}, x)
  BY <1>1, <1>6, Names, PutAll
<1>8. Works(P, s, Put(u, p, All({"area"}, x)), {p, Driver(p)}, {"area"})
  BY <1>2, <1>7, SetsAgain
<1>9. Fig(Put(u, p, All({"area"}, x)), p, "area") = x
  BY <1>1, <1>3, <1>7 DEF Sets
<1> QED
  BY <1>5, <1>8, <1>9 DEF x

LEMMA RowDecoderRCGives ==
  ASSUME NEW P, NEW s, NEW p, Decodes(P, s, p)
  PROVE  LET t == RowDecoderRC(s, p)
         IN  /\ Works(P, s, t, {p, Driver(p)}, {"cap"})
             /\ Fig(t, p, "cap") = {} /\ Fig(t, Driver(p), "cap") = {}
<1> DEFINE u == DriverRC(s, Driver(p))
<1>1. /\ IsState(P, s) /\ p \in P /\ Driver(p) \in P /\ Driver(p) # p
      /\ p \in s.made /\ Driver(p) \in s.made /\ Driver(p) \notin s.bad
  BY DEF Decodes
<1>2. Sets(P, s, u, Driver(p), {"cap"}, {})
  BY <1>1, DriverRCGives
<1>3. RowDecoderRC(s, p) = Put(u, p, All({"cap"}, {}))
  BY <1>1, OneField DEF RowDecoderRC, When
<1> HIDE DEF u
<1>4. IsState(P, u)
  BY <1>2 DEF Sets, Computes
<1> DEFINE t == Put(u, p, All({"cap"}, {}))
<1>5. Sets(P, u, t, p, {"cap"}, {})
  BY <1>1, <1>4, Names, PutAll
<1> HIDE DEF t
<1>6. "cap" \in Fields
  BY Names
<1>7. Works(P, s, t, {p, Driver(p)}, {"cap"})
  BY <1>2, <1>5, SetsAgain
<1>8. Fig(t, p, "cap") = {} /\ Fig(t, Driver(p), "cap") = {}
  BY <1>1, <1>2, <1>5, <1>6 DEF Sets
<1> QED
  BY <1>3, <1>7, <1>8 DEF t

(* A call that computes the latencies of a decoder, and the ramp it leaves, *)
(* with that delay in its driver.                                           *)
DelaysRow(P, s, t, p, delay) ==
  /\ Works(P, s, t, {p, Driver(p)}, Latencies \cup {"ramp"})
  /\ \A f \in Latencies : Fig(t, p, f) = delay \oplus Own(s, p)
  /\ Fig(t, p, "ramp") = delay \ {Driver(p)}

(* The gates delay the row before its driver does, and their ramp is the    *)
(* driver's input.                                                          *)
LEMMA RowDecoderLatencyGives ==
  ASSUME NEW P, NEW s, NEW p, Decodes(P, s, p), NEW ramp,
         NEW delay, delay = {Driver(p)} \cup Fig(s, Driver(p), "cap")
                              \cup (ramp \cup (Own(s, p) \ {p}))
  PROVE  DelaysRow(P, s, RowDecoderLatency(s, p, ramp), p, delay)
<1> DEFINE in == ramp \cup (Own(s, p) \ {p})
           u  == DriverLatency(s, Driver(p), in)
           out == delay \ {Driver(p)}
           x  == delay \oplus Own(s, p)
<1>1. /\ IsState(P, s) /\ p \in P /\ Driver(p) \in P /\ Driver(p) # p
      /\ p \in s.made /\ Driver(p) \in s.made /\ Driver(p) \notin s.bad
  BY DEF Decodes
<1>2. delay = {Driver(p)} \cup Fig(s, Driver(p), "cap") \cup in
  OBVIOUS
<1> HIDE DEF in
<1>3. SetsTwo(P, s, u, Driver(p), Latencies, delay, {"ramp"}, delay \ {Driver(p)})
  BY <1>1, <1>2, DriverLatencyGives
<1>4. /\ "ramp" \in Fields /\ "readLatency" \in Fields /\ "ramp" \notin Latencies
      /\ Latencies \subseteq Fields /\ "readLatency" \in Latencies
  BY Names DEF Latencies
<1>5. Fig(u, Driver(p), "readLatency") = delay /\ Fig(u, Driver(p), "ramp") = out
  BY <1>1, <1>3, <1>4 DEF SetsTwo
<1>6. RowDecoderLatency(s, p, ramp) = Put(u, p, All(Latencies, x) ++ All({"ramp"}, out))
  BY <1>1, <1>5, OneField DEF RowDecoderLatency, When, in
<1>7. out = delay \ {Driver(p)}
  OBVIOUS
<1> HIDE DEF u, x, out
<1>8. IsState(P, u)
  BY <1>3 DEF SetsTwo, Computes
<1> DEFINE t == Put(u, p, All(Latencies, x) ++ All({"ramp"}, out))
<1>9. SetsTwo(P, u, t, p, Latencies, x, {"ramp"}, out)
  BY <1>1, <1>8, Names, PutTwo
<1> HIDE DEF t
<1>10. Works(P, s, t, {p, Driver(p)}, Latencies \cup {"ramp"})
  BY <1>3, <1>9, SetsTwoAgain
<1>11. (\A f \in Latencies : Fig(t, p, f) = x) /\ Fig(t, p, "ramp") = out
  BY <1>1, <1>4, <1>9 DEF SetsTwo
<1> QED
  BY <1>6, <1>7, <1>10, <1>11 DEF x, t, DelaysRow

LEMMA RowDecoderPowerGives ==
  ASSUME NEW P, NEW s, NEW p, Decodes(P, s, p)
  PROVE  LET t == RowDecoderPower(s, p)
         IN  /\ Works(P, s, t, {p, Driver(p)}, Energies \cup {"leakage"})
             /\ \A f \in Energies : Fig(t, p, f) =
                  ({Driver(p)} \cup Fig(s, Driver(p), "cap")) \oplus Own(s, p)
             /\ Fig(t, p, "leakage") = {Driver(p)} \oplus Fig(s, p, "gates")
<1> DEFINE u == DriverPower(s, Driver(p))
           e == {Driver(p)} \cup Fig(s, Driver(p), "cap")
           x == e \oplus Own(s, p)
           y == {Driver(p)} \oplus Fig(s, p, "gates")
<1>1. /\ IsState(P, s) /\ p \in P /\ Driver(p) \in P /\ Driver(p) # p
      /\ p \in s.made /\ Driver(p) \in s.made /\ Driver(p) \notin s.bad
  BY DEF Decodes
<1>2. SetsTwo(P, s, u, Driver(p), Energies, e, {"leakage"}, {Driver(p)})
  BY <1>1, DriverPowerGives
<1>3. /\ "leakage" \in Fields /\ "readEnergy" \in Fields /\ "leakage" \notin Energies
      /\ Energies \subseteq Fields /\ "readEnergy" \in Energies
  BY Names DEF Energies
<1> HIDE DEF e
<1>4. Fig(u, Driver(p), "readEnergy") = e /\ Fig(u, Driver(p), "leakage") = {Driver(p)}
  BY <1>1, <1>2, <1>3 DEF SetsTwo
<1>5. RowDecoderPower(s, p) = Put(u, p, All(Energies, x) ++ All({"leakage"}, y))
  BY <1>1, <1>4, OneField DEF RowDecoderPower, When
<1> HIDE DEF u, x, y
<1>6. IsState(P, u)
  BY <1>2 DEF SetsTwo, Computes
<1> DEFINE t == Put(u, p, All(Energies, x) ++ All({"leakage"}, y))
<1>7. SetsTwo(P, u, t, p, Energies, x, {"leakage"}, y)
  BY <1>1, <1>6, Names, PutTwo
<1> HIDE DEF t
<1>8. Works(P, s, t, {p, Driver(p)}, Energies \cup {"leakage"})
  BY <1>2, <1>7, SetsTwoAgain
<1>9. (\A f \in Energies : Fig(t, p, f) = x) /\ Fig(t, p, "leakage") = y
  BY <1>1, <1>3, <1>7 DEF SetsTwo
<1> QED
  BY <1>5, <1>8, <1>9 DEF x, y, e, t

LEMMA BasicDecoderInitializeGives ==
  ASSUME NEW P, NEW s, NEW p, Undone(P, s, p), NEW inputs,
         NEW gates, gates = IF inputs = 0 THEN {} ELSE {p}
  PROVE  Prepares(P, s, BasicDecoderInitialize(s, p, inputs), p, gates)
<1> DEFINE u == Made(s, Driver(p))
           v == Put(u, p, All({"gates"}, gates))
           t == [v EXCEPT !.made = @ \cup {p}]
<1>1. IsState(P, s) /\ p \in P /\ Driver(p) \in P /\ Driver(p) # p
  BY DEF Undone
<1>2. /\ IsState(P, u) /\ u.made = s.made \cup {Driver(p)} /\ u.bad = s.bad
      /\ u.complaints = s.complaints
      /\ \A q \in P, f \in Fields : Fig(u, q, f) = Fig(s, q, f)
  BY <1>1, MadeGives DEF Undone
<1>3. BasicDecoderInitialize(s, p, inputs) = t
  BY OneField DEF BasicDecoderInitialize, DriverInitialize
<1> HIDE DEF u
<1>4. Sets(P, u, v, p, {"gates"}, gates)
  BY <1>1, <1>2, Names, PutAll
<1> HIDE DEF v
<1>5. IsState(P, v)
  BY <1>4 DEF Sets, Computes
<1>6. /\ Initializes(P, v, t, {p})
      /\ \A q \in P, f \in Fields : Fig(t, q, f) = Fig(v, q, f)
  BY <1>1, <1>5, ReadyGives
<1> HIDE DEF t
<1>7. t.made = s.made \cup {p, Driver(p)}
  BY <1>2, <1>4, <1>6 DEF Sets, Computes, Initializes
<1>8. Initializes(P, s, t, {p, Driver(p)})
  BY <1>2, <1>4, <1>6, <1>7 DEF Sets, Computes, Initializes
<1>9. \A q \in P, f \in Fields :
        Fig(t, q, f) = IF q = p /\ f = "gates" THEN gates ELSE Fig(s, q, f)
  BY <1>2, <1>4, <1>6 DEF Sets
<1> QED
  BY <1>3, <1>8, <1>9 DEF Prepares

(* Without gates, nothing but the driver has capacitances to work out.      *)
LEMMA BasicDecoderRCGives ==
  ASSUME NEW P, NEW s, NEW p, Decodes(P, s, p)
  PROVE  LET t == BasicDecoderRC(s, p)
         IN  /\ Works(P, s, t, {p, Driver(p)}, {"cap"})
             /\ Fig(t, Driver(p), "cap") = {}
             /\ Fig(s, p, "gates") # {} => Fig(t, p, "cap") = {}
<1>1. /\ IsState(P, s) /\ p \in P /\ Driver(p) \in P /\ Driver(p) # p
      /\ p \in s.made /\ Driver(p) \in s.made /\ Driver(p) \notin s.bad
  BY DEF Decodes
<1>2. CASE Fig(s, p, "gates") # {}
  <2>1. BasicDecoderRC(s, p) = RowDecoderRC(s, p)
    BY <1>1, <1>2 DEF BasicDecoderRC, RowDecoderRC, When
  <2> QED
    BY <2>1, RowDecoderRCGives
<1>3. CASE Fig(s, p, "gates") = {}
  <2> DEFINE t == DriverRC(s, Driver(p))
  <2>1. BasicDecoderRC(s, p) = t
    BY <1>1, <1>3 DEF BasicDecoderRC, When
  <2>2. Sets(P, s, t, Driver(p), {"cap"}, {})
    BY <1>1, DriverRCGives
  <2> HIDE DEF t
  <2>3. "cap" \in Fields
    BY Names
  <2> QED
    BY <1>1, <1>3, <2>1, <2>2, <2>3 DEF Sets, Works
<1> QED
  BY <1>2, <1>3

(* A decoder whose driver is invalid is invalid, and not initialized.       *)
Refuses(P, s, t, p) ==
  /\ IsState(P, t) /\ t.made = s.made /\ t.complaints = s.complaints
  /\ t.bad = s.bad \cup {p, Driver(p)}

(* A driver that would have to be too wide: nothing is initialized, and     *)
(* decoder and driver are invalid.                                          *)
LEMMA RowDecoderRefuses ==
  ASSUME NEW P, NEW s, NEW p, Undone(P, s, p), NEW gates
  PROVE  Refuses(P, s, RowDecoderInitialize(s, p, gates, FALSE), p)
<1> DEFINE u == Put(s, p, All({"gates"}, gates))
           v == Invalidate(u, Driver(p))
           t == Invalidate(v, p)
<1>1. IsState(P, s) /\ p \in P /\ Driver(p) \in P /\ Driver(p) # p
  BY DEF Undone
<1>2. Sets(P, s, u, p, {"gates"}, gates)
  BY <1>1, Names, PutAll
<1>3. u = Put(s, p, [gates |-> gates])
  BY OneField
<1> HIDE DEF u
<1>4. IsState(P, u) /\ u.made = s.made /\ u.bad = s.bad /\ u.complaints = s.complaints
  BY <1>2 DEF Sets, Computes
<1>5. /\ IsState(P, v) /\ v.made = u.made /\ v.bad = u.bad \cup {Driver(p)}
      /\ v.complaints = u.complaints
      /\ \A q \in P, f \in Fields : Fig(v, q, f) = Fig(u, q, f)
  BY <1>1, <1>4, InvalidateGives
<1>6. DriverInitialize(u, Driver(p), FALSE) = v
  BY DEF DriverInitialize
<1> HIDE DEF v
<1>7. RowDecoderInitialize(s, p, gates, FALSE) = t
  BY <1>3, <1>5, <1>6 DEF RowDecoderInitialize
<1>8. /\ IsState(P, t) /\ t.made = v.made /\ t.bad = v.bad \cup {p}
      /\ t.complaints = v.complaints
      /\ \A q \in P, f \in Fields : Fig(t, q, f) = Fig(v, q, f)
  BY <1>1, <1>5, InvalidateGives
<1> HIDE DEF t
<1>9. t.bad = s.bad \cup {p, Driver(p)}
  BY <1>4, <1>5, <1>8
<1> QED
  BY <1>4, <1>5, <1>7, <1>8, <1>9 DEF Refuses

-----------------------------------------------------------------------------
(* The multiplexer.                                                         *)

(* A part that is given its gates, if it has any, and initialized once.     *)
GivenGates(P, s, t, p, gates) ==
  /\ Initializes(P, s, t, {p})
  /\ \A q \in P, f \in Fields :
       Fig(t, q, f) = IF q = p /\ f = "gates" THEN gates ELSE Fig(s, q, f)

LEMMA GatedGives ==
  ASSUME NEW P, NEW s, IsState(P, s), NEW p \in P, p \notin s.made, NEW gates
  PROVE  GivenGates(P, s, Made(Put(s, p, [gates |-> gates]), p), p, gates)
<1> DEFINE u == Put(s, p, All({"gates"}, gates))
           t == Made(u, p)
<1>1. Sets(P, s, u, p, {"gates"}, gates)
  BY Names, PutAll
<1>2. u = Put(s, p, [gates |-> gates])
  BY OneField
<1> HIDE DEF u
<1>3. IsState(P, u) /\ u.made = s.made /\ u.bad = s.bad /\ u.complaints = s.complaints
  BY <1>1 DEF Sets, Computes
<1>4. /\ IsState(P, t) /\ t.made = u.made \cup {p} /\ t.bad = u.bad
      /\ t.complaints = u.complaints
      /\ \A q \in P, f \in Fields : Fig(t, q, f) = Fig(u, q, f)
  BY <1>3, MadeGives
<1> HIDE DEF t
<1> QED
  BY <1>1, <1>2, <1>3, <1>4 DEF GivenGates, Initializes, Sets, t

LEMMA MuxInitializeGives ==
  ASSUME NEW P, NEW s, IsState(P, s), NEW p \in P, p \notin s.made, NEW selects \in BOOLEAN
  PROVE  GivenGates(P, s, MuxInitialize(s, p, selects), p, IF selects THEN {p} ELSE {})
BY GatedGives DEF MuxInitialize

LEMMA MuxAreaGives ==
  ASSUME NEW P, NEW s, IsState(P, s), NEW p \in P, p \in s.made
  PROVE  Sets(P, s, MuxArea(s, p), p, {"area"}, Fig(s, p, "gates"))
<1>1. MuxArea(s, p) = Put(s, p, All({"area"}, Fig(s, p, "gates")))
  BY OneField DEF MuxArea, When
<1> QED
  BY <1>1, Names, PutAll

LEMMA MuxRCGives ==
  ASSUME NEW P, NEW s, IsState(P, s), NEW p \in P, p \in s.made
  PROVE  LET t == MuxRC(s, p)
         IN  /\ Works(P, s, t, {p}, {"cap"})
             /\ Fig(s, p, "gates") # {} => Fig(t, p, "cap") = {}
<1>1. CASE Fig(s, p, "gates") = {}
  <2>1. MuxRC(s, p) = s
    BY <1>1 DEF MuxRC, When
  <2> QED
    BY <1>1, <2>1 DEF Works, Computes
<1>2. CASE Fig(s, p, "gates") # {}
  <2> DEFINE t == Put(s, p, All({"cap"}, {}))
  <2>1. MuxRC(s, p) = t
    BY <1>2, OneField DEF MuxRC, When
  <2>2. Sets(P, s, t, p, {"cap"}, {})
    BY Names, PutAll
  <2> HIDE DEF t
  <2> QED
    BY <2>1, <2>2, Names DEF Sets, Works
<1> QED
  BY <1>1, <1>2

LEMMA MuxLatencyGives ==
  ASSUME NEW P, NEW s, IsState(P, s), NEW p \in P, p \in s.made
  PROVE  Sets(P, s, MuxLatency(s, p), p, Latencies, Own(s, p))
BY Names, PutAll DEF MuxLatency, When

LEMMA MuxPowerGives ==
  ASSUME NEW P, NEW s, IsState(P, s), NEW p \in P, p \in s.made
  PROVE  SetsTwo(P, s, MuxPower(s, p), p, Energies, Own(s, p), {"leakage"}, {})
<1>1. MuxPower(s, p) = Put(s, p, All(Energies, Own(s, p)) ++ All({"leakage"}, {}))
  BY OneField DEF MuxPower, When
<1> QED
  BY <1>1, Names, PutTwo

-----------------------------------------------------------------------------
(* The precharger, and its driver.                                          *)

LEMMA PrechargerInitializeGives ==
  ASSUME NEW P, NEW s, NEW p, Undone(P, s, p)
  PROVE  LET t == PrechargerInitialize(s, p)
         IN  /\ Initializes(P, s, t, {p, Driver(p)})
             /\ \A q \in P, f \in Fields : Fig(t, q, f) = Fig(s, q, f)
<1> DEFINE u == Made(s, Driver(p))
           t == Made(u, p)
<1>1. IsState(P, s) /\ p \in P /\ Driver(p) \in P /\ Driver(p) # p
  BY DEF Undone
<1>2. /\ IsState(P, u) /\ u.made = s.made \cup {Driver(p)} /\ u.bad = s.bad
      /\ u.complaints = s.complaints
      /\ \A q \in P, f \in Fields : Fig(u, q, f) = Fig(s, q, f)
  BY <1>1, MadeGives DEF Undone
<1>3. PrechargerInitialize(s, p) = t
  BY DEF PrechargerInitialize, DriverInitialize
<1>4. p \notin u.made
  BY <1>1, <1>2 DEF Undone
<1> HIDE DEF u
<1>5. /\ IsState(P, t) /\ t.made = u.made \cup {p} /\ t.bad = u.bad
      /\ t.complaints = u.complaints
      /\ \A q \in P, f \in Fields : Fig(t, q, f) = Fig(u, q, f)
  BY <1>1, <1>2, <1>4, MadeGives
<1> HIDE DEF t
<1>6. t.made = s.made \cup {p, Driver(p)}
  BY <1>2, <1>5
<1> QED
  BY <1>2, <1>3, <1>5, <1>6 DEF Initializes

LEMMA PrechargerAreaGives ==
  ASSUME NEW P, NEW s, NEW p, Decodes(P, s, p)
  PROVE  LET t == PrechargerArea(s, p)
         IN  /\ Works(P, s, t, {p, Driver(p)}, {"area"})
             /\ Fig(t, p, "area") = {p, Driver(p)}
<1> DEFINE u == DriverArea(s, Driver(p))
           t == Put(u, p, All({"area"}, {p, Driver(p)}))
<1>1. /\ IsState(P, s) /\ p \in P /\ Driver(p) \in P /\ Driver(p) # p
      /\ p \in s.made /\ Driver(p) \in s.made /\ Driver(p) \notin s.bad
  BY DEF Decodes
<1>2. Sets(P, s, u, Driver(p), {"area"}, {Driver(p)})
  BY <1>1, DriverAreaGives
<1>3. PrechargerArea(s, p) = t
  BY <1>1, OneField DEF PrechargerArea, When
<1> HIDE DEF u
<1>4. Sets(P, u, t, p, {"area"}, {p, Driver(p)})
  BY <1>1, <1>2, Names, PutAll DEF Sets, Computes
<1> HIDE DEF t
<1>5. Works(P, s, t, {p, Driver(p)}, {"area"})
  BY <1>2, <1>4, SetsAgain
<1> QED
  BY <1>1, <1>3, <1>4, <1>5, Names DEF Sets

LEMMA PrechargerRCGives ==
  ASSUME NEW P, NEW s, NEW p, Decodes(P, s, p)
  PROVE  Sets(P, s, PrechargerRC(s, p), Driver(p), {"cap"}, {})
<1>1. PrechargerRC(s, p) = DriverRC(s, Driver(p))
  BY DEF PrechargerRC, Decodes, When
<1> QED
  BY <1>1, DriverRCGives DEF Decodes

(* With the capacitances of the driver known, and a step at its input.      *)
LEMMA PrechargerLatencyGives ==
  ASSUME NEW P, NEW s, NEW p, Decodes(P, s, p), Fig(s, Driver(p), "cap") = {}
  PROVE  LET t == PrechargerLatency(s, p, {})
         IN  /\ Works(P, s, t, {p, Driver(p)}, Latencies \cup {"refreshLatency", "ramp"})
             /\ \A f \in Latencies \cup {"refreshLatency"} : Fig(t, p, f) = {p}
<1> DEFINE u == DriverLatency(s, Driver(p), {})
           t == Put(u, p, All(Latencies \cup {"refreshLatency"}, {p}) ++ All({"ramp"}, {}))
<1>1. /\ IsState(P, s) /\ p \in P /\ Driver(p) \in P /\ Driver(p) # p
      /\ p \in s.made /\ Driver(p) \in s.made /\ Driver(p) \notin s.bad
  BY DEF Decodes
<1>2. SetsTwo(P, s, u, Driver(p), Latencies, {Driver(p)}, {"ramp"}, {Driver(p)} \ {Driver(p)})
  BY <1>1, DriverLatencyGives, {Driver(p)} = {Driver(p)} \cup Fig(s, Driver(p), "cap") \cup {}
<1>3. /\ "ramp" \in Fields /\ "ramp" \notin Latencies \cup {"refreshLatency"}
      /\ Latencies \cup {"refreshLatency"} \subseteq Fields /\ {"ramp"} \subseteq Fields
  BY DEF Latencies, Fields, Figure, Loose
<1>4. Fig(u, Driver(p), "ramp") = {}
  BY <1>1, <1>2, <1>3 DEF SetsTwo
<1>5. PrechargerLatency(s, p, {}) = t
  BY <1>1, <1>4, OneField, {p} \cup {} = {p}, {p} \ {p} = {} DEF PrechargerLatency, When
<1> HIDE DEF u
<1>6. SetsTwo(P, u, t, p, Latencies \cup {"refreshLatency"}, {p}, {"ramp"}, {})
  <2>1. IsState(P, u)
    BY <1>2 DEF SetsTwo, Computes
  <2> DEFINE F == Latencies \cup {"refreshLatency"}
  <2>2. F \subseteq Fields
    BY <1>3
  <2> HIDE DEF F
  <2> QED
    BY <1>1, <1>3, <2>1, <2>2, PutTwo DEF F
<1> HIDE DEF t
<1>7. Works(P, s, t, {p, Driver(p)}, Latencies \cup {"refreshLatency", "ramp"})
  BY <1>2, <1>6 DEF SetsTwo, Works, Computes
<1>8. \A f \in Latencies \cup {"refreshLatency"} : Fig(t, p, f) = {p}
  BY <1>1, <1>3, <1>6 DEF SetsTwo
<1> QED
  BY <1>5, <1>7, <1>8

LEMMA PrechargerPowerGives ==
  ASSUME NEW P, NEW s, NEW p, Decodes(P, s, p), Fig(s, Driver(p), "cap") = {}
  PROVE  LET t == PrechargerPower(s, p)
         IN  /\ Works(P, s, t, {p, Driver(p)},
                      Energies \cup {"refreshEnergy", "leakage"})
             /\ \A f \in {"readEnergy", "refreshEnergy", "leakage"} :
                  Fig(t, p, f) = {Driver(p), p}
             /\ Fig(t, p, "writeEnergy") = {}
<1> DEFINE u == DriverPower(s, Driver(p))
           F == {"readEnergy", "refreshEnergy"}
           new == All(F, {Driver(p), p}) ++ (All({"writeEnergy"}, {})
                                               ++ All({"leakage"}, {Driver(p), p}))
           t == Put(u, p, new)
<1>1. /\ IsState(P, s) /\ p \in P /\ Driver(p) \in P /\ Driver(p) # p
      /\ p \in s.made /\ Driver(p) \in s.made /\ Driver(p) \notin s.bad
  BY DEF Decodes
<1>2. SetsTwo(P, s, u, Driver(p), Energies, {Driver(p)}, {"leakage"}, {Driver(p)})
  <2>1. {Driver(p)} \cup Fig(s, Driver(p), "cap") = {Driver(p)}
    OBVIOUS
  <2> QED
    BY <1>1, <2>1, DriverPowerGives
<1>3. /\ F \subseteq Fields /\ {"writeEnergy"} \subseteq Fields /\ {"leakage"} \subseteq Fields
      /\ "leakage" \notin F \cup Energies /\ "writeEnergy" \notin F
      /\ "readEnergy" \in Energies /\ Energies \subseteq Fields
      /\ "leakage" # "writeEnergy"
  BY DEF Energies, Fields, Figure, Loose
<1>4. Fig(u, Driver(p), "readEnergy") = {Driver(p)} /\ Fig(u, Driver(p), "leakage") = {Driver(p)}
  BY <1>1, <1>2, <1>3 DEF SetsTwo
<1>5. {Driver(p)} \oplus {p} = {Driver(p), p}
  <2>1. {Driver(p)} \cap {p} = {} /\ {Driver(p)} \cup {p} = {Driver(p), p}
    BY <1>1
  <2> QED
    BY <2>1 DEF \oplus
<1>6. [writeEnergy |-> {}, leakage |-> {Driver(p), p}]
        = All({"writeEnergy"}, {}) ++ All({"leakage"}, {Driver(p), p})
  BY DEF All, ++
<1>7. PrechargerPower(s, p) = t
  <2> HIDE DEF u
  <2> QED
    BY <1>1, <1>4, <1>5, <1>6 DEF PrechargerPower, When, u
<1> HIDE DEF u
<1>8. SetsThree(P, u, t, p, F, {Driver(p), p}, {"writeEnergy"}, {},
                {"leakage"}, {Driver(p), p})
  BY <1>1, <1>2, <1>3, PutThree DEF SetsTwo, Computes
<1> HIDE DEF t
<1>9. Works(P, s, t, {p, Driver(p)}, Energies \cup {"refreshEnergy", "leakage"})
  BY <1>2, <1>8 DEF SetsTwo, SetsThree, Works, Computes, Energies
<1>10. /\ \A f \in {"readEnergy", "refreshEnergy", "leakage"} : Fig(t, p, f) = {Driver(p), p}
       /\ Fig(t, p, "writeEnergy") = {}
  BY <1>1, <1>3, <1>8 DEF SetsThree
<1> QED
  BY <1>7, <1>9, <1>10

-----------------------------------------------------------------------------
(* The sense amplifier.                                                     *)

LEMMA SenseAmpAreaGives ==
  ASSUME NEW P, NEW s, IsState(P, s), NEW p \in P, p \in s.made, p \notin s.bad
  PROVE  Sets(P, s, SenseAmpArea(s, p), p, {"area"}, {p})
<1>1. SenseAmpArea(s, p) = Put(s, p, All({"area"}, {p}))
  BY OneField DEF SenseAmpArea, Rated, When
<1> QED
  BY <1>1, Names, PutAll

LEMMA SenseAmpRCGives ==
  ASSUME NEW P, NEW s, IsState(P, s), NEW p \in P, p \in s.made, p \notin s.bad
  PROVE  Sets(P, s, SenseAmpRC(s, p), p, {"cap"}, {})
<1>1. SenseAmpRC(s, p) = Put(s, p, All({"cap"}, {}))
  BY OneField DEF SenseAmpRC, Rated, When
<1> QED
  BY <1>1, Names, PutAll

LEMMA SenseAmpLatencyGives ==
  ASSUME NEW P, NEW s, IsState(P, s), NEW p \in P, p \in s.made
  PROVE  SetsTwo(P, s, SenseAmpLatency(s, p), p, {"readLatency", "refreshLatency"},
                 {p} \cup Fig(s, p, "cap"), {"writeLatency"}, {})
<1>1. SenseAmpLatency(s, p) = Put(s, p, All({"readLatency", "refreshLatency"},
        {p} \cup Fig(s, p, "cap")) ++ All({"writeLatency"}, {}))
  BY OneField DEF SenseAmpLatency, When
<1>2. {"readLatency", "refreshLatency"} \subseteq Fields /\ {"writeLatency"} \subseteq Fields
  BY DEF Fields, Figure
<1> QED
  BY <1>1, <1>2, PutTwo

LEMMA SenseAmpPowerGives ==
  ASSUME NEW P, NEW s, IsState(P, s), NEW p \in P, p \in s.made, p \notin s.bad
  PROVE  SetsThree(P, s, SenseAmpPower(s, p), p, {"readEnergy", "refreshEnergy"},
                   {p} \cup Fig(s, p, "cap"), {"writeEnergy"}, {}, {"leakage"}, {p})
<1> DEFINE rest == [writeEnergy |-> {}, leakage |-> {p}]
           new  == All({"readEnergy", "refreshEnergy"}, {p} \cup Fig(s, p, "cap"))
<1>1. rest = All({"writeEnergy"}, {}) ++ All({"leakage"}, {p})
  BY DEF All, ++
<1>2. SenseAmpPower(s, p) = Put(s, p, new ++ rest)
  BY DEF SenseAmpPower, Rated, When
<1> HIDE DEF rest
<1>3. /\ {"readEnergy", "refreshEnergy"} \subseteq Fields
      /\ {"writeEnergy"} \subseteq Fields /\ {"leakage"} \subseteq Fields
  BY DEF Fields, Figure
<1> QED
  BY <1>1, <1>2, <1>3, PutThree

-----------------------------------------------------------------------------
(* The comparator.                                                          *)

LEMMA ComparatorAreaGives ==
  ASSUME NEW P, NEW s, IsState(P, s), NEW p \in P, p \in s.made
  PROVE  Sets(P, s, ComparatorArea(s, p), p, {"area"}, {p})
<1>1. ComparatorArea(s, p) = Put(s, p, All({"area"}, {p}))
  BY OneField DEF ComparatorArea, When
<1> QED
  BY <1>1, Names, PutAll

LEMMA ComparatorRCGives ==
  ASSUME NEW P, NEW s, IsState(P, s), NEW p \in P, p \in s.made
  PROVE  Sets(P, s, ComparatorRC(s, p), p, {"cap"}, {})
<1>1. ComparatorRC(s, p) = Put(s, p, All({"cap"}, {}))
  BY OneField DEF ComparatorRC, When
<1> QED
  BY <1>1, Names, PutAll

LEMMA ComparatorLatencyGives ==
  ASSUME NEW P, NEW s, IsState(P, s), NEW p \in P, p \in s.made,
         NEW ramp, NEW delay, delay = {p} \cup Fig(s, p, "cap") \cup ramp
  PROVE  SetsTwo(P, s, ComparatorLatency(s, p, ramp), p, Latencies, delay,
                 {"ramp"}, delay \ {p})
<1>1. ComparatorLatency(s, p, ramp)
        = Put(s, p, All(Latencies, delay) ++ All({"ramp"}, delay \ {p}))
  BY OneField DEF ComparatorLatency, When
<1> QED
  BY <1>1, Names, PutTwo

LEMMA ComparatorPowerGives ==
  ASSUME NEW P, NEW s, IsState(P, s), NEW p \in P, p \in s.made
  PROVE  SetsTwo(P, s, ComparatorPower(s, p), p, Energies, {p} \cup Fig(s, p, "cap"),
                 {"leakage"}, {p})
<1>1. ComparatorPower(s, p)
        = Put(s, p, All(Energies, {p} \cup Fig(s, p, "cap")) ++ All({"leakage"}, {p}))
  BY OneField DEF ComparatorPower, When
<1> QED
  BY <1>1, Names, PutTwo

-----------------------------------------------------------------------------
(* The TSVs.                                                                *)

LEMMA TsvInitializeGives ==
  ASSUME NEW P, NEW s, IsState(P, s), NEW p \in P
  PROVE  LET t == TsvInitialize(s, p)
         IN  /\ Initializes(P, s, t, {p})
             /\ \A q \in P, f \in Fields :
                  Fig(t, q, f) = IF q = p /\ f = "cap" THEN {} ELSE Fig(s, q, f)
<1> DEFINE u == Put(s, p, All({"cap"}, {}))
           t == [u EXCEPT !.made = @ \cup {p}]
<1>1. TsvInitialize(s, p) = t
  BY OneField DEF TsvInitialize
<1>2. Sets(P, s, u, p, {"cap"}, {})
  BY Names, PutAll
<1> HIDE DEF u
<1>3. /\ Initializes(P, u, t, {p})
      /\ \A q \in P, f \in Fields : Fig(t, q, f) = Fig(u, q, f)
  BY <1>2, ReadyGives DEF Sets, Computes
<1> HIDE DEF t
<1>4. Initializes(P, s, t, {p})
  BY <1>2, <1>3 DEF Sets, Computes, Initializes
<1> QED
  BY <1>1, <1>2, <1>3, <1>4 DEF Sets

LEMMA TsvAreaGives ==
  ASSUME NEW P, NEW s, IsState(P, s), NEW p \in P
  PROVE  SetsTwo(P, s, TsvArea(s, p), p, {"area"}, {p} \cup Fig(s, p, "cap"),
                 {"leakage"}, {})
<1> DEFINE x == {p} \cup Fig(s, p, "cap")
<1>1. [area |-> x, leakage |-> {}] = All({"area"}, x) ++ All({"leakage"}, {})
  BY DEF All, ++
<1>2. TsvArea(s, p) = Put(s, p, All({"area"}, x) ++ All({"leakage"}, {}))
  BY <1>1 DEF TsvArea
<1> HIDE DEF x
<1>3. SetsTwo(P, s, TsvArea(s, p), p, {"area"}, x, {"leakage"}, {})
  BY <1>2, Names, PutTwo
<1> QED
  BY <1>3 DEF x

(* The latencies of the TSVs, and their energies on top of what was there.  *)
Crosses(P, s, t, p) ==
  SetsThree(P, s, t, p,
            {"readLatency", "writeLatency", "resetLatency", "setLatency"},
            {p} \cup Fig(s, p, "cap"),
            {"readEnergy"}, Fig(s, p, "readEnergy") \oplus ({p} \cup Fig(s, p, "cap")),
            {"writeEnergy", "resetEnergy", "setEnergy"},
            Fig(s, p, "writeEnergy") \oplus ({p} \cup Fig(s, p, "cap")))

LEMMA TsvLatencyAndPowerGives ==
  ASSUME NEW P, NEW s, IsState(P, s), NEW p \in P
  PROVE  Crosses(P, s, TsvLatencyAndPower(s, p), p)
<1> DEFINE own == {p} \cup Fig(s, p, "cap")
           F == {"readLatency", "writeLatency", "resetLatency", "setLatency"}
           G == {"readEnergy"}
           H == {"writeEnergy", "resetEnergy", "setEnergy"}
           y == Fig(s, p, "readEnergy") \oplus own
           z == Fig(s, p, "writeEnergy") \oplus own
<1>1. [readEnergy |-> y] = All(G, y)
  BY DEF All
<1>2. F \subseteq Fields /\ G \subseteq Fields /\ H \subseteq Fields
  BY DEF Fields, Figure
<1>3. TsvLatencyAndPower(s, p) = Put(s, p, All(F, own) ++ (All(G, y) ++ All(H, z)))
  <2>1. TsvLatencyAndPower(s, p) = Put(s, p, (All(F, own) ++ [readEnergy |-> y]) ++ All(H, z))
    BY DEF TsvLatencyAndPower
  <2>2. (All(F, own) ++ All(G, y)) ++ All(H, z) = All(F, own) ++ (All(G, y) ++ All(H, z))
    BY DEF ++, All
  <2> QED
    BY <1>1, <2>1, <2>2
<1> HIDE DEF own, F, G, H, y, z
<1>4. SetsThree(P, s, TsvLatencyAndPower(s, p), p, F, own, G, y, H, z)
  BY <1>2, <1>3, PutThree
<1> QED
  BY <1>4 DEF own, F, G, H, y, z, Crosses
=============================================================================
