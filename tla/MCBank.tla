------------------------------- MODULE MCBank -------------------------------
(***************************************************************************)
(* Instances of HtreeRouting for TLC: small memories, and organisations    *)
(* that vary the mats and their activation or the subarrays and the        *)
(* multiplexers.                                                           *)
(***************************************************************************)
EXTENDS HtreeRouting

Mem(capacity, ways, mode, kind) ==
  [capacity |-> capacity, wordWidth |-> 8, associativity |-> ways,
   mode |-> mode, cache |-> ways > 1 \/ mode # "normal", cell |-> kind]

Memories ==
  {Mem(c, w, m, k) : c \in {512, 2048}, w \in {1, 2, 4}, m \in Modes,
                     k \in {"SRAM", "eDRAM"}}
    \union {Mem(2048, w, "normal", "memristor") : w \in {1, 2, 4}}

Powers == {1, 2, 4}

(* Mats and their activation.                                               *)
MatOrgs ==
  {[dies |-> d, rows |-> r, columns |-> c, activeRows |-> ar,
    activeColumns |-> ac, subRows |-> 1, subColumns |-> 2, activeSubRows |-> 1,
    activeSubColumns |-> 1, sense |-> 1, lev1 |-> 1, lev2 |-> 1, rowPerSet |-> 1] :
     d \in {1, 2}, r \in Powers \union {8}, c \in Powers \union {8},
     ar \in Powers, ac \in Powers}

(* Subarrays, multiplexers and rows per set.                                *)
SubArrayOrgs ==
  {[dies |-> 1, rows |-> 2, columns |-> c, activeRows |-> 1,
    activeColumns |-> ac, subRows |-> sr, subColumns |-> sc,
    activeSubRows |-> asr, activeSubColumns |-> asc, sense |-> s, lev1 |-> 2,
    lev2 |-> l2, rowPerSet |-> p] :
     c \in {1, 2}, ac \in {1, 2}, sr \in {1, 2}, sc \in {1, 2}, asr \in {1, 2},
     asc \in {1, 2}, s \in {1, 2}, l2 \in {1, 4}, p \in {1, 2}}

(* What the bounds of the loops allow.                                      *)
Enumerated(o) ==
  /\ o.activeRows <= o.rows /\ o.activeColumns <= o.columns
  /\ o.activeSubRows <= o.subRows /\ o.activeSubColumns <= o.subColumns

AllRequests ==
  {[memory |-> m, org |-> o, array |-> a] :
     m \in Memories, o \in {x \in MatOrgs \union SubArrayOrgs : Enumerated(x)},
     a \in Arrays}

Searched(r) ==
  /\ r.array = "tag" => r.memory.cache
  /\ r.org.rowPerSet > 1 =>
       r.array = "data" /\ r.memory.cache /\ r.memory.mode # "normal"
  /\ r.org.rowPerSet <= r.memory.associativity

MCRequests == {r \in AllRequests : Searched(r)}

(* They satisfy the hypothesis of the theorems about every size.            *)
ASSUME PowersAssumption == PowerMemories

MCLongest == [k \in CellKinds |-> IF k = "eDRAM" THEN 32 ELSE 1000]
MCWidest  == [k \in CellKinds |-> IF k = "memristor" THEN 64 ELSE 1000]
=============================================================================
