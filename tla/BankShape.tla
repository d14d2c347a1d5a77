------------------------------ MODULE BankShape ------------------------------
(***************************************************************************)
(* From a configuration and an organisation to the subarrays of a bank:    *)
(* the part of nvsim() that derives the size of the tag or data array,     *)
(* Mat::Initialize() and the legality rules of SubArray::Initialize().     *)
(* Lengths and currents are not modelled: what they decide, how long a     *)
(* bitline and a wordline may be, is a constant for each kind of cell.     *)
(***************************************************************************)
EXTENDS Integers

CONSTANTS
  Requests,       \* the calls of Bank::Initialize() to consider
  AddressBits,    \* TOTAL_ADDRESS_BIT
  LongestBitline, \* rows the sensing and the drivers of a cell kind allow
  WidestWordline  \* columns they allow

CellKinds == {"SRAM", "eDRAM", "memristor", "FBRAM", "MRAM", "PCRAM"}
Arrays    == {"tag", "data"}
Modes     == {"normal", "sequential", "fast"}

(* What the configuration says of the memory; sizes are in bits.            *)
Memory ==
  [capacity: Nat, wordWidth: Nat, associativity: Nat, mode: Modes,
   cache: BOOLEAN, cell: CellKinds]

(* One point of the loop nest BIGFOR: stacked dies, mats and subarrays by   *)
(* row and column with those that are active in an access, multiplexers and *)
(* rows a set is spread over.  Each loop doubles a count of at least one.   *)
Counts == Nat \ {0}
Organisation ==
  [dies: Counts, rows: Counts, columns: Counts, activeRows: Counts,
   activeColumns: Counts, subRows: Counts, subColumns: Counts,
   activeSubRows: Counts, activeSubColumns: Counts, sense: Counts,
   lev1: Counts, lev2: Counts, rowPerSet: Counts]

Request == [memory: Memory, org: Organisation, array: Arrays]

ASSUME ShapeAssumption ==
  /\ Requests \subseteq Request
  /\ LongestBitline \in [CellKinds -> Nat] /\ WidestWordline \in [CellKinds -> Nat]

-----------------------------------------------------------------------------
(* (int)(log2(p / q) + 0.1): 0.933 is 2 to the power -0.1.                  *)
Log(p, q) ==
  IF 1000 * p >= 933 * q
  THEN CHOOSE k \in 0..30 : /\ 1000 * p >= 933 * q * 2^k
                            /\ 1000 * p < 933 * q * 2^(k + 1)
  ELSE -(CHOOSE k \in 0..30 : /\ 1000 * q > 1072 * p * 2^k
                              /\ 1000 * q <= 1072 * p * 2^(k + 1))

Log2(n) == Log(n, 1)

(* Mats times subarrays that work on one access.                            *)
Activated(o) == o.activeRows * o.activeColumns * o.activeSubRows * o.activeSubColumns

(* Tag bits of an address with the dirty and the valid bit, rounded up so   *)
(* that every active subarray gets the same share.                          *)
TagWidth(m) ==
  LET sets == m.capacity \div (m.wordWidth * m.associativity)
  IN  AddressBits - Log2(sets) - Log2(m.wordWidth \div 8) + 2

TagBlock(m, o) ==
  LET share == Activated(o)
  IN  IF TagWidth(m) % share = 0 THEN TagWidth(m)
      ELSE (TagWidth(m) \div share + 1) * share

(* The block and the ways nvsim() gives to the array, by access mode.       *)
BlockSize(r) ==
  IF r.array = "tag" THEN TagBlock(r.memory, r.org)
  ELSE IF r.memory.cache /\ r.memory.mode = "fast"
  THEN r.memory.wordWidth * r.memory.associativity
  ELSE r.memory.wordWidth

Ways(r) ==
  IF r.array = "tag" \/ ~r.memory.cache \/ r.memory.mode = "normal"
  THEN r.memory.associativity ELSE 1

Capacity(r) ==
  IF r.array = "tag"
  THEN (r.memory.capacity \div r.memory.wordWidth) * BlockSize(r)
  ELSE r.memory.capacity

(* `To aggressive partitioning': the loop goes on to the next organisation. *)
TooAggressive(r) ==
  (IF r.array = "tag" THEN TagWidth(r.memory) ELSE BlockSize(r))
     \div Activated(r.org) = 0

(* Address bits of one die.                                                 *)
NumAddressBit(r) == Log(Capacity(r), BlockSize(r) * Ways(r) * r.org.dies)

-----------------------------------------------------------------------------
(* A data array that holds several ways in a row selects the way with more  *)
(* multiplexing; DRAM cannot multiplex before the sense amplifier.          *)
ExtraMux(kind, ways) ==
  LET half  == 2^(Log2(ways) \div 2)
      third == 2^(Log2(ways) \div 3)
  IN  IF ways <= 1 THEN [sense |-> 1, lev1 |-> 1, lev2 |-> 1]
      ELSE IF kind = "eDRAM"
      THEN [sense |-> 1, lev1 |-> ways \div half, lev2 |-> half]
      ELSE [sense |-> ways \div (third * third), lev1 |-> third, lev2 |-> third]

(* The rules of SubArray::Initialize(): a column holds part of every way,   *)
(* DRAM does not share sense amplifiers, the sense amplifiers of memristors *)
(* and FBRAM need the width of two bitlines, and wires are not too long.    *)
SubArrayInvalid(m, rows, columns, sense) ==
  \/ m.cache /\ m.mode # "sequential" /\ columns < m.associativity
  \/ m.cell = "eDRAM" /\ sense > 1
  \/ m.cell \in {"memristor", "FBRAM"} /\ sense < 2
  \/ rows > LongestBitline[m.cell]
  \/ columns > WidestWordline[m.cell]

Rejected == [invalid |-> TRUE, rows |-> 0, columns |-> 0, rowAddress |-> 0]

(* Slip: the ways of a set share the rows of one.                           *)
RowsOfOneWay(r, bits, ways, product) == 2^bits \div product

(* Rows and columns of a subarray that decodes `bits' address bits.         *)
MatRows(r, bits, ways, product) ==
  (2^bits * (IF r.array = "data" THEN ways ELSE 1)) \div product

MatColumns(r, dataBit, ways, product) ==
  (dataBit \div (r.org.activeSubRows * r.org.activeSubColumns)) * product
    * (IF r.array = "tag" THEN ways ELSE 1)

(* Mat::Initialize() with the address bits, data bits and ways of one mat.  *)
Mat(r, addressBit, dataBit, ways) ==
  LET o       == r.org
      extra   == IF r.array = "data" THEN ExtraMux(r.memory.cell, ways \div o.rowPerSet)
                 ELSE ExtraMux(r.memory.cell, 1)
      sense   == o.sense * extra.sense
      product == sense * (o.lev1 * extra.lev1) * (o.lev2 * extra.lev2)
      gating  == Log2((o.subRows * o.subColumns)
                        \div (o.activeSubRows * o.activeSubColumns))
      bits    == addressBit - gating
      rows    == MatRows(r, bits, ways, product)
      columns == MatColumns(r, dataBit, ways, product)
      rowAddress == bits - Log2(product)
  IN  IF \/ bits <= 0
         \/ rows = 0
         \/ columns = 0
         \/ SubArrayInvalid(r.memory, rows, columns, sense)
         \/ rowAddress < 0
      THEN Rejected
      ELSE [invalid |-> FALSE, rows |-> rows, columns |-> columns,
            rowAddress |-> rowAddress]

(* VERIFY_DATA_CAPACITY, VERIFY_TAG_CAPACITY.                               *)
HoldsCapacity(r, mat) ==
  LET o == r.org
  IN  mat.rows * mat.columns * o.rows * o.columns * o.subRows * o.subColumns
        * o.dies = Capacity(r)
-----------------------------------------------------------------------------
(* "it seems that it only supports power of 2 here" (BankWithHtree.cpp:152):*)
(* the organisations the program is made for have powers of two of          *)
(* everything, no more mats and subarrays active than there are, and as     *)
(* many of them as an int counts.                                           *)
PowersOfTwo == {2^k : k \in 0..30}

PowerOrganisation(o) ==
  /\ {o.rows, o.columns, o.activeRows, o.activeColumns, o.subRows, o.subColumns,
      o.activeSubRows, o.activeSubColumns} \subseteq PowersOfTwo
  /\ o.activeRows <= o.rows /\ o.activeColumns <= o.columns
  /\ o.activeSubRows <= o.subRows /\ o.activeSubColumns <= o.subColumns
  /\ o.rows * o.columns <= 2^30 /\ o.subRows * o.subColumns <= 2^30

(* Multiplexers, sets and the memory itself likewise; a memory holds at     *)
(* least one word, and an address is wide enough for its tag.               *)
PowerMultiplexing(o) == {o.sense, o.lev1, o.lev2, o.rowPerSet} \subseteq PowersOfTwo

PowerMemory(r) ==
  LET m == r.memory
  IN  /\ {m.capacity, m.wordWidth, m.associativity, r.org.dies} \subseteq PowersOfTwo
      /\ m.wordWidth <= m.capacity /\ m.associativity * r.org.dies <= 2^30
      /\ r.array = "tag" => TagWidth(m) \in Nat
=============================================================================
