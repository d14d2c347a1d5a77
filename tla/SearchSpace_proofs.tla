------------------------- MODULE SearchSpace_proofs -------------------------
(***************************************************************************)
(* Proof that every cell is searched over what the configuration file asks *)
(* for, for any number of cells and any file that names one design target: *)
(* its lines in any order, with dimensions forced any number of times.     *)
(***************************************************************************)
EXTENDS SearchSpace, WellFoundedInduction, TLAPS

Dims    == OrgDims \union WireDims
AllDims == Dims \union SharedDims

-----------------------------------------------------------------------------
(* The inductive invariant.                                                 *)

Reading   == {"read", "reread"}
Searching == {"cell", "tag", "data"}

FirstStack == Range(1, 16)
Stack      == Configured("data", "StackLayer", FirstStack)
Target     == Setting("DesignTarget", "cache")
Mode       == Setting("CacheAccessMode", "normal")
Ways       == Setting("Associativity", 1)

(* What a walk over tag arrays and one over data arrays comes to.           *)
BasicOf(d, range) ==
  IF range.min = range.max THEN range.min
  ELSE IF d = "GlobalWireType" THEN 4 ELSE 0

TagSearch ==
  [space |-> [d \in OrgDims \union SharedDims |->
                CASE d = "NumRowPerSet" -> Only(1)
                  [] d = "StackLayer"   -> Stack
                  [] OTHER              -> Configured("tag", d, FullTagRange(d))],
   basic |-> [d \in WireDims |-> BasicOf(d, ReducedRange(d))],
   refine |-> [d \in WireDims |-> Configured("tag", d, FullTagRange(d))]]

DataRows == IF Target = "cache" /\ Mode # "normal" THEN Range(1, Ways) ELSE Only(1)

DataSearch ==
  [space |-> [d \in OrgDims \union SharedDims |->
                CASE d = "NumRowPerSet" -> DataRows
                  [] d = "StackLayer"   -> Stack
                  [] OTHER              -> Configured("data", d, FullRange(d))],
   basic |-> [d \in WireDims |-> BasicOf(d, Configured("data", d, FullRange(d)))],
   refine |-> [d \in WireDims |-> Configured("data", d, FullRange(d))]]

TagWalks  == {NotSearched, TagSearch, [TagSearch EXCEPT !.refine = <<>>]}
DataWalks == {NotSearched, DataSearch}

Types ==
  /\ config \in Configs /\ pos \in 1..Len(config) + 1
  /\ pc \in Reading \union Searching \union {"done", "exit"}
  /\ data = [d \in AllDims |-> data[d]] /\ tag = [d \in Dims |-> tag[d]]
  /\ associativity \in Nat \ {0}

(* A value that no read restores starts the second read as the first left   *)
(* it.                                                                      *)
Options ==
  /\ target = IF pc = "read" THEN ValueBefore("DesignTarget", "cache", pos) ELSE Target
  /\ mode = IF pc = "read" THEN ValueBefore("CacheAccessMode", "normal", pos)
            ELSE IF pc = "reread" THEN ValueBefore("CacheAccessMode", Mode, pos)
            ELSE Mode
  /\ pc = "read" => associativity = ValueBefore("Associativity", 1, pos)
  /\ pc = "reread" => associativity = ValueBefore("Associativity", Ways, pos)
  /\ pc \in Searching /\ Target = "cache" => associativity = Ways

Dies ==
  data["StackLayer"] =
    IF pc = "read" THEN RangeBefore("data", "StackLayer", FirstStack, pos)
    ELSE IF pc = "reread" THEN RangeBefore("data", "StackLayer", Stack, pos)
    ELSE Stack

Rows ==
  /\ target # "cache" => data["NumRowPerSet"] = Only(1)
  /\ pc = "reread" => Target = "cache" /\ data["NumRowPerSet"] = Range(1, Ways)
  /\ pc = "tag" => Target = "cache" /\ data["NumRowPerSet"] = Only(1)
  /\ pc = "data" => data["NumRowPerSet"] = DataRows

Ranges ==
  \A d \in Dims :
    /\ pc \in Reading => data[d] = RangeBefore("data", d, FullRange(d), pos)
    /\ pc \in Reading => tag[d] = RangeBefore("tag", d, FullTagRange(d), pos)
    /\ pc \in Searching => tag[d] = Configured("tag", d, FullTagRange(d))
    /\ pc = "data" \/ (pc = "cell" /\ Target # "cache") =>
         data[d] = Configured("data", d, FullRange(d))
    /\ pc = "tag" => data[d] = ReducedRange(d)

Walked ==
  /\ walked \in Seq([tag : TagWalks, data : DataWalks])
  /\ cell = Len(walked)
  /\ pc \in {"tag", "reread", "data"} => cell > 0

SpaceInv == Types /\ Options /\ Dies /\ Rows /\ Ranges /\ Walked

-----------------------------------------------------------------------------
(* Dimensions are different names.                                          *)
LEMMA DimNames ==
  /\ "NumRowPerSet" \notin Dims /\ "StackLayer" \notin Dims
  /\ "NumRowPerSet" \notin OrgDims /\ "StackLayer" \notin OrgDims
  /\ "NumRowPerSet" \notin CactiDims /\ "StackLayer" \notin CactiDims
  /\ "NumColumnMat" \in Dims /\ "NumColumnMat" \notin CactiDims
  /\ SharedDims = {"NumRowPerSet", "StackLayer"}
  /\ CactiDims \subseteq OrgDims
  /\ \A d \in WireDims : d \notin CactiDims
BY DEF Dims, OrgDims, WireDims, MatDims, ActiveDims, SubarrayDims, MuxDims,
       TypeDims, RepeaterDims, SwingDims, SharedDims, CactiDims

(* What the assumption says of one line.                                    *)
LEMMA LineFacts ==
  ASSUME config \in Configs, NEW i \in 1..Len(config)
  PROVE  /\ config[i].option = "Associativity" => config[i].value \in Nat \ {0}
         /\ config[i].option = "Force" =>
              \A d \in DOMAIN config[i].to :
                /\ config[i].to[d] \in Nat
                /\ d \in Dims \/ (d = "StackLayer" /\ config[i].array = "data")
<1>1. IsLine(config[i])
  BY ConfigAssumption
<1> QED
  BY <1>1 DEF IsLine, Dims

(* There is a last of some lines.                                           *)
LEMMA LastExists ==
  ASSUME NEW n \in Nat, NEW lines \in SUBSET (0..n), lines # {}
  PROVE  LastOf(lines) \in lines /\ \A j \in lines : j <= LastOf(lines)
<1> DEFINE S == {k \in Nat : n - k \in lines}
<1>1. \A j \in lines : n - j \in S /\ j \in Nat
  OBVIOUS
<1>2. PICK k \in S : \A i \in S : k <= i
  <2>1. S \subseteq Nat /\ S # {}
    BY <1>1
  <2> HIDE DEF S
  <2>2. PICK k \in S : \A i \in S : ~ (<<i, k>> \in OpToRel(<, Nat))
    BY <2>1, NatLessThanWellFounded, WFMin
  <2>3. \A i \in S : ~ (i < k) /\ i \in Nat /\ k \in Nat
    BY <2>1, <2>2 DEF OpToRel
  <2> QED
    BY <2>3
<1>3. n - k \in lines /\ \A j \in lines : j <= n - k
  BY <1>1, <1>2
<1> QED
  BY <1>3 DEF LastOf

(* The last of the lines in front of the next one.                          *)
LEMMA LastBefore ==
  ASSUME NEW n \in Nat, NEW lines \in SUBSET Nat
  PROVE  /\ n \in lines => Before(lines, n + 1) # {} /\ LastOf(Before(lines, n + 1)) = n
         /\ n \notin lines => Before(lines, n + 1) = Before(lines, n)
<1>0. \A i \in lines : i \in Nat /\ (i < n + 1 <=> i < n \/ i = n)
  OBVIOUS
<1>1. CASE n \notin lines
  BY <1>0, <1>1 DEF Before
<1>2. CASE n \in lines
  <2> DEFINE S == Before(lines, n + 1)
  <2>1. n \in S /\ \A j \in S : j <= n /\ j \in Nat
    BY <1>0, <1>2 DEF Before
  <2> HIDE DEF S
  <2>2. LastOf(S) \in S /\ \A j \in S : j <= LastOf(S)
    BY <2>1 DEF LastOf
  <2>3. \A m \in S : (\A j \in S : j <= m) => m = n
    <3> SUFFICES ASSUME NEW m \in S, \A j \in S : j <= m
                 PROVE  m = n
      OBVIOUS
    <3>1. n <= m /\ m <= n /\ m \in Nat
      BY <2>1
    <3> QED
      BY <3>1
  <2>4. LastOf(S) = n
    BY <2>2, <2>3
  <2> QED
    BY <1>2, <2>1, <2>4 DEF S
<1> QED
  BY <1>1, <1>2

LEMMA ReadRange ==
  ASSUME config \in Configs, NEW n \in 1..Len(config), NEW array, NEW d, NEW full
  PROVE  RangeBefore(array, d, full, n + 1) =
           IF n \in SetsIn(array, d) THEN Only(SetTo(d, n))
           ELSE RangeBefore(array, d, full, n)
<1>1. SetsIn(array, d) \in SUBSET Nat
  BY DEF SetsIn
<1> QED
  BY <1>1, LastBefore DEF RangeBefore

LEMMA ReadValue ==
  ASSUME config \in Configs, NEW n \in 1..Len(config), NEW option, NEW default
  PROVE  ValueBefore(option, default, n + 1) =
           IF config[n].option = option THEN config[n].value
           ELSE ValueBefore(option, default, n)
<1>1. Naming(option) \in SUBSET Nat /\ (n \in Naming(option) <=> config[n].option = option)
  BY DEF Naming
<1> QED
  BY <1>1, LastBefore DEF ValueBefore

(* Before the first line, and after a second read.                          *)
LEMMA NothingRead ==
  /\ \A array, d, full : RangeBefore(array, d, full, 1) = full
  /\ \A option, default : ValueBefore(option, default, 1) = default
BY DEF RangeBefore, ValueBefore, Before, SetsIn, Naming

LEMMA ReadTwice ==
  /\ \A array, d, full :
       RangeBefore(array, d, Configured(array, d, full), Len(config) + 1)
         = Configured(array, d, full)
  /\ \A option, default :
       ValueBefore(option, Setting(option, default), Len(config) + 1)
         = Setting(option, default)
BY DEF RangeBefore, ValueBefore, Configured, Setting

(* The file does not change.                                                *)
LEMMA FileStays ==
  ASSUME config' = config
  PROVE  /\ \A array, d, full, n :
              RangeBefore(array, d, full, n)' = RangeBefore(array, d, full, n)
         /\ \A option, default, n :
              ValueBefore(option, default, n)' = ValueBefore(option, default, n)
         /\ Stack' = Stack /\ Target' = Target /\ Mode' = Mode /\ Ways' = Ways
         /\ DataRows' = DataRows
         /\ \A array, d, full : Configured(array, d, full)' = Configured(array, d, full)
         /\ TagWalks' = TagWalks /\ DataWalks' = DataWalks
<1>1. \A array, d : SetsIn(array, d)' = SetsIn(array, d)
  BY DEF SetsIn
<1>2. \A n : ColumnsBefore(n)' = ColumnsBefore(n)
  BY <1>1 DEF ColumnsBefore
<1>3. \A d, i : SetTo(d, i)' = SetTo(d, i)
  BY <1>2 DEF SetTo
<1>4. \A array, d, full, n :
        RangeBefore(array, d, full, n)' = RangeBefore(array, d, full, n)
  BY <1>1, <1>3 DEF RangeBefore
<1>5. \A option, default, n :
        ValueBefore(option, default, n)' = ValueBefore(option, default, n)
  BY DEF ValueBefore, Naming
<1>6. /\ \A array, d, full : Configured(array, d, full)' = Configured(array, d, full)
      /\ Stack' = Stack /\ Target' = Target /\ Mode' = Mode /\ Ways' = Ways
  BY <1>4, <1>5 DEF Configured, Stack, Setting, Target, Mode, Ways
<1>7. DataRows' = DataRows
  BY <1>6 DEF DataRows
<1>8. TagSearch' = TagSearch /\ DataSearch' = DataSearch
  BY <1>6, <1>7 DEF TagSearch, DataSearch
<1> QED
  BY <1>4, <1>5, <1>6, <1>7, <1>8 DEF TagWalks, DataWalks

-----------------------------------------------------------------------------
(* The initial state.                                                       *)
LEMMA InitSpace == Init => SpaceInv
<1> SUFFICES ASSUME Init PROVE SpaceInv
  OBVIOUS
<1> USE DEF Init
<1>1. Types
  <2>1. data = [d \in AllDims |-> data[d]] /\ tag = [d \in Dims |-> tag[d]]
    BY DEF Restore, RestoreTag, AllDims, Dims
  <2> QED
    BY <2>1, ConfigAssumption DEF Types, Reading
<1>2. Options
  BY NothingRead DEF Options, Searching
<1>3. \A d \in Dims : data[d] = FullRange(d) /\ tag[d] = FullTagRange(d)
  BY DimNames DEF Restore, RestoreTag, Dims
<1>4. data["StackLayer"] = FirstStack
  BY DimNames DEF Restore, FirstStack
<1>5. Dies
  BY <1>4, NothingRead DEF Dies
<1>6. Rows
  BY DEF Rows
<1>7. Ranges
  BY <1>3, NothingRead DEF Ranges, Searching
<1>8. Walked
  BY DEF Walked
<1> QED
  BY <1>1, <1>2, <1>5, <1>6, <1>7, <1>8 DEF SpaceInv

(* What one line does to the ranges.                                        *)
LEMMA ReadLineRanges ==
  ASSUME SpaceInv, ReadLine
  PROVE  /\ data' = [d \in AllDims |-> data'[d]] /\ tag' = [d \in Dims |-> tag'[d]]
         /\ \A d \in Dims \union {"StackLayer"} :
              data'[d] = IF pos \in SetsIn("data", d) THEN Only(SetTo(d, pos)) ELSE data[d]
         /\ \A d \in Dims :
              tag'[d] = IF pos \in SetsIn("tag", d) THEN Only(SetTo(d, pos)) ELSE tag[d]
         /\ data'["NumRowPerSet"] =
              IF config[pos].option = "DesignTarget" /\ config[pos].value # "cache"
              THEN Only(1) ELSE data["NumRowPerSet"]
<1> DEFINE line == config[pos]
<1>1. pos \in 1..Len(config) /\ pc \in Reading
  BY ConfigAssumption DEF SpaceInv, Types, ReadLine, Reading
<1>2. data = [d \in AllDims |-> data[d]] /\ tag = [d \in Dims |-> tag[d]]
  BY DEF SpaceInv, Types
<1>3. \A d : /\ pos \in SetsIn("data", d) <=>
                  \/ line.option = "Force" /\ line.array = "data" /\ d \in DOMAIN line.to
                  \/ line.option = "UseCactiAssumption" /\ d \in CactiDims
             /\ pos \in SetsIn("tag", d) <=>
                  line.option = "Force" /\ line.array = "tag" /\ d \in DOMAIN line.to
  BY <1>1 DEF SetsIn
<1>4. line.option = "Force" => "NumRowPerSet" \notin DOMAIN line.to
  BY <1>1, LineFacts, DimNames DEF SpaceInv, Types
<1>5. "NumRowPerSet" \in AllDims /\ "StackLayer" \in AllDims /\ Dims \subseteq AllDims
  BY DimNames DEF AllDims
<1>6. CASE ForceData(line)
  <2>1. data' = Forced(data, line.to) /\ tag' = tag
        /\ line.option = "Force" /\ line.array = "data"
    BY <1>6 DEF ForceData
  <2>2. \A d \in AllDims :
          data'[d] = IF d \in DOMAIN line.to THEN Only(line.to[d]) ELSE data[d]
    BY <1>2, <2>1 DEF Forced
  <2>3. \A d : SetTo(d, pos) = line.to[d]
    BY <2>1 DEF SetTo
  <2>4. data' = [d \in AllDims |-> data'[d]]
    BY <1>2, <2>1 DEF Forced
  <2> QED
    BY <1>2, <1>3, <1>4, <1>5, <2>1, <2>2, <2>3, <2>4
<1>7. CASE ForceTag(line)
  <2>1. tag' = Forced(tag, line.to) /\ data' = data
        /\ line.option = "Force" /\ line.array = "tag"
    BY <1>7 DEF ForceTag
  <2>2. \A d \in Dims :
          tag'[d] = IF d \in DOMAIN line.to THEN Only(line.to[d]) ELSE tag[d]
    BY <1>2, <2>1 DEF Forced
  <2>3. \A d : SetTo(d, pos) = line.to[d]
    BY <2>1 DEF SetTo
  <2>4. tag' = [d \in Dims |-> tag'[d]]
    BY <1>2, <2>1 DEF Forced
  <2> QED
    BY <1>2, <1>3, <1>4, <1>5, <2>1, <2>2, <2>3, <2>4
<1>8. CASE UseCactiAssumption(line)
  <2> DEFINE columns == data["NumColumnMat"].max
  <2>1. data' = Forced(data, Cacti(columns)) /\ tag' = tag
        /\ line.option = "UseCactiAssumption"
    BY <1>8 DEF UseCactiAssumption
  <2>2. columns = ColumnsBefore(pos)
    <3>1. data["NumColumnMat"] =
            RangeBefore("data", "NumColumnMat", FullRange("NumColumnMat"), pos)
      BY <1>1, DimNames DEF SpaceInv, Ranges
    <3>2. \A v : Only(v).max = v
      BY DEF Only, Range
    <3>3. \A i : SetTo("NumColumnMat", i) = config[i].to["NumColumnMat"]
      BY DimNames DEF SetTo
    <3> QED
      BY <3>1, <3>2, <3>3 DEF RangeBefore, ColumnsBefore
  <2>3. \A d \in AllDims :
          data'[d] = IF d \in CactiDims THEN Only(Cacti(columns)[d]) ELSE data[d]
    BY <1>2, <2>1 DEF Forced, Cacti
  <2>4. \A d \in CactiDims : SetTo(d, pos) = Cacti(columns)[d]
    BY <2>1, <2>2 DEF SetTo
  <2>5. data' = [d \in AllDims |-> data'[d]]
    BY <1>2, <2>1 DEF Forced
  <2> HIDE DEF columns
  <2> QED
    BY <1>2, <1>3, <1>5, <2>1, <2>3, <2>4, <2>5, DimNames
<1>9. CASE DesignTarget(line)
  <2>1. /\ line.option = "DesignTarget" /\ tag' = tag
        /\ data' = IF line.value = "cache" THEN data
                   ELSE [data EXCEPT !["NumRowPerSet"] = Only(1)]
    BY <1>9 DEF DesignTarget
  <2>2. \A d \in AllDims :
          data'[d] = IF d = "NumRowPerSet" /\ line.value # "cache" THEN Only(1) ELSE data[d]
    BY <1>2, <2>1
  <2>3. data' = [d \in AllDims |-> data'[d]]
    BY <1>2, <2>1
  <2> QED
    BY <1>2, <1>3, <1>5, <2>1, <2>2, <2>3, DimNames
<1>10. CASE Associativity(line) \/ CacheAccessMode(line) \/ MemoryCellInputFile(line)
  <2>1. /\ data' = data /\ tag' = tag
        /\ line.option \in {"Associativity", "CacheAccessMode", "MemoryCellInputFile"}
    BY <1>10 DEF Associativity, CacheAccessMode, MemoryCellInputFile
  <2> QED
    BY <1>2, <1>3, <2>1
<1> QED
  BY <1>6, <1>7, <1>8, <1>9, <1>10 DEF ReadLine

(* What one line does to the options.                                       *)
LEMMA ReadLineOptions ==
  ASSUME SpaceInv, ReadLine
  PROVE  /\ target' = IF config[pos].option = "DesignTarget" THEN config[pos].value ELSE target
         /\ mode' = IF config[pos].option = "CacheAccessMode" THEN config[pos].value ELSE mode
         /\ associativity' = IF config[pos].option = "Associativity" THEN config[pos].value
                             ELSE associativity
<1> DEFINE line == config[pos]
<1>1. CASE ForceData(line) \/ ForceTag(line)
  BY <1>1 DEF ForceData, ForceTag
<1>2. CASE UseCactiAssumption(line) \/ MemoryCellInputFile(line)
  BY <1>2 DEF UseCactiAssumption, MemoryCellInputFile
<1>3. CASE DesignTarget(line) \/ Associativity(line) \/ CacheAccessMode(line)
  BY <1>3 DEF DesignTarget, Associativity, CacheAccessMode
<1> QED
  BY <1>1, <1>2, <1>3 DEF ReadLine

(* A file names one design target: a second read does not change it.        *)
LEMMA TargetStays ==
  ASSUME config \in Configs, NEW i \in 1..Len(config), config[i].option = "DesignTarget"
  PROVE  Target = config[i].value
<1>1. \A j \in Naming("DesignTarget") : config[j].value = config[i].value
  BY ConfigAssumption DEF OneTarget, Naming
<1> DEFINE lines == Before(Naming("DesignTarget"), Len(config) + 1)
<1>2. i \in lines /\ lines \subseteq Naming("DesignTarget")
  BY ConfigAssumption DEF Before, Naming
<1>3. lines \in SUBSET (0..Len(config)) /\ Len(config) \in Nat
  BY ConfigAssumption DEF Before, Naming
<1>4. LastOf(lines) \in Naming("DesignTarget")
  BY <1>2, <1>3, LastExists
<1> QED
  BY <1>1, <1>2, <1>4 DEF Target, Setting, ValueBefore

(* A forced wire is a natural number.                                       *)
LEMMA ForcedWire ==
  ASSUME config \in Configs, NEW d \in WireDims
  PROVE  \/ Configured("data", d, FullRange(d)) = FullRange(d)
         \/ \E v \in Nat : Configured("data", d, FullRange(d)) = Only(v)
<1> DEFINE lines == Before(SetsIn("data", d), Len(config) + 1)
<1>1. CASE lines = {}
  BY <1>1 DEF Configured, RangeBefore
<1>2. CASE lines # {}
  <2>1. lines \in SUBSET (0..Len(config)) /\ Len(config) \in Nat
        /\ lines \subseteq SetsIn("data", d)
    BY ConfigAssumption DEF Before, SetsIn
  <2>2. LastOf(lines) \in SetsIn("data", d)
    BY <1>2, <2>1, LastExists
  <2>3. SetTo(d, LastOf(lines)) \in Nat
    BY <2>2, LineFacts, DimNames DEF SetsIn, SetTo
  <2> QED
    BY <1>2, <2>3 DEF Configured, RangeBefore
<1> QED
  BY <1>1, <1>2

-----------------------------------------------------------------------------
(* Reading a line.                                                          *)
LEMMA ReadLineSpace == SpaceInv /\ ReadLine => SpaceInv'
<1> SUFFICES ASSUME SpaceInv, ReadLine PROVE SpaceInv'
  OBVIOUS
<1> DEFINE line == config[pos]
<1>1. /\ config' = config /\ pc' = pc /\ pos' = pos + 1
      /\ walked' = walked /\ cell' = cell /\ pc \in Reading /\ pos <= Len(config)
  BY DEF ReadLine, Reading
<1>2. config \in Configs /\ pos \in 1..Len(config) /\ Len(config) \in Nat
  BY <1>1, ConfigAssumption DEF SpaceInv, Types
<1>3. \A array, d, full :
        RangeBefore(array, d, full, pos + 1) =
          IF pos \in SetsIn(array, d) THEN Only(SetTo(d, pos))
          ELSE RangeBefore(array, d, full, pos)
  BY <1>2, ReadRange
<1>4. \A option, default :
        ValueBefore(option, default, pos + 1) =
          IF line.option = option THEN line.value ELSE ValueBefore(option, default, pos)
  BY <1>2, ReadValue
<1>5. Types'
  <2>1. associativity' \in Nat \ {0}
    BY <1>2, ReadLineOptions, LineFacts DEF SpaceInv, Types
  <2> QED
    BY <1>1, <1>2, <2>1, ReadLineRanges DEF SpaceInv, Types
<1>6. Options'
  <2>1. target' = IF pc = "read" THEN ValueBefore("DesignTarget", "cache", pos + 1)
                  ELSE Target
    BY <1>2, <1>4, ReadLineOptions, TargetStays DEF SpaceInv, Options
  <2>2. mode' = IF pc = "read" THEN ValueBefore("CacheAccessMode", "normal", pos + 1)
                ELSE ValueBefore("CacheAccessMode", Mode, pos + 1)
    BY <1>1, <1>4, ReadLineOptions DEF SpaceInv, Options, Reading
  <2>3. /\ pc = "read" => associativity' = ValueBefore("Associativity", 1, pos + 1)
        /\ pc = "reread" => associativity' = ValueBefore("Associativity", Ways, pos + 1)
    BY <1>4, ReadLineOptions DEF SpaceInv, Options
  <2> QED
    BY <1>1, <2>1, <2>2, <2>3, FileStays DEF Options, Reading, Searching
<1>7. Dies'
  <2>1. data'["StackLayer"] =
          IF pc = "read" THEN RangeBefore("data", "StackLayer", FirstStack, pos + 1)
          ELSE RangeBefore("data", "StackLayer", Stack, pos + 1)
    BY <1>1, <1>3, ReadLineRanges DEF SpaceInv, Dies, Reading
  <2> QED
    BY <1>1, <2>1, FileStays DEF Dies, Reading, FirstStack
<1>8. Rows'
  <2>1. target' # "cache" => data'["NumRowPerSet"] = Only(1)
    BY ReadLineRanges, ReadLineOptions DEF SpaceInv, Rows
  <2>2. pc = "reread" => Target = "cache" /\ data'["NumRowPerSet"] = Range(1, Ways)
    BY <1>2, ReadLineRanges, TargetStays DEF SpaceInv, Rows
  <2> QED
    BY <1>1, <2>1, <2>2, FileStays DEF Rows, Reading
<1>9. Ranges'
  <2>1. ASSUME NEW d \in Dims
        PROVE  /\ data'[d] = RangeBefore("data", d, FullRange(d), pos + 1)
               /\ tag'[d] = RangeBefore("tag", d, FullTagRange(d), pos + 1)
    BY <1>1, <1>3, ReadLineRanges DEF SpaceInv, Ranges
  <2> QED
    BY <1>1, <2>1, FileStays DEF Ranges, Reading, Searching
<1>10. Walked'
  BY <1>1, FileStays DEF SpaceInv, Walked
<1> QED
  BY <1>5, <1>6, <1>7, <1>8, <1>9, <1>10 DEF SpaceInv

-----------------------------------------------------------------------------
(* The walks run over what the file asks for.                               *)
LEMMA DomainSubsets ==
  /\ \A d \in OrgDims : d \in Dims /\ d # "NumRowPerSet" /\ d # "StackLayer"
  /\ \A d \in WireDims : d \in Dims /\ d \in AllDims
  /\ "NumRowPerSet" \in AllDims /\ "StackLayer" \in AllDims
BY DimNames DEF Dims, AllDims

LEMMA TagSearchFound ==
  ASSUME SpaceInv, pc = "tag"
  PROVE  Search(tag) = TagSearch
<1>1. data["NumRowPerSet"] = Only(1) /\ associativity \in Nat \ {0}
  BY DEF SpaceInv, Rows, Types
<1>2. RowsPerSet = Only(1)
  BY <1>1 DEF RowsPerSet, Only, Range
<1>3. data["StackLayer"] = Stack
  BY DEF SpaceInv, Dies
<1>4. \A d \in Dims : /\ tag[d] = Configured("tag", d, FullTagRange(d))
                      /\ data[d] = ReducedRange(d)
  BY DEF SpaceInv, Ranges, Searching
<1>5. Space(tag) = TagSearch.space
  <2>1. \A d \in OrgDims \union SharedDims :
          \/ d = "NumRowPerSet" \/ d = "StackLayer"
          \/ /\ d # "NumRowPerSet" /\ d # "StackLayer"
             /\ tag[d] = Configured("tag", d, FullTagRange(d))
    BY <1>4, DimNames, DomainSubsets
  <2> QED
    BY <1>2, <1>3, <2>1 DEF Space, TagSearch
<1>6. BasicWires = TagSearch.basic
  BY <1>4, DomainSubsets DEF BasicWires, Basic, BasicOf, TagSearch
<1>7. [d \in WireDims |-> tag[d]] = TagSearch.refine
  BY <1>4, DomainSubsets DEF TagSearch
<1> QED
  BY <1>5, <1>6, <1>7 DEF Search, TagSearch

LEMMA DataSearchFound ==
  ASSUME SpaceInv, pc = "data"
  PROVE  Search(data) = DataSearch
<1>1. /\ data["NumRowPerSet"] = DataRows /\ associativity \in Nat \ {0}
      /\ Target = "cache" => associativity = Ways
  BY DEF SpaceInv, Rows, Types, Options, Searching
<1>2. RowsPerSet = DataRows
  BY <1>1 DEF RowsPerSet, DataRows, Only, Range
<1>3. data["StackLayer"] = Stack
  BY DEF SpaceInv, Dies
<1>4. \A d \in Dims : data[d] = Configured("data", d, FullRange(d))
  BY DEF SpaceInv, Ranges
<1>5. Space(data) = DataSearch.space
  <2>1. \A d \in OrgDims \union SharedDims :
          \/ d = "NumRowPerSet" \/ d = "StackLayer"
          \/ /\ d # "NumRowPerSet" /\ d # "StackLayer"
             /\ data[d] = Configured("data", d, FullRange(d))
    BY <1>4, DimNames, DomainSubsets
  <2> QED
    BY <1>2, <1>3, <2>1 DEF Space, DataSearch
<1>6. BasicWires = DataSearch.basic
  BY <1>4, DomainSubsets DEF BasicWires, Basic, BasicOf, DataSearch
<1>7. [d \in WireDims |-> data[d]] = DataSearch.refine
  BY <1>4, DomainSubsets DEF DataSearch
<1> QED
  BY <1>5, <1>6, <1>7 DEF Search, DataSearch

-----------------------------------------------------------------------------
(* The other actions.                                                       *)
LEMMA EndReadSpace == SpaceInv /\ EndRead => SpaceInv'
<1> SUFFICES ASSUME SpaceInv, EndRead PROVE SpaceInv'
  OBVIOUS
<1>1. /\ UNCHANGED <<config, pos, cell, target, associativity, mode, data, tag, walked>>
      /\ pc = "read" /\ pc' = "cell" /\ pos = Len(config) + 1
  BY ConfigAssumption DEF EndRead, SpaceInv, Types
<1>2. Types'
  BY <1>1 DEF SpaceInv, Types, Searching
<1>3. Options'
  BY <1>1, FileStays DEF SpaceInv, Options, Setting, Target, Mode, Ways
<1>4. Dies'
  BY <1>1, FileStays DEF SpaceInv, Dies, Stack, Configured
<1>5. Rows'
  BY <1>1, FileStays DEF SpaceInv, Rows
<1>6. Ranges'
  BY <1>1, FileStays DEF SpaceInv, Ranges, Reading, Searching, Configured
<1>7. Walked'
  BY <1>1, FileStays DEF SpaceInv, Walked
<1> QED
  BY <1>2, <1>3, <1>4, <1>5, <1>6, <1>7 DEF SpaceInv

LEMMA StartCellSpace == SpaceInv /\ StartCell => SpaceInv'
<1> SUFFICES ASSUME SpaceInv, StartCell PROVE SpaceInv'
  OBVIOUS
<1>1. /\ UNCHANGED <<config, pos, target, mode, tag>>
      /\ pc = "cell" /\ cell' = cell + 1
      /\ walked' = Append(walked, [tag |-> NotSearched, data |-> NotSearched])
      /\ associativity' = IF target # "cache" THEN 1 ELSE associativity
      /\ \/ target = "cache" /\ pc' = "tag" /\ data' = Reduce(data)
         \/ target # "cache" /\ pc' = "data" /\ data' = data
  BY DEF StartCell, ApplyConstraint
<1>2. target = Target
  BY <1>1 DEF SpaceInv, Options
<1>3. data = [d \in AllDims |-> data[d]]
  BY DEF SpaceInv, Types
<1>4. target = "cache" =>
        /\ data' = [d \in AllDims |-> data'[d]]
        /\ data'["StackLayer"] = data["StackLayer"] /\ data'["NumRowPerSet"] = Only(1)
        /\ \A d \in Dims : data'[d] = ReducedRange(d)
  <2> SUFFICES ASSUME target = "cache" PROVE
        /\ data' = [d \in AllDims |-> data'[d]]
        /\ data'["StackLayer"] = data["StackLayer"] /\ data'["NumRowPerSet"] = Only(1)
        /\ \A d \in Dims : data'[d] = ReducedRange(d)
    OBVIOUS
  <2>1. data' = [d \in AllDims |->
                   CASE d = "StackLayer"   -> data[d]
                     [] d = "NumRowPerSet" -> Only(1)
                     [] OTHER              -> ReducedRange(d)]
    BY <1>1, <1>3 DEF Reduce
  <2> QED
    BY <2>1, DimNames, DomainSubsets DEF AllDims
<1>5. Types'
  BY <1>1, <1>3, <1>4 DEF SpaceInv, Types, Searching
<1>6. Options'
  BY <1>1, <1>2, FileStays DEF SpaceInv, Options, Searching
<1>7. Dies'
  BY <1>1, <1>4, FileStays DEF SpaceInv, Dies
<1>8. Rows'
  BY <1>1, <1>2, <1>4, FileStays DEF SpaceInv, Rows, DataRows
<1>9. Ranges'
  BY <1>1, <1>2, <1>4, FileStays DEF SpaceInv, Ranges, Reading, Searching
<1>10. Walked'
  <2>1. /\ walked \in Seq([tag : TagWalks, data : DataWalks])
        /\ cell = Len(walked)
    BY DEF SpaceInv, Walked
  <2>2. [tag |-> NotSearched, data |-> NotSearched] \in [tag : TagWalks, data : DataWalks]
    BY DEF TagWalks, DataWalks
  <2> DEFINE R == [tag : TagWalks, data : DataWalks]
  <2>3. R' = R
    BY <1>1, FileStays
  <2> HIDE DEF R
  <2>4. walked' \in Seq(R) /\ Len(walked') = cell + 1 /\ cell + 1 > 0
    BY <1>1, <2>1, <2>2 DEF R
  <2>5. walked' \in Seq(R')
    BY <2>3, <2>4
  <2> QED
    BY <1>1, <2>4, <2>5 DEF Walked, R
<1> QED
  BY <1>5, <1>6, <1>7, <1>8, <1>9, <1>10 DEF SpaceInv

LEMMA NotSupportedSpace == SpaceInv /\ (NotSupported \/ Finish) => SpaceInv'
<1> SUFFICES ASSUME SpaceInv, NotSupported \/ Finish PROVE SpaceInv'
  OBVIOUS
<1>1. /\ UNCHANGED <<config, pos, cell, target, associativity, mode, data, tag, walked>>
      /\ pc = "cell" /\ pc' \in {"exit", "done"}
  BY DEF NotSupported, Finish
<1>2. Types'
  BY <1>1 DEF SpaceInv, Types
<1>3. Options'
  BY <1>1, FileStays DEF SpaceInv, Options, Searching
<1>4. Dies' /\ Rows'
  BY <1>1, FileStays DEF SpaceInv, Dies, Rows
<1>5. Ranges'
  BY <1>1, FileStays DEF SpaceInv, Ranges, Reading, Searching
<1>6. Walked'
  BY <1>1, FileStays DEF SpaceInv, Walked
<1> QED
  BY <1>2, <1>3, <1>4, <1>5, <1>6 DEF SpaceInv

LEMMA SeqElement ==
  ASSUME NEW R, NEW s \in Seq(R), NEW i \in 1..Len(s)
  PROVE  s[i] \in R
OBVIOUS

(* Entering what a walk came to.                                            *)
LEMMA EnterTag ==
  ASSUME Walked, cell > 0, NEW s \in TagWalks
  PROVE  /\ [walked EXCEPT ![cell].tag = s] \in Seq([tag : TagWalks, data : DataWalks])
         /\ Len([walked EXCEPT ![cell].tag = s]) = cell
<1> DEFINE R == [tag : TagWalks, data : DataWalks]
<1>1. walked \in Seq(R) /\ cell \in 1..Len(walked) /\ cell = Len(walked)
  BY DEF Walked
<1>2. walked[cell] \in R
  BY <1>1, SeqElement
<1>3. [walked[cell] EXCEPT !.tag = s] \in R
  BY <1>2
<1> HIDE DEF R
<1>4. [walked EXCEPT ![cell] = [walked[cell] EXCEPT !.tag = s]] \in Seq(R)
  BY <1>1, <1>3
<1>5. Len([walked EXCEPT ![cell] = [walked[cell] EXCEPT !.tag = s]]) = cell
  BY <1>1
<1> QED
  BY <1>4, <1>5 DEF R

LEMMA EnterData ==
  ASSUME Walked, cell > 0, NEW s \in DataWalks
  PROVE  /\ [walked EXCEPT ![cell].data = s] \in Seq([tag : TagWalks, data : DataWalks])
         /\ Len([walked EXCEPT ![cell].data = s]) = cell
<1> DEFINE R == [tag : TagWalks, data : DataWalks]
<1>1. walked \in Seq(R) /\ cell \in 1..Len(walked) /\ cell = Len(walked)
  BY DEF Walked
<1>2. walked[cell] \in R
  BY <1>1, SeqElement
<1>3. [walked[cell] EXCEPT !.data = s] \in R
  BY <1>2
<1> HIDE DEF R
<1>4. [walked EXCEPT ![cell] = [walked[cell] EXCEPT !.data = s]] \in Seq(R)
  BY <1>1, <1>3
<1>5. Len([walked EXCEPT ![cell] = [walked[cell] EXCEPT !.data = s]]) = cell
  BY <1>1
<1> QED
  BY <1>4, <1>5 DEF R

LEMMA NoTagSpace == SpaceInv /\ NoTag => SpaceInv'
<1> SUFFICES ASSUME SpaceInv, NoTag PROVE SpaceInv'
  OBVIOUS
<1>1. /\ UNCHANGED <<config, pos, cell, target, associativity, mode, data, tag>>
      /\ pc = "tag" /\ pc' = "cell"
      /\ walked' = [walked EXCEPT ![cell].tag = [Search(tag) EXCEPT !.refine = <<>>]]
  BY DEF NoTag
<1>2. Types'
  BY <1>1 DEF SpaceInv, Types, Searching
<1>3. Options'
  BY <1>1, FileStays DEF SpaceInv, Options, Searching
<1>4. Dies' /\ Rows'
  BY <1>1, FileStays DEF SpaceInv, Dies, Rows
<1>5. Ranges'
  BY <1>1, FileStays DEF SpaceInv, Ranges, Rows, Reading, Searching
<1>6. Walked'
  <2>1. [Search(tag) EXCEPT !.refine = <<>>] \in TagWalks
    BY <1>1, TagSearchFound DEF TagWalks
  <2>2. Walked /\ cell > 0
    BY <1>1 DEF SpaceInv, Walked
  <2> QED
    BY <1>1, <2>1, <2>2, EnterTag, FileStays DEF Walked
<1> QED
  BY <1>2, <1>3, <1>4, <1>5, <1>6 DEF SpaceInv

LEMMA WalkTagSpace == SpaceInv /\ WalkTag => SpaceInv'
<1> SUFFICES ASSUME SpaceInv, WalkTag PROVE SpaceInv'
  OBVIOUS
<1>1. /\ UNCHANGED <<config, cell, target, associativity, mode>>
      /\ pc = "tag" /\ pc' = "reread" /\ pos' = 1
      /\ data' = Restore(data, associativity) /\ tag' = RestoreTag
      /\ walked' = [walked EXCEPT ![cell].tag = Search(tag)]
  BY DEF WalkTag
<1>2. data = [d \in AllDims |-> data[d]] /\ config \in Configs
  BY DEF SpaceInv, Types
<1>3. Target = "cache" /\ associativity = Ways /\ target = Target /\ mode = Mode
  BY <1>1 DEF SpaceInv, Rows, Options, Searching
<1>4. data' = [d \in AllDims |->
                 CASE d = "StackLayer"   -> data[d]
                   [] d = "NumRowPerSet" -> Range(1, Ways)
                   [] OTHER              -> FullRange(d)]
  BY <1>1, <1>2, <1>3 DEF Restore
<1>5. /\ data' = [d \in AllDims |-> data'[d]]
      /\ data'["StackLayer"] = Stack /\ data'["NumRowPerSet"] = Range(1, Ways)
      /\ \A d \in Dims : data'[d] = FullRange(d)
  <2>1. data["StackLayer"] = Stack
    BY <1>1 DEF SpaceInv, Dies
  <2> QED
    BY <1>4, <2>1, DimNames, DomainSubsets DEF AllDims
<1>6. tag' = [d \in Dims |-> tag'[d]] /\ \A d \in Dims : tag'[d] = FullTagRange(d)
  BY <1>1 DEF RestoreTag, Dims
<1>7. Types'
  BY <1>1, <1>2, <1>5, <1>6, ConfigAssumption DEF SpaceInv, Types, Reading
<1>8. Options'
  BY <1>1, <1>3, NothingRead, FileStays DEF Options, Searching
<1>9. Dies' /\ Rows'
  BY <1>1, <1>3, <1>5, NothingRead, FileStays DEF Dies, Rows
<1>10. Ranges'
  BY <1>1, <1>5, <1>6, NothingRead, FileStays DEF Ranges, Searching
<1>11. Walked'
  <2>1. Search(tag) \in TagWalks
    BY <1>1, TagSearchFound DEF TagWalks
  <2>2. Walked /\ cell > 0
    BY <1>1 DEF SpaceInv, Walked
  <2> QED
    BY <1>1, <2>1, <2>2, EnterTag, FileStays DEF Walked
<1> QED
  BY <1>7, <1>8, <1>9, <1>10, <1>11 DEF SpaceInv

LEMMA EndRereadSpace == SpaceInv /\ EndReread => SpaceInv'
<1> SUFFICES ASSUME SpaceInv, EndReread PROVE SpaceInv'
  OBVIOUS
<1>1. /\ UNCHANGED <<config, pos, cell, target, mode, tag, walked>>
      /\ pc = "reread" /\ pc' = "data" /\ pos = Len(config) + 1
      /\ associativity' = IF target # "cache" THEN 1 ELSE associativity
      /\ data' = IF mode = "normal" THEN [data EXCEPT !["NumRowPerSet"] = Only(1)]
                 ELSE data
  BY ConfigAssumption DEF EndReread, ApplyConstraint, SpaceInv, Types
<1>2. data = [d \in AllDims |-> data[d]] /\ associativity \in Nat \ {0}
  BY DEF SpaceInv, Types
<1>3. /\ Target = "cache" /\ target = Target
      /\ associativity = ValueBefore("Associativity", Ways, pos)
      /\ mode = ValueBefore("CacheAccessMode", Mode, pos)
      /\ data["NumRowPerSet"] = Range(1, Ways)
      /\ data["StackLayer"] = RangeBefore("data", "StackLayer", Stack, pos)
  BY <1>1 DEF SpaceInv, Rows, Options, Dies
<1>4. /\ associativity' = Ways /\ mode = Mode /\ data["StackLayer"] = Stack
  BY <1>1, <1>3, ReadTwice DEF Ways, Mode, Stack
<1>5. /\ data' = [d \in AllDims |-> data'[d]]
      /\ data'["StackLayer"] = Stack /\ data'["NumRowPerSet"] = DataRows
      /\ \A d \in Dims : data'[d] = data[d]
  BY <1>1, <1>2, <1>3, <1>4, DimNames, DomainSubsets DEF DataRows
<1>6. \A d \in Dims : /\ data[d] = Configured("data", d, FullRange(d))
                      /\ tag[d] = Configured("tag", d, FullTagRange(d))
  BY <1>1 DEF SpaceInv, Ranges, Reading, Configured
<1>7. Types'
  BY <1>1, <1>2, <1>5 DEF SpaceInv, Types, Searching
<1>8. Options'
  BY <1>1, <1>3, <1>4, FileStays DEF Options
<1>9. Dies' /\ Rows'
  BY <1>1, <1>3, <1>5, FileStays DEF Dies, Rows
<1>10. Ranges'
  BY <1>1, <1>5, <1>6, FileStays DEF Ranges, Reading
<1>11. Walked'
  BY <1>1, FileStays DEF SpaceInv, Walked
<1> QED
  BY <1>7, <1>8, <1>9, <1>10, <1>11 DEF SpaceInv

LEMMA WalkDataSpace == SpaceInv /\ WalkData => SpaceInv'
<1> SUFFICES ASSUME SpaceInv, WalkData PROVE SpaceInv'
  OBVIOUS
<1>1. /\ UNCHANGED <<config, pos, cell, target, associativity, mode, data, tag>>
      /\ pc = "data" /\ pc' = "cell"
      /\ walked' = [walked EXCEPT ![cell].data = Search(data)]
  BY DEF WalkData
<1>2. Types'
  BY <1>1 DEF SpaceInv, Types, Searching
<1>3. Options'
  BY <1>1, FileStays DEF SpaceInv, Options, Searching
<1>4. Dies' /\ Rows'
  BY <1>1, FileStays DEF SpaceInv, Dies, Rows
<1>5. Ranges'
  BY <1>1, FileStays DEF SpaceInv, Ranges, Reading, Searching
<1>6. Walked'
  <2>1. Search(data) \in DataWalks
    BY <1>1, DataSearchFound DEF DataWalks
  <2>2. Walked /\ cell > 0
    BY <1>1 DEF SpaceInv, Walked
  <2> QED
    BY <1>1, <2>1, <2>2, EnterData, FileStays DEF Walked
<1> QED
  BY <1>2, <1>3, <1>4, <1>5, <1>6 DEF SpaceInv

LEMMA StutterSpace == SpaceInv /\ UNCHANGED vars => SpaceInv'
<1> SUFFICES ASSUME SpaceInv, UNCHANGED vars PROVE SpaceInv'
  OBVIOUS
<1>1. UNCHANGED <<config, pos, pc, cell, target, associativity, mode, data, tag, walked>>
  BY DEF vars
<1>2. Types' /\ Walked'
  BY <1>1, FileStays DEF SpaceInv, Types, Walked
<1>3. Options' /\ Dies' /\ Rows'
  BY <1>1, FileStays DEF SpaceInv, Options, Dies, Rows
<1>4. Ranges'
  BY <1>1, FileStays DEF SpaceInv, Ranges
<1> QED
  BY <1>2, <1>3, <1>4 DEF SpaceInv

LEMMA NextSpace == SpaceInv /\ [Next]_vars => SpaceInv'
BY ReadLineSpace, EndReadSpace, StartCellSpace, NotSupportedSpace, WalkTagSpace,
   NoTagSpace, EndRereadSpace, WalkDataSpace, StutterSpace DEF Next, Ended

(* The invariant holds of every run over every configuration file: ranges   *)
(* and options are those of the lines read so far, or of the whole file,    *)
(* and every walk that was made ran over what the whole file asks for.      *)
THEOREM SpaceInvariance == Spec => []SpaceInv
BY InitSpace, NextSpace, PTL DEF Spec

-----------------------------------------------------------------------------
(* The properties.                                                          *)
LEMMA WalksMade ==
  ASSUME SpaceInv
  PROVE  /\ \A s \in Searches("data") : s = DataSearch
         /\ \A s \in Searches("tag") :
              s = TagSearch \/ s = [TagSearch EXCEPT !.refine = <<>>]
<1>1. \A c \in 1..Len(walked) : walked[c] \in [tag : TagWalks, data : DataWalks]
  BY SeqElement DEF SpaceInv, Walked
<1> QED
  BY <1>1 DEF Searches, TagWalks, DataWalks

LEMMA InvSameForEveryCell == SpaceInv => SameForEveryCell
<1> SUFFICES ASSUME SpaceInv PROVE SameForEveryCell
  OBVIOUS
<1> DEFINE T == TagSearch
<1>1. /\ [T EXCEPT !.refine = <<>>].space = T.space
      /\ [T EXCEPT !.refine = <<>>].basic = T.basic
  BY DEF TagSearch
<1>2. \A s \in Searches("tag") : s.space = T.space /\ s.basic = T.basic
  BY <1>1, WalksMade
<1>3. \A s, t \in Searches("data") : s = t
  BY WalksMade
<1> QED
  BY <1>2, <1>3 DEF SameForEveryCell

LEMMA InvDataAsConfigured == SpaceInv => DataAsConfigured
<1> SUFFICES ASSUME SpaceInv PROVE DataAsConfigured
  OBVIOUS
<1>1. /\ \A d \in OrgDims : DataSearch.space[d] = Configured("data", d, FullRange(d))
      /\ \A d \in WireDims : DataSearch.refine[d] = Configured("data", d, FullRange(d))
      /\ DataSearch.space["StackLayer"] = Stack
      /\ DataSearch.space["NumRowPerSet"] = DataRows
  BY DimNames, DomainSubsets DEF DataSearch
<1> QED
  BY <1>1, WalksMade
     DEF DataAsConfigured, Stack, FirstStack, DataRows, Target, Mode, Ways

LEMMA InvTagAsConfigured == SpaceInv => TagAsConfigured
<1> SUFFICES ASSUME SpaceInv PROVE TagAsConfigured
  OBVIOUS
<1> DEFINE T == TagSearch
<1>1. /\ \A d \in OrgDims : T.space[d] = Configured("tag", d, FullTagRange(d))
      /\ \A d \in DOMAIN T.refine : T.refine[d] = Configured("tag", d, FullTagRange(d))
      /\ T.space["NumRowPerSet"] = Only(1)
  BY DimNames, DomainSubsets DEF TagSearch
<1>2. /\ [T EXCEPT !.refine = <<>>].space = T.space
      /\ [T EXCEPT !.refine = <<>>].refine = <<>>
  BY DEF TagSearch
<1>3. DOMAIN <<>> = {}
  OBVIOUS
<1> QED
  BY <1>1, <1>2, <1>3, WalksMade DEF TagAsConfigured

LEMMA InvBasicWiresInRange == SpaceInv => BasicWiresInRange
<1> SUFFICES ASSUME SpaceInv, NEW d \in WireDims
             PROVE  DataSearch.basic[d] \in
                      DataSearch.refine[d].min..DataSearch.refine[d].max
  BY WalksMade DEF BasicWiresInRange
<1> DEFINE range == Configured("data", d, FullRange(d))
<1>1. DataSearch.basic[d] = BasicOf(d, range) /\ DataSearch.refine[d] = range
  BY DEF DataSearch
<1>2. CASE range = FullRange(d)
  BY <1>1, <1>2
     DEF BasicOf, FullRange, Range, WireDims, TypeDims, RepeaterDims, SwingDims,
         MatDims, ActiveDims, SubarrayDims, MuxDims
<1>3. ASSUME NEW v \in Nat, range = Only(v)
      PROVE  BasicOf(d, range) \in range.min..range.max
  BY <1>3 DEF BasicOf, Only, Range
<1> QED
  BY <1>1, <1>2, <1>3, ForcedWire DEF SpaceInv, Types

(* Whatever the cells before it found, a cell is searched over the same     *)
(* organisations and from the same wires (SameForEveryCell).                *)
THEOREM SpaceSameForEveryCell == Spec => []SameForEveryCell
BY SpaceInvariance, InvSameForEveryCell, PTL

(* Data arrays are searched over what the file asks for (DataAsConfigured). *)
THEOREM SpaceDataAsConfigured == Spec => []DataAsConfigured
BY SpaceInvariance, InvDataAsConfigured, PTL

(* Tag arrays are searched over what the file asks for (TagAsConfigured).   *)
THEOREM SpaceTagAsConfigured == Spec => []TagAsConfigured
BY SpaceInvariance, InvTagAsConfigured, PTL

(* The basic wires of a data array are wires that the file allows           *)
(* (BasicWiresInRange).                                                     *)
THEOREM SpaceBasicWires == Spec => []BasicWiresInRange
BY SpaceInvariance, InvBasicWiresInRange, PTL
=============================================================================
