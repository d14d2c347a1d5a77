----------------------------- MODULE SearchSpace -----------------------------
(***************************************************************************)
(* The ranges a search runs over.  They live in one global InputParameter: *)
(* main() restores them and reads the configuration, every tag array       *)
(* reduces those of the data array and, after its walk, nvsim() restores   *)
(* them and reads the configuration again.  Ranges of the data array that  *)
(* a tag search left behind would be the search space of the data array,   *)
(* or of the next cell.                                                    *)
(***************************************************************************)
EXTENDS Integers, Sequences

CONSTANT Configs   \* configuration files: sequences of lines

VARIABLES
  config,          \* the file
  pos,             \* the line fscanf() is at
  pc,              \* "read", "cell", "tag", "reread", "data", "done", "exit"
  cell,            \* cells that were searched
  cellFiles,       \* size of fileMemCell
  numCellTypes,    \* fileMemCell.size() when main() asked for it
  target, associativity, mode,  \* designTarget, associativity, cacheAccessMode
  data,            \* ranges without `Tag' in their name
  tag,             \* ranges with it
  walked           \* history: what each array of each cell was searched over

vars == <<config, pos, pc, cell, cellFiles, numCellTypes, target, associativity,
          mode, data, tag, walked>>

MatDims      == {"NumRowMat", "NumColumnMat"}
ActiveDims   == {"NumActiveMatPerRow", "NumActiveMatPerColumn"}
SubarrayDims == {"NumRowSubarray", "NumColumnSubarray",
                 "NumActiveSubarrayPerRow", "NumActiveSubarrayPerColumn"}
MuxDims      == {"MuxSenseAmp", "MuxOutputLev1", "MuxOutputLev2"}
TypeDims     == {"LocalWireType", "GlobalWireType"}
RepeaterDims == {"LocalWireRepeaterType", "GlobalWireRepeaterType"}
SwingDims    == {"IsLocalWireLowSwing", "IsGlobalWireLowSwing"}
WireDims     == TypeDims \union RepeaterDims \union SwingDims
OrgDims      == MatDims \union ActiveDims \union SubarrayDims \union MuxDims
                  \union {"AreaOptimizationLevel"}
SharedDims   == {"NumRowPerSet", "StackLayer"}  \* of both arrays

Range(min, max) == [min |-> min, max |-> max]
Only(value)     == Range(value, value)

-----------------------------------------------------------------------------
(* The ranges RESTORE_SEARCH_SIZE sets; it leaves the dies alone.           *)
FullRange(d) ==
  CASE d \in MatDims \union ActiveDims  -> Range(1, 512)
    [] d \in SubarrayDims               -> Range(1, 2)
    [] d \in MuxDims                    -> Range(1, 256)
    [] d = "AreaOptimizationLevel"      -> Range(0, 2)
    [] d = "LocalWireType"              -> Range(0, 3)
    [] d = "GlobalWireType"             -> Range(2, 5)
    [] d \in RepeaterDims               -> Range(0, 7)
    [] d \in SwingDims                  -> Range(0, 1)

FullTagRange(d) ==
  IF d \in MatDims \union ActiveDims \union MuxDims THEN Range(1, 64)
  ELSE FullRange(d)

(* Slip: the dimensions of the bank keep the ranges of the tag search.      *)
RestoreButMats(ranges, ways) ==
  [d \in DOMAIN ranges |->
     CASE d \in MatDims \union {"StackLayer"} -> ranges[d]
       [] d = "NumRowPerSet"                  -> Range(1, ways)
       [] OTHER                               -> FullRange(d)]

Restore(ranges, ways) ==
  [d \in DOMAIN ranges |->
     CASE d = "StackLayer"   -> ranges[d]
       [] d = "NumRowPerSet" -> Range(1, ways)
       [] OTHER              -> FullRange(d)]

RestoreTag == [d \in OrgDims \union WireDims |-> FullTagRange(d)]

(* What REDUCE_SEARCH_SIZE leaves for the walk over tag arrays.             *)
ReducedRange(d) ==
  CASE d \in MatDims \union ActiveDims \union MuxDims -> Range(1, 64)
    [] d = "LocalWireType"                            -> Range(0, 1)
    [] d = "GlobalWireType"                           -> Range(4, 5)
    [] d \in RepeaterDims                             -> Range(0, 1)
    [] OTHER                                          -> FullRange(d)

(* Slip: the rows of a set are left as they are.                            *)
ReduceButRowsPerSet(ranges) ==
  [d \in DOMAIN ranges |->
     IF d \in SharedDims THEN ranges[d] ELSE ReducedRange(d)]

Reduce(ranges) ==
  [d \in DOMAIN ranges |->
     CASE d = "StackLayer"   -> ranges[d]
       [] d = "NumRowPerSet" -> Only(1)
       [] OTHER              -> ReducedRange(d)]

-----------------------------------------------------------------------------
(* Reading one line.  A line that forces dimensions of an array or a wire   *)
(* gives each its value; the die count is written to the data array's.      *)
IsLine(line) ==
  CASE line.option = "DesignTarget"    -> line.value \in {"cache", "RAM", "CAM"}
    [] line.option = "CacheAccessMode" -> line.value \in {"normal", "sequential", "fast"}
    [] line.option = "Associativity"   -> line.value \in Nat \ {0}
    [] line.option = "Force" ->
         /\ line.array \in {"data", "tag"}
         /\ \A d \in DOMAIN line.to :
              /\ line.to[d] \in Nat
              /\ d \in OrgDims \union WireDims \/ (d = "StackLayer" /\ line.array = "data")
    [] OTHER -> line.option \in {"MemoryCellInputFile", "UseCactiAssumption"}

(* A file does not name two different design targets.                       *)
OneTarget(c) ==
  \A i, j \in 1..Len(c) :
    c[i].option = "DesignTarget" /\ c[j].option = "DesignTarget" =>
      c[i].value = c[j].value

ASSUME ConfigAssumption ==
  \A c \in Configs : /\ Len(c) \in Nat /\ OneTarget(c)
                     /\ \A i \in 1..Len(c) : IsLine(c[i])

(* Slip: the upper end of a forced range stays.                             *)
ForcedFrom(ranges, to) ==
  [d \in DOMAIN ranges |->
     IF d \in DOMAIN to THEN Range(to[d], ranges[d].max) ELSE ranges[d]]

Forced(ranges, to) ==
  [d \in DOMAIN ranges |-> IF d \in DOMAIN to THEN Only(to[d]) ELSE ranges[d]]

(* -UseCactiAssumption: a row of mats and all subarrays are active.         *)
CactiDims == ActiveDims \union SubarrayDims
Cacti(columns) ==
  [d \in CactiDims |->
     CASE d = "NumActiveMatPerRow"    -> columns
       [] d = "NumActiveMatPerColumn" -> 1
       [] OTHER                       -> 2]

ForceData(line) ==
  /\ line.option = "Force" /\ line.array = "data"
  /\ data' = Forced(data, line.to)
  /\ UNCHANGED <<tag, target, associativity, mode, cellFiles>>

ForceTag(line) ==
  /\ line.option = "Force" /\ line.array = "tag"
  /\ tag' = Forced(tag, line.to)
  /\ UNCHANGED <<data, target, associativity, mode, cellFiles>>

UseCactiAssumption(line) ==
  /\ line.option = "UseCactiAssumption"
  /\ data' = Forced(data, Cacti(data["NumColumnMat"].max))
  /\ UNCHANGED <<tag, target, associativity, mode, cellFiles>>

DesignTarget(line) ==
  /\ line.option = "DesignTarget"
  /\ target' = line.value
  /\ data' = IF target' = "cache" THEN data
             ELSE [data EXCEPT !["NumRowPerSet"] = Only(1)]
  /\ UNCHANGED <<tag, associativity, mode, cellFiles>>

Associativity(line) ==
  /\ line.option = "Associativity" /\ associativity' = line.value
  /\ UNCHANGED <<data, tag, target, mode, cellFiles>>

CacheAccessMode(line) ==
  /\ line.option = "CacheAccessMode" /\ mode' = line.value
  /\ UNCHANGED <<data, tag, target, associativity, cellFiles>>

MemoryCellInputFile(line) ==
  /\ line.option = "MemoryCellInputFile" /\ cellFiles' = cellFiles + 1
  /\ UNCHANGED <<data, tag, target, associativity, mode>>

ReadLine ==
  /\ pc \in {"read", "reread"} /\ pos <= Len(config)
  /\ LET line == config[pos]
     IN  \/ ForceData(line) \/ ForceTag(line) \/ UseCactiAssumption(line)
         \/ DesignTarget(line) \/ Associativity(line) \/ CacheAccessMode(line)
         \/ MemoryCellInputFile(line)
  /\ pos' = pos + 1
  /\ UNCHANGED <<config, pc, cell, numCellTypes, walked>>

-----------------------------------------------------------------------------
(* Searching.                                                               *)

NotSearched == [space |-> <<>>, basic |-> <<>>, refine |-> <<>>]

Init ==
  /\ config \in Configs /\ pos = 1 /\ pc = "read" /\ cell = 0
  /\ cellFiles = 0 /\ numCellTypes = 0
  /\ target = "cache" /\ associativity = 1 /\ mode = "normal"
  /\ data = Restore([d \in OrgDims \union WireDims \union SharedDims |-> Range(1, 16)], 1)
  /\ tag = RestoreTag
  /\ walked = <<>>

(* The configuration is read for the first time.                            *)
EndRead ==
  /\ pc = "read" /\ pos > Len(config)
  /\ pc' = "cell" /\ numCellTypes' = cellFiles
  /\ UNCHANGED <<config, pos, cell, cellFiles, target, associativity, mode, data,
                 tag, walked>>

(* applyConstraint().                                                       *)
ApplyConstraint ==
  associativity' = IF target # "cache" THEN 1 ELSE associativity

StartCell ==
  /\ pc = "cell" /\ cell < numCellTypes /\ target # "CAM"
  /\ ApplyConstraint
  /\ walked' = Append(walked, [tag |-> NotSearched, data |-> NotSearched])
  /\ cell' = cell + 1
  /\ IF target = "cache"
     THEN pc' = "tag" /\ data' = Reduce(data)
     ELSE pc' = "data" /\ UNCHANGED data
  /\ UNCHANGED <<config, pos, cellFiles, numCellTypes, target, mode, tag>>

(* applyConstraint() ends the program on a CAM, a cell that is not          *)
(* supported (any may be) or an H-tree with external sensing.               *)
NotSupported ==
  /\ pc = "cell" /\ cell < numCellTypes
  /\ pc' = "exit"
  /\ UNCHANGED <<config, pos, cell, cellFiles, numCellTypes, target, associativity,
                 mode, data, tag, walked>>

(* Slip: the wire that is forced is only tried in the refinement.           *)
BasicDefault(d) == IF d = "GlobalWireType" THEN 4 ELSE 0

(* INITIAL_BASIC_WIRE, for both arrays from the ranges of the data array.   *)
Basic(d) ==
  IF data[d].min = data[d].max THEN data[d].min
  ELSE IF d = "GlobalWireType" THEN 4 ELSE 0

BasicWires == [d \in WireDims |-> Basic(d)]

(* The rows of a set are bounded by the associativity in the loop itself.   *)
RowsPerSet ==
  LET rows == data["NumRowPerSet"]
  IN  Range(rows.min, IF rows.max < associativity THEN rows.max ELSE associativity)

(* What BIGFOR_TAG or BIGFOR loops over.                                    *)
Space(ranges) ==
  [d \in OrgDims \union SharedDims |->
     CASE d = "NumRowPerSet" -> RowsPerSet
       [] d = "StackLayer"   -> data[d]
       [] OTHER              -> ranges[d]]

Search(ranges) ==
  [space |-> Space(ranges), basic |-> BasicWires,
   refine |-> [d \in WireDims |-> ranges[d]]]

(* A tag array is found: refine its wires with the tag's ranges, restore,   *)
(* read the configuration again.                                            *)
WalkTag ==
  /\ pc = "tag"
  /\ walked' = [walked EXCEPT ![cell].tag = Search(tag)]
  /\ data' = Restore(data, associativity) /\ tag' = RestoreTag
  /\ pc' = "reread" /\ pos' = 1
  /\ UNCHANGED <<config, cell, cellFiles, numCellTypes, target, associativity, mode>>

(* `No valid solutions for tags': nothing is restored.                      *)
NoTag ==
  /\ pc = "tag"
  /\ walked' = [walked EXCEPT ![cell].tag = [Search(tag) EXCEPT !.refine = <<>>]]
  /\ pc' = "cell"
  /\ UNCHANGED <<config, pos, cell, cellFiles, numCellTypes, target, associativity,
                 mode, data, tag>>

EndReread ==
  /\ pc = "reread" /\ pos > Len(config)
  /\ ApplyConstraint
  /\ data' = IF mode = "normal" THEN [data EXCEPT !["NumRowPerSet"] = Only(1)]
             ELSE data
  /\ pc' = "data"
  /\ UNCHANGED <<config, pos, cell, cellFiles, numCellTypes, target, mode, tag, walked>>

WalkData ==
  /\ pc = "data"
  /\ walked' = [walked EXCEPT ![cell].data = Search(data)]
  /\ pc' = "cell"
  /\ UNCHANGED <<config, pos, cell, cellFiles, numCellTypes, target, associativity,
                 mode, data, tag>>

Finish ==
  /\ pc = "cell" /\ cell = numCellTypes
  /\ pc' = "done"
  /\ UNCHANGED <<config, pos, cell, cellFiles, numCellTypes, target, associativity,
                 mode, data, tag, walked>>

Ended == pc \in {"done", "exit"} /\ UNCHANGED vars

Next ==
  \/ ReadLine \/ EndRead \/ StartCell \/ NotSupported \/ WalkTag \/ NoTag
  \/ EndReread \/ WalkData \/ Finish \/ Ended

Spec == Init /\ [][Next]_vars

-----------------------------------------------------------------------------
(* Properties.                                                              *)

(* What the file asks for, read as a whole.  Lines that set a dimension of  *)
(* an array, lines that name an option, and the last of some lines.         *)
SetsIn(array, d) ==
  {i \in 1..Len(config) :
     \/ /\ config[i].option = "Force" /\ config[i].array = array
        /\ d \in DOMAIN config[i].to
     \/ config[i].option = "UseCactiAssumption" /\ array = "data" /\ d \in CactiDims}

Naming(option)   == {i \in 1..Len(config) : config[i].option = option}
Before(lines, n) == {i \in lines : i < n}
LastOf(lines)    == CHOOSE i \in lines : \A j \in lines : j <= i

ColumnsBefore(n) ==
  LET lines == Before(SetsIn("data", "NumColumnMat"), n)
  IN  IF lines = {} THEN FullRange("NumColumnMat").max
      ELSE config[LastOf(lines)].to["NumColumnMat"]

(* What line i sets a dimension to.                                         *)
SetTo(d, i) ==
  IF config[i].option = "UseCactiAssumption" /\ d \in CactiDims
  THEN Cacti(ColumnsBefore(i))[d] ELSE config[i].to[d]

(* A dimension and an option after the lines in front of line n.            *)
RangeBefore(array, d, full, n) ==
  LET lines == Before(SetsIn(array, d), n)
  IN  IF lines = {} THEN full ELSE Only(SetTo(d, LastOf(lines)))

ValueBefore(option, default, n) ==
  LET lines == Before(Naming(option), n)
  IN  IF lines = {} THEN default ELSE config[LastOf(lines)].value

Configured(array, d, full) == RangeBefore(array, d, full, Len(config) + 1)
Setting(option, default)   == ValueBefore(option, default, Len(config) + 1)

Searches(array) ==
  {walked[c][array] : c \in {x \in 1..Len(walked) : walked[x][array] # NotSearched}}

(* Every cell is searched over the same organisations and starts from the   *)
(* same wires, whatever the cells before it found: only then is the merge   *)
(* in main() a comparison of cells (main.cpp:207-273).                      *)
SameForEveryCell ==
  \A array \in {"data", "tag"} : \A s, t \in Searches(array) :
    s.space = t.space /\ s.basic = t.basic

(* The data array is searched over what the file says, read once into fresh *)
(* ranges ("just for restoring the search space", main.cpp:428).            *)
DataAsConfigured ==
  \A s \in Searches("data") :
    /\ \A d \in OrgDims : s.space[d] = Configured("data", d, FullRange(d))
    /\ \A d \in WireDims : s.refine[d] = Configured("data", d, FullRange(d))
    /\ s.space["StackLayer"] = Configured("data", "StackLayer", Range(1, 16))
    /\ s.space["NumRowPerSet"] =
         IF Setting("DesignTarget", "cache") = "cache"
            /\ Setting("CacheAccessMode", "normal") # "normal"
         THEN Range(1, Setting("Associativity", 1)) ELSE Only(1)

(* So is the tag array, with one row per set, and its wires are refined     *)
(* over the ranges of the tag (REFINE_TAG_LOCAL_WIRE_FORLOOP, BIGFOR_TAG).  *)
TagAsConfigured ==
  \A s \in Searches("tag") :
    /\ \A d \in OrgDims : s.space[d] = Configured("tag", d, FullTagRange(d))
    /\ \A d \in DOMAIN s.refine : s.refine[d] = Configured("tag", d, FullTagRange(d))
    /\ s.space["NumRowPerSet"] = Only(1)

(* The wires a data array is walked with are within the ranges the file     *)
(* asks for, so a winner that no refinement improves has them, too          *)
(* (INITIAL_BASIC_WIRE in front of BIGFOR, main.cpp:462).                   *)
BasicWiresInRange ==
  \A s \in Searches("data") : \A d \in WireDims :
    s.basic[d] \in s.refine[d].min..s.refine[d].max
=============================================================================
