---------------------------- MODULE MCSearchSpace ----------------------------
(***************************************************************************)
(* Configuration files for SearchSpace: a memory with two cells, and up to *)
(* two lines that force dimensions, in front of the rest or behind it.     *)
(***************************************************************************)
EXTENDS SearchSpace

Force(array, to) == [option |-> "Force", array |-> array, to |-> to]
Value(option, value) == [option |-> option, value |-> value]

ForceBank ==
  Force("data", [d \in MatDims \union ActiveDims |-> IF d \in MatDims THEN 8 ELSE 4])

Forces ==
  {ForceBank,
   Force("data", [NumRowMat |-> 2, NumColumnMat |-> 16, StackLayer |-> 4]),
   Force("data", [NumRowSubarray |-> 1, NumColumnSubarray |-> 2]),
   Force("data", [MuxSenseAmp |-> 32]),
   Force("data", [AreaOptimizationLevel |-> 1]),
   Force("data", [LocalWireType |-> 5]),
   Force("data", [GlobalWireRepeaterType |-> 3]),
   Force("data", [StackLayer |-> 2]),
   Force("tag", [d \in MatDims \union ActiveDims |-> 2]),
   Force("tag", [MuxOutputLev1 |-> 1]),
   Force("tag", [LocalWireType |-> 1]),
   [option |-> "UseCactiAssumption"]}

TwoCells == <<[option |-> "MemoryCellInputFile"], [option |-> "MemoryCellInputFile"]>>

Memories ==
  {<<Value("CacheAccessMode", m), Value("Associativity", w)>> \o TwoCells :
     m \in {"normal", "sequential", "fast"}, w \in {1, 4}}
    \union {<<Value("DesignTarget", t), Value("Associativity", 4)>> \o TwoCells :
              t \in {"RAM", "CAM", "cache"}}

Options == {<<>>} \union {<<f>> : f \in Forces} \union (Forces \X Forces)

MCConfigs == {m \o o : m \in Memories, o \in Options}
               \union {o \o m : m \in Memories, o \in Options}
=============================================================================
