--------------------------- MODULE MCDesignSearch ---------------------------
(***************************************************************************)
(* Instances of DesignSearch for TLC.  The circuit model is additive: an   *)
(* organisation of a cell has a base cost per target and the wires shift   *)
(* it, so that refining a wire can help one target and hurt another.       *)
(***************************************************************************)
EXTENDS DesignSearch

(* What a bank can be like: rejected before its metrics exist, not holding  *)
(* its capacity, good at one target or the other.                           *)
Rejected == [cost |-> [t \in Targets |-> Inf], invalid |-> TRUE, fits |-> TRUE]
Bank(costs, holds) == [cost |-> costs, invalid |-> FALSE, fits |-> holds]
Profiles == {Rejected, Bank(<<3, 5>>, TRUE), Bank(<<5, 3>>, TRUE)}
Misfit == Bank(<<4, 4>>, FALSE)

(* The shift a refined local or global wire makes, by target.               *)
Shifts == {<<-1, 1>>, <<1, -2>>}

Shifted(e, l, ls, g, gs, late) ==
  IF e.invalid THEN e
  ELSE [e EXCEPT !.cost = [t \in Targets |->
                  e.cost[t] + (IF l = 1 THEN ls[t] ELSE 0)
                            + (IF g = 1 THEN gs[t] ELSE 0)],
                 !.invalid = late /\ l = 1]

(* The table of a base profile per cell and organisation, for both arrays.  *)
(* `late': a bank with the refined local wire is found invalid only after   *)
(* its metrics were computed, as the refresh check of an eDRAM bank does.   *)
Table(data, tag, ls, gs, late) ==
  [x \in Kinds \X Cells \X Orgs \X Locals \X Globals |->
     Shifted(IF x[1] = "data" THEN data[<<x[2], x[3]>>] ELSE tag[x[2]],
             x[4], ls, x[5], gs, late)]

DataBases == [Cells \X Orgs -> Profiles]
TagBases  == [Cells -> {Rejected, Bank(<<3, 4>>, TRUE)}]

Tables(dataBases, tagBases) ==
  {Table(d, g, s, s2, FALSE) :
     d \in dataBases, g \in tagBases, s \in Shifts, s2 \in {<<-1, 1>>}}

(* Some banks do not hold their capacity: the program has to stop.          *)
MisfitTables ==
  {Table(d, g, <<-1, 1>>, <<-1, 1>>, FALSE) :
     d \in [Cells \X Orgs -> {Rejected, Misfit, Bank(<<3, 5>>, TRUE)}],
     g \in [Cells -> {Misfit, Bank(<<3, 4>>, TRUE)}]}

MCTables == Tables(DataBases, TagBases) \union MisfitTables

(* eDRAM: a refined wire may make the refresh too slow for the retention.   *)
MCLateTables ==
  {Table(d, [c \in Cells |-> Bank(<<3, 4>>, TRUE)], <<-1, 1>>, <<-1, 1>>, TRUE) :
     d \in DataBases}

MCConfig(cache, target, constrained, slack) ==
  [cache |-> cache, target |-> target, pruning |-> FALSE,
   constrained |-> constrained, slack |-> slack, otherTag |-> FALSE,
   legal |-> Cells]

None == <<Inf, Inf>>

MCFreeConfigs ==
  {MCConfig(FALSE, 1, FALSE, None), MCConfig(TRUE, 1, FALSE, None),
   [MCConfig(TRUE, 2, FALSE, None) EXCEPT !.otherTag = TRUE],
   MCConfig(FALSE, Full, FALSE, None),
   [MCConfig(TRUE, Full, FALSE, None) EXCEPT !.pruning = TRUE],
   [MCConfig(FALSE, 1, FALSE, None) EXCEPT !.legal = {1}]}

MCBoundConfigs ==
  {MCConfig(c, 1, TRUE, s) : c \in BOOLEAN, s \in {<<0, Inf>>, <<1, 1>>, <<2, Inf>>}}

MCAllConfigs == MCFreeConfigs \union MCBoundConfigs

(* The basic wires: the tag array has a refined global wire as basic wire.  *)
MCBasicLocal  == [k \in Kinds |-> 0]
MCBasicGlobal == [k \in Kinds |-> IF k = "tag" THEN 1 ELSE 0]
=============================================================================
