---------------------------- MODULE DesignSearch ----------------------------
(***************************************************************************)
(* The search engine of DESTINY: main() and nvsim() of main.cpp with the   *)
(* macros of macros.h and the class Result.                                *)
(*                                                                         *)
(* For every memory cell file, nvsim() walks the organisations of the tag  *)
(* array (caches only) and then those of the data array, keeps the best    *)
(* bank for each optimisation target, refines the wires of the winners,    *)
(* and, when a design constraint is given, walks the organisations again   *)
(* under limits derived from the winners.  main() then merges the winners  *)
(* of all cells into those of the first one and prints them.               *)
(*                                                                         *)
(* The circuit model (CalculateArea, CalculateRC, CalculateLatencyAndPower *)
(* of the bank) is a table `eval': what it returns for a memory kind, a    *)
(* cell, an organisation and a pair of wires.  Every theorem holds for     *)
(* every table.                                                            *)
(***************************************************************************)
EXTENDS Integers, Sequences

CONSTANTS
  NumCells,      \* number of cell files named by the configuration
  NumOrgs,       \* organisations enumerated by BIGFOR, in loop order
  NumLocal,      \* wire configurations of REFINE_LOCAL_WIRE_FORLOOP
  NumGlobal,     \* wire configurations of REFINE_GLOBAL_WIRE_FORLOOP
  BasicLocal,    \* the local wire INITIAL_BASIC_WIRE chooses for tag, data
  BasicGlobal,   \* the global wire it chooses
  NumTargets,    \* optimisation targets, the value of full_exploration
  Inf,           \* invalid_value, larger than every real metric
  Configs,       \* configurations to consider
  EvalTables     \* behaviours of the circuit model to consider

Cells   == 1..NumCells
Orgs    == 1..NumOrgs
Targets == 1..NumTargets
Full    == NumTargets + 1   \* full_exploration, the last of the enumeration
Locals  == 0..NumLocal      \* 0: a basic wire outside the refined range
Globals == 0..NumGlobal
Kinds   == {"tag", "data"}
Costs   == [Targets -> 0..Inf]

(* What the circuit model says of a bank: its metrics, its `invalid' flag   *)
(* and whether the cells of its subarrays add up to the capacity.           *)
Evaluation == [cost: Costs, invalid: BOOLEAN, fits: BOOLEAN]

Configuration ==
  [cache: BOOLEAN,                \* designTarget == cache
   target: Targets \union {Full}, \* optimizationTarget
   pruning: BOOLEAN,              \* isPruningEnabled
   constrained: BOOLEAN,          \* isConstraintApplied
   slack: [Targets -> Nat],       \* overhead the constraints allow
   otherTag: BOOLEAN,             \* allowDifferentTagTech
   legal: SUBSET Cells]           \* cells applyConstraint() accepts

ASSUME SizeAssumption ==
  /\ NumCells \in Nat \ {0} /\ NumOrgs \in Nat
  /\ NumLocal \in Nat /\ NumGlobal \in Nat /\ NumTargets \in Nat \ {0}
  /\ Inf \in Nat \ {0}

ASSUME WireAssumption ==
  BasicLocal \in [Kinds -> Locals] /\ BasicGlobal \in [Kinds -> Globals]

ASSUME TableAssumption ==
  /\ Configs \subseteq Configuration
  /\ EvalTables \subseteq
       [Kinds \X Cells \X Orgs \X Locals \X Globals -> Evaluation]

(* A bank that is not invalid has metrics below invalid_value.              *)
ASSUME FiniteAssumption ==
  \A table \in EvalTables : \A x \in DOMAIN table :
    ~table[x].invalid => \A t \in Targets : table[x].cost[t] < Inf

-----------------------------------------------------------------------------
VARIABLES
  cfg,        \* the configuration read from the file
  eval,       \* the circuit model
  phase,      \* the loop or statement main()/nvsim() is at
  kind,       \* array being designed, "tag" or "data"
  cell,       \* cellIdx + 1
  idx,        \* position in a wire-refinement or merge loop
  localWire,  \* the global object localWire
  globalWire, \* the global object globalWire
  best,       \* bestTagResults and bestDataResults of every cell
  limit,      \* the limit* fields of those results
  tried,      \* organisations walked under these limits (the BIGFOR position)
  solutions,  \* numSolution
  total,      \* totalSolutions
  rows,       \* designs written to the CSV file, in order
  report      \* what main() prints at the end

vars == <<cfg, eval, phase, kind, cell, idx, localWire, globalWire, best,
          limit, tried, solutions, total, rows, report>>

Phases == {"cell", "enumerate", "refineLocal", "refineGlobal", "afterData",
           "constrained", "merge", "report", "done", "aborted"}

(* A Result: the metrics and organisation of its bank, its wires and cell.  *)
(* `src' is the cell the bank was evaluated with, which the code does not   *)
(* store; `tech' is the label cellTech that is printed.                     *)
Result == [cost: Costs, invalid: BOOLEAN, org: 0..NumOrgs,
           local: Locals, global: Globals, src: Cells, tech: Cells]

(* Result::Result() for cell c: every metric is invalid_value.              *)
WorstResult(c) ==
  [cost |-> [t \in Targets |-> Inf], invalid |-> FALSE, org |-> 0,
   local |-> 0, global |-> 0, src |-> c, tech |-> c]

(* Result::reset(): the metrics go back to invalid_value, the organisation, *)
(* the flag and the wires stay.                                             *)
reset(r) == [r EXCEPT !.cost = [t \in Targets |-> Inf]]

NoLimit == [t \in Targets |-> Inf]

Within(cost, lim) == \A t \in Targets : cost[t] <= lim[t]

(* Slips: the limits are not looked at; every target compares the first.    *)
ImprovesWithoutLimits(old, lim, t, new) == new.cost[t] < old.cost[t]
ImprovesFirstTarget(old, lim, t, new) ==
  Within(new.cost, lim) /\ new.cost[1] < old.cost[1]

(* What Result::compareAndUpdate returns: `new' respects every limit of the *)
(* result `old' kept for target t and is strictly better for t.             *)
Improves(old, lim, t, new) ==
  Within(new.cost, lim) /\ new.cost[t] < old.cost[t]

(* Result::compareAndUpdate: an improvement replaces the bank and the wires *)
(* of the old result, and leaves its cell label alone.                      *)
compareAndUpdate(old, lim, t, new) ==
  IF Improves(old, lim, t, new) THEN [new EXCEPT !.tech = old.tech] ELSE old

Calculate(k, c, o, l, g) == eval[<<k, c, o, l, g>>]

(* tempResult after a bank of organisation o was calculated for cell c.     *)
TempResult(k, c, o, l, g) ==
  LET e == Calculate(k, c, o, l, g)
  IN  [cost |-> e.cost, invalid |-> e.invalid, org |-> o,
       local |-> l, global |-> g, src |-> c, tech |-> c]

(* Slip: the loop over the targets stops after the first.                   *)
UpdateFirstOnly(results, lim, new) ==
  [results EXCEPT ![1] = compareAndUpdate(@, lim, 1, new)]

(* UPDATE_BEST_TAG, UPDATE_BEST_DATA: offer one result to every target.     *)
UpdateBest(results, lim, new) ==
  [t \in Targets |-> compareAndUpdate(results[t], lim, t, new)]

RowOf(r) == <<r.src, r.org, r.local, r.global>>

WritesRows == cfg.target = Full /\ ~cfg.pruning

(* Slip: the row replaces the file instead of being added to it.            *)
OverwriteFile(r) ==
  rows' = IF WritesRows /\ kind = "data" THEN <<RowOf(r)>> ELSE rows

(* OUTPUT_TO_FILE and its guard.                                            *)
OutputToFile(r) ==
  rows' = IF WritesRows /\ kind = "data" THEN Append(rows, RowOf(r)) ELSE rows

InitialBasicWire(k) ==
  localWire' = BasicLocal[k] /\ globalWire' = BasicGlobal[k]

(* Slip: numSolution goes on counting.                                      *)
KeepCount == UNCHANGED solutions

RestartCount == solutions' = 0

Init ==
  /\ cfg \in Configs
  /\ eval \in EvalTables
  /\ phase = "cell" /\ kind = "tag" /\ cell = 1 /\ idx = 1
  /\ localWire = BasicLocal["tag"] /\ globalWire = BasicGlobal["tag"]
  /\ best = [k \in Kinds |-> [c \in Cells |-> [t \in Targets |-> WorstResult(c)]]]
  /\ limit = [k \in Kinds |-> [c \in Cells |-> NoLimit]]
  /\ tried = [k \in Kinds |-> [c \in Cells |-> 0]]
  /\ solutions = 0 /\ total = 0
  /\ rows = <<>>
  /\ report = "nothing"

-----------------------------------------------------------------------------
(* The walks of nvsim().                                                    *)

(* Entering nvsim() for the next cell: applyConstraint() leaves the program *)
(* on an unsupported cell, then INITIAL_BASIC_WIRE and the first walk.      *)
StartCell ==
  /\ phase = "cell" /\ cell <= NumCells
  /\ IF cell \in cfg.legal
     THEN /\ phase' = "enumerate"
          /\ kind' = IF cfg.cache THEN "tag" ELSE "data"
          /\ InitialBasicWire(kind')
          /\ solutions' = 0
     ELSE /\ phase' = "aborted"
          /\ UNCHANGED <<kind, localWire, globalWire, solutions>>
  /\ UNCHANGED <<cfg, eval, cell, idx, best, limit, tried, total, rows, report>>

(* One iteration of BIGFOR_TAG or BIGFOR: a bank that is not invalid must   *)
(* hold the capacity (VERIFY_*_CAPACITY leaves the program otherwise), is   *)
(* counted, offered to every target, and written in full exploration.  The  *)
(* walk under constraints also requires it to respect the limits.           *)
TryOrganisation ==
  /\ phase \in {"enumerate", "constrained"}
  /\ tried[kind][cell] < NumOrgs
  /\ LET o   == tried[kind][cell] + 1
         new == TempResult(kind, cell, o, localWire, globalWire)
         accepted == /\ ~new.invalid
                     /\ phase = "constrained" => Within(new.cost, limit[kind][cell])
     IN  IF accepted /\ ~Calculate(kind, cell, o, localWire, globalWire).fits
         THEN /\ phase' = "aborted"
              /\ UNCHANGED <<best, tried, solutions, rows>>
         ELSE /\ tried' = [tried EXCEPT ![kind][cell] = o]
              /\ IF accepted
                 THEN /\ best' = [best EXCEPT ![kind][cell] =
                                    UpdateBest(@, limit[kind][cell], new)]
                      /\ solutions' = solutions + 1
                      /\ OutputToFile(new)
                 ELSE UNCHANGED <<best, solutions, rows>>
              /\ UNCHANGED phase
  /\ UNCHANGED <<cfg, eval, kind, cell, idx, localWire, globalWire, limit,
                 total, report>>

(* Slips: the total of the last cell only; the cell index is not advanced.  *)
ReturnLastCount(count) ==
  /\ phase' = "cell" /\ cell' = cell + 1
  /\ total' = count
ReturnToSameCell(count) ==
  /\ phase' = "cell" /\ cell' = cell
  /\ total' = total + count

(* nvsim() returns: the caller adds the solutions of a cell that did not    *)
(* fail and goes on to the next cell.                                       *)
Return(count) ==
  /\ phase' = "cell" /\ cell' = cell + 1
  /\ total' = total + count

(* The walk is over: refine the wires of the winners if there are any.  A   *)
(* cell without a tag array fails (return 1); a cell without a data array   *)
(* goes on to the statements after the refinement.                          *)
EndWalk ==
  /\ phase = "enumerate" /\ tried[kind][cell] = NumOrgs
  /\ idx' = 1
  /\ IF solutions > 0
     THEN phase' = "refineLocal" /\ UNCHANGED <<cell, total>>
     ELSE IF kind = "tag"
     THEN Return(0)
     ELSE phase' = "afterData" /\ UNCHANGED <<cell, total>>
  /\ UNCHANGED <<cfg, eval, kind, localWire, globalWire, best, limit, tried,
                 solutions, rows, report>>

-----------------------------------------------------------------------------
(* Wire refinement: TRY_AND_UPDATE rebuilds the winner of every target with *)
(* other wires.  The trial is offered whatever its `invalid' flag says.     *)

(* LOAD_GLOBAL_WIRE: local wire l with the global wire of the old result.   *)
TrialLocal(r, l) == TempResult(kind, cell, r.org, l, r.global)

(* LOAD_LOCAL_WIRE: global wire g with the local wire of the old result.    *)
TrialGlobal(r, g) == TempResult(kind, cell, r.org, r.local, g)

(* One iteration of REFINE_(TAG_)LOCAL_WIRE_FORLOOP; the row that is        *)
(* written is the trial of the last target.                                 *)
RefineLocal ==
  /\ phase = "refineLocal" /\ idx <= NumLocal
  /\ LET old == best[kind][cell]
     IN  /\ best' = [best EXCEPT ![kind][cell] =
                       [t \in Targets |-> compareAndUpdate(old[t],
                           limit[kind][cell], t, TrialLocal(old[t], idx))]]
         /\ localWire' = idx /\ globalWire' = old[NumTargets].global
         /\ OutputToFile(TrialLocal(old[NumTargets], idx))
  /\ idx' = idx + 1
  /\ UNCHANGED <<cfg, eval, phase, kind, cell, limit, tried, solutions, total,
                 report>>

EndRefineLocal ==
  /\ phase = "refineLocal" /\ idx > NumLocal
  /\ phase' = "refineGlobal" /\ idx' = 1
  /\ UNCHANGED <<cfg, eval, kind, cell, localWire, globalWire, best, limit,
                 tried, solutions, total, rows, report>>

RefineGlobal ==
  /\ phase = "refineGlobal" /\ idx <= NumGlobal
  /\ LET old == best[kind][cell]
     IN  /\ best' = [best EXCEPT ![kind][cell] =
                       [t \in Targets |-> compareAndUpdate(old[t],
                           limit[kind][cell], t, TrialGlobal(old[t], idx))]]
         /\ localWire' = old[NumTargets].local /\ globalWire' = idx
         /\ OutputToFile(TrialGlobal(old[NumTargets], idx))
  /\ idx' = idx + 1
  /\ UNCHANGED <<cfg, eval, phase, kind, cell, limit, tried, solutions, total,
                 report>>

(* After the tag array the counter restarts, the search space is restored   *)
(* and the data array is walked with basic wires; after the data array the  *)
(* statements that follow the refinement run.                               *)
EndRefineGlobal ==
  /\ phase = "refineGlobal" /\ idx > NumGlobal
  /\ idx' = 1
  /\ IF kind = "tag"
     THEN /\ kind' = "data" /\ phase' = "enumerate"
          /\ RestartCount /\ InitialBasicWire("data")
     ELSE /\ phase' = "afterData"
          /\ UNCHANGED <<kind, solutions, localWire, globalWire>>
  /\ UNCHANGED <<cfg, eval, cell, best, limit, tried, total, rows, report>>

-----------------------------------------------------------------------------
(* After the data array of a cell.                                          *)

(* Slip: the overhead is taken off.                                         *)
AllowedBelow(results, t) == results[t].cost[t] - cfg.slack[t]

(* The allowed overhead over the best value of target t; an unlimited       *)
(* metric stays unlimited.                                                  *)
Allowed(results, t) ==
  LET bound == results[t].cost[t] + cfg.slack[t]
  IN  IF bound < Inf THEN bound ELSE Inf

(* A pruned exploration writes the winners of this cell.  A constrained     *)
(* search derives its limits from the winners, resets them (APPLY_LIMIT)    *)
(* and walks the organisations again with basic wires.                      *)
AfterData ==
  /\ phase = "afterData"
  /\ IF cfg.target # Full /\ cfg.constrained
     THEN /\ limit' = [limit EXCEPT !["data"][cell] =
                         [t \in Targets |-> Allowed(best["data"][cell], t)]]
          /\ best' = [best EXCEPT !["data"][cell] =
                         [t \in Targets |-> reset(@[t])]]
          /\ tried' = [tried EXCEPT !["data"][cell] = 0]
          /\ RestartCount /\ InitialBasicWire("data")
          /\ phase' = "constrained"
          /\ UNCHANGED <<cell, total>>
     ELSE /\ Return(solutions)
          /\ UNCHANGED <<best, limit, tried, solutions, localWire, globalWire>>
  /\ rows' = IF cfg.target = Full /\ cfg.pruning
             THEN rows \o [t \in Targets |-> RowOf(best["data"][cell][t])]
             ELSE rows
  /\ UNCHANGED <<cfg, eval, kind, idx, report>>

EndConstrained ==
  /\ phase = "constrained" /\ tried[kind][cell] = NumOrgs
  /\ Return(solutions)
  /\ UNCHANGED <<cfg, eval, kind, idx, localWire, globalWire, best, limit,
                 tried, solutions, rows, report>>

-----------------------------------------------------------------------------
(* main() after the last cell.                                              *)

EndCells ==
  /\ phase = "cell" /\ cell > NumCells
  /\ phase' = IF cfg.target # Full THEN "merge" ELSE "report"
  /\ idx' = 2
  /\ UNCHANGED <<cfg, eval, kind, cell, localWire, globalWire, best, limit,
                 tried, solutions, total, rows, report>>

(* The winners of the first cell after those of cell c were offered to them *)
(* for target t.  Without allowDifferentTagTech the tag bank follows the    *)
(* data bank, otherwise it is compared on its own.  Slips: the first target *)
(* decides for all; the tag bank never follows.                             *)
MergedDataByFirst(c, t) ==
  LET old == best["data"][1][t]
      new == best["data"][c][t]
  IN  IF Improves(old, limit["data"][1], 1, new) THEN [new EXCEPT !.tech = c]
      ELSE old

MergedData(c, t) ==
  LET old == best["data"][1][t]
      new == best["data"][c][t]
  IN  IF Improves(old, limit["data"][1], t, new) THEN [new EXCEPT !.tech = c]
      ELSE old

MergedTagAlone(c, t) ==
  compareAndUpdate(best["tag"][1][t], limit["tag"][1], t, best["tag"][c][t])

MergedTag(c, t) ==
  LET old == best["tag"][1][t]
      new == best["tag"][c][t]
      follows == IF cfg.otherTag
                 THEN Improves(old, limit["tag"][1], t, new)
                 ELSE Improves(best["data"][1][t], limit["data"][1], t,
                               best["data"][c][t])
  IN  IF follows THEN [new EXCEPT !.tech = c] ELSE old

MergeCell ==
  /\ phase = "merge" /\ idx <= NumCells
  /\ best' = [best EXCEPT
                !["data"][1] = [t \in Targets |-> MergedData(idx, t)],
                !["tag"][1]  = [t \in Targets |-> MergedTag(idx, t)]]
  /\ idx' = idx + 1
  /\ UNCHANGED <<cfg, eval, phase, kind, cell, localWire, globalWire, limit,
                 tried, solutions, total, rows, report>>

EndMerge ==
  /\ phase = "merge" /\ idx > NumCells
  /\ phase' = "report"
  /\ UNCHANGED <<cfg, eval, kind, cell, idx, localWire, globalWire, best,
                 limit, tried, solutions, total, rows, report>>

(* main() prints the winners of the first cell, "No valid solutions." or    *)
(* the number of solutions in the CSV file.                                 *)
Report ==
  /\ phase = "report"
  /\ report' = IF cfg.target = Full THEN "file"
               ELSE IF total > 0 THEN "designs" ELSE "no solutions"
  /\ phase' = "done"
  /\ UNCHANGED <<cfg, eval, kind, cell, idx, localWire, globalWire, best,
                 limit, tried, solutions, total, rows>>

Stopped ==
  /\ phase \in {"done", "aborted"}
  /\ UNCHANGED vars

Next ==
  \/ StartCell \/ TryOrganisation \/ EndWalk
  \/ RefineLocal \/ EndRefineLocal \/ RefineGlobal \/ EndRefineGlobal
  \/ AfterData \/ EndConstrained
  \/ EndCells \/ MergeCell \/ EndMerge \/ Report
  \/ Stopped

Spec == Init /\ [][Next]_vars /\ WF_vars(Next)

-----------------------------------------------------------------------------
(* Properties.                                                              *)

TypeOK ==
  /\ cfg \in Configuration
  /\ eval \in [Kinds \X Cells \X Orgs \X Locals \X Globals -> Evaluation]
  /\ phase \in Phases /\ kind \in Kinds
  /\ cell \in 1..NumCells + 1 /\ idx \in Nat
  /\ localWire \in Locals /\ globalWire \in Globals
  /\ best \in [Kinds -> [Cells -> [Targets -> Result]]]
  /\ limit \in [Kinds -> [Cells -> Costs]]
  /\ tried \in [Kinds -> [Cells -> 0..NumOrgs]]
  /\ solutions \in Nat /\ total \in Nat
  /\ rows \in Seq(Cells \X (0..NumOrgs) \X Locals \X Globals)
  /\ report \in {"nothing", "no solutions", "designs", "file"}

(* The best data bank of a cell for target t has been found.                *)
Found(c, t) == best["data"][c][t].cost[t] < Inf

(* What the circuit model says of a data bank with basic wires.             *)
Basic(c, o) == Calculate("data", c, o, BasicLocal["data"], BasicGlobal["data"])

(* An organisation the walk under the present limits has to consider.       *)
Eligible(c, o) ==
  LET e == Basic(c, o)
  IN  ~e.invalid /\ Within(e.cost, limit["data"][c])

(* Once an organisation has been walked, the winner of every target is at   *)
(* least as good as it, through both walks, both wire refinements and the   *)
(* merge of the cells (UPDATE_BEST_DATA, TRY_AND_UPDATE, main.cpp:248-273). *)
KeepsTheBest ==
  \A c \in Cells, t \in Targets : \A o \in 1..tried["data"][c] :
    Eligible(c, o) =>
      best["data"][c][t].cost[t] <=
        Basic(c, o).cost[t]

(* A winner never exceeds a limit of its own record, whichever metric the   *)
(* limit is on and wherever the bank came from (Result.cpp:164-169).        *)
RespectsLimits ==
  \A c \in Cells, t \in Targets :
    Found(c, t) => Within(best["data"][c][t].cost, limit["data"][c])

(* While nvsim() works on an array, numSolution is positive exactly when    *)
(* every target has a winner: the guards `numSolution > 0' of the wire      *)
(* refinements (main.cpp:392, 486) never rebuild a bank that is not there.  *)
CountedMeansFound ==
  phase \in {"enumerate", "refineLocal", "refineGlobal", "afterData",
             "constrained"} =>
    \A t \in Targets : solutions > 0 <=> best[kind][cell][t].cost[t] < Inf

(* The message `No valid solutions.' is printed exactly when no cell has a  *)
(* data bank (main.cpp:276-297).                                            *)
SolutionsReported ==
  phase = "done" /\ cfg.target # Full =>
    (report = "designs" <=> \E c \in Cells : \A t \in Targets : Found(c, t))

(* Across the cells the winner that main() prints is the best of the        *)
(* winners of all cells, target by target (comment at main.cpp:249).        *)
BestOfTheBest ==
  phase = "done" /\ cfg.target # Full =>
    \A c \in Cells, t \in Targets :
      best["data"][1][t].cost[t] <= best["data"][c][t].cost[t]

(* Without a design constraint it is: no limits are in force when the       *)
(* winners of the cells are compared (main.cpp:250-273).                    *)
BestWithoutLimits == ~cfg.constrained => BestOfTheBest

(* The cell printed with a winner is the one its bank was computed with,    *)
(* and unless allowDifferentTagTech is set, the tag array of a cache is     *)
(* built from the same cell as its data array (main.cpp:254-270).           *)
CellLabels ==
  /\ \A k \in Kinds, c \in Cells, t \in Targets :
       LET r == best[k][c][t] IN r.cost[t] < Inf => r.tech = r.src
  /\ phase = "done" /\ cfg.target # Full /\ cfg.cache /\ ~cfg.otherTag =>
       \A t \in Targets :
         Found(1, t) => best["tag"][1][t].src = best["data"][1][t].src

(* A winner is a bank the circuit model did not reject (Bank.h:38).         *)
BestIsValid ==
  \A c \in Cells, t \in Targets : Found(c, t) => ~best["data"][c][t].invalid

(* A full exploration without pruning writes a row for every valid          *)
(* organisation of every cell it walked (OUTPUT_TO_FILE, main.cpp:479-481). *)
EveryDesignWritten ==
  WritesRows =>
    \A c \in Cells : \A o \in 1..tried["data"][c] :
      ~Basic(c, o).invalid =>
        \E i \in DOMAIN rows : rows[i] = <<c, o, BasicLocal["data"], BasicGlobal["data"]>>

(* Only APPLY_LIMIT may make a winner worse, and only that of the cell      *)
(* being designed: a later cell never spoils an earlier result.             *)
NeverWorse ==
  [][\A c \in Cells, t \in Targets :
       best["data"][c][t].cost[t] < best'["data"][c][t].cost[t] =>
         phase = "afterData" /\ c = cell]_vars

(* Every run of the program ends, by printing its result or by exit(-1).    *)
Terminates == <>(phase \in {"done", "aborted"})
=============================================================================
