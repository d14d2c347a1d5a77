------------------------ MODULE DesignSearch_proofs ------------------------
(***************************************************************************)
(* Proofs about the search engine, for every number of cells,              *)
(* organisations, wires and targets and for every circuit model.           *)
(***************************************************************************)
EXTENDS DesignSearch, TLAPS

Array == {"enumerate", "refineLocal", "refineGlobal", "afterData",
          "constrained"}
Walk  == {"enumerate", "constrained"}
Final == {"merge", "report", "done"}

(* Where the program is: the cell index and the array match the statement.  *)
Control ==
  /\ phase \in Array => cell \in Cells
  /\ phase \in {"afterData", "constrained"} => kind = "data"
  /\ phase \in Final => cell = NumCells + 1
  /\ idx >= 1
  /\ phase \in {"refineLocal", "refineGlobal"} => solutions > 0
  /\ phase \in Walk => localWire = BasicLocal[kind] /\ globalWire = BasicGlobal[kind]

(* Arrays that were not designed yet are as Result::Result() left them, and *)
(* no limit is in force before the walk under constraints.                  *)
Untouched(k, c) ==
  /\ limit[k][c] = NoLimit
  /\ \A t \in Targets : best[k][c][t].cost[t] = Inf

Fresh ==
  /\ \A k \in Kinds, c \in Cells :
       c > cell \/ (c = cell /\ phase = "cell") => Untouched(k, c)
  /\ phase \in Array /\ kind = "tag" => Untouched("data", cell)
  /\ phase \in Array \ {"constrained"} => limit[kind][cell] = NoLimit

(* A bank with metrics has an organisation to rebuild it from.              *)
Rebuildable ==
  \A k \in Kinds, c \in Cells, t \in Targets :
    best[k][c][t].cost[t] < Inf => best[k][c][t].org \in Orgs

Inv ==
  /\ eval \in EvalTables
  /\ TypeOK /\ Control /\ Fresh /\ Rebuildable
  /\ CountedMeansFound /\ KeepsTheBest /\ RespectsLimits

USE SizeAssumption, TableAssumption DEF Targets

-----------------------------------------------------------------------------
(* The type invariant in three parts, so that a step proves only the parts  *)
(* it changes.                                                              *)
ScalarsOK ==
  /\ phase \in Phases /\ kind \in Kinds
  /\ cell \in 1..NumCells + 1 /\ idx \in Nat
  /\ localWire \in Locals /\ globalWire \in Globals
  /\ solutions \in Nat /\ total \in Nat
  /\ report \in {"nothing", "no solutions", "designs", "file"}

ResultsOK ==
  /\ best \in [Kinds -> [Cells -> [Targets -> Result]]]
  /\ limit \in [Kinds -> [Cells -> Costs]]
  /\ tried \in [Kinds -> [Cells -> 0..NumOrgs]]

Row == Cells \X (0..NumOrgs) \X Locals \X Globals

LEMMA TypeParts ==
  ASSUME TypeOK
  PROVE  ScalarsOK /\ ResultsOK /\ rows \in Seq(Row)
BY DEF TypeOK, ScalarsOK, ResultsOK, Row

LEMMA TypeStep ==
  ASSUME TypeOK, UNCHANGED <<cfg, eval>>, ScalarsOK', ResultsOK',
         rows' \in Seq(Row)
  PROVE  TypeOK'
<1>1. /\ cfg' \in Configuration
      /\ eval' \in [Kinds \X Cells \X Orgs \X Locals \X Globals -> Evaluation]
  BY DEF TypeOK
<1> QED
  BY <1>1 DEF TypeOK, ScalarsOK, ResultsOK, Row

(* Where the program is, read off the invariant.                            *)
LEMMA CellType ==
  ASSUME TypeOK, Control
  PROVE  /\ cell \in Int /\ NumCells \in Int
         /\ phase \in Array \/ (phase = "cell" /\ cell <= NumCells) => cell \in Cells
<1>1. NumCells \in Nat /\ NumCells > 0
  BY SMT
<1>2. cell \in 1..NumCells + 1
  BY DEF TypeOK
<1>3. phase \in Array => cell \in Cells
  BY DEF Control
<1> QED
  BY <1>1, <1>2, <1>3 DEF Cells

-----------------------------------------------------------------------------
(* What compareAndUpdate returns: a result no worse for its target than the *)
(* old one, nor than the new one if that respects the limits; if it changed *)
(* anything, the result respects them.                                      *)
LEMMA CompareAndUpdate ==
  ASSUME NEW old \in Result, NEW new \in Result, NEW t \in Targets,
         NEW lim \in Costs
  PROVE  LET r == compareAndUpdate(old, lim, t, new)
         IN  /\ r \in Result
             /\ r.cost[t] <= old.cost[t]
             /\ Within(new.cost, lim) => r.cost[t] <= new.cost[t]
             /\ r = old \/ (r.cost = new.cost /\ r.org = new.org
                            /\ Within(r.cost, lim) /\ r.cost[t] < old.cost[t])
<1> DEFINE r == compareAndUpdate(old, lim, t, new)
<1>1. old.cost[t] \in Int /\ new.cost[t] \in Int
  BY DEF Result, Costs
<1>2. CASE Improves(old, lim, t, new)
  <2>1. r = [new EXCEPT !.tech = old.tech]
    BY <1>2 DEF compareAndUpdate
  <2>2. r \in Result /\ r.cost = new.cost /\ r.org = new.org
    BY <2>1 DEF Result
  <2>3. Within(r.cost, lim) /\ r.cost[t] < old.cost[t]
    BY <1>2, <2>2 DEF Improves
  <2> QED
    BY <1>1, <2>2, <2>3
<1>3. CASE ~Improves(old, lim, t, new)
  <2>1. r = old
    BY <1>3 DEF compareAndUpdate
  <2> QED
    BY <1>1, <1>3, <2>1 DEF Improves
<1> QED
  BY <1>2, <1>3

(* What the circuit model returns for an organisation is a Result, finite   *)
(* for every target if the bank is valid.                                   *)
LEMMA TempResultType ==
  ASSUME TypeOK, NEW k \in Kinds, NEW c \in Cells, NEW o \in Orgs,
         NEW l \in Locals, NEW g \in Globals
  PROVE  LET r == TempResult(k, c, o, l, g)
         IN  /\ r \in Result
             /\ r.org = o
             /\ r.cost = Calculate(k, c, o, l, g).cost
             /\ r.invalid = Calculate(k, c, o, l, g).invalid
<1>1. Calculate(k, c, o, l, g) \in Evaluation
  BY DEF TypeOK, Calculate
<1> QED
  BY <1>1 DEF TempResult, Result, Evaluation, Orgs

(* The results after new[t] was offered to target t, for every target.      *)
Offered(k, c, new) ==
  [best EXCEPT ![k][c] = [t \in Targets |->
     compareAndUpdate(best[k][c][t], limit[k][c], t, new[t])]]

(* Offering one result per target to the winners of an array: no winner of  *)
(* any array gets worse, every winner keeps within its limits and keeps an  *)
(* organisation, and the winners are at least as good as what was offered   *)
(* within the limits.                                                       *)
LEMMA Offer ==
  ASSUME TypeOK, Rebuildable, RespectsLimits,
         NEW k \in Kinds, NEW c \in Cells, NEW new \in [Targets -> Result],
         \A t \in Targets : new[t].org \in Orgs,
         best' = Offered(k, c, new), limit' = limit
  PROVE  /\ best' \in [Kinds -> [Cells -> [Targets -> Result]]]
         /\ \A kk \in Kinds, cc \in Cells :
              kk # k \/ cc # c => best'[kk][cc] = best[kk][cc]
         /\ \A kk \in Kinds, cc \in Cells, t \in Targets :
              best'[kk][cc][t].cost[t] <= best[kk][cc][t].cost[t]
         /\ \A t \in Targets : Within(new[t].cost, limit[k][c]) =>
              best'[k][c][t].cost[t] <= new[t].cost[t]
         /\ Rebuildable' /\ RespectsLimits'
<1> DEFINE r(t) == compareAndUpdate(best[k][c][t], limit[k][c], t, new[t])
           f == [t \in Targets |-> r(t)]
<1>1. /\ best \in [Kinds -> [Cells -> [Targets -> Result]]]
      /\ limit \in [Kinds -> [Cells -> Costs]]
  BY DEF TypeOK
<1>2. \A t \in Targets :
        /\ r(t) \in Result
        /\ r(t).cost[t] <= best[k][c][t].cost[t]
        /\ Within(new[t].cost, limit[k][c]) => r(t).cost[t] <= new[t].cost[t]
        /\ r(t) = best[k][c][t] \/ (r(t).cost = new[t].cost /\ r(t).org = new[t].org
                             /\ Within(r(t).cost, limit[k][c])
                             /\ r(t).cost[t] < best[k][c][t].cost[t])
  <2> TAKE t \in Targets
  <2>1. best[k][c][t] \in Result /\ new[t] \in Result /\ limit[k][c] \in Costs
    BY <1>1
  <2> HIDE DEF r
  <2> QED
    BY <2>1, CompareAndUpdate DEF r
<1> HIDE DEF r
<1>3. f \in [Targets -> Result]
  BY <1>2
<1>4. best' = [best EXCEPT ![k][c] = f]
  BY DEF r, Offered
<1>5. /\ best'[k][c] = f
      /\ \A kk \in Kinds, cc \in Cells :
           kk # k \/ cc # c => best'[kk][cc] = best[kk][cc]
      /\ best' \in [Kinds -> [Cells -> [Targets -> Result]]]
  <2> HIDE DEF f
  <2> DEFINE S == [Targets -> Result]
  <2>1. best \in [Kinds -> [Cells -> S]] /\ f \in S
    BY <1>1, <1>3
  <2> HIDE DEF S
  <2>2. /\ best' \in [Kinds -> [Cells -> S]]
        /\ best'[k][c] = f
        /\ \A kk \in Kinds, cc \in Cells :
              kk # k \/ cc # c => best'[kk][cc] = best[kk][cc]
    BY <2>1, <1>4
  <2> QED
    BY <2>2, Zenon DEF S
<1>6. \A t \in Targets : best'[k][c][t] = r(t)
  BY <1>5
<1>7. \A kk \in Kinds, cc \in Cells, t \in Targets :
        best'[kk][cc][t].cost[t] <= best[kk][cc][t].cost[t]
  <2> TAKE kk \in Kinds, cc \in Cells, t \in Targets
  <2>1. CASE kk = k /\ cc = c
    BY <2>1, <1>2, <1>6
  <2>2. CASE kk # k \/ cc # c
    <3>1. best[kk][cc][t] \in Result
      BY <1>1
    <3>2. best[kk][cc][t].cost[t] \in Int
      BY <3>1 DEF Result, Costs
    <3> QED
      BY <2>2, <1>5, <3>2
  <2> QED
    BY <2>1, <2>2
<1>8. Rebuildable'
  <2> SUFFICES ASSUME NEW kk \in Kinds, NEW cc \in Cells, NEW t \in Targets,
                      best'[kk][cc][t].cost[t] < Inf
               PROVE  best'[kk][cc][t].org \in Orgs
    BY DEF Rebuildable
  <2>1. CASE kk = k /\ cc = c
    BY <2>1, <1>2, <1>6 DEF Rebuildable
  <2>2. CASE kk # k \/ cc # c
    BY <2>2, <1>5 DEF Rebuildable
  <2> QED
    BY <2>1, <2>2
<1>9. RespectsLimits'
  <2> SUFFICES ASSUME NEW cc \in Cells, NEW t \in Targets,
                      best'["data"][cc][t].cost[t] < Inf
               PROVE  Within(best'["data"][cc][t].cost, limit["data"][cc])
    BY DEF RespectsLimits, Found, Within
  <2>1. CASE "data" = k /\ cc = c
    BY <2>1, <1>2, <1>6 DEF RespectsLimits, Found
  <2>2. CASE "data" # k \/ cc # c
    BY <2>2, <1>5 DEF RespectsLimits, Found, Kinds
  <2> QED
    BY <2>1, <2>2
<1> QED
  BY <1>2, <1>5, <1>6, <1>7, <1>8, <1>9

-----------------------------------------------------------------------------
(* The steps that leave the results alone.                                  *)

LEMMA SameResults ==
  ASSUME Inv, UNCHANGED <<eval, best, limit, tried>>
  PROVE  Rebuildable' /\ KeepsTheBest' /\ RespectsLimits'
<1>1. Rebuildable'
  BY DEF Inv, Rebuildable
<1>2. KeepsTheBest'
  BY DEF Inv, KeepsTheBest, Eligible, Basic, Within, Calculate
<1>3. RespectsLimits'
  BY DEF Inv, RespectsLimits, Found, Within
<1> QED
  BY <1>1, <1>2, <1>3

LEMMA InitInv == Init => Inv
<1> SUFFICES ASSUME Init PROVE Inv
  OBVIOUS
<1> USE DEF Init
<1>1. \A c \in Cells : WorstResult(c) \in Result
  BY DEF WorstResult, Result, Costs, Locals, Globals
<1>2. NoLimit \in Costs
  BY DEF NoLimit, Costs
<1>3. TypeOK
  <2>1. best \in [Kinds -> [Cells -> [Targets -> Result]]]
    BY <1>1
  <2>2. /\ limit \in [Kinds -> [Cells -> Costs]]
        /\ tried \in [Kinds -> [Cells -> 0..NumOrgs]]
    BY <1>2
  <2>3. cell \in 1..NumCells + 1 /\ phase \in Phases /\ kind \in Kinds
    BY DEF Phases, Kinds
  <2>4. rows \in Seq(Cells \X (0..NumOrgs) \X Locals \X Globals)
    OBVIOUS
  <2>5. localWire \in Locals /\ globalWire \in Globals
    BY WireAssumption DEF Kinds
  <2> QED
    BY <2>1, <2>2, <2>3, <2>4, <2>5 DEF TypeOK
<1>4. Control
  BY DEF Control, Array, Walk, Final
<1>5. \A k \in Kinds, c \in Cells, t \in Targets : best[k][c][t].cost[t] = Inf
  BY DEF WorstResult
<1>6. Fresh
  BY <1>5 DEF Fresh, Untouched, Array
<1>7. Rebuildable
  BY <1>5 DEF Rebuildable
<1>8. CountedMeansFound
  BY DEF CountedMeansFound
<1>9. KeepsTheBest
  BY DEF KeepsTheBest, Kinds
<1>10. RespectsLimits
  BY <1>5 DEF RespectsLimits, Found, Kinds
<1> QED
  BY <1>3, <1>4, <1>6, <1>7, <1>8, <1>9, <1>10 DEF Inv

LEMMA StartCellInv == Inv /\ StartCell => Inv'
<1> SUFFICES ASSUME Inv, StartCell PROVE Inv'
  OBVIOUS
<1>1. cell \in Cells
  BY CellType DEF Inv, StartCell
<1>2. TypeOK'
  <2>1. ScalarsOK /\ ResultsOK /\ rows \in Seq(Row)
    BY TypeParts DEF Inv
  <2>2. ScalarsOK'
    <3>1. phase' \in Phases /\ kind' \in Kinds
      BY <2>1 DEF StartCell, ScalarsOK, Phases, Kinds
    <3>2. localWire' \in Locals /\ globalWire' \in Globals /\ solutions' \in Nat
      <4>1. \/ localWire' = BasicLocal[kind'] /\ globalWire' = BasicGlobal[kind'] /\ solutions' = 0
            \/ UNCHANGED <<localWire, globalWire, solutions>>
        BY DEF StartCell, InitialBasicWire
      <4>2. localWire \in Locals /\ globalWire \in Globals /\ solutions \in Nat
        BY <2>1 DEF ScalarsOK
      <4> QED
        BY <3>1, <4>1, <4>2, WireAssumption
    <3>3. UNCHANGED <<cell, idx, total, report>>
      BY DEF StartCell
    <3> QED
      BY <2>1, <3>1, <3>2, <3>3 DEF ScalarsOK
  <2>3. ResultsOK' /\ rows' \in Seq(Row)
    BY <2>1 DEF StartCell, ResultsOK
  <2> QED
    BY <2>2, <2>3, TypeStep DEF Inv, StartCell
<1>3. Control'
  BY <1>1 DEF StartCell, InitialBasicWire, Inv, Control, Array, Walk, Final
<1>4. \A k \in Kinds : Untouched(k, cell)
  BY <1>1 DEF Inv, Fresh, StartCell
<1>5. UNCHANGED <<best, limit, cell>>
  BY DEF StartCell
<1>6. Fresh'
  <2>1. phase' # "cell" /\ kind' \in Kinds
    BY <1>2 DEF StartCell, TypeOK
  <2>2. \A k \in Kinds, c \in Cells : c > cell => Untouched(k, c)
    BY DEF Inv, Fresh
  <2>3. \A k \in Kinds, c \in Cells : Untouched(k, c) => Untouched(k, c)'
    BY <1>5 DEF Untouched
  <2>4. "data" \in Kinds
    BY DEF Kinds
  <2> QED
    BY <1>1, <1>4, <1>5, <2>1, <2>2, <2>3, <2>4 DEF Fresh, Untouched
<1>7. CountedMeansFound'
  BY <1>1, <1>4 DEF StartCell, CountedMeansFound, Untouched, Kinds
<1>8. Rebuildable' /\ KeepsTheBest' /\ RespectsLimits'
  BY SameResults DEF StartCell
<1> QED
  BY <1>2, <1>3, <1>6, <1>7, <1>8 DEF Inv, StartCell

LEMMA EndWalkInv == Inv /\ EndWalk => Inv'
<1> SUFFICES ASSUME Inv, EndWalk PROVE Inv'
  OBVIOUS
<1>1. cell \in Cells /\ cell \in 1..NumCells
  BY DEF Inv, Control, Array, EndWalk, Cells
<1>2. TypeOK'
  <2>1. ScalarsOK /\ ResultsOK /\ rows \in Seq(Row)
    BY TypeParts DEF Inv
  <2>2. ScalarsOK'
    <3>1. phase' \in Phases
      BY DEF EndWalk, Return, Phases
    <3>2. cell' \in 1..NumCells + 1 /\ total' \in Nat
      <4>1. \/ cell' = cell + 1 /\ total' = total + 0
            \/ UNCHANGED <<cell, total>>
        BY DEF EndWalk, Return
      <4>2. total \in Nat
        BY <2>1 DEF ScalarsOK
      <4> QED
        BY <1>1, <4>1, <4>2
    <3>3. idx' = 1 /\ UNCHANGED <<kind, localWire, globalWire, solutions, report>>
      BY DEF EndWalk
    <3> QED
      BY <2>1, <3>1, <3>2, <3>3 DEF ScalarsOK
  <2>3. ResultsOK' /\ rows' \in Seq(Row)
    BY <2>1 DEF EndWalk, ResultsOK
  <2> QED
    BY <2>2, <2>3, TypeStep DEF Inv, EndWalk
<1>3. kind \in Kinds
  BY DEF Inv, TypeOK
<1>4. Control'
  BY <1>1, <1>3 DEF EndWalk, Return, Inv, Control, Array, Walk, Final, Kinds
<1>5. Fresh'
  <2>1. \A k \in Kinds, c \in Cells : Untouched(k, c) => Untouched(k, c)'
    BY DEF Untouched, EndWalk
  <2>2. \A k \in Kinds, c \in Cells : c > cell => Untouched(k, c)
    BY DEF Inv, Fresh
  <2>3. /\ kind = "tag" => Untouched("data", cell)
        /\ limit[kind][cell] = NoLimit
    BY DEF Inv, Fresh, Array, EndWalk
  <2>4. CASE cell' = cell /\ phase' # "cell"
    BY <1>1, <2>1, <2>2, <2>3, <2>4 DEF Fresh, EndWalk, Kinds
  <2>5. CASE cell' = cell + 1 /\ phase' = "cell"
    BY <1>1, <2>1, <2>2, <2>5 DEF Fresh, Cells, Array
  <2> QED
    BY <2>4, <2>5 DEF EndWalk, Return
<1>6. CountedMeansFound'
  BY DEF Inv, CountedMeansFound, EndWalk, Return
<1>7. Rebuildable' /\ KeepsTheBest' /\ RespectsLimits'
  BY SameResults DEF EndWalk
<1> QED
  BY <1>2, <1>4, <1>5, <1>6, <1>7 DEF Inv, EndWalk

LEMMA EndRefineLocalInv == Inv /\ EndRefineLocal => Inv'
<1> SUFFICES ASSUME Inv, EndRefineLocal PROVE Inv'
  OBVIOUS
<1>1. /\ phase = "refineLocal" /\ phase' = "refineGlobal" /\ idx' = 1
      /\ UNCHANGED <<cfg, eval, kind, cell, localWire, globalWire, best, limit,
                     tried, solutions, total, rows, report>>
  BY DEF EndRefineLocal
<1>2. TypeOK'
  <2>1. ScalarsOK /\ ResultsOK /\ rows \in Seq(Row)
    BY TypeParts DEF Inv
  <2>2. ScalarsOK'
    BY <1>1, <2>1 DEF ScalarsOK, Phases
  <2>3. ResultsOK' /\ rows' \in Seq(Row)
    BY <1>1, <2>1 DEF ResultsOK
  <2> QED
    BY <1>1, <2>2, <2>3, TypeStep DEF Inv
<1>3. Control'
  BY <1>1 DEF Inv, Control, Array, Walk, Final
<1>4. Fresh'
  BY <1>1 DEF Inv, Fresh, Untouched, Array
<1>5. CountedMeansFound'
  BY <1>1 DEF Inv, CountedMeansFound
<1>6. Rebuildable' /\ KeepsTheBest' /\ RespectsLimits'
  BY <1>1, SameResults
<1> QED
  BY <1>1, <1>2, <1>3, <1>4, <1>5, <1>6 DEF Inv

LEMMA EndRefineGlobalInv == Inv /\ EndRefineGlobal => Inv'
<1> SUFFICES ASSUME Inv, EndRefineGlobal PROVE Inv'
  OBVIOUS
<1>1. /\ phase = "refineGlobal" /\ idx' = 1
      /\ UNCHANGED <<cfg, eval, cell, best, limit, tried, total, rows, report>>
      /\ \/ /\ kind = "tag" /\ kind' = "data" /\ phase' = "enumerate"
            /\ solutions' = 0
            /\ localWire' = BasicLocal["data"] /\ globalWire' = BasicGlobal["data"]
         \/ /\ kind # "tag" /\ phase' = "afterData"
            /\ UNCHANGED <<kind, solutions, localWire, globalWire>>
  BY DEF EndRefineGlobal, RestartCount, InitialBasicWire
<1>2. ScalarsOK /\ ResultsOK /\ rows \in Seq(Row)
  BY TypeParts DEF Inv
<1>3. TypeOK'
  <2>1. localWire \in Locals /\ globalWire \in Globals /\ solutions \in Nat
    BY <1>2 DEF ScalarsOK
  <2>2. localWire' \in Locals /\ globalWire' \in Globals /\ solutions' \in Nat
    BY <1>1, <2>1, WireAssumption DEF Kinds
  <2>3. phase' \in Phases /\ kind' \in Kinds
    BY <1>1, <1>2 DEF ScalarsOK, Phases, Kinds
  <2>4. ScalarsOK'
    BY <1>1, <1>2, <2>2, <2>3 DEF ScalarsOK
  <2>5. ResultsOK' /\ rows' \in Seq(Row)
    BY <1>1, <1>2 DEF ResultsOK
  <2> QED
    BY <1>1, <2>4, <2>5, TypeStep DEF Inv
<1>4. kind \in Kinds /\ cell \in Cells
  BY <1>1, <1>2 DEF ScalarsOK, Inv, Control, Array
<1>5. Control'
  BY <1>1, <1>4 DEF Inv, Control, Array, Walk, Final, Kinds
<1>6. /\ kind = "tag" => Untouched("data", cell)
      /\ limit[kind][cell] = NoLimit
  BY <1>1 DEF Inv, Fresh, Array
<1>7. Fresh'
  <2>1. \A k \in Kinds, c \in Cells : Untouched(k, c) => Untouched(k, c)'
    BY <1>1 DEF Untouched
  <2>2. \A k \in Kinds, c \in Cells : c > cell => Untouched(k, c)
    BY DEF Inv, Fresh
  <2>3. limit'[kind'][cell'] = NoLimit
    BY <1>1, <1>6 DEF Untouched
  <2> QED
    BY <1>1, <1>4, <2>1, <2>2, <2>3 DEF Fresh, Kinds
<1>8. CountedMeansFound'
  <2>1. CASE kind = "tag"
    BY <1>1, <1>4, <1>6, <2>1 DEF CountedMeansFound, Untouched
  <2>2. CASE kind # "tag"
    BY <1>1, <2>2 DEF Inv, CountedMeansFound
  <2> QED
    BY <2>1, <2>2
<1>9. Rebuildable' /\ KeepsTheBest' /\ RespectsLimits'
  BY <1>1, SameResults
<1> QED
  BY <1>1, <1>3, <1>5, <1>7, <1>8, <1>9 DEF Inv

LEMMA EndConstrainedInv == Inv /\ EndConstrained => Inv'
<1> SUFFICES ASSUME Inv, EndConstrained PROVE Inv'
  OBVIOUS
<1>1. /\ phase = "constrained" /\ phase' = "cell" /\ cell' = cell + 1
      /\ total' = total + solutions
      /\ UNCHANGED <<cfg, eval, kind, idx, localWire, globalWire, best, limit,
                     tried, solutions, rows, report>>
  BY DEF EndConstrained, Return
<1>2. cell \in 1..NumCells
  BY <1>1 DEF Inv, Control, Array, Cells
<1>3. ScalarsOK /\ ResultsOK /\ rows \in Seq(Row)
  BY TypeParts DEF Inv
<1>4. TypeOK'
  <2>1. cell' \in 1..NumCells + 1
    BY <1>1, <1>2
  <2>2. ScalarsOK'
    <3>1. total \in Nat /\ solutions \in Nat
      BY <1>3 DEF ScalarsOK
    <3>2. total' \in Nat
      BY <1>1, <3>1
    <3>3. phase' \in Phases
      BY <1>1 DEF Phases
    <3> QED
      BY <1>1, <1>3, <2>1, <3>2, <3>3 DEF ScalarsOK
  <2>3. ResultsOK' /\ rows' \in Seq(Row)
    BY <1>1, <1>3 DEF ResultsOK
  <2> QED
    BY <1>1, <2>2, <2>3, TypeStep DEF Inv
<1>5. Control'
  BY <1>1 DEF Inv, Control, Array, Walk, Final
<1>6. Fresh'
  <2>1. \A k \in Kinds, c \in Cells : Untouched(k, c) => Untouched(k, c)'
    BY <1>1 DEF Untouched
  <2>2. \A k \in Kinds, c \in Cells : c > cell => Untouched(k, c)
    BY DEF Inv, Fresh
  <2> QED
    BY <1>1, <1>2, <2>1, <2>2 DEF Fresh, Cells, Array
<1>7. CountedMeansFound'
  BY <1>1 DEF CountedMeansFound
<1>8. Rebuildable' /\ KeepsTheBest' /\ RespectsLimits'
  BY <1>1, SameResults
<1> QED
  BY <1>1, <1>4, <1>5, <1>6, <1>7, <1>8 DEF Inv

LEMMA FinalInv ==
  Inv /\ (EndCells \/ EndMerge \/ Report \/ UNCHANGED vars) => Inv'
<1> SUFFICES ASSUME Inv, EndCells \/ EndMerge \/ Report \/ UNCHANGED vars
             PROVE  Inv'
  OBVIOUS
<1>1. /\ UNCHANGED <<cfg, eval, kind, cell, localWire, globalWire, best, limit,
                     tried, solutions, total, rows>>
      /\ idx' = 2 \/ idx' = idx
      /\ report' \in {"file", "designs", "no solutions"} \/ report' = report
      /\ \/ phase = "cell" /\ cell > NumCells /\ phase' \in {"merge", "report"}
         \/ phase = "merge" /\ phase' = "report"
         \/ phase = "report" /\ phase' = "done"
         \/ phase' = phase
  BY DEF EndCells, EndMerge, Report, vars
<1>2. ScalarsOK /\ ResultsOK /\ rows \in Seq(Row)
  BY TypeParts DEF Inv
<1>3. TypeOK'
  <2>1. phase' \in Phases
    BY <1>1, <1>2 DEF ScalarsOK, Phases
  <2>2. ScalarsOK'
    <3>1. idx' \in Nat
      <4>1. idx' = 2 \/ idx' = idx
        BY <1>1
      <4>2. idx \in Nat
        BY <1>2 DEF ScalarsOK
      <4> QED
        BY <4>1, <4>2
    <3>2. report' \in {"nothing", "no solutions", "designs", "file"}
      BY <1>1, <1>2 DEF ScalarsOK
    <3> QED
      BY <1>1, <1>2, <2>1, <3>1, <3>2 DEF ScalarsOK
  <2>3. ResultsOK' /\ rows' \in Seq(Row)
    BY <1>1, <1>2 DEF ResultsOK
  <2> QED
    BY <1>1, <2>2, <2>3, TypeStep DEF Inv
<1>4. NumCells \in Nat /\ cell \in 1..NumCells + 1 /\ idx \in Nat
  BY <1>2 DEF ScalarsOK
<1>5. Control'
  <2>1. idx >= 1 /\ idx' >= 1
    <3>1. idx' = 2 \/ idx' = idx
      BY <1>1
    <3>2. idx >= 1
      BY DEF Inv, Control
    <3> QED
      BY <3>1, <3>2
  <2>2. cell > NumCells => cell = NumCells + 1
    BY <1>4
  <2>3. CASE phase' \in Final
    BY <1>1, <2>1, <2>2, <2>3 DEF Inv, Control, Array, Walk, Final
  <2>4. CASE phase' \notin Final
    BY <1>1, <2>1, <2>4 DEF Inv, Control, Array, Walk, Final
  <2> QED
    BY <2>3, <2>4
<1>6. Fresh'
  <2>1. \A k \in Kinds, c \in Cells : Untouched(k, c) <=> Untouched(k, c)'
    BY <1>1 DEF Untouched
  <2>2. phase' # "cell" \/ UNCHANGED phase
    BY <1>1
  <2>3. phase' \notin Array \/ UNCHANGED phase
    BY <1>1 DEF Array
  <2>4. Fresh
    BY DEF Inv
  <2>5. CASE UNCHANGED phase
    BY <1>1, <2>4, <2>5 DEF Fresh, Untouched
  <2>6. CASE ~UNCHANGED phase
    BY <1>1, <2>1, <2>2, <2>3, <2>4, <2>6 DEF Fresh
  <2> QED
    BY <2>5, <2>6
<1>7. CountedMeansFound'
  BY <1>1 DEF Inv, CountedMeansFound
<1>8. Rebuildable' /\ KeepsTheBest' /\ RespectsLimits'
  BY <1>1, SameResults
<1> QED
  BY <1>1, <1>3, <1>5, <1>6, <1>7, <1>8 DEF Inv

-----------------------------------------------------------------------------
(* The steps that offer results.                                            *)

LEMMA CostType ==
  ASSUME NEW r \in Result, NEW t \in Targets
  PROVE  r.cost[t] \in 0..Inf
BY DEF Result, Costs

(* Winners that only get better keep being at least as good as every        *)
(* organisation walked.                                                     *)
LEMMA KeepsOnBetter ==
  ASSUME TypeOK, KeepsTheBest, UNCHANGED <<eval, limit, tried>>,
         best' \in [Kinds -> [Cells -> [Targets -> Result]]],
         \A c \in Cells, t \in Targets :
           best'["data"][c][t].cost[t] <= best["data"][c][t].cost[t]
  PROVE  KeepsTheBest'
<1> SUFFICES ASSUME NEW c \in Cells, NEW t \in Targets,
                    NEW o \in 1..tried["data"][c], Eligible(c, o)
             PROVE  best'["data"][c][t].cost[t] <=
                      Basic(c, o).cost[t]
  BY DEF KeepsTheBest, Eligible, Basic, Within, Calculate
<1>1. best["data"][c][t].cost[t] <=
        Basic(c, o).cost[t]
  BY DEF KeepsTheBest
<1>2. best["data"][c][t] \in Result /\ best'["data"][c][t] \in Result
  BY TypeParts DEF ResultsOK, Kinds
<1>3. best["data"][c][t].cost[t] \in 0..Inf /\ best'["data"][c][t].cost[t] \in 0..Inf
  BY <1>2, CostType
<1>4. o \in Orgs
  <2>1. tried["data"][c] \in 0..NumOrgs
    BY TypeParts DEF ResultsOK, Kinds
  <2> QED
    BY <2>1 DEF Orgs
<1>5. Basic(c, o) \in Evaluation
  BY <1>4, WireAssumption DEF TypeOK, Basic, Calculate, Kinds
<1>6. Basic(c, o).cost[t] \in Int
  BY <1>5 DEF Evaluation, Costs
<1> QED
  BY <1>1, <1>3, <1>6

(* One organisation more has been walked: it is enough that the winners are *)
(* no worse than before and, if it was eligible, than the new one.          *)
LEMMA KeepsOnWalk ==
  ASSUME TypeOK, KeepsTheBest, UNCHANGED <<eval, limit>>,
         NEW k \in Kinds, NEW d \in Cells, NEW p \in Orgs,
         p = tried[k][d] + 1, tried' = [tried EXCEPT ![k][d] = p],
         best' \in [Kinds -> [Cells -> [Targets -> Result]]],
         \A c \in Cells, t \in Targets :
           best'["data"][c][t].cost[t] <= best["data"][c][t].cost[t],
         k = "data" /\ Eligible(d, p) =>
           \A t \in Targets : best'["data"][d][t].cost[t] <=
             Basic(d, p).cost[t]
  PROVE  /\ KeepsTheBest'
         /\ tried' \in [Kinds -> [Cells -> 0..NumOrgs]]
<1>1. tried \in [Kinds -> [Cells -> 0..NumOrgs]] /\ p \in 0..NumOrgs
  BY TypeParts DEF ResultsOK, Orgs
<1>2. tried' \in [Kinds -> [Cells -> 0..NumOrgs]]
  BY <1>1
<1>3. \A c \in Cells : tried'["data"][c] =
        IF k = "data" /\ c = d THEN p ELSE tried["data"][c]
  BY <1>1 DEF Kinds
<1>4. KeepsTheBest'
  <2> SUFFICES ASSUME NEW c \in Cells, NEW t \in Targets,
                      NEW o \in 1..tried'["data"][c], Eligible(c, o)
               PROVE  best'["data"][c][t].cost[t] <=
                        Basic(c, o).cost[t]
    BY DEF KeepsTheBest, Eligible, Basic, Within, Calculate
  <2>1. CASE k = "data" /\ c = d /\ o = p
    BY <2>1
  <2>2. CASE ~(k = "data" /\ c = d /\ o = p)
    <3>1. o \in 1..tried["data"][c] /\ o \in Orgs
      <4>1. tried["data"][c] \in 0..NumOrgs
        <5>1. "data" \in Kinds
          BY DEF Kinds
        <5>2. tried["data"] \in [Cells -> 0..NumOrgs]
          BY <1>1, <5>1
        <5> QED
          BY <5>2
      <4>2. p \in 1..NumOrgs /\ NumOrgs \in Nat
        BY DEF Orgs
      <4>3. CASE k = "data" /\ c = d
        <5>1. o \in 1..p /\ o # p /\ p = tried["data"][c] + 1
          BY <1>3, <2>2, <4>3
        <5> QED
          BY <4>1, <4>2, <5>1 DEF Orgs
      <4>4. CASE ~(k = "data" /\ c = d)
        BY <1>3, <4>1, <4>2, <4>4 DEF Orgs
      <4> QED
        BY <4>3, <4>4
    <3>2. best["data"][c][t].cost[t] <=
            Basic(c, o).cost[t]
      BY <3>1 DEF KeepsTheBest
    <3>3. best["data"][c][t] \in Result /\ best'["data"][c][t] \in Result
      BY TypeParts DEF ResultsOK, Kinds
    <3>4. /\ best["data"][c][t].cost[t] \in 0..Inf
          /\ best'["data"][c][t].cost[t] \in 0..Inf
      BY <3>3, CostType
    <3>5. Basic(c, o) \in Evaluation
      BY <3>1, WireAssumption DEF TypeOK, Basic, Calculate, Kinds
    <3>6. Basic(c, o).cost[t] \in Int
      BY <3>5 DEF Evaluation, Costs
    <3>7. best'["data"][c][t].cost[t] <= best["data"][c][t].cost[t]
      OBVIOUS
    <3> QED
      BY <3>2, <3>4, <3>6, <3>7
  <2> QED
    BY <2>1, <2>2
<1> QED
  BY <1>2, <1>4

LEMMA OutputType ==
  ASSUME rows \in Seq(Row), NEW r \in Result, OutputToFile(r)
  PROVE  rows' \in Seq(Row)
<1>1. RowOf(r) \in Row
  BY DEF RowOf, Row, Result
<1> QED
  BY <1>1 DEF OutputToFile

(* A valid bank that respects the limits is finite for every target.        *)
LEMMA ValidIsFinite ==
  ASSUME TypeOK, eval \in EvalTables, NEW k \in Kinds, NEW c \in Cells,
         NEW o \in Orgs, NEW l \in Locals, NEW g \in Globals,
         ~Calculate(k, c, o, l, g).invalid
  PROVE  \A t \in Targets : Calculate(k, c, o, l, g).cost[t] < Inf
<1>1. /\ <<k, c, o, l, g>> \in Kinds \X Cells \X Orgs \X Locals \X Globals
      /\ DOMAIN eval = Kinds \X Cells \X Orgs \X Locals \X Globals
  BY DEF TypeOK
<1> QED
  BY <1>1, FiniteAssumption DEF Calculate

LEMMA TryOrganisationInv == Inv /\ TryOrganisation => Inv'
<1> SUFFICES ASSUME Inv, TryOrganisation PROVE Inv'
  OBVIOUS
<1> DEFINE o   == tried[kind][cell] + 1
           new == TempResult(kind, cell, o, localWire, globalWire)
           accepted == /\ ~new.invalid
                       /\ phase = "constrained" => Within(new.cost, limit[kind][cell])
<1>1. ScalarsOK /\ ResultsOK /\ rows \in Seq(Row)
  BY TypeParts DEF Inv
<1>2. /\ phase \in Walk /\ tried[kind][cell] < NumOrgs
      /\ UNCHANGED <<cfg, eval, kind, cell, idx, localWire, globalWire, limit,
                     total, report>>
      /\ \/ phase' = "aborted" /\ UNCHANGED <<best, tried, solutions, rows>>
         \/ /\ phase' = phase
            /\ tried' = [tried EXCEPT ![kind][cell] = o]
            /\ \/ /\ accepted
                  /\ best' = [best EXCEPT ![kind][cell] =
                                UpdateBest(best[kind][cell], limit[kind][cell], new)]
                  /\ solutions' = solutions + 1
                  /\ OutputToFile(new)
               \/ ~accepted /\ UNCHANGED <<best, solutions, rows>>
  BY DEF TryOrganisation, Walk
<1>3. /\ kind \in Kinds /\ cell \in Cells
      /\ localWire = BasicLocal[kind] /\ globalWire = BasicGlobal[kind]
      /\ localWire \in Locals /\ globalWire \in Globals
  BY <1>1, <1>2 DEF ScalarsOK, Inv, Control, Array, Walk
<1>4. tried[kind][cell] \in 0..NumOrgs /\ o \in Orgs /\ o \in 1..NumOrgs
  <2>1. tried[kind][cell] \in 0..NumOrgs
    BY <1>1, <1>3 DEF ResultsOK
  <2> QED
    BY <1>2, <2>1 DEF Orgs
<1>5. /\ new \in Result /\ new.org = o
      /\ new.cost = Calculate(kind, cell, o, localWire, globalWire).cost
      /\ new.invalid = Calculate(kind, cell, o, localWire, globalWire).invalid
  BY <1>3, <1>4, TempResultType DEF Inv
<1> HIDE DEF o, new
<1>6. CASE phase' = "aborted" /\ UNCHANGED <<best, tried, solutions, rows>>
  <2>1. TypeOK'
    <3>1. ScalarsOK'
      BY <1>1, <1>2, <1>6 DEF ScalarsOK, Phases
    <3>2. ResultsOK' /\ rows' \in Seq(Row)
      BY <1>1, <1>2, <1>6 DEF ResultsOK
    <3> QED
      BY <1>2, <3>1, <3>2, TypeStep DEF Inv
  <2>2. Control'
    BY <1>2, <1>6 DEF Inv, Control, Array, Walk, Final
  <2>3. Fresh'
    BY <1>2, <1>6 DEF Inv, Fresh, Untouched, Array
  <2>4. CountedMeansFound'
    BY <1>6 DEF CountedMeansFound
  <2>5. Rebuildable' /\ KeepsTheBest' /\ RespectsLimits'
    BY <1>2, <1>6, SameResults
  <2> QED
    BY <1>2, <2>1, <2>2, <2>3, <2>4, <2>5 DEF Inv
<1>7. CASE /\ phase' = phase /\ tried' = [tried EXCEPT ![kind][cell] = o]
           /\ accepted /\ solutions' = solutions + 1 /\ OutputToFile(new)
           /\ best' = [best EXCEPT ![kind][cell] =
                         UpdateBest(best[kind][cell], limit[kind][cell], new)]
  <2> DEFINE offered == [t \in Targets |-> new]
  <2>1. /\ offered \in [Targets -> Result]
        /\ \A t \in Targets : offered[t].org \in Orgs
    BY <1>4, <1>5
  <2>2. best' = Offered(kind, cell, offered)
    BY <1>7 DEF UpdateBest, Offered
  <2>3. /\ best' \in [Kinds -> [Cells -> [Targets -> Result]]]
        /\ \A k \in Kinds, c \in Cells :
             k # kind \/ c # cell => best'[k][c] = best[k][c]
        /\ \A k \in Kinds, c \in Cells, t \in Targets :
             best'[k][c][t].cost[t] <= best[k][c][t].cost[t]
        /\ \A t \in Targets : Within(new.cost, limit[kind][cell]) =>
             best'[kind][cell][t].cost[t] <= new.cost[t]
        /\ Rebuildable' /\ RespectsLimits'
    <3> HIDE DEF offered
    <3>1. limit' = limit /\ kind \in Kinds /\ cell \in Cells
      BY <1>2, <1>3
    <3>2. TypeOK /\ Rebuildable /\ RespectsLimits
      BY DEF Inv
    <3>3. /\ best' \in [Kinds -> [Cells -> [Targets -> Result]]]
          /\ \A k \in Kinds, c \in Cells :
               k # kind \/ c # cell => best'[k][c] = best[k][c]
          /\ \A k \in Kinds, c \in Cells, t \in Targets :
               best'[k][c][t].cost[t] <= best[k][c][t].cost[t]
          /\ \A t \in Targets : Within(offered[t].cost, limit[kind][cell]) =>
               best'[kind][cell][t].cost[t] <= offered[t].cost[t]
          /\ Rebuildable' /\ RespectsLimits'
      BY <2>1, <2>2, <3>1, <3>2, Offer
    <3> QED
      BY <3>3 DEF offered
  <2>4. Within(new.cost, limit[kind][cell])
    <3>1. CASE phase = "constrained"
      BY <1>7, <3>1
    <3>2. CASE phase = "enumerate"
      <4>1. limit[kind][cell] = NoLimit
        BY <3>2 DEF Inv, Fresh, Array
      <4>2. \A t \in Targets : new.cost[t] \in 0..Inf
        BY <1>5, CostType
      <4> QED
        BY <4>1, <4>2 DEF Within, NoLimit
    <3> QED
      BY <1>2, <3>1, <3>2 DEF Walk
  <2>5. \A t \in Targets : new.cost[t] < Inf
    BY <1>3, <1>4, <1>5, <1>7, ValidIsFinite DEF Inv
  <2>6. KeepsTheBest' /\ tried' \in [Kinds -> [Cells -> 0..NumOrgs]]
    <3>1. kind = "data" /\ Eligible(cell, o) =>
            \A t \in Targets : best'["data"][cell][t].cost[t] <=
              Basic(cell, o).cost[t]
      BY <1>3, <1>5, <2>3, <2>4 DEF Basic
    <3>2. o = tried[kind][cell] + 1
      BY DEF o
    <3>3. "data" \in Kinds
      BY DEF Kinds
    <3> QED
      BY <1>2, <1>3, <1>4, <1>7, <2>3, <3>1, <3>2, <3>3, KeepsOnWalk DEF Inv
  <2>7. TypeOK'
    <3>1. rows' \in Seq(Row)
      BY <1>1, <1>5, <1>7, OutputType
    <3>2. solutions \in Nat
      BY <1>1 DEF ScalarsOK
    <3>3. solutions' \in Nat
      BY <1>7, <3>2
    <3>4. ScalarsOK'
      BY <1>1, <1>2, <1>7, <3>3 DEF ScalarsOK
    <3>5. ResultsOK'
      BY <1>1, <1>2, <2>3, <2>6 DEF ResultsOK
    <3> QED
      BY <1>2, <3>1, <3>4, <3>5, TypeStep DEF Inv
  <2>8. Control'
    <3>1. phase' \notin {"refineLocal", "refineGlobal"}
      BY <1>2, <1>7 DEF Walk
    <3> QED
      BY <1>2, <1>7, <3>1 DEF Inv, Control
  <2>9. Fresh'
    <3>1. \A k \in Kinds, c \in Cells : k # kind \/ c # cell =>
            (Untouched(k, c) => Untouched(k, c)')
      BY <1>2, <2>3 DEF Untouched
    <3>2. \A k \in Kinds, c \in Cells : c > cell => Untouched(k, c) /\ c # cell
      BY <1>3 DEF Inv, Fresh, Cells
    <3>3. phase' # "cell"
      BY <1>2, <1>7 DEF Walk
    <3>4. /\ kind = "tag" => Untouched("data", cell)
          /\ phase \in Array \ {"constrained"} => limit[kind][cell] = NoLimit
      BY <1>2 DEF Inv, Fresh, Array, Walk
    <3> QED
      BY <1>2, <1>3, <1>7, <3>1, <3>2, <3>3, <3>4 DEF Fresh, Kinds
  <2>10. CountedMeansFound'
    <3>1. solutions \in Nat
      BY <1>1 DEF ScalarsOK
    <3>2. solutions' > 0
      BY <1>7, <3>1
    <3>3. \A t \in Targets : best'[kind][cell][t].cost[t] < Inf
      <4> TAKE t \in Targets
      <4>1. best'[kind][cell][t] \in Result
        BY <1>3, <2>3
      <4>2. best'[kind][cell][t].cost[t] \in 0..Inf /\ new.cost[t] \in 0..Inf
        BY <1>5, <4>1, CostType
      <4>3. best'[kind][cell][t].cost[t] <= new.cost[t] /\ new.cost[t] < Inf
        BY <2>3, <2>4, <2>5
      <4> QED
        BY <4>2, <4>3
    <3> QED
      BY <1>2, <3>2, <3>3 DEF CountedMeansFound
  <2> QED
    BY <1>2, <2>3, <2>6, <2>7, <2>8, <2>9, <2>10 DEF Inv
<1>8. CASE /\ phase' = phase /\ tried' = [tried EXCEPT ![kind][cell] = o]
           /\ ~accepted /\ UNCHANGED <<best, solutions, rows>>
  <2>1. KeepsTheBest' /\ tried' \in [Kinds -> [Cells -> 0..NumOrgs]]
    <3>1. ~(kind = "data" /\ Eligible(cell, o))
      BY <1>3, <1>5, <1>8 DEF Eligible, Basic
    <3>2. best' \in [Kinds -> [Cells -> [Targets -> Result]]]
      BY <1>1, <1>8 DEF ResultsOK
    <3>3. \A c \in Cells, t \in Targets :
            best'["data"][c][t].cost[t] <= best["data"][c][t].cost[t]
      <4> TAKE c \in Cells, t \in Targets
      <4>1. best["data"][c][t] \in Result
        BY <1>1 DEF ResultsOK, Kinds
      <4>2. best["data"][c][t].cost[t] \in 0..Inf
        BY <4>1, CostType
      <4> QED
        BY <1>8, <4>2
    <3>4. o = tried[kind][cell] + 1
      BY DEF o
    <3> QED
      BY <1>2, <1>3, <1>4, <1>8, <3>1, <3>2, <3>3, <3>4, KeepsOnWalk DEF Inv
  <2>2. TypeOK'
    <3>1. ScalarsOK'
      BY <1>1, <1>2, <1>8 DEF ScalarsOK
    <3>2. ResultsOK' /\ rows' \in Seq(Row)
      BY <1>1, <1>2, <1>8, <2>1 DEF ResultsOK
    <3> QED
      BY <1>2, <3>1, <3>2, TypeStep DEF Inv
  <2>3. Control'
    BY <1>2, <1>8 DEF Inv, Control
  <2>4. Fresh'
    BY <1>2, <1>8 DEF Inv, Fresh, Untouched
  <2>5. CountedMeansFound'
    BY <1>2, <1>8 DEF Inv, CountedMeansFound
  <2>6. Rebuildable' /\ RespectsLimits'
    BY <1>2, <1>8 DEF Inv, Rebuildable, RespectsLimits, Found, Within
  <2> QED
    BY <1>2, <2>1, <2>2, <2>3, <2>4, <2>5, <2>6 DEF Inv
<1> QED
  BY <1>2, <1>6, <1>7, <1>8

LEMMA RefineLocalInv == Inv /\ RefineLocal => Inv'
<1> SUFFICES ASSUME Inv, RefineLocal PROVE Inv'
  OBVIOUS
<1> DEFINE old == best[kind][cell]
           trial == [t \in Targets |-> TrialLocal(old[t], idx)]
<1>1. /\ phase = "refineLocal" /\ idx <= NumLocal /\ idx' = idx + 1
      /\ best' = [best EXCEPT ![kind][cell] =
                    [t \in Targets |-> compareAndUpdate(old[t],
                       limit[kind][cell], t, trial[t])]]
      /\ localWire' = idx /\ globalWire' = old[NumTargets].global
      /\ OutputToFile(trial[NumTargets])
      /\ UNCHANGED <<cfg, eval, phase, kind, cell, limit, tried, solutions,
                     total, report>>
  <2>1. /\ phase = "refineLocal" /\ idx <= NumLocal /\ idx' = idx + 1
        /\ localWire' = idx /\ globalWire' = old[NumTargets].global
        /\ UNCHANGED <<cfg, eval, phase, kind, cell, limit, tried, solutions,
                       total, report>>
    BY DEF RefineLocal
  <2>2. best' = [best EXCEPT ![kind][cell] =
                  [t \in Targets |-> compareAndUpdate(old[t],
                     limit[kind][cell], t, TrialLocal(old[t], idx))]]
    BY DEF RefineLocal
  <2>3. [t \in Targets |-> compareAndUpdate(old[t], limit[kind][cell], t,
                              TrialLocal(old[t], idx))]
          = [t \in Targets |-> compareAndUpdate(old[t], limit[kind][cell], t,
                                               trial[t])]
    OBVIOUS
  <2>4. NumTargets \in Targets
    OBVIOUS
  <2>5. OutputToFile(TrialLocal(old[NumTargets], idx))
    BY DEF RefineLocal
  <2>6. trial[NumTargets] = TrialLocal(old[NumTargets], idx)
    BY <2>4
  <2>7. OutputToFile(trial[NumTargets])
    BY <2>5, <2>6
  <2> HIDE DEF trial
  <2> QED
    BY <2>1, <2>2, <2>3, <2>7
<1>2. ScalarsOK /\ ResultsOK /\ rows \in Seq(Row)
  BY TypeParts DEF Inv
<1>3. kind \in Kinds /\ cell \in Cells /\ idx \in Locals /\ idx \in Nat
  <2>1. idx \in Nat /\ kind \in Kinds
    BY <1>2 DEF ScalarsOK
  <2>2. idx >= 1 /\ cell \in Cells
    BY <1>1 DEF Inv, Control, Array
  <2> QED
    BY <1>1, <2>1, <2>2 DEF Locals
<1>4. \A t \in Targets : old[t] \in Result /\ old[t].cost[t] < Inf
                         /\ old[t].org \in Orgs
  <2> TAKE t \in Targets
  <2>1. old[t] \in Result
    BY <1>2, <1>3 DEF ResultsOK
  <2>2. old[t].cost[t] < Inf
    BY <1>1 DEF Inv, Control, CountedMeansFound
  <2> QED
    BY <1>3, <2>1, <2>2 DEF Inv, Rebuildable
<1>5. trial \in [Targets -> Result] /\ \A t \in Targets : trial[t].org \in Orgs
  <2> SUFFICES ASSUME NEW t \in Targets
               PROVE  TrialLocal(old[t], idx) \in Result
                      /\ TrialLocal(old[t], idx).org \in Orgs
    OBVIOUS
  <2>1. old[t].local \in Locals /\ old[t].global \in Globals /\ old[t].org \in Orgs
    BY <1>4 DEF Result
  <2> HIDE DEF old
  <2> QED
    BY <1>3, <2>1, TempResultType DEF Inv, TrialLocal
<1> HIDE DEF old, trial
<1>6. /\ best' \in [Kinds -> [Cells -> [Targets -> Result]]]
      /\ \A k \in Kinds, c \in Cells :
           k # kind \/ c # cell => best'[k][c] = best[k][c]
      /\ \A k \in Kinds, c \in Cells, t \in Targets :
           best'[k][c][t].cost[t] <= best[k][c][t].cost[t]
      /\ Rebuildable' /\ RespectsLimits'
  <2>1. best' = Offered(kind, cell, trial)
    BY <1>1 DEF old, Offered
  <2>2. limit' = limit /\ TypeOK /\ Rebuildable /\ RespectsLimits
    BY <1>1 DEF Inv
  <2> QED
    BY <1>3, <1>5, <2>1, <2>2, Offer
<1>7. KeepsTheBest'
  <2>1. "data" \in Kinds
    BY DEF Kinds
  <2> QED
    BY <1>1, <1>6, <2>1, KeepsOnBetter DEF Inv
<1>8. TypeOK'
  <2>1. NumTargets \in Targets
    OBVIOUS
  <2>2. old[NumTargets].local \in Locals /\ old[NumTargets].global \in Globals
    BY <1>4, <2>1 DEF Result
  <2>3. localWire' \in Locals /\ globalWire' \in Globals /\ idx' \in Nat
    BY <1>1, <1>3, <2>2
  <2>4. ScalarsOK'
    BY <1>1, <1>2, <2>3 DEF ScalarsOK
  <2>5. ResultsOK'
    BY <1>1, <1>2, <1>6 DEF ResultsOK
  <2>6. rows' \in Seq(Row)
    BY <1>1, <1>2, <1>5, <2>1, OutputType
  <2> QED
    BY <1>1, <2>4, <2>5, <2>6, TypeStep DEF Inv
<1>9. Control'
  BY <1>1, <1>3 DEF Inv, Control, Walk
<1>10. Fresh'
  <2>1. \A k \in Kinds, c \in Cells : k # kind \/ c # cell =>
          (Untouched(k, c) => Untouched(k, c)')
    BY <1>1, <1>6 DEF Untouched
  <2>2. \A k \in Kinds, c \in Cells : c > cell => Untouched(k, c) /\ c # cell
    BY <1>3 DEF Inv, Fresh, Cells
  <2>3. /\ kind = "tag" => Untouched("data", cell)
        /\ limit[kind][cell] = NoLimit
    BY <1>1 DEF Inv, Fresh, Array
  <2> QED
    BY <1>1, <1>3, <2>1, <2>2, <2>3 DEF Fresh, Kinds
<1>11. CountedMeansFound'
  <2>1. \A t \in Targets : best'[kind][cell][t].cost[t] < Inf
    <3> TAKE t \in Targets
    <3>1. best'[kind][cell][t] \in Result
      BY <1>3, <1>6
    <3>2. best'[kind][cell][t].cost[t] \in 0..Inf /\ old[t].cost[t] \in 0..Inf
      BY <1>4, <3>1, CostType
    <3>3. best'[kind][cell][t].cost[t] <= old[t].cost[t] /\ old[t].cost[t] < Inf
      BY <1>3, <1>4, <1>6 DEF old
    <3> QED
      BY <3>2, <3>3
  <2>2. solutions > 0
    BY <1>1 DEF Inv, Control
  <2> QED
    BY <1>1, <2>1, <2>2 DEF CountedMeansFound
<1> QED
  BY <1>1, <1>6, <1>7, <1>8, <1>9, <1>10, <1>11 DEF Inv

LEMMA RefineGlobalInv == Inv /\ RefineGlobal => Inv'
<1> SUFFICES ASSUME Inv, RefineGlobal PROVE Inv'
  OBVIOUS
<1> DEFINE old == best[kind][cell]
           trial == [t \in Targets |-> TrialGlobal(old[t], idx)]
<1>1. /\ phase = "refineGlobal" /\ idx <= NumGlobal /\ idx' = idx + 1
      /\ best' = [best EXCEPT ![kind][cell] =
                    [t \in Targets |-> compareAndUpdate(old[t],
                       limit[kind][cell], t, trial[t])]]
      /\ localWire' = old[NumTargets].local /\ globalWire' = idx
      /\ OutputToFile(trial[NumTargets])
      /\ UNCHANGED <<cfg, eval, phase, kind, cell, limit, tried, solutions,
                     total, report>>
  <2>1. /\ phase = "refineGlobal" /\ idx <= NumGlobal /\ idx' = idx + 1
        /\ localWire' = old[NumTargets].local /\ globalWire' = idx
        /\ UNCHANGED <<cfg, eval, phase, kind, cell, limit, tried, solutions,
                       total, report>>
    BY DEF RefineGlobal
  <2>2. best' = [best EXCEPT ![kind][cell] =
                  [t \in Targets |-> compareAndUpdate(old[t],
                     limit[kind][cell], t, TrialGlobal(old[t], idx))]]
    BY DEF RefineGlobal
  <2>3. [t \in Targets |-> compareAndUpdate(old[t], limit[kind][cell], t,
                              TrialGlobal(old[t], idx))]
          = [t \in Targets |-> compareAndUpdate(old[t], limit[kind][cell], t,
                                               trial[t])]
    OBVIOUS
  <2>4. NumTargets \in Targets
    OBVIOUS
  <2>5. OutputToFile(TrialGlobal(old[NumTargets], idx))
    BY DEF RefineGlobal
  <2>6. trial[NumTargets] = TrialGlobal(old[NumTargets], idx)
    BY <2>4
  <2>7. OutputToFile(trial[NumTargets])
    BY <2>5, <2>6
  <2> HIDE DEF trial
  <2> QED
    BY <2>1, <2>2, <2>3, <2>7
<1>2. ScalarsOK /\ ResultsOK /\ rows \in Seq(Row)
  BY TypeParts DEF Inv
<1>3. kind \in Kinds /\ cell \in Cells /\ idx \in Globals /\ idx \in Nat
  <2>1. idx \in Nat /\ kind \in Kinds
    BY <1>2 DEF ScalarsOK
  <2>2. idx >= 1 /\ cell \in Cells
    BY <1>1 DEF Inv, Control, Array
  <2> QED
    BY <1>1, <2>1, <2>2 DEF Globals
<1>4. \A t \in Targets : old[t] \in Result /\ old[t].cost[t] < Inf
                         /\ old[t].org \in Orgs
  <2> TAKE t \in Targets
  <2>1. old[t] \in Result
    BY <1>2, <1>3 DEF ResultsOK
  <2>2. old[t].cost[t] < Inf
    BY <1>1 DEF Inv, Control, CountedMeansFound
  <2> QED
    BY <1>3, <2>1, <2>2 DEF Inv, Rebuildable
<1>5. trial \in [Targets -> Result] /\ \A t \in Targets : trial[t].org \in Orgs
  <2> SUFFICES ASSUME NEW t \in Targets
               PROVE  TrialGlobal(old[t], idx) \in Result
                      /\ TrialGlobal(old[t], idx).org \in Orgs
    OBVIOUS
  <2>1. old[t].local \in Locals /\ old[t].global \in Globals /\ old[t].org \in Orgs
    BY <1>4 DEF Result
  <2> HIDE DEF old
  <2> QED
    BY <1>3, <2>1, TempResultType DEF Inv, TrialGlobal
<1> HIDE DEF old, trial
<1>6. /\ best' \in [Kinds -> [Cells -> [Targets -> Result]]]
      /\ \A k \in Kinds, c \in Cells :
           k # kind \/ c # cell => best'[k][c] = best[k][c]
      /\ \A k \in Kinds, c \in Cells, t \in Targets :
           best'[k][c][t].cost[t] <= best[k][c][t].cost[t]
      /\ Rebuildable' /\ RespectsLimits'
  <2>1. best' = Offered(kind, cell, trial)
    BY <1>1 DEF old, Offered
  <2>2. limit' = limit /\ TypeOK /\ Rebuildable /\ RespectsLimits
    BY <1>1 DEF Inv
  <2> QED
    BY <1>3, <1>5, <2>1, <2>2, Offer
<1>7. KeepsTheBest'
  <2>1. "data" \in Kinds
    BY DEF Kinds
  <2> QED
    BY <1>1, <1>6, <2>1, KeepsOnBetter DEF Inv
<1>8. TypeOK'
  <2>1. NumTargets \in Targets
    OBVIOUS
  <2>2. old[NumTargets].local \in Locals /\ old[NumTargets].global \in Globals
    BY <1>4, <2>1 DEF Result
  <2>3. localWire' \in Locals /\ globalWire' \in Globals /\ idx' \in Nat
    BY <1>1, <1>3, <2>2
  <2>4. ScalarsOK'
    BY <1>1, <1>2, <2>3 DEF ScalarsOK
  <2>5. ResultsOK'
    BY <1>1, <1>2, <1>6 DEF ResultsOK
  <2>6. rows' \in Seq(Row)
    BY <1>1, <1>2, <1>5, <2>1, OutputType
  <2> QED
    BY <1>1, <2>4, <2>5, <2>6, TypeStep DEF Inv
<1>9. Control'
  BY <1>1, <1>3 DEF Inv, Control, Walk
<1>10. Fresh'
  <2>1. \A k \in Kinds, c \in Cells : k # kind \/ c # cell =>
          (Untouched(k, c) => Untouched(k, c)')
    BY <1>1, <1>6 DEF Untouched
  <2>2. \A k \in Kinds, c \in Cells : c > cell => Untouched(k, c) /\ c # cell
    BY <1>3 DEF Inv, Fresh, Cells
  <2>3. /\ kind = "tag" => Untouched("data", cell)
        /\ limit[kind][cell] = NoLimit
    BY <1>1 DEF Inv, Fresh, Array
  <2> QED
    BY <1>1, <1>3, <2>1, <2>2, <2>3 DEF Fresh, Kinds
<1>11. CountedMeansFound'
  <2>1. \A t \in Targets : best'[kind][cell][t].cost[t] < Inf
    <3> TAKE t \in Targets
    <3>1. best'[kind][cell][t] \in Result
      BY <1>3, <1>6
    <3>2. best'[kind][cell][t].cost[t] \in 0..Inf /\ old[t].cost[t] \in 0..Inf
      BY <1>4, <3>1, CostType
    <3>3. best'[kind][cell][t].cost[t] <= old[t].cost[t] /\ old[t].cost[t] < Inf
      BY <1>3, <1>4, <1>6 DEF old
    <3> QED
      BY <3>2, <3>3
  <2>2. solutions > 0
    BY <1>1 DEF Inv, Control
  <2> QED
    BY <1>1, <2>1, <2>2 DEF CountedMeansFound
<1> QED
  BY <1>1, <1>6, <1>7, <1>8, <1>9, <1>10, <1>11 DEF Inv

-----------------------------------------------------------------------------
(* The limits derived from the winners, and the merge of the cells.         *)

LEMMA AfterDataInv == Inv /\ AfterData => Inv'
<1> SUFFICES ASSUME Inv, AfterData PROVE Inv'
  OBVIOUS
<1> DEFINE bound == [t \in Targets |-> Allowed(best["data"][cell], t)]
           cleared == [t \in Targets |-> reset(best["data"][cell][t])]
<1>1. ScalarsOK /\ ResultsOK /\ rows \in Seq(Row)
  BY TypeParts DEF Inv
<1>2. /\ phase = "afterData" /\ kind = "data" /\ cell \in Cells
      /\ "data" \in Kinds /\ UNCHANGED <<cfg, eval, kind, idx, report>>
  BY DEF AfterData, Inv, Control, Array, Kinds
<1>3. cell \in 1..NumCells
  BY <1>2 DEF Cells
<1>4. \/ /\ limit' = [limit EXCEPT !["data"][cell] = bound]
         /\ best' = [best EXCEPT !["data"][cell] = cleared]
         /\ tried' = [tried EXCEPT !["data"][cell] = 0]
         /\ solutions' = 0
         /\ localWire' = BasicLocal["data"] /\ globalWire' = BasicGlobal["data"]
         /\ phase' = "constrained"
         /\ UNCHANGED <<cell, total>>
      \/ /\ phase' = "cell" /\ cell' = cell + 1 /\ total' = total + solutions
         /\ UNCHANGED <<best, limit, tried, solutions, localWire, globalWire>>
  BY DEF AfterData, RestartCount, InitialBasicWire, Return
<1>5. \A t \in Targets : best["data"][cell][t] \in Result
  BY <1>1, <1>2 DEF ResultsOK
<1>6. rows' \in Seq(Row)
  <2>1. [t \in Targets |-> RowOf(best["data"][cell][t])] \in Seq(Row)
    <3> SUFFICES ASSUME NEW t \in Targets
                 PROVE  RowOf(best["data"][cell][t]) \in Row
      OBVIOUS
    <3>1. best["data"][cell][t] \in Result
      BY <1>5
    <3> QED
      BY <3>1 DEF RowOf, Row, Result
  <2>2. \/ rows' = rows \o [t \in Targets |-> RowOf(best["data"][cell][t])]
        \/ rows' = rows
    BY DEF AfterData
  <2> DEFINE winners == [t \in Targets |-> RowOf(best["data"][cell][t])]
  <2>3. winners \in Seq(Row) /\ (rows' = rows \o winners \/ rows' = rows)
    BY <2>1, <2>2
  <2> HIDE DEF winners
  <2>4. rows \in Seq(Row)
    BY <1>1
  <2>5. rows \o winners \in Seq(Row)
    BY <2>3, <2>4
  <2> QED
    BY <2>3, <2>4, <2>5
<1>7. \A k \in Kinds, c \in Cells : c > cell => Untouched(k, c)
  BY DEF Inv, Fresh
<1>8. CASE phase' = "cell"
  <2>1. /\ cell' = cell + 1 /\ total' = total + solutions
        /\ UNCHANGED <<best, limit, tried, solutions, localWire, globalWire>>
    BY <1>4, <1>8
  <2>2. TypeOK'
    <3>1. total \in Nat /\ solutions \in Nat
      BY <1>1 DEF ScalarsOK
    <3>2. total' \in Nat /\ cell' \in 1..NumCells + 1
      BY <1>3, <2>1, <3>1
    <3>3. phase' \in Phases
      BY <1>8 DEF Phases
    <3>4. ScalarsOK'
      BY <1>1, <1>2, <2>1, <3>2, <3>3 DEF ScalarsOK
    <3>5. ResultsOK'
      BY <1>1, <2>1 DEF ResultsOK
    <3> QED
      BY <1>2, <1>6, <3>4, <3>5, TypeStep DEF Inv
  <2>3. Control'
    BY <1>2, <1>8 DEF Inv, Control, Array, Walk, Final
  <2>4. Fresh'
    <3>1. \A k \in Kinds, c \in Cells : Untouched(k, c) => Untouched(k, c)'
      BY <2>1 DEF Untouched
    <3> QED
      BY <1>3, <1>7, <1>8, <2>1, <3>1 DEF Fresh, Cells, Array
  <2>5. CountedMeansFound'
    BY <1>8 DEF CountedMeansFound
  <2>6. Rebuildable' /\ KeepsTheBest' /\ RespectsLimits'
    BY <1>2, <2>1, SameResults
  <2> QED
    BY <1>2, <2>2, <2>3, <2>4, <2>5, <2>6 DEF Inv
<1>9. CASE phase' = "constrained"
  <2>1. /\ limit' = [limit EXCEPT !["data"][cell] = bound]
        /\ best' = [best EXCEPT !["data"][cell] = cleared]
        /\ tried' = [tried EXCEPT !["data"][cell] = 0]
        /\ solutions' = 0
        /\ localWire' = BasicLocal["data"] /\ globalWire' = BasicGlobal["data"]
        /\ UNCHANGED <<cell, total>>
    BY <1>4, <1>9
  <2>2. bound \in Costs
    <3> SUFFICES ASSUME NEW t \in Targets
                 PROVE  Allowed(best["data"][cell], t) \in 0..Inf
      BY DEF Costs
    <3>1. best["data"][cell][t].cost[t] \in 0..Inf
      BY <1>5, CostType
    <3>2. cfg.slack[t] \in Nat
      BY DEF Inv, TypeOK, Configuration
    <3> QED
      BY <3>1, <3>2 DEF Allowed
  <2>3. /\ cleared \in [Targets -> Result]
        /\ \A t \in Targets : cleared[t].cost[t] = Inf
    <3> SUFFICES ASSUME NEW t \in Targets
                 PROVE  /\ reset(best["data"][cell][t]) \in Result
                        /\ reset(best["data"][cell][t]).cost[t] = Inf
      OBVIOUS
    <3>1. best["data"][cell][t] \in Result
      BY <1>5
    <3>2. [u \in Targets |-> Inf] \in Costs
      BY DEF Costs
    <3> QED
      BY <3>1, <3>2 DEF reset, Result
  <2> HIDE DEF bound, cleared
  <2>4. /\ limit' \in [Kinds -> [Cells -> Costs]]
        /\ limit'["data"][cell] = bound
        /\ \A k \in Kinds, c \in Cells :
             k # "data" \/ c # cell => limit'[k][c] = limit[k][c]
    BY <1>1, <1>2, <2>1, <2>2 DEF ResultsOK
  <2>5. /\ best' \in [Kinds -> [Cells -> [Targets -> Result]]]
        /\ best'["data"][cell] = cleared
        /\ \A k \in Kinds, c \in Cells :
             k # "data" \/ c # cell => best'[k][c] = best[k][c]
    <3> DEFINE S == [Targets -> Result]
    <3>1. best \in [Kinds -> [Cells -> S]] /\ cleared \in S
      BY <1>1, <2>3 DEF ResultsOK
    <3> HIDE DEF S
    <3>2. /\ best' \in [Kinds -> [Cells -> S]]
          /\ best'["data"][cell] = cleared
          /\ \A k \in Kinds, c \in Cells :
               k # "data" \/ c # cell => best'[k][c] = best[k][c]
      BY <1>2, <2>1, <3>1
    <3> QED
      BY <3>2, Zenon DEF S
  <2>6. /\ tried' \in [Kinds -> [Cells -> 0..NumOrgs]]
        /\ tried'["data"][cell] = 0
        /\ \A c \in Cells : c # cell => tried'["data"][c] = tried["data"][c]
    <3>1. 0 \in 0..NumOrgs
      OBVIOUS
    <3> QED
      BY <1>1, <1>2, <2>1, <3>1 DEF ResultsOK
  <2>7. TypeOK'
    <3>1. localWire' \in Locals /\ globalWire' \in Globals /\ solutions' \in Nat
      BY <2>1, WireAssumption DEF Kinds
    <3>2. phase' \in Phases
      BY <1>9 DEF Phases
    <3>3. ScalarsOK'
      BY <1>1, <1>2, <2>1, <3>1, <3>2 DEF ScalarsOK
    <3>4. ResultsOK'
      BY <2>4, <2>5, <2>6 DEF ResultsOK
    <3> QED
      BY <1>2, <1>6, <3>3, <3>4, TypeStep DEF Inv
  <2>8. Control'
    BY <1>2, <1>9, <2>1 DEF Inv, Control, Final
  <2>9. Fresh'
    <3>1. \A k \in Kinds, c \in Cells : c > cell =>
            c # cell /\ Untouched(k, c)
      BY <1>3, <1>7 DEF Cells
    <3>2. \A k \in Kinds, c \in Cells : c # cell =>
            (Untouched(k, c) => Untouched(k, c)')
      BY <2>4, <2>5 DEF Untouched
    <3>3. phase' # "cell" /\ kind' # "tag" /\ phase' \notin Array \ {"constrained"}
      BY <1>2, <1>9
    <3> QED
      BY <2>1, <3>1, <3>2, <3>3 DEF Fresh
  <2>10. CountedMeansFound'
    BY <1>2, <2>1, <2>3, <2>5 DEF CountedMeansFound
  <2>11. Rebuildable'
    <3> SUFFICES ASSUME NEW k \in Kinds, NEW c \in Cells, NEW t \in Targets,
                        best'[k][c][t].cost[t] < Inf
                 PROVE  best'[k][c][t].org \in Orgs
      BY DEF Rebuildable
    <3>1. k # "data" \/ c # cell
      BY <2>3, <2>5
    <3>2. best'[k][c] = best[k][c]
      BY <2>5, <3>1
    <3>3. Rebuildable
      BY DEF Inv
    <3> QED
      BY <3>2, <3>3 DEF Rebuildable
  <2>12. KeepsTheBest'
    <3> SUFFICES ASSUME NEW c \in Cells, NEW t \in Targets,
                        NEW o \in 1..tried'["data"][c], Eligible(c, o)'
                 PROVE  best'["data"][c][t].cost[t] <=
                          Basic(c, o)'.cost[t]
      BY DEF KeepsTheBest
    <3>1. c # cell
      BY <2>6
    <3>2. Eligible(c, o) /\ o \in 1..tried["data"][c]
      BY <1>2, <2>4, <2>6, <3>1 DEF Eligible, Basic, Calculate, Within
    <3> QED
      BY <1>2, <2>5, <3>1, <3>2 DEF Inv, KeepsTheBest, Basic, Calculate
  <2>13. RespectsLimits'
    <3> SUFFICES ASSUME NEW c \in Cells, NEW t \in Targets,
                        best'["data"][c][t].cost[t] < Inf
                 PROVE  Within(best'["data"][c][t].cost, limit'["data"][c])
      BY DEF RespectsLimits, Found, Within
    <3>1. c # cell
      <4> SUFFICES ASSUME c = cell PROVE FALSE
        OBVIOUS
      <4>1. best'["data"][c][t] = cleared[t]
        BY <2>5
      <4>2. cleared[t].cost[t] = Inf
        BY <2>3
      <4> QED
        BY <4>1, <4>2, SizeAssumption
    <3>2. /\ best'["data"][c] = best["data"][c]
          /\ limit'["data"][c] = limit["data"][c]
      <4>1. "data" \in Kinds
        BY DEF Kinds
      <4>2. best'["data"][c] = best["data"][c]
        BY <2>5, <3>1, <4>1
      <4>3. limit'["data"][c] = limit["data"][c]
        BY <2>4, <3>1, <4>1
      <4> QED
        BY <4>2, <4>3
    <3>3. Within(best["data"][c][t].cost, limit["data"][c])
      <4>1. RespectsLimits
        BY DEF Inv
      <4> QED
        BY <3>2, <4>1 DEF RespectsLimits, Found
    <3> QED
      BY <3>2, <3>3
  <2> QED
    BY <1>2, <2>7, <2>8, <2>9, <2>10, <2>11, <2>12, <2>13 DEF Inv
<1> QED
  BY <1>4, <1>8, <1>9

LEMMA MergeCellInv == Inv /\ MergeCell => Inv'
<1> SUFFICES ASSUME Inv, MergeCell PROVE Inv'
  OBVIOUS
<1> DEFINE data == [t \in Targets |-> MergedData(idx, t)]
           tag  == [t \in Targets |-> MergedTag(idx, t)]
<1>1. ScalarsOK /\ ResultsOK /\ rows \in Seq(Row)
  BY TypeParts DEF Inv
<1>2. /\ phase = "merge" /\ idx <= NumCells /\ idx' = idx + 1
      /\ best' = [best EXCEPT !["data"][1] = data, !["tag"][1] = tag]
      /\ UNCHANGED <<cfg, eval, phase, kind, cell, localWire, globalWire, limit,
                     tried, solutions, total, rows, report>>
  BY DEF MergeCell
<1>3. /\ idx \in Cells /\ idx \in Nat /\ 1 \in Cells
      /\ "data" \in Kinds /\ "tag" \in Kinds
  <2>1. idx \in Nat
    BY <1>1 DEF ScalarsOK
  <2>2. idx >= 1
    BY DEF Inv, Control
  <2> QED
    BY <1>2, <2>1, <2>2 DEF Cells, Kinds
<1>4. \A k \in Kinds, c \in Cells, t \in Targets : best[k][c][t] \in Result
  BY <1>1 DEF ResultsOK
<1>5. \A t \in Targets :
        /\ MergedData(idx, t) \in Result
        /\ MergedData(idx, t) = best["data"][1][t] \/
             /\ MergedData(idx, t).cost = best["data"][idx][t].cost
             /\ MergedData(idx, t).org = best["data"][idx][t].org
             /\ Within(best["data"][idx][t].cost, limit["data"][1])
             /\ best["data"][idx][t].cost[t] < best["data"][1][t].cost[t]
  <2> TAKE t \in Targets
  <2>1. best["data"][1][t] \in Result /\ best["data"][idx][t] \in Result
    BY <1>3, <1>4
  <2>2. CASE Improves(best["data"][1][t], limit["data"][1], t, best["data"][idx][t])
    <3>1. MergedData(idx, t) = [best["data"][idx][t] EXCEPT !.tech = idx]
      BY <2>2 DEF MergedData
    <3>2. /\ MergedData(idx, t) \in Result
          /\ MergedData(idx, t).cost = best["data"][idx][t].cost
          /\ MergedData(idx, t).org = best["data"][idx][t].org
      BY <1>3, <2>1, <3>1 DEF Result
    <3> QED
      BY <2>2, <3>2 DEF Improves
  <2>3. CASE ~Improves(best["data"][1][t], limit["data"][1], t, best["data"][idx][t])
    BY <2>1, <2>3 DEF MergedData
  <2> QED
    BY <2>2, <2>3
<1>6. \A t \in Targets :
        /\ MergedTag(idx, t) \in Result
        /\ MergedTag(idx, t) = best["tag"][1][t] \/
             /\ MergedTag(idx, t).cost = best["tag"][idx][t].cost
             /\ MergedTag(idx, t).org = best["tag"][idx][t].org
  <2> TAKE t \in Targets
  <2>1. best["tag"][1][t] \in Result /\ best["tag"][idx][t] \in Result
    BY <1>3, <1>4
  <2>2. \/ MergedTag(idx, t) = [best["tag"][idx][t] EXCEPT !.tech = idx]
        \/ MergedTag(idx, t) = best["tag"][1][t]
    BY DEF MergedTag
  <2> QED
    BY <1>3, <2>1, <2>2 DEF Result
<1> HIDE DEF data, tag
<1>7. /\ best' \in [Kinds -> [Cells -> [Targets -> Result]]]
      /\ best'["data"][1] = data /\ best'["tag"][1] = tag
      /\ \A k \in Kinds, c \in Cells : c # 1 => best'[k][c] = best[k][c]
  <2> DEFINE S == [Targets -> Result]
  <2>1. data \in S /\ tag \in S
    BY <1>5, <1>6 DEF data, tag
  <2>2. best \in [Kinds -> [Cells -> S]]
    BY <1>1 DEF ResultsOK
  <2> HIDE DEF S
  <2>3. /\ best' \in [Kinds -> [Cells -> S]]
        /\ best'["data"][1] = data /\ best'["tag"][1] = tag
        /\ \A k \in Kinds, c \in Cells : c # 1 => best'[k][c] = best[k][c]
    BY <1>2, <1>3, <2>1, <2>2 DEF Kinds
  <2> QED
    BY <2>3, Zenon DEF S
<1>8. \A t \in Targets : best'["data"][1][t] = MergedData(idx, t)
                      /\ best'["tag"][1][t] = MergedTag(idx, t)
  BY <1>7 DEF data, tag
<1>9. \A c \in Cells, t \in Targets :
        best'["data"][c][t].cost[t] <= best["data"][c][t].cost[t]
  <2> TAKE c \in Cells, t \in Targets
  <2>1. best["data"][c][t] \in Result /\ best["data"][idx][t] \in Result
    BY <1>3, <1>4
  <2>2. best["data"][c][t].cost[t] \in 0..Inf /\ best["data"][idx][t].cost[t] \in 0..Inf
    BY <2>1, CostType
  <2>3. CASE c = 1
    BY <1>5, <1>8, <2>2, <2>3
  <2>4. CASE c # 1
    <3>1. best'["data"][c] = best["data"][c]
      BY <1>3, <1>7, <2>4
    <3> QED
      BY <2>2, <3>1
  <2> QED
    BY <2>3, <2>4
<1>10. KeepsTheBest'
  BY <1>2, <1>7, <1>9, KeepsOnBetter DEF Inv
<1>11. TypeOK'
  <2>1. idx' \in Nat
    BY <1>2, <1>3
  <2>2. ScalarsOK'
    BY <1>1, <1>2, <2>1 DEF ScalarsOK
  <2>3. ResultsOK' /\ rows' \in Seq(Row)
    BY <1>1, <1>2, <1>7 DEF ResultsOK
  <2> QED
    BY <1>2, <2>2, <2>3, TypeStep DEF Inv
<1>12. Control'
  BY <1>2, <1>3 DEF Inv, Control, Walk, Array
<1>13. Fresh'
  <2>1. cell = NumCells + 1
    BY <1>2 DEF Inv, Control, Final
  <2>2. \A c \in Cells : ~(c > cell) /\ c # cell
    BY <2>1 DEF Cells
  <2> QED
    BY <1>2, <2>2 DEF Fresh, Array
<1>14. CountedMeansFound'
  BY <1>2 DEF CountedMeansFound
<1>15. Rebuildable'
  <2> SUFFICES ASSUME NEW k \in Kinds, NEW c \in Cells, NEW t \in Targets,
                      best'[k][c][t].cost[t] < Inf
               PROVE  best'[k][c][t].org \in Orgs
    BY DEF Rebuildable
  <2>1. \A kk \in Kinds, cc \in Cells :
          best[kk][cc][t].cost[t] < Inf => best[kk][cc][t].org \in Orgs
    BY DEF Inv, Rebuildable
  <2>2. CASE c # 1
    BY <1>7, <2>1, <2>2
  <2>3. CASE c = 1 /\ k = "data"
    BY <1>3, <1>5, <1>8, <2>1, <2>3
  <2>4. CASE c = 1 /\ k = "tag"
    BY <1>3, <1>6, <1>8, <2>1, <2>4
  <2> QED
    BY <2>2, <2>3, <2>4 DEF Kinds
<1>16. RespectsLimits'
  <2> SUFFICES ASSUME NEW c \in Cells, NEW t \in Targets,
                      best'["data"][c][t].cost[t] < Inf
               PROVE  Within(best'["data"][c][t].cost, limit["data"][c])
    BY <1>2 DEF RespectsLimits, Found, Within
  <2>1. \A cc \in Cells : best["data"][cc][t].cost[t] < Inf =>
          Within(best["data"][cc][t].cost, limit["data"][cc])
    BY DEF Inv, RespectsLimits, Found
  <2>2. CASE c # 1
    BY <1>3, <1>7, <2>1, <2>2
  <2>3. CASE c = 1
    BY <1>3, <1>5, <1>8, <2>1, <2>3
  <2> QED
    BY <2>2, <2>3
<1> QED
  BY <1>2, <1>10, <1>11, <1>12, <1>13, <1>14, <1>15, <1>16 DEF Inv

-----------------------------------------------------------------------------
(* The theorems.                                                            *)

LEMMA StepInv == Inv /\ [Next]_vars => Inv'
<1> SUFFICES ASSUME Inv, [Next]_vars PROVE Inv'
  OBVIOUS
<1>1. Stopped => UNCHANGED vars
  BY DEF Stopped
<1> QED
  BY <1>1, StartCellInv, TryOrganisationInv, EndWalkInv, RefineLocalInv,
     EndRefineLocalInv, RefineGlobalInv, EndRefineGlobalInv, AfterDataInv,
     EndConstrainedInv, MergeCellInv, FinalInv DEF Next

(* Every reachable state satisfies the inductive invariant: the control     *)
(* flow of nvsim(), arrays not designed yet untouched, and the properties   *)
(* the theorems below name.                                                 *)
THEOREM Invariance == Spec => []Inv
<1>1. Init => Inv
  BY InitInv
<1>2. Inv /\ [Next]_vars => Inv'
  BY StepInv
<1> QED
  BY <1>1, <1>2, PTL DEF Spec

(* Every variable keeps its type, whatever the circuit model returns.       *)
THEOREM TypeCorrect == Spec => []TypeOK
<1>1. Inv => TypeOK
  BY DEF Inv
<1> QED
  BY <1>1, Invariance, PTL

(* No eligible organisation the walk visited is better, for any target,     *)
(* than the winner nvsim() keeps for it and main() may print.               *)
THEOREM SearchKeepsTheBest == Spec => []KeepsTheBest
<1>1. Inv => KeepsTheBest
  BY DEF Inv
<1> QED
  BY <1>1, Invariance, PTL

(* No winner exceeds a limit of its record, through the walk under          *)
(* constraints and the merge of the cells.                                  *)
THEOREM SearchRespectsLimits == Spec => []RespectsLimits
<1>1. Inv => RespectsLimits
  BY DEF Inv
<1> QED
  BY <1>1, Invariance, PTL

(* numSolution > 0 means that every target has a winner to rebuild, so the  *)
(* wire refinements never start from a bank that does not exist.            *)
THEOREM SearchCounts == Spec => []CountedMeansFound
<1>1. Inv => CountedMeansFound
  BY DEF Inv
<1> QED
  BY <1>1, Invariance, PTL

-----------------------------------------------------------------------------
(* What main() reports: the cell printed with a design, the rows of the CSV *)
(* file, the choice between a design and `No valid solutions.', and the     *)
(* merge of the cells.  One more invariant is added to the one above.       *)

(* Every result is labelled with the cell its bank was computed with, which *)
(* is its own cell except for the merged winners; without otherTag the      *)
(* merged tag and data banks are of one cell.                               *)
Labels ==
  /\ \A k \in Kinds, c \in Cells, t \in Targets :
       /\ best[k][c][t].tech = best[k][c][t].src
       /\ c # 1 \/ phase \notin Final => best[k][c][t].src = c
  /\ ~cfg.otherTag =>
       \A t \in Targets : best["tag"][1][t].src = best["data"][1][t].src
  /\ phase = "merge" => idx >= 2

(* The walk under constraints, which starts over, belongs to a search for   *)
(* one target; only a full exploration writes the rows of its walk.         *)
Written ==
  /\ phase = "constrained" => cfg.target # Full
  /\ EveryDesignWritten

(* totalSolutions is positive once a cell that is done has its data banks.  *)
Counted ==
  /\ \A c \in Cells : c < cell => \A t \in Targets : Found(c, t) => total > 0
  /\ total > 0 => \E c \in Cells : c < cell /\ \A t \in Targets : Found(c, t)
  /\ phase = "done" /\ cfg.target # Full => (report = "designs" <=> total > 0)

(* The winners of the first cell are as good as those of the cells below n. *)
BestOfFirst(n) ==
  \A c \in Cells, t \in Targets :
    c < n => best["data"][1][t].cost[t] <= best["data"][c][t].cost[t]

(* Without a constraint no limit is ever set, so no better cell is passed   *)
(* over by the merge.                                                       *)
Merged ==
  ~cfg.constrained =>
    /\ \A c \in Cells : limit["data"][c] = NoLimit
    /\ phase = "merge" => BestOfFirst(idx)
    /\ phase \in {"report", "done"} /\ cfg.target # Full =>
         BestOfFirst(NumCells + 1)

Reports == Inv /\ Labels /\ Written /\ Counted /\ Merged

-----------------------------------------------------------------------------
(* The four ways a step treats the results.                                 *)

(* The array being designed is offered results of its own cell: winners are *)
(* no worse, keep their label, and come from where they did or this cell.   *)
Designs ==
  /\ phase \in Array \ {"afterData"}
  /\ UNCHANGED <<cfg, phase, kind, cell, limit, total, report>>
  /\ \A k \in Kinds, c \in Cells :
       k # kind \/ c # cell => best'[k][c] = best[k][c]
  /\ \A t \in Targets :
       /\ best'[kind][cell][t].cost[t] <= best[kind][cell][t].cost[t]
       /\ best'[kind][cell][t].tech = best[kind][cell][t].tech
       /\ \/ best'[kind][cell][t].src = best[kind][cell][t].src
          \/ best'[kind][cell][t].src = cell

(* APPLY_LIMIT: the winners of the cell being designed lose their metrics   *)
(* and keep their labels.                                                   *)
Resets ==
  /\ phase = "afterData" /\ phase' = "constrained" /\ cfg.constrained
  /\ UNCHANGED <<cfg, cell, total, report>>
  /\ \A k \in Kinds, c \in Cells :
       k # "data" \/ c # cell => best'[k][c] = best[k][c]
  /\ \A t \in Targets :
       /\ best'["data"][cell][t].tech = best["data"][cell][t].tech
       /\ best'["data"][cell][t].src = best["data"][cell][t].src

(* Every result has its type, and its metrics are at most invalid_value.    *)
LEMMA ResultTypes ==
  ASSUME NEW b \in [Kinds -> [Cells -> [Targets -> Result]]]
  PROVE  \A k \in Kinds, c \in Cells, t \in Targets :
           b[k][c][t] \in Result /\ b[k][c][t].cost[t] \in 0..Inf
<1> TAKE k \in Kinds, c \in Cells, t \in Targets
<1>1. b[k][c][t] \in Result
  OBVIOUS
<1> QED
  BY <1>1, CostType

LEMMA BestTypes ==
  ASSUME Inv
  PROVE  \A k \in Kinds, c \in Cells, t \in Targets :
           best[k][c][t] \in Result /\ best[k][c][t].cost[t] \in 0..Inf
<1>1. best \in [Kinds -> [Cells -> [Targets -> Result]]]
  BY DEF Inv, TypeOK
<1> QED
  BY <1>1, ResultTypes

(* What compareAndUpdate does to the labels.                                *)
LEMMA UpdateLabels ==
  ASSUME NEW old \in Result, NEW new \in Result, NEW t \in Targets,
         NEW lim \in Costs
  PROVE  LET r == compareAndUpdate(old, lim, t, new)
         IN  r.tech = old.tech /\ (r.src = old.src \/ r.src = new.src)
<1>1. CASE Improves(old, lim, t, new)
  BY <1>1 DEF compareAndUpdate, Result
<1>2. CASE ~Improves(old, lim, t, new)
  BY <1>2 DEF compareAndUpdate
<1> QED
  BY <1>1, <1>2

(* Offering banks of the cell being designed.                               *)
LEMMA OfferDesigns ==
  ASSUME Inv, phase \in Array \ {"afterData"},
         UNCHANGED <<cfg, phase, kind, cell, limit, total, report>>,
         NEW new \in [Targets -> Result],
         \A t \in Targets : new[t].org \in Orgs /\ new[t].src = cell,
         best' = Offered(kind, cell, new)
  PROVE  Designs
<1>1. TypeOK /\ Rebuildable /\ RespectsLimits /\ limit' = limit
  BY DEF Inv
<1>2. kind \in Kinds /\ cell \in Cells
  BY CellType DEF Inv, TypeOK
<1>3. /\ best' \in [Kinds -> [Cells -> [Targets -> Result]]]
      /\ \A k \in Kinds, c \in Cells :
           k # kind \/ c # cell => best'[k][c] = best[k][c]
      /\ \A k \in Kinds, c \in Cells, t \in Targets :
           best'[k][c][t].cost[t] <= best[k][c][t].cost[t]
  BY <1>1, <1>2, Offer
<1> DEFINE r(t) == compareAndUpdate(best[kind][cell][t], limit[kind][cell], t,
                                    new[t])
           f == [t \in Targets |-> r(t)]
<1>4. \A t \in Targets : best'[kind][cell][t] = r(t)
  <2> DEFINE S == [Targets -> Result]
  <2>1. best \in [Kinds -> [Cells -> S]]
    BY <1>1 DEF TypeOK
  <2> HIDE DEF r
  <2>2. best' = [best EXCEPT ![kind][cell] = f]
    BY DEF Offered, r
  <2> HIDE DEF f, S
  <2>3. best'[kind][cell] = f
    BY <1>2, <2>1, <2>2
  <2> QED
    BY <2>3 DEF f
<1>5. ASSUME NEW t \in Targets
      PROVE  /\ best'[kind][cell][t].cost[t] <= best[kind][cell][t].cost[t]
             /\ best'[kind][cell][t].tech = best[kind][cell][t].tech
             /\ \/ best'[kind][cell][t].src = best[kind][cell][t].src
                \/ best'[kind][cell][t].src = cell
  <2>1. /\ best[kind][cell][t] \in Result /\ new[t] \in Result
        /\ limit[kind][cell] \in Costs
    <3>1. ResultsOK
      BY <1>1, TypeParts
    <3> QED
      BY <1>2, <3>1 DEF ResultsOK
  <2>2. /\ r(t).tech = best[kind][cell][t].tech
        /\ r(t).src = best[kind][cell][t].src \/ r(t).src = new[t].src
    <3>1. \A old, won \in Result, lim \in Costs :
            LET x == compareAndUpdate(old, lim, t, won)
            IN  x.tech = old.tech /\ (x.src = old.src \/ x.src = won.src)
      BY UpdateLabels
    <3> QED
      BY <2>1, <3>1
  <2>3. best'[kind][cell][t] = r(t) /\ new[t].src = cell
    BY <1>4
  <2>4. best'[kind][cell][t].cost[t] <= best[kind][cell][t].cost[t]
    BY <1>2, <1>3
  <2> HIDE DEF r
  <2> QED
    BY <2>2, <2>3, <2>4
<1> QED
  BY <1>3, <1>5 DEF Designs

LEMMA TryDesigns ==
  ASSUME Inv, TryOrganisation
  PROVE  best' = best \/ Designs
<1> DEFINE o   == tried[kind][cell] + 1
           new == TempResult(kind, cell, o, localWire, globalWire)
           offered == [t \in Targets |-> new]
<1>1. /\ phase \in Walk /\ tried[kind][cell] < NumOrgs
      /\ UNCHANGED <<cfg, kind, cell, limit, total, report>>
      /\ \/ best' = best
         \/ /\ phase' = phase
            /\ best' = [best EXCEPT ![kind][cell] =
                          UpdateBest(best[kind][cell], limit[kind][cell], new)]
  BY DEF TryOrganisation, Walk
<1>2. /\ kind \in Kinds /\ cell \in Cells
      /\ localWire \in Locals /\ globalWire \in Globals
  BY <1>1, TypeParts DEF ScalarsOK, Inv, Control, Array, Walk
<1>3. o \in Orgs
  <2>1. tried[kind][cell] \in 0..NumOrgs
    BY <1>2, TypeParts DEF ResultsOK, Inv
  <2>2. tried[kind][cell] < NumOrgs
    BY <1>1
  <2> HIDE DEF new
  <2> QED
    BY <2>1, <2>2 DEF Orgs
<1>4. new \in Result /\ new.org = o /\ new.src = cell
  <2>1. new \in Result /\ new.org = o
    <3> HIDE DEF o
    <3> QED
      BY <1>2, <1>3, TempResultType DEF Inv
  <2>2. new.src = cell
    BY DEF TempResult
  <2> QED
    BY <2>1, <2>2
<1>5. ASSUME phase' = phase,
             best' = [best EXCEPT ![kind][cell] =
                        UpdateBest(best[kind][cell], limit[kind][cell], new)]
      PROVE  Designs
  <2> HIDE DEF new, o
  <2>1. best' = Offered(kind, cell, offered)
    BY <1>5 DEF UpdateBest, Offered
  <2>2. /\ offered \in [Targets -> Result]
        /\ \A t \in Targets : offered[t].org \in Orgs /\ offered[t].src = cell
    BY <1>3, <1>4
  <2>3. phase \in Array \ {"afterData"}
    BY <1>1 DEF Walk, Array
  <2>4. UNCHANGED <<cfg, phase, kind, cell, limit, total, report>>
    BY <1>1, <1>5
  <2> HIDE DEF offered
  <2> QED
    BY <2>1, <2>2, <2>3, <2>4, OfferDesigns
<1> QED
  BY <1>1, <1>5

(* A trial of the wire refinements is a bank of the cell being designed.    *)
LEMMA TrialsDesign ==
  ASSUME Inv, phase \in {"refineLocal", "refineGlobal"},
         UNCHANGED <<cfg, phase, kind, cell, limit, total, report>>,
         NEW local, NEW global,
         \A t \in Targets : local[t] \in Locals /\ global[t] \in Globals,
         best' = [best EXCEPT ![kind][cell] =
           [t \in Targets |-> compareAndUpdate(best[kind][cell][t],
              limit[kind][cell], t,
              TempResult(kind, cell, best[kind][cell][t].org,
                         local[t], global[t]))]]
  PROVE  Designs
<1> DEFINE trial == [t \in Targets |->
              TempResult(kind, cell, best[kind][cell][t].org, local[t], global[t])]
<1>1. kind \in Kinds /\ cell \in Cells
  BY CellType DEF Inv, TypeOK, Array
<1>2. ASSUME NEW t \in Targets
      PROVE  /\ trial[t] \in Result
             /\ trial[t].org \in Orgs /\ trial[t].src = cell
  <2>1. best[kind][cell][t].cost[t] < Inf
    BY DEF Inv, Control, CountedMeansFound
  <2>2. best[kind][cell][t].org \in Orgs
    BY <1>1, <2>1 DEF Inv, Rebuildable
  <2> DEFINE org == best[kind][cell][t].org
             r == TempResult(kind, cell, org, local[t], global[t])
  <2>3. r \in Result /\ r.org = org
    <3> HIDE DEF org
    <3> QED
      BY <1>1, <2>2, TempResultType DEF Inv, org
  <2>4. r.src = cell
    BY DEF TempResult
  <2> QED
    BY <2>2, <2>3, <2>4
<1>3. trial \in [Targets -> Result]
  BY <1>2
<1>4. best' = Offered(kind, cell, trial)
  BY DEF Offered
<1>5. phase \in Array \ {"afterData"}
  BY DEF Array
<1> HIDE DEF trial
<1> QED
  BY <1>2, <1>3, <1>4, <1>5, OfferDesigns

LEMMA RefineDesigns ==
  ASSUME Inv, RefineLocal \/ RefineGlobal
  PROVE  Designs
<1> DEFINE old == best[kind][cell]
<1>1. kind \in Kinds /\ cell \in Cells /\ idx \in Nat /\ idx >= 1
  BY CellType DEF Inv, Control, TypeOK, Array, RefineLocal, RefineGlobal
<1>2. \A t \in Targets : old[t].local \in Locals /\ old[t].global \in Globals
  <2>1. \A t \in Targets : old[t] \in Result
    BY <1>1, TypeParts DEF Inv, ResultsOK
  <2> HIDE DEF old
  <2> QED
    BY <2>1 DEF Result
<1>3. CASE RefineLocal
  <2> DEFINE local  == [t \in Targets |-> idx]
             global == [t \in Targets |-> old[t].global]
  <2>1. /\ phase = "refineLocal" /\ idx <= NumLocal
        /\ UNCHANGED <<cfg, phase, kind, cell, limit, total, report>>
    BY <1>3 DEF RefineLocal
  <2>2. best' = [best EXCEPT ![kind][cell] =
           [t \in Targets |-> compareAndUpdate(best[kind][cell][t],
              limit[kind][cell], t,
              TempResult(kind, cell, best[kind][cell][t].org,
                         local[t], global[t]))]]
    BY <1>3 DEF RefineLocal, TrialLocal
  <2>3. \A t \in Targets : local[t] \in Locals /\ global[t] \in Globals
    BY <1>1, <1>2, <2>1 DEF Locals
  <2> HIDE DEF local, global
  <2> QED
    BY <2>1, <2>2, <2>3, TrialsDesign
<1>4. CASE RefineGlobal
  <2> DEFINE local  == [t \in Targets |-> old[t].local]
             global == [t \in Targets |-> idx]
  <2>1. /\ phase = "refineGlobal" /\ idx <= NumGlobal
        /\ UNCHANGED <<cfg, phase, kind, cell, limit, total, report>>
    BY <1>4 DEF RefineGlobal
  <2>2. best' = [best EXCEPT ![kind][cell] =
           [t \in Targets |-> compareAndUpdate(best[kind][cell][t],
              limit[kind][cell], t,
              TempResult(kind, cell, best[kind][cell][t].org,
                         local[t], global[t]))]]
    BY <1>4 DEF RefineGlobal, TrialGlobal
  <2>3. \A t \in Targets : local[t] \in Locals /\ global[t] \in Globals
    BY <1>1, <1>2, <2>1 DEF Globals
  <2> HIDE DEF local, global
  <2> QED
    BY <2>1, <2>2, <2>3, TrialsDesign
<1> QED
  BY <1>3, <1>4

LEMMA AfterDataResets ==
  ASSUME Inv, AfterData
  PROVE  best' = best \/ Resets
<1> DEFINE cleared == [t \in Targets |-> reset(best["data"][cell][t])]
           S == [Targets -> Result]
<1>1. /\ phase = "afterData" /\ cell \in Cells /\ "data" \in Kinds
      /\ UNCHANGED <<cfg, report>>
  BY DEF AfterData, Inv, Control, Array, Kinds
<1>2. \/ best' = best
      \/ /\ best' = [best EXCEPT !["data"][cell] = cleared]
         /\ phase' = "constrained" /\ cfg.constrained
         /\ UNCHANGED <<cell, total>>
  BY DEF AfterData, Return
<1>3. best \in [Kinds -> [Cells -> S]]
  BY TypeParts DEF Inv, ResultsOK
<1>4. \A t \in Targets :
        /\ cleared[t].tech = best["data"][cell][t].tech
        /\ cleared[t].src = best["data"][cell][t].src
  <2> SUFFICES ASSUME NEW t \in Targets
               PROVE  /\ reset(best["data"][cell][t]).tech = best["data"][cell][t].tech
                      /\ reset(best["data"][cell][t]).src = best["data"][cell][t].src
    OBVIOUS
  <2>1. best["data"][cell][t] \in Result
    BY <1>1, <1>3
  <2> QED
    BY <2>1 DEF reset, Result
<1>5. ASSUME best' = [best EXCEPT !["data"][cell] = cleared]
      PROVE  /\ best'["data"][cell] = cleared
             /\ \A k \in Kinds, c \in Cells :
                  k # "data" \/ c # cell => best'[k][c] = best[k][c]
  <2> HIDE DEF cleared, S
  <2> QED
    BY <1>1, <1>3, <1>5
<1> HIDE DEF cleared, S
<1> QED
  BY <1>1, <1>2, <1>4, <1>5 DEF Resets

(* Whatever the step, the results are kept, improved for the cell being     *)
(* designed, reset for it, or merged into the first cell.                   *)
LEMMA BestStep ==
  ASSUME Inv, [Next]_vars
  PROVE  best' = best \/ Designs \/ Resets \/ MergeCell
<1>1. CASE TryOrganisation
  BY <1>1, TryDesigns
<1>2. CASE RefineLocal \/ RefineGlobal
  BY <1>2, RefineDesigns
<1>3. CASE AfterData
  BY <1>3, AfterDataResets
<1>4. CASE \/ StartCell \/ EndWalk \/ EndRefineLocal \/ EndRefineGlobal
           \/ EndConstrained \/ EndCells \/ EndMerge \/ Report \/ Stopped
           \/ UNCHANGED vars
  BY <1>4 DEF StartCell, EndWalk, EndRefineLocal, EndRefineGlobal,
              EndConstrained, EndCells, EndMerge, Report, Stopped, vars
<1> QED
  BY <1>1, <1>2, <1>3, <1>4 DEF Next

(* What the merge of cell idx does: a winner of the first cell is replaced, *)
(* with the label idx, by a better one of cell idx, and the tag bank goes   *)
(* with the data bank unless it is compared on its own.                     *)
LEMMA MergeStep ==
  ASSUME Inv, MergeCell
  PROVE  /\ idx \in Cells /\ idx \in Int /\ 1 \in Cells
         /\ \A k \in Kinds, c \in Cells : c # 1 => best'[k][c] = best[k][c]
         /\ \A t \in Targets : best'["data"][1][t] = MergedData(idx, t)
                            /\ best'["tag"][1][t] = MergedTag(idx, t)
<1> DEFINE data == [t \in Targets |-> MergedData(idx, t)]
           tag  == [t \in Targets |-> MergedTag(idx, t)]
<1>1. /\ phase = "merge" /\ idx <= NumCells
      /\ best' = [best EXCEPT !["data"][1] = data, !["tag"][1] = tag]
  BY DEF MergeCell
<1>2. idx \in Nat /\ idx >= 1
  BY DEF Inv, Control, TypeOK
<1>3. /\ idx \in Cells /\ 1 \in Cells
      /\ "data" \in Kinds /\ "tag" \in Kinds
  BY <1>1, <1>2 DEF Cells, Kinds
<1> DEFINE S == [Targets -> Result]
<1>4. best \in [Kinds -> [Cells -> S]]
  BY TypeParts DEF Inv, ResultsOK
<1> HIDE DEF S, data, tag
<1>5. /\ best'["data"][1] = data /\ best'["tag"][1] = tag
      /\ \A k \in Kinds, c \in Cells : c # 1 => best'[k][c] = best[k][c]
  BY <1>1, <1>3, <1>4 DEF Kinds
<1>6. \A t \in Targets : best'["data"][1][t] = MergedData(idx, t)
                      /\ best'["tag"][1][t] = MergedTag(idx, t)
  BY <1>5 DEF data, tag
<1>7. idx \in Int
  BY <1>2
<1> QED
  BY <1>3, <1>5, <1>6, <1>7

(* How a step moves on: main() never goes back to nvsim() after the last    *)
(* cell, and starts the merge at the second cell.                           *)
LEMMA Flow ==
  ASSUME Inv, [Next]_vars
  PROVE  /\ cfg' = cfg
         /\ phase \in Final => phase' \in Final
         /\ phase' = "merge" => idx' = 2 \/ (phase = "merge" /\ idx' >= idx)
<1>1. idx \in Nat
  BY DEF Inv, TypeOK
<1>2. CASE StartCell \/ TryOrganisation \/ EndWalk \/ RefineLocal \/ EndRefineLocal
  BY <1>2 DEF StartCell, TryOrganisation, EndWalk, RefineLocal, EndRefineLocal,
              Return, Final
<1>3. CASE RefineGlobal \/ EndRefineGlobal \/ AfterData \/ EndConstrained
  BY <1>3 DEF RefineGlobal, EndRefineGlobal, AfterData, EndConstrained, Return,
              Final
<1>4. CASE EndCells \/ EndMerge \/ Report
  BY <1>4 DEF EndCells, EndMerge, Report, Final
<1>5. CASE MergeCell
  BY <1>1, <1>5 DEF MergeCell, Final
<1>6. CASE Stopped \/ UNCHANGED vars
  <2>1. UNCHANGED <<cfg, phase, idx>>
    BY <1>6 DEF Stopped, vars
  <2> QED
    BY <1>1, <2>1
<1> QED
  BY <1>2, <1>3, <1>4, <1>5, <1>6 DEF Next

-----------------------------------------------------------------------------
(* The labels.                                                              *)

LEMMA LabelsStep ==
  ASSUME Inv, Inv', Labels, [Next]_vars
  PROVE  Labels'
<1>1. /\ cfg' = cfg
      /\ phase \in Final => phase' \in Final
      /\ phase' = "merge" => idx' = 2 \/ (phase = "merge" /\ idx' >= idx)
  BY Flow
<1>2. 1 \in Cells /\ "data" \in Kinds /\ "tag" \in Kinds
  BY DEF Cells, Kinds
<1>3. phase' = "merge" => idx' >= 2
  <2>1. idx \in Nat /\ idx' \in Nat
    BY DEF Inv, TypeOK
  <2> QED
    BY <1>1, <2>1 DEF Labels
<1>4. SUFFICES ASSUME NEW t \in Targets
               PROVE  /\ \A k \in Kinds, c \in Cells :
                           /\ best'[k][c][t].tech = best'[k][c][t].src
                           /\ c # 1 \/ phase' \notin Final => best'[k][c][t].src = c
                      /\ ~cfg.otherTag =>
                           best'["tag"][1][t].src = best'["data"][1][t].src
  BY <1>1, <1>3 DEF Labels
<1>5. /\ \A k \in Kinds, c \in Cells :
           /\ best[k][c][t].tech = best[k][c][t].src
           /\ c # 1 \/ phase \notin Final => best[k][c][t].src = c
      /\ ~cfg.otherTag => best["tag"][1][t].src = best["data"][1][t].src
      /\ phase = "merge" => idx >= 2
  BY DEF Labels
<1>6. ASSUME phase \notin Final,
             \A k \in Kinds, c \in Cells : best'[k][c][t].src = c
                                        /\ best'[k][c][t].tech = c
      PROVE  /\ \A k \in Kinds, c \in Cells :
                  /\ best'[k][c][t].tech = best'[k][c][t].src
                  /\ c # 1 \/ phase' \notin Final => best'[k][c][t].src = c
             /\ ~cfg.otherTag => best'["tag"][1][t].src = best'["data"][1][t].src
  BY <1>2, <1>6
<1>7. CASE best' = best
  BY <1>1, <1>5, <1>7
<1>8. CASE Designs
  <2>1. phase \notin Final
    BY <1>8 DEF Designs, Array, Final
  <2>2. ASSUME NEW k \in Kinds, NEW c \in Cells
        PROVE  best'[k][c][t].src = c /\ best'[k][c][t].tech = c
    <3>1. best[k][c][t].src = c /\ best[k][c][t].tech = c
      BY <1>5, <2>1
    <3>2. CASE k # kind \/ c # cell
      BY <1>8, <3>1, <3>2 DEF Designs
    <3>3. CASE k = kind /\ c = cell
      BY <1>8, <3>1, <3>3 DEF Designs
    <3> QED
      BY <3>2, <3>3
  <2> QED
    BY <1>6, <2>1, <2>2
<1>9. CASE Resets
  <2>1. phase \notin Final
    BY <1>9 DEF Resets, Final
  <2>2. ASSUME NEW k \in Kinds, NEW c \in Cells
        PROVE  best'[k][c][t].src = c /\ best'[k][c][t].tech = c
    <3>1. best[k][c][t].src = c /\ best[k][c][t].tech = c
      BY <1>5, <2>1
    <3>2. CASE k # "data" \/ c # cell
      BY <1>9, <3>1, <3>2 DEF Resets
    <3>3. CASE k = "data" /\ c = cell
      BY <1>9, <3>1, <3>3 DEF Resets
    <3> QED
      BY <3>2, <3>3
  <2> QED
    BY <1>6, <2>1, <2>2
<1>10. CASE MergeCell
  <2>1. /\ idx \in Cells /\ idx \in Int
        /\ \A k \in Kinds, c \in Cells : c # 1 => best'[k][c] = best[k][c]
        /\ best'["data"][1][t] = MergedData(idx, t)
        /\ best'["tag"][1][t] = MergedTag(idx, t)
    BY <1>10, MergeStep
  <2>2. phase = "merge" /\ phase' \in Final /\ idx >= 2
    BY <1>5, <1>10 DEF MergeCell, Final
  <2>3. \A k \in Kinds : best[k][1][t] \in Result /\ best[k][idx][t] \in Result
    BY <1>2, <2>1, TypeParts DEF Inv, ResultsOK
  <2>4. \A k \in Kinds : best[k][idx][t].src = idx
    BY <1>5, <2>1, <2>2
  <2> DEFINE moved(k) == [best[k][idx][t] EXCEPT !.tech = idx]
             switch == Improves(best["data"][1][t], limit["data"][1], t,
                                best["data"][idx][t])
  <2>5. \A k \in Kinds : moved(k).tech = idx /\ moved(k).src = idx
    BY <2>3, <2>4 DEF Result
  <2>6. /\ MergedData(idx, t) = IF switch THEN moved("data") ELSE best["data"][1][t]
        /\ MergedTag(idx, t) = moved("tag") \/ MergedTag(idx, t) = best["tag"][1][t]
        /\ ~cfg.otherTag =>
             MergedTag(idx, t) = IF switch THEN moved("tag") ELSE best["tag"][1][t]
    BY DEF MergedData, MergedTag
  <2> HIDE DEF moved, switch
  <2>7. \A k \in Kinds : best'[k][1][t].tech = best'[k][1][t].src
    <3>1. best'["data"][1][t].tech = best'["data"][1][t].src
      BY <1>2, <1>5, <2>1, <2>5, <2>6
    <3>2. best'["tag"][1][t].tech = best'["tag"][1][t].src
      BY <1>2, <1>5, <2>1, <2>5, <2>6
    <3> QED
      BY <3>1, <3>2 DEF Kinds
  <2>8. ~cfg.otherTag => best'["tag"][1][t].src = best'["data"][1][t].src
    BY <1>2, <1>5, <2>1, <2>5, <2>6
  <2>9. \A k \in Kinds, c \in Cells :
          /\ best'[k][c][t].tech = best'[k][c][t].src
          /\ c # 1 \/ phase' \notin Final => best'[k][c][t].src = c
    <3> TAKE k \in Kinds, c \in Cells
    <3>1. CASE c = 1
      BY <2>2, <2>7, <3>1
    <3>2. CASE c # 1
      BY <1>5, <2>1, <3>2
    <3> QED
      BY <3>1, <3>2
  <2> QED
    BY <2>8, <2>9
<1> QED
  BY <1>7, <1>8, <1>9, <1>10, BestStep

-----------------------------------------------------------------------------
(* The rows of the CSV file.                                                *)

(* No row that was written is lost or changed.                              *)
Grows == \A i \in DOMAIN rows : i \in DOMAIN rows' /\ rows'[i] = rows[i]

(* The design of organisation o with basic wires has its row.               *)
HasRow(c, o) ==
  \E i \in DOMAIN rows :
    rows[i] = <<c, o, BasicLocal["data"], BasicGlobal["data"]>>

LEMMA AppendGrows ==
  ASSUME NEW S, NEW s \in Seq(S), NEW e
  PROVE  /\ \A i \in DOMAIN s : i \in DOMAIN Append(s, e) /\ Append(s, e)[i] = s[i]
         /\ \E i \in DOMAIN Append(s, e) : Append(s, e)[i] = e
<1>1. s \in Seq(S \union {e}) /\ e \in S \union {e}
  OBVIOUS
<1>2. Len(s) + 1 \in DOMAIN Append(s, e) /\ Append(s, e)[Len(s) + 1] = e
  BY <1>1
<1> QED
  BY <1>1, <1>2

LEMMA ConcatGrows ==
  ASSUME NEW S, NEW s \in Seq(S), NEW more \in Seq(S)
  PROVE  \A i \in DOMAIN s : i \in DOMAIN (s \o more) /\ (s \o more)[i] = s[i]
OBVIOUS

(* OUTPUT_TO_FILE adds a row or does nothing.                               *)
LEMMA OutputGrows ==
  ASSUME Inv, NEW r, OutputToFile(r)
  PROVE  /\ Grows
         /\ WritesRows /\ kind = "data" =>
              \E i \in DOMAIN rows' : rows'[i] = RowOf(r)
<1>1. rows \in Seq(Row)
  BY TypeParts DEF Inv
<1>2. CASE WritesRows /\ kind = "data"
  <2>1. rows' = Append(rows, RowOf(r))
    BY <1>2 DEF OutputToFile
  <2> QED
    BY <1>1, <2>1, AppendGrows DEF Grows
<1>3. CASE ~(WritesRows /\ kind = "data")
  <2>1. rows' = rows
    BY <1>3 DEF OutputToFile
  <2> QED
    BY <1>3, <2>1 DEF Grows
<1> QED
  BY <1>2, <1>3

(* No step takes a row out of the file.                                     *)
LEMMA RowsStep ==
  ASSUME Inv, [Next]_vars
  PROVE  Grows
<1>1. CASE TryOrganisation
  <2>1. PICK r : OutputToFile(r) \/ rows' = rows
    BY <1>1 DEF TryOrganisation
  <2> QED
    BY <2>1, OutputGrows DEF Grows
<1>2. CASE RefineLocal \/ RefineGlobal
  <2>1. PICK r : OutputToFile(r)
    BY <1>2 DEF RefineLocal, RefineGlobal
  <2> QED
    BY <2>1, OutputGrows
<1>3. CASE AfterData
  <2> DEFINE winners == [t \in Targets |-> RowOf(best["data"][cell][t])]
  <2>1. rows' = rows \o winners \/ rows' = rows
    BY <1>3 DEF AfterData
  <2>2. winners \in Seq(Row)
    <3> SUFFICES ASSUME NEW t \in Targets
                 PROVE  RowOf(best["data"][cell][t]) \in Row
      OBVIOUS
    <3>1. cell \in Cells /\ "data" \in Kinds
      BY <1>3 DEF AfterData, Inv, Control, Array, Kinds
    <3>2. best["data"][cell][t] \in Result
      BY <3>1, BestTypes
    <3> QED
      BY <3>2 DEF RowOf, Row, Result
  <2>3. rows \in Seq(Row)
    BY TypeParts DEF Inv
  <2> HIDE DEF winners
  <2>4. \A i \in DOMAIN rows :
           i \in DOMAIN (rows \o winners) /\ (rows \o winners)[i] = rows[i]
    BY <2>2, <2>3, ConcatGrows
  <2>5. CASE rows' = rows
    BY <2>5 DEF Grows
  <2>6. CASE rows' = rows \o winners
    BY <2>4, <2>6 DEF Grows
  <2> QED
    BY <2>1, <2>5, <2>6
<1>4. CASE \/ StartCell \/ EndWalk \/ EndRefineLocal \/ EndRefineGlobal
           \/ EndConstrained \/ EndCells \/ MergeCell \/ EndMerge \/ Report
           \/ Stopped \/ UNCHANGED vars
  <2>1. rows' = rows
    BY <1>4 DEF StartCell, EndWalk, EndRefineLocal, EndRefineGlobal,
              EndConstrained, EndCells, MergeCell, EndMerge, Report, Stopped, vars
  <2> QED
    BY <2>1 DEF Grows
<1> QED
  BY <1>1, <1>2, <1>3, <1>4 DEF Next

LEMMA WrittenStep ==
  ASSUME Inv, Written, [Next]_vars
  PROVE  Written'
<1>1. cfg' = cfg /\ eval' = eval
  <2>1. cfg' = cfg
    BY Flow
  <2>2. eval' = eval
    BY DEF Next, StartCell, TryOrganisation, EndWalk, RefineLocal, RefineGlobal,
           EndRefineLocal, EndRefineGlobal, AfterData, EndConstrained, EndCells,
           MergeCell, EndMerge, Report, Stopped, vars
  <2> QED
    BY <2>1, <2>2
<1>2. Grows
  BY RowsStep
<1>3. \A c, o : HasRow(c, o) => HasRow(c, o)'
  BY <1>2 DEF HasRow, Grows
<1>4. phase' = "constrained" => cfg'.target # Full
  BY <1>1 DEF Written, Next, StartCell, TryOrganisation, EndWalk, RefineLocal,
     RefineGlobal, EndRefineLocal, EndRefineGlobal, AfterData, EndConstrained,
     EndCells, MergeCell, EndMerge, Report, Stopped, vars, Return
<1>5. ASSUME WritesRows, NEW c \in Cells, NEW o \in 1..tried["data"][c],
             ~Basic(c, o).invalid
      PROVE  HasRow(c, o)
  BY <1>5 DEF Written, EveryDesignWritten, HasRow
<1>6. SUFFICES ASSUME WritesRows, NEW c \in Cells,
                      NEW o \in 1..tried'["data"][c], ~Basic(c, o).invalid
               PROVE  HasRow(c, o)'
  BY <1>1, <1>4 DEF Written, EveryDesignWritten, HasRow, WritesRows, Basic,
                    Calculate
<1>7. CASE tried' = tried
  BY <1>3, <1>5, <1>6, <1>7
<1>8. CASE AfterData
  <2>1. tried' = tried
    BY <1>6, <1>8 DEF AfterData, WritesRows
  <2> QED
    BY <1>7, <2>1
<1>9. CASE TryOrganisation /\ tried' # tried
  <2> DEFINE p   == tried[kind][cell] + 1
             new == TempResult(kind, cell, p, localWire, globalWire)
  <2>1. phase = "enumerate"
    BY <1>6, <1>9 DEF TryOrganisation, Written, WritesRows
  <2>2. /\ tried' = [tried EXCEPT ![kind][cell] = p]
        /\ ~new.invalid => OutputToFile(new)
    BY <1>9, <2>1 DEF TryOrganisation
  <2>3. /\ kind \in Kinds /\ cell \in Cells
        /\ localWire = BasicLocal[kind] /\ globalWire = BasicGlobal[kind]
    BY <2>1, TypeParts DEF ScalarsOK, Inv, Control, Array, Walk
  <2>4. tried \in [Kinds -> [Cells -> 0..NumOrgs]]
    BY TypeParts DEF Inv, ResultsOK
  <2>5. CASE kind = "data" /\ c = cell /\ o = p
    <3>1. new.invalid = Basic(c, o).invalid
      BY <2>3, <2>5 DEF TempResult, Basic
    <3>2. RowOf(new) = <<c, o, BasicLocal["data"], BasicGlobal["data"]>>
      BY <2>3, <2>5 DEF TempResult, RowOf
    <3> HIDE DEF new
    <3>3. OutputToFile(new)
      BY <1>6, <2>2, <3>1
    <3> QED
      BY <1>6, <2>5, <3>2, <3>3, OutputGrows DEF HasRow
  <2>6. CASE ~(kind = "data" /\ c = cell /\ o = p)
    <3>1. tried'["data"][c] =
            IF kind = "data" /\ c = cell THEN p ELSE tried["data"][c]
      BY <2>2, <2>3, <2>4 DEF Kinds
    <3>2. tried["data"][c] \in 0..NumOrgs
      BY <2>4 DEF Kinds
    <3>3. o \in 1..tried["data"][c]
      <4>1. CASE kind = "data" /\ c = cell
        <5>1. tried'["data"][c] = tried["data"][c] + 1 /\ o # tried["data"][c] + 1
          BY <2>6, <3>1, <4>1
        <5>2. o \in 1..tried'["data"][c]
          BY <1>6
        <5> HIDE DEF p, new
        <5> QED
          BY <3>2, <5>1, <5>2
      <4>2. CASE ~(kind = "data" /\ c = cell)
        <5>1. tried'["data"][c] = tried["data"][c]
          BY <3>1, <4>2
        <5> QED
          BY <1>6, <5>1
      <4> QED
        BY <4>1, <4>2
    <3> QED
      BY <1>3, <1>5, <1>6, <3>3
  <2> QED
    BY <2>5, <2>6
<1>10. CASE \/ StartCell \/ EndWalk \/ RefineLocal \/ EndRefineLocal
            \/ RefineGlobal \/ EndRefineGlobal \/ EndConstrained \/ EndCells
            \/ MergeCell \/ EndMerge \/ Report \/ Stopped \/ UNCHANGED vars
  <2>1. tried' = tried
    BY <1>10 DEF StartCell, EndWalk, RefineLocal, EndRefineLocal, RefineGlobal,
                 EndRefineGlobal, EndConstrained, EndCells, MergeCell, EndMerge,
                 Report, Stopped, vars
  <2> QED
    BY <1>7, <2>1
<1> QED
  BY <1>7, <1>8, <1>9, <1>10 DEF Next

-----------------------------------------------------------------------------
(* The solutions main() counts.                                             *)

LEMMA CountedStep ==
  ASSUME Inv, Inv', Counted, [Next]_vars
  PROVE  Counted'
<1>1. /\ cell \in Int /\ Cells \subseteq Int
      /\ total \in Nat /\ solutions \in Nat
  <2>1. cell \in Int
    BY CellType DEF Inv
  <2>2. total \in Nat /\ solutions \in Nat
    BY TypeParts DEF Inv, ScalarsOK
  <2>3. Cells \subseteq Int
    BY DEF Cells
  <2> QED
    BY <2>1, <2>2, <2>3
<1>2. /\ \A c \in Cells : c < cell => \A t \in Targets : Found(c, t) => total > 0
      /\ total > 0 => \E c \in Cells : c < cell /\ \A t \in Targets : Found(c, t)
      /\ phase = "done" /\ cfg.target # Full => (report = "designs" <=> total > 0)
  BY DEF Counted
<1>3. "data" \in Kinds /\ cfg' = cfg
  BY Flow DEF Kinds
<1>4. \A c \in Cells, t \in Targets :
        /\ best["data"][c][t].cost[t] \in Int
        /\ best'["data"][c][t].cost[t] \in Int
  <2>1. best' \in [Kinds -> [Cells -> [Targets -> Result]]]
    BY DEF Inv, TypeOK
  <2>2. \A c \in Cells, t \in Targets :
          best'["data"][c][t].cost[t] \in 0..Inf
    BY <1>3, <2>1, ResultTypes
  <2> QED
    BY <1>3, <2>2, BestTypes
(* A cell that is left: its solutions are added to the total.               *)
<1>5. ASSUME cell \in Cells, phase' = "cell", cell' = cell + 1, best' = best,
             NEW count \in Nat, total' = total + count,
             \A t \in Targets : count > 0 <=> Found(cell, t)
      PROVE  Counted'
  <2>1. total' > 0 <=> total > 0 \/ count > 0
    BY <1>1, <1>5
  <2>2. \A c \in Cells : c < cell' <=> c < cell \/ c = cell
    BY <1>1, <1>5
  <2>3. \A c, t : Found(c, t)' <=> Found(c, t)
    BY <1>5 DEF Found
  <2>4. \A c \in Cells : c < cell' => \A t \in Targets : Found(c, t)' => total' > 0
    BY <1>2, <1>5, <2>1, <2>2, <2>3
  <2>5. total' > 0 => \E c \in Cells : c < cell' /\ \A t \in Targets : Found(c, t)'
    BY <1>2, <1>5, <2>1, <2>2, <2>3
  <2> QED
    BY <1>5, <2>4, <2>5 DEF Counted
(* A step within a cell, or after the last one, that leaves what was found. *)
<1>6. ASSUME UNCHANGED <<cell, total>>,
             \A c \in Cells, t \in Targets : c < cell => (Found(c, t)' <=> Found(c, t)),
             phase' = "done" => UNCHANGED <<phase, report>>
      PROVE  Counted'
  BY <1>2, <1>3, <1>6 DEF Counted, Full
<1>7. CASE Designs \/ Resets
  <2>1. /\ UNCHANGED <<cell, total, report>> /\ phase' # "done"
        /\ \A c \in Cells : c < cell => best'["data"][c] = best["data"][c]
    <3>1. \A c \in Cells : c < cell => c # cell
      BY <1>1
    <3>2. CASE Designs
      BY <1>3, <3>1, <3>2 DEF Designs, Array
    <3>3. CASE Resets
      BY <1>3, <3>1, <3>3 DEF Resets
    <3> QED
      BY <1>7, <3>2, <3>3
  <2> QED
    BY <1>6, <2>1 DEF Found
<1>8. CASE MergeCell
  <2>1. /\ idx \in Cells /\ 1 \in Cells
        /\ \A c \in Cells : c # 1 => best'["data"][c] = best["data"][c]
        /\ \A t \in Targets : best'["data"][1][t] = MergedData(idx, t)
    BY <1>3, <1>8, MergeStep
  <2>2. /\ phase = "merge" /\ UNCHANGED <<phase, cell, total, report>>
        /\ cell = NumCells + 1
    BY <1>8 DEF MergeCell, Inv, Control, Final
  <2>3. \A c \in Cells : c < cell
    BY <2>2 DEF Cells
  <2>4. \A t \in Targets :
          best'["data"][1][t].cost[t] = best["data"][1][t].cost[t] \/
            /\ best'["data"][1][t].cost[t] = best["data"][idx][t].cost[t]
            /\ best'["data"][1][t].cost[t] < best["data"][1][t].cost[t]
    <3> TAKE t \in Targets
    <3>1. best["data"][idx][t] \in Result
      BY <1>3, <2>1, BestTypes
    <3>2. CASE Improves(best["data"][1][t], limit["data"][1], t, best["data"][idx][t])
      <4>1. MergedData(idx, t) = [best["data"][idx][t] EXCEPT !.tech = idx]
        BY <3>2 DEF MergedData
      <4>2. MergedData(idx, t).cost = best["data"][idx][t].cost
        BY <3>1, <4>1 DEF Result
      <4> QED
        BY <2>1, <3>2, <4>2 DEF Improves
    <3>3. CASE ~Improves(best["data"][1][t], limit["data"][1], t, best["data"][idx][t])
      BY <2>1, <3>3 DEF MergedData
    <3> QED
      BY <3>2, <3>3
  <2>5. \A c \in Cells, t \in Targets : Found(c, t) => Found(c, t)'
    <3> TAKE c \in Cells, t \in Targets
    <3>1. CASE c = 1
      BY <1>4, <2>4, <3>1 DEF Found
    <3>2. CASE c # 1
      BY <2>1, <3>2 DEF Found
    <3> QED
      BY <3>1, <3>2
  <2>6. \A c \in Cells, t \in Targets : Found(c, t)' => total > 0
    <3> SUFFICES ASSUME NEW c \in Cells, NEW t \in Targets, Found(c, t)'
                 PROVE  Found(1, t) \/ Found(idx, t) \/ Found(c, t)
      BY <1>2, <2>1, <2>3
    <3>1. CASE c = 1
      BY <2>4, <3>1 DEF Found
    <3>2. CASE c # 1
      BY <2>1, <3>2 DEF Found
    <3> QED
      BY <3>1, <3>2
  <2> QED
    BY <1>2, <2>2, <2>3, <2>5, <2>6 DEF Counted
<1>9. CASE best' = best
  <2>1. \A c, t : Found(c, t)' <=> Found(c, t)
    BY <1>9 DEF Found
  <2>2. CASE EndWalk /\ phase' = "cell"
    <3>1. /\ phase = "enumerate" /\ kind = "tag" /\ solutions = 0
          /\ cell' = cell + 1 /\ total' = total + 0 /\ cell \in Cells
      BY <1>1, <2>2 DEF EndWalk, Return, Inv, Control, Array
    <3>2. Untouched("data", cell)
      BY <3>1 DEF Inv, Fresh, Array
    <3>3. \A t \in Targets : ~Found(cell, t)
      BY <3>2 DEF Untouched, Found
    <3> QED
      BY <1>5, <1>9, <2>2, <3>1, <3>3
  <2>3. CASE (AfterData /\ phase' = "cell") \/ EndConstrained
    <3>1. /\ phase \in {"afterData", "constrained"} /\ phase' = "cell"
          /\ cell' = cell + 1 /\ total' = total + solutions
      BY <2>3 DEF AfterData, EndConstrained, Return
    <3>2. cell \in Cells /\ \A t \in Targets : solutions > 0 <=> Found(cell, t)
      BY <3>1 DEF Inv, Control, Array, CountedMeansFound, Found
    <3> QED
      BY <1>1, <1>5, <1>9, <3>1, <3>2
  <2>4. CASE \/ EndWalk /\ phase' # "cell"
             \/ AfterData /\ phase' # "cell"
             \/ StartCell \/ TryOrganisation \/ RefineLocal \/ EndRefineLocal
             \/ RefineGlobal \/ EndRefineGlobal \/ EndCells \/ EndMerge
             \/ Stopped \/ UNCHANGED vars
    <3>1. /\ UNCHANGED <<cell, total>>
          /\ phase' = "done" => UNCHANGED <<phase, report>>
      BY <2>4 DEF EndWalk, Return, AfterData, StartCell, TryOrganisation,
         RefineLocal, EndRefineLocal, RefineGlobal, EndRefineGlobal, EndCells,
         EndMerge, Stopped, vars
    <3> QED
      BY <1>6, <2>1, <3>1
  <2>5. CASE Report
    <3>1. /\ UNCHANGED <<cell, total>>
          /\ cfg.target # Full => (report' = "designs" <=> total > 0)
      BY <2>5 DEF Report
    <3> QED
      BY <1>2, <1>3, <2>1, <3>1 DEF Counted, Full
  <2>6. MergeCell => Counted'
    BY <1>8
  <2> QED
    BY <2>2, <2>3, <2>4, <2>5, <2>6 DEF Next
<1> QED
  BY <1>7, <1>8, <1>9, BestStep

-----------------------------------------------------------------------------
(* The merge without limits.                                                *)

(* Limits are only set under a design constraint.                           *)
LEMMA NoLimitStep ==
  ASSUME Inv, ~cfg.constrained, \A c \in Cells : limit["data"][c] = NoLimit,
         [Next]_vars
  PROVE  \A c \in Cells : limit'["data"][c] = NoLimit
<1>1. limit' = limit
  BY DEF Next, StartCell, TryOrganisation, EndWalk, RefineLocal, RefineGlobal,
         EndRefineLocal, EndRefineGlobal, AfterData, EndConstrained, EndCells,
         MergeCell, EndMerge, Report, Stopped, vars
<1> QED
  BY <1>1

(* Without limits the merge of cell idx makes the first cell at least as    *)
(* good as it.                                                              *)
LEMMA MergeTakesTheBetter ==
  ASSUME Inv, MergeCell, limit["data"][1] = NoLimit, BestOfFirst(idx)
  PROVE  BestOfFirst(idx)'
<1>1. /\ idx \in Cells /\ idx \in Int /\ 1 \in Cells
      /\ \A c \in Cells : c # 1 => best'["data"][c] = best["data"][c]
      /\ \A t \in Targets : best'["data"][1][t] = MergedData(idx, t)
  BY MergeStep DEF Kinds
<1>2. \A c \in Cells, t \in Targets :
        best["data"][c][t] \in Result /\ best["data"][c][t].cost[t] \in 0..Inf
  BY BestTypes DEF Kinds
<1>3. ASSUME NEW t \in Targets
      PROVE  /\ best'["data"][1][t].cost[t] \in Int
             /\ best'["data"][1][t].cost[t] <= best["data"][1][t].cost[t]
             /\ best'["data"][1][t].cost[t] <= best["data"][idx][t].cost[t]
  <2> DEFINE old == best["data"][1][t]
             new == best["data"][idx][t]
  <2>1. old \in Result /\ new \in Result
    BY <1>1, <1>2
  <2>2. \A u \in Targets : new.cost[u] \in 0..Inf
    <3> HIDE DEF new
    <3> QED
      BY <2>1, CostType
  <2>3. old.cost[t] \in 0..Inf
    BY <1>1, <1>2
  <2>4. Within(new.cost, limit["data"][1])
    <3> HIDE DEF new
    <3> QED
      BY <2>2 DEF Within, NoLimit
  <2>5. MergedData(idx, t) = IF new.cost[t] < old.cost[t]
                             THEN [new EXCEPT !.tech = idx] ELSE old
    BY <2>4 DEF MergedData, Improves
  <2>6. [new EXCEPT !.tech = idx].cost = new.cost
    <3> HIDE DEF new
    <3> QED
      BY <2>1 DEF Result
  <2>7. best'["data"][1][t] = MergedData(idx, t)
    BY <1>1
  <2>8. new.cost[t] \in 0..Inf
    BY <2>2
  <2>9. \/ best'["data"][1][t].cost[t] = new.cost[t] /\ new.cost[t] < old.cost[t]
        \/ best'["data"][1][t].cost[t] = old.cost[t] /\ ~(new.cost[t] < old.cost[t])
    <3> HIDE DEF new, old
    <3> QED
      BY <2>5, <2>6, <2>7
  <2> QED
    BY <2>3, <2>8, <2>9
<1>4. idx' = idx + 1
  BY DEF MergeCell
<1>5. ASSUME NEW c \in Cells, NEW t \in Targets, c < idx + 1
      PROVE  best'["data"][1][t].cost[t] <= best'["data"][c][t].cost[t]
  <2>1. c \in Int
    BY DEF Cells
  <2>2. CASE c = 1
    BY <1>3, <2>2
  <2>3. CASE c # 1 /\ c = idx
    BY <1>1, <1>3, <2>3
  <2>4. CASE c # 1 /\ c # idx
    <3>1. c < idx
      BY <1>1, <1>5, <2>1, <2>4
    <3>2. best["data"][1][t].cost[t] <= best["data"][c][t].cost[t]
      BY <3>1 DEF BestOfFirst
    <3> QED
      BY <1>1, <1>2, <1>3, <2>4, <3>2
  <2> QED
    BY <2>2, <2>3, <2>4
<1> QED
  BY <1>4, <1>5 DEF BestOfFirst

LEMMA MergedStep ==
  ASSUME Inv, Inv', Merged, [Next]_vars
  PROVE  Merged'
<1>1. cfg' = cfg
  BY Flow
<1> SUFFICES ASSUME ~cfg.constrained
             PROVE  /\ \A c \in Cells : limit'["data"][c] = NoLimit
                    /\ phase' = "merge" => BestOfFirst(idx)'
                    /\ phase' \in {"report", "done"} /\ cfg.target # Full =>
                         BestOfFirst(NumCells + 1)'
  BY <1>1 DEF Merged, NoLimit, Full
<1>2. /\ \A c \in Cells : limit["data"][c] = NoLimit
      /\ phase = "merge" => BestOfFirst(idx)
      /\ phase \in {"report", "done"} /\ cfg.target # Full =>
           BestOfFirst(NumCells + 1)
  BY DEF Merged
<1>3. \A c \in Cells : limit'["data"][c] = NoLimit
  BY <1>2, NoLimitStep
<1>4. CASE EndCells
  <2>1. phase' = (IF cfg.target # Full THEN "merge" ELSE "report") /\ idx' = 2
    BY <1>4 DEF EndCells
  <2>2. \A t \in Targets : best'["data"][1][t].cost[t] \in Int
    <3>1. best' \in [Kinds -> [Cells -> [Targets -> Result]]]
      BY DEF Inv, TypeOK
    <3>2. "data" \in Kinds /\ 1 \in Cells
      BY DEF Kinds, Cells
    <3>3. \A t \in Targets : best'["data"][1][t].cost[t] \in 0..Inf
      BY <3>1, <3>2, ResultTypes
    <3> QED
      BY <3>3
  <2>3. \A c \in Cells : c < idx' => c = 1
    BY <2>1 DEF Cells
  <2>4. BestOfFirst(idx)'
    BY <2>2, <2>3 DEF BestOfFirst
  <2> QED
    BY <1>3, <2>1, <2>4
<1>5. CASE MergeCell
  <2>1. phase = "merge" /\ phase' = "merge" /\ idx' = idx + 1
    BY <1>5 DEF MergeCell
  <2>2. limit["data"][1] = NoLimit
    BY <1>2 DEF Cells
  <2>3. BestOfFirst(idx)'
    BY <1>2, <1>5, <2>1, <2>2, MergeTakesTheBetter
  <2> QED
    BY <1>3, <2>1, <2>3
<1>6. CASE EndMerge
  <2>1. phase = "merge" /\ phase' = "report" /\ idx > NumCells /\ best' = best
    BY <1>6 DEF EndMerge
  <2>2. \A c \in Cells : c < idx
    <3>1. idx \in Nat
      BY DEF Inv, TypeOK
    <3> QED
      BY <2>1, <3>1 DEF Cells
  <2>3. BestOfFirst(NumCells + 1)'
    BY <1>2, <2>1, <2>2 DEF BestOfFirst
  <2> QED
    BY <1>3, <2>1, <2>3
<1>7. CASE Report \/ Stopped \/ UNCHANGED vars
  <2>1. /\ best' = best
        /\ phase' = "merge" => phase = "merge" /\ idx' = idx
        /\ phase' \in {"report", "done"} => phase \in {"report", "done"}
    BY <1>7 DEF Report, Stopped, vars
  <2> QED
    BY <1>2, <1>3, <2>1 DEF BestOfFirst
<1>8. CASE \/ StartCell \/ TryOrganisation \/ EndWalk \/ RefineLocal
           \/ EndRefineLocal \/ RefineGlobal \/ EndRefineGlobal \/ AfterData
           \/ EndConstrained
  <2>1. phase' \notin Final
    BY <1>8 DEF StartCell, TryOrganisation, EndWalk, RefineLocal, EndRefineLocal,
       RefineGlobal, EndRefineGlobal, AfterData, EndConstrained, Return, Final
  <2> QED
    BY <1>3, <2>1 DEF Final
<1> QED
  BY <1>4, <1>5, <1>6, <1>7, <1>8 DEF Next

-----------------------------------------------------------------------------
(* The theorems.                                                            *)

LEMMA InitReports == Init => Reports
<1> SUFFICES ASSUME Init PROVE Reports
  OBVIOUS
<1>1. \A k \in Kinds, c \in Cells, t \in Targets :
        /\ best[k][c][t].cost[t] = Inf
        /\ best[k][c][t].src = c /\ best[k][c][t].tech = c
  BY DEF Init, WorstResult
<1>2. "data" \in Kinds /\ "tag" \in Kinds /\ 1 \in Cells
  BY DEF Kinds, Cells
<1>3. Labels
  BY <1>1, <1>2 DEF Init, Labels
<1>4. Written
  <2>1. \A c \in Cells : tried["data"][c] = 0
    BY <1>2 DEF Init
  <2>2. EveryDesignWritten
    BY <2>1 DEF Init, EveryDesignWritten
  <2> QED
    BY <2>2 DEF Init, Written
<1>5. Counted
  BY <1>1, <1>2 DEF Init, Counted, Found, Cells
<1>6. Merged
  BY <1>2 DEF Init, Merged
<1> QED
  BY <1>3, <1>4, <1>5, <1>6, InitInv DEF Reports

(* The invariant of the search together with what main() reports.           *)
THEOREM ReportsInvariant == Spec => []Reports
<1>1. Reports /\ [Next]_vars => Reports'
  <2> SUFFICES ASSUME Reports, [Next]_vars PROVE Reports'
    OBVIOUS
  <2>1. Inv /\ Labels /\ Written /\ Counted /\ Merged
    BY DEF Reports
  <2>2. Inv'
    BY <2>1, StepInv
  <2> QED
    BY <2>1, <2>2, LabelsStep, WrittenStep, CountedStep, MergedStep DEF Reports
<1> QED
  BY <1>1, InitReports, PTL DEF Spec

(* The cell printed with a design is the one its bank was computed with,    *)
(* and without otherTag the tag array is of the same cell (main.cpp:254).   *)
THEOREM PrintedCells == Spec => []CellLabels
<1>1. Reports => CellLabels
  BY DEF Reports, Labels, CellLabels
<1> QED
  BY <1>1, ReportsInvariant, PTL

(* In a full exploration every valid organisation that was walked has its   *)
(* row in the CSV file for good (OUTPUT_TO_FILE).                           *)
THEOREM RowForEveryDesign == Spec => []EveryDesignWritten
<1>1. Reports => EveryDesignWritten
  BY DEF Reports, Written
<1> QED
  BY <1>1, ReportsInvariant, PTL

(* main() prints a design exactly when some cell has a data bank, and `No   *)
(* valid solutions.' otherwise (main.cpp:276-297).                          *)
THEOREM ReportIsRight == Spec => []SolutionsReported
<1>1. Reports => SolutionsReported
  <2> SUFFICES ASSUME Reports, phase = "done", cfg.target # Full
               PROVE  report = "designs" <=>
                        \E c \in Cells : \A t \in Targets : Found(c, t)
    BY DEF SolutionsReported
  <2>1. cell = NumCells + 1
    BY DEF Reports, Inv, Control, Final
  <2>2. \A c \in Cells : c < cell
    BY <2>1 DEF Cells
  <2>3. 1 \in Targets
    OBVIOUS
  <2> QED
    BY <2>2, <2>3 DEF Reports, Counted
<1> QED
  BY <1>1, ReportsInvariant, PTL

(* Without a design constraint the design main() prints is, target by       *)
(* target, at least as good as the winner of every cell (main.cpp:249).     *)
THEOREM PrintsTheBestOfAll == Spec => []BestWithoutLimits
<1>1. Reports => BestWithoutLimits
  <2> SUFFICES ASSUME Reports, ~cfg.constrained, phase = "done",
                      cfg.target # Full, NEW c \in Cells, NEW t \in Targets
               PROVE  best["data"][1][t].cost[t] <= best["data"][c][t].cost[t]
    BY DEF BestWithoutLimits, BestOfTheBest
  <2>1. c < NumCells + 1
    BY DEF Cells
  <2> QED
    BY <2>1 DEF Reports, Merged, BestOfFirst
<1> QED
  BY <1>1, ReportsInvariant, PTL

(* No step but APPLY_LIMIT, for the cell being designed, makes a winner     *)
(* worse: not a later cell, a wire refinement or the merge.                 *)
THEOREM ResultsNeverWorse == Spec => NeverWorse
<1> DEFINE NoneWorse ==
      \A c \in Cells, t \in Targets :
        best["data"][c][t].cost[t] < best'["data"][c][t].cost[t] =>
          phase = "afterData" /\ c = cell
<1>1. Inv /\ [Next]_vars => [NoneWorse]_vars
  <2> SUFFICES ASSUME Inv, [Next]_vars, NEW c \in Cells, NEW t \in Targets,
                      best["data"][c][t].cost[t] < best'["data"][c][t].cost[t]
               PROVE  phase = "afterData" /\ c = cell
    OBVIOUS
  <2>1. "data" \in Kinds
    BY DEF Kinds
  <2>2. best["data"][c][t].cost[t] \in 0..Inf
    BY <2>1, BestTypes
  <2>3. best'["data"][c][t].cost[t] # best["data"][c][t].cost[t]
    BY <2>2
  <2>4. best'["data"][c] # best["data"][c]
    BY <2>3
  <2>5. CASE Resets
    BY <2>1, <2>4, <2>5 DEF Resets
  <2>6. ~Designs
    <3> SUFFICES ASSUME Designs PROVE FALSE
      OBVIOUS
    <3>1. kind = "data" /\ c = cell
      BY <2>1, <2>4 DEF Designs
    <3>2. best'["data"][c][t].cost[t] <= best["data"][c][t].cost[t]
      BY <3>1 DEF Designs
    <3>3. best'["data"][c][t].cost[t] \in 0..Inf
      <4>1. Inv'
        BY StepInv
      <4>2. best' \in [Kinds -> [Cells -> [Targets -> Result]]]
        BY <4>1 DEF Inv, TypeOK
      <4> QED
        BY <2>1, <4>2, ResultTypes
    <3> QED
      BY <2>2, <3>2, <3>3
  <2>7. ~MergeCell
    <3> SUFFICES ASSUME MergeCell PROVE FALSE
      OBVIOUS
    <3>1. /\ idx \in Cells
          /\ c # 1 => best'["data"][c] = best["data"][c]
          /\ best'["data"][1][t] = MergedData(idx, t)
      BY <2>1, MergeStep
    <3>2. c = 1
      BY <2>4, <3>1
    <3>3. best["data"][idx][t] \in Result /\ best["data"][idx][t].cost[t] \in 0..Inf
      BY <2>1, <3>1, BestTypes
    <3>4. CASE Improves(best["data"][1][t], limit["data"][1], t, best["data"][idx][t])
      <4>1. MergedData(idx, t) = [best["data"][idx][t] EXCEPT !.tech = idx]
        BY <3>4 DEF MergedData
      <4>2. MergedData(idx, t).cost = best["data"][idx][t].cost
        BY <3>3, <4>1 DEF Result
      <4>3. best["data"][idx][t].cost[t] < best["data"][1][t].cost[t]
        BY <3>4 DEF Improves
      <4> QED
        BY <2>2, <3>1, <3>2, <3>3, <4>2, <4>3
    <3>5. CASE ~Improves(best["data"][1][t], limit["data"][1], t, best["data"][idx][t])
      BY <2>3, <3>1, <3>2, <3>5 DEF MergedData
    <3> QED
      BY <3>4, <3>5
  <2> QED
    BY <2>4, <2>5, <2>6, <2>7, BestStep
<1> QED
  BY <1>1, Invariance, PTL DEF Spec, NeverWorse
=============================================================================
