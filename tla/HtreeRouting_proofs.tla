------------------------- MODULE HtreeRouting_proofs -------------------------
(***************************************************************************)
(* Proofs that the routing loops fill the levels of the tree in order and  *)
(* stay within their arrays, for a bank of any size and any activation,    *)
(* and that the levels of a bank carry its block, whose bits are halved at *)
(* every level with both sides active.                                     *)
(***************************************************************************)
EXTENDS HtreeRouting, BankShape_proofs

(* Where the loops are.  A level counter is below its start once the first  *)
(* horizontal level is routed, and `pair' has a level left on both sides.   *)
Loops ==
  /\ request \in Requests
  /\ pc \in {"start", "route", "pair", "mat", "done"}
  /\ h \in 0..levelHorizontal /\ v \in 0..levelVertical
  /\ pc # "done" => invalid = FALSE
  /\ pc = "start" => h = levelHorizontal /\ v = levelVertical
  /\ pc # "start" /\ ~invalid /\ levelHorizontal > 0 => h < levelHorizontal
  /\ pc = "pair" => h = v /\ h > 0
  /\ pc \in {"mat", "done"} /\ ~invalid => h = 0 /\ v = 0

(* Exactly the first `done' of n levels are routed.                         *)
FilledTo(levels, n, done) ==
  /\ levels = [i \in 0..n - 1 |-> levels[i]]
  /\ \A i \in 0..n - 1 : levels[i].sum \in Int /\ (levels[i].sum > 0 <=> i < done)

Filled ==
  ~invalid => /\ FilledTo(horizontal, levelHorizontal, DoneHorizontal)
              /\ FilledTo(vertical, levelVertical, DoneVertical)

LevelInv == Loops /\ Filled

(* The assumption on the constants: an array of levels has a size.          *)
LEMMA LevelsAreNat ==
  ASSUME request \in Requests
  PROVE  levelHorizontal \in Nat /\ levelVertical \in Nat
BY LevelAssumption DEF levelHorizontal, levelVertical

(* The size of the arrays does not change while the bank is routed.         *)
LEMMA LevelsStay ==
  ASSUME request' = request
  PROVE  levelHorizontal' = levelHorizontal /\ levelVertical' = levelVertical
BY DEF levelHorizontal, levelVertical

(* Routing the next level of an array.                                      *)
LEMMA FillNext ==
  ASSUME NEW levels, NEW n \in Nat, NEW done \in 0..n - 1, NEW level,
         FilledTo(levels, n, done), level.sum \in Int, level.sum > 0
  PROVE  FilledTo([levels EXCEPT ![done] = level], n, done + 1)
<1> DEFINE next == [levels EXCEPT ![done] = level]
<1>1. levels = [i \in 0..n - 1 |-> levels[i]]
  BY DEF FilledTo
<1>2. \A i \in 0..n - 1 : next[i] = IF i = done THEN level ELSE levels[i]
  BY <1>1
<1>3. next = [i \in 0..n - 1 |-> next[i]]
  BY <1>1
<1>4. ASSUME NEW i \in 0..n - 1
      PROVE  next[i].sum \in Int /\ (next[i].sum > 0 <=> i < done + 1)
  <2>1. levels[i].sum \in Int /\ (levels[i].sum > 0 <=> i < done)
    BY DEF FilledTo
  <2>2. CASE i = done
    BY <1>2, <2>2
  <2>3. CASE i # done
    <3>1. next[i] = levels[i]
      BY <1>2, <2>3
    <3>2. i < done + 1 <=> i < done
      BY <2>3
    <3> QED BY <3>1, <3>2, <2>1
  <2> QED BY <2>2, <2>3
<1> HIDE DEF next
<1>5. FilledTo(next, n, done + 1)
  BY <1>3, <1>4 DEF FilledTo
<1> QED BY <1>5 DEF next

(* A level below a routed one is routed.                                    *)
LEMMA BelowRouted ==
  ASSUME NEW up, NEW tiers, NEW halved, up.sum \in Int, up.sum > 0
  PROVE  Below(up, tiers, halved).sum \in Int /\ Below(up, tiers, halved).sum > 0
<1>1. Below(up, tiers, halved).sum = 2 * up.sum
  BY DEF Below, Level
<1> QED BY <1>1

-----------------------------------------------------------------------------
LEMMA InitLevels == Init => LevelInv
<1> SUFFICES ASSUME Init PROVE LevelInv
  OBVIOUS
<1>1. request \in Requests
  BY DEF Init
<1>2. levelHorizontal \in Nat /\ levelVertical \in Nat
  BY <1>1, LevelsAreNat
<1>3. /\ pc = "start" /\ invalid = FALSE
      /\ h = levelHorizontal /\ v = levelVertical
      /\ horizontal = [i \in 0..levelHorizontal - 1 |-> Unrouted]
      /\ vertical = [i \in 0..levelVertical - 1 |-> Unrouted]
  BY DEF Init
<1>4. Loops
  BY <1>1, <1>2, <1>3 DEF Loops
<1>5. DoneHorizontal = 0 /\ DoneVertical = 0
  BY <1>2, <1>3 DEF DoneHorizontal, DoneVertical
<1>6. Unrouted.sum = -1
  BY DEF Unrouted, Level
<1>7. FilledTo(horizontal, levelHorizontal, 0) /\ FilledTo(vertical, levelVertical, 0)
  BY <1>2, <1>3, <1>6 DEF FilledTo
<1> QED BY <1>4, <1>5, <1>7 DEF LevelInv, Filled

(* A step that leaves the loop counters and the arrays alone, and what      *)
(* counts as routed.                                                        *)
LEMMA SameLevels ==
  ASSUME LevelInv, Loops', request' = request, ~invalid' => ~invalid,
         horizontal' = horizontal, vertical' = vertical,
         DoneHorizontal' = DoneHorizontal, DoneVertical' = DoneVertical
  PROVE  LevelInv'
BY LevelsStay DEF LevelInv, Filled

LEMMA RejectLevels == LevelInv /\ Reject => LevelInv'
<1> SUFFICES ASSUME LevelInv, Reject PROVE LevelInv'
  OBVIOUS
<1>1. request' = request /\ invalid' = TRUE /\ pc' = "done" /\ h' = h /\ v' = v
  BY DEF Reject, route
<1>2. Loops'
  BY <1>1, LevelsStay DEF LevelInv, Loops
<1> QED BY <1>1, <1>2 DEF LevelInv, Filled

LEMMA StartLevels == LevelInv /\ Start => LevelInv'
<1> SUFFICES ASSUME LevelInv, Start PROVE LevelInv'
  OBVIOUS
<1>1. /\ request' = request /\ invalid' = invalid /\ pc = "start" /\ pc' = "route"
      /\ v' = v /\ vertical' = vertical
  BY DEF Start
<1>2. levelHorizontal \in Nat /\ levelVertical \in Nat
  BY LevelsAreNat DEF LevelInv, Loops
<1>3. levelHorizontal' = levelHorizontal /\ levelVertical' = levelVertical
  BY <1>1, LevelsStay
<1>4. h = levelHorizontal /\ v = levelVertical /\ ~invalid /\ request \in Requests
  BY <1>1 DEF LevelInv, Loops
<1>5. FilledTo(horizontal, levelHorizontal, 0) /\ FilledTo(vertical, levelVertical, 0)
  <2>1. DoneHorizontal = 0 /\ DoneVertical = 0
    BY <1>1, <1>2, <1>4 DEF DoneHorizontal, DoneVertical
  <2> QED BY <1>4, <2>1 DEF LevelInv, Filled
<1>6. CASE levelHorizontal > 0
  <2>1. h' = h - 1
    BY <1>6 DEF Start
  <2>2. horizontal' = [horizontal EXCEPT ![0] =
                         Level(address, distribute, broadcast, 1, 1, 1)]
    BY <1>6 DEF Start
  <2>3. Level(address, distribute, broadcast, 1, 1, 1).sum = 1
    BY DEF Level
  <2>4. FilledTo(horizontal', levelHorizontal, 0 + 1)
    <3> DEFINE level == Level(address, distribute, broadcast, 1, 1, 1)
    <3>1. horizontal' = [horizontal EXCEPT ![0] = level]
      BY <2>2
    <3>2. level.sum \in Int /\ level.sum > 0
      BY <2>3
    <3>3. 0 \in 0..levelHorizontal - 1
      BY <1>2, <1>6
    <3> HIDE DEF level
    <3>4. FilledTo([horizontal EXCEPT ![0] = level], levelHorizontal, 0 + 1)
      BY <1>2, <1>5, <3>2, <3>3, FillNext
    <3> QED BY <3>1, <3>4
  <2>5. DoneHorizontal' = 1 /\ DoneVertical' = 0
    BY <1>1, <1>2, <1>3, <1>4, <2>1 DEF DoneHorizontal, DoneVertical
  <2>6. Loops'
    BY <1>1, <1>2, <1>3, <1>4, <1>6, <2>1 DEF Loops
  <2>7. 0 + 1 = 1
    OBVIOUS
  <2> QED BY <1>1, <1>3, <1>5, <2>4, <2>5, <2>6, <2>7 DEF LevelInv, Filled
<1>7. CASE ~(levelHorizontal > 0)
  <2>1. h' = h /\ horizontal' = horizontal
    BY <1>7 DEF Start
  <2>2. DoneHorizontal' = 0 /\ DoneVertical' = 0
    BY <1>1, <1>2, <1>3, <1>4, <2>1 DEF DoneHorizontal, DoneVertical
  <2>3. Loops'
    BY <1>1, <1>2, <1>3, <1>4, <1>7, <2>1 DEF Loops
  <2> QED BY <1>1, <1>3, <1>5, <2>1, <2>2, <2>3 DEF LevelInv, Filled
<1> QED BY <1>6, <1>7

(* while (h > v)                                                            *)
LEMMA ReduceHorizontalLevels == LevelInv /\ ReduceHorizontal => LevelInv'
<1> SUFFICES ASSUME LevelInv, ReduceHorizontal PROVE LevelInv'
  OBVIOUS
<1> DEFINE halved == columnToActive > 1
           level  == Below(HorizontalAbove, 1, halved)
<1>1. /\ request' = request /\ invalid' = invalid /\ pc = "route" /\ pc' = "route"
      /\ v' = v /\ vertical' = vertical /\ h > v /\ h' = h - 1
      /\ horizontal' = [horizontal EXCEPT ![levelHorizontal - h] = level]
  BY DEF ReduceHorizontal, SplitColumns
<1>2. levelHorizontal \in Nat /\ levelVertical \in Nat
  BY LevelsAreNat DEF LevelInv, Loops
<1>3. levelHorizontal' = levelHorizontal /\ levelVertical' = levelVertical
  BY <1>1, LevelsStay
<1>4. /\ ~invalid /\ request \in Requests /\ h \in 0..levelHorizontal
      /\ v \in 0..levelVertical /\ h < levelHorizontal
  BY <1>1, <1>2 DEF LevelInv, Loops
<1>5. DoneHorizontal = levelHorizontal - h /\ DoneVertical = levelVertical - v
  BY <1>1, <1>2, <1>4 DEF DoneHorizontal, DoneVertical
<1>6. /\ FilledTo(horizontal, levelHorizontal, levelHorizontal - h)
      /\ FilledTo(vertical, levelVertical, levelVertical - v)
  BY <1>4, <1>5 DEF LevelInv, Filled
<1>7. HorizontalAbove.sum \in Int /\ HorizontalAbove.sum > 0
  <2>1. /\ levelHorizontal - h - 1 \in 0..levelHorizontal - 1
        /\ levelHorizontal - h - 1 < levelHorizontal - h
    BY <1>2, <1>4
  <2> QED BY <1>6, <2>1 DEF FilledTo, HorizontalAbove
<1>8. level.sum \in Int /\ level.sum > 0
  BY <1>7, BelowRouted
<1>9. levelHorizontal - h \in 0..levelHorizontal - 1
  BY <1>1, <1>2, <1>4
<1> HIDE DEF level
<1>10. FilledTo([horizontal EXCEPT ![levelHorizontal - h] = level],
                levelHorizontal, levelHorizontal - h + 1)
  BY <1>2, <1>6, <1>8, <1>9, FillNext
<1>11. /\ DoneHorizontal' = levelHorizontal - h + 1
       /\ DoneVertical' = levelVertical - v
  BY <1>1, <1>2, <1>3, <1>4 DEF DoneHorizontal, DoneVertical
<1>12. Loops'
  BY <1>1, <1>2, <1>3, <1>4 DEF Loops
<1> QED BY <1>1, <1>3, <1>6, <1>10, <1>11, <1>12 DEF LevelInv, Filled

(* while (v > h)                                                            *)
LEMMA ReduceVerticalLevels == LevelInv /\ ReduceVertical => LevelInv'
<1> SUFFICES ASSUME LevelInv, ReduceVertical PROVE LevelInv'
  OBVIOUS
<1> DEFINE halved == rowToActive > 1
           up     == IF v = levelVertical THEN Root ELSE VerticalAbove
           level  == Below(up, 1, halved)
<1>1. /\ request' = request /\ invalid' = invalid /\ pc = "route" /\ pc' = "route"
      /\ h' = h /\ horizontal' = horizontal /\ v > h /\ v' = v - 1
      /\ vertical' = [vertical EXCEPT ![levelVertical - v] = level]
  BY DEF ReduceVertical, SplitRows
<1>2. levelHorizontal \in Nat /\ levelVertical \in Nat
  BY LevelsAreNat DEF LevelInv, Loops
<1>3. levelHorizontal' = levelHorizontal /\ levelVertical' = levelVertical
  BY <1>1, LevelsStay
<1>4. /\ ~invalid /\ request \in Requests /\ h \in 0..levelHorizontal
      /\ v \in 0..levelVertical /\ (levelHorizontal > 0 => h < levelHorizontal)
  BY <1>1, <1>2 DEF LevelInv, Loops
<1>5. DoneHorizontal = levelHorizontal - h /\ DoneVertical = levelVertical - v
  BY <1>1, <1>2, <1>4 DEF DoneHorizontal, DoneVertical
<1>6. /\ FilledTo(horizontal, levelHorizontal, levelHorizontal - h)
      /\ FilledTo(vertical, levelVertical, levelVertical - v)
  BY <1>4, <1>5 DEF LevelInv, Filled
<1>7. up.sum \in Int /\ up.sum > 0
  <2>1. CASE v = levelVertical
    BY <2>1 DEF Root
  <2>2. CASE v # levelVertical
    <3>1. /\ levelVertical - v - 1 \in 0..levelVertical - 1
          /\ levelVertical - v - 1 < levelVertical - v
      BY <1>2, <1>4, <2>2
    <3>2. VerticalAbove.sum \in Int /\ VerticalAbove.sum > 0
      BY <1>6, <3>1 DEF FilledTo, VerticalAbove
    <3> QED BY <2>2, <3>2
  <2> QED BY <2>1, <2>2
<1> HIDE DEF up
<1>8. level.sum \in Int /\ level.sum > 0
  BY <1>7, BelowRouted
<1>9. levelVertical - v \in 0..levelVertical - 1
  BY <1>1, <1>2, <1>4
<1> HIDE DEF level
<1>10. FilledTo([vertical EXCEPT ![levelVertical - v] = level],
                levelVertical, levelVertical - v + 1)
  BY <1>2, <1>6, <1>8, <1>9, FillNext
<1>11. /\ DoneHorizontal' = levelHorizontal - h
       /\ DoneVertical' = levelVertical - v + 1
  BY <1>1, <1>2, <1>3, <1>4 DEF DoneHorizontal, DoneVertical
<1>12. Loops'
  BY <1>1, <1>2, <1>3, <1>4 DEF Loops
<1> QED BY <1>1, <1>3, <1>6, <1>10, <1>11, <1>12 DEF LevelInv, Filled

(* while (h > 0): the horizontal level of a pair.                           *)
LEMMA PairHorizontalLevels == LevelInv /\ PairHorizontal => LevelInv'
<1> SUFFICES ASSUME LevelInv, PairHorizontal PROVE LevelInv'
  OBVIOUS
<1> DEFINE halved == columnToActive > 1
           up     == IF v = levelVertical THEN HorizontalAbove ELSE VerticalAbove
           level  == Below(up, hTemp, halved)
<1>1. /\ request' = request /\ invalid' = invalid /\ pc = "route" /\ pc' = "pair"
      /\ h' = h /\ v' = v /\ vertical' = vertical /\ h = v /\ h > 0
      /\ horizontal' = [horizontal EXCEPT ![levelHorizontal - h] = level]
  BY DEF PairHorizontal, SplitColumns
<1>2. levelHorizontal \in Nat /\ levelVertical \in Nat
  BY LevelsAreNat DEF LevelInv, Loops
<1>3. levelHorizontal' = levelHorizontal /\ levelVertical' = levelVertical
  BY <1>1, LevelsStay
<1>4. /\ ~invalid /\ request \in Requests /\ h \in 0..levelHorizontal
      /\ v \in 0..levelVertical /\ h < levelHorizontal
  BY <1>1, <1>2 DEF LevelInv, Loops
<1>5. DoneHorizontal = levelHorizontal - h /\ DoneVertical = levelVertical - v
  BY <1>1, <1>2, <1>4 DEF DoneHorizontal, DoneVertical
<1>6. /\ FilledTo(horizontal, levelHorizontal, levelHorizontal - h)
      /\ FilledTo(vertical, levelVertical, levelVertical - v)
  BY <1>4, <1>5 DEF LevelInv, Filled
<1>7. up.sum \in Int /\ up.sum > 0
  <2>1. CASE v = levelVertical
    <3>1. /\ levelHorizontal - h - 1 \in 0..levelHorizontal - 1
          /\ levelHorizontal - h - 1 < levelHorizontal - h
      BY <1>2, <1>4
    <3>2. HorizontalAbove.sum \in Int /\ HorizontalAbove.sum > 0
      BY <1>6, <3>1 DEF FilledTo, HorizontalAbove
    <3> QED BY <2>1, <3>2
  <2>2. CASE v # levelVertical
    <3>1. /\ levelVertical - v - 1 \in 0..levelVertical - 1
          /\ levelVertical - v - 1 < levelVertical - v
      BY <1>2, <1>4, <2>2
    <3>2. VerticalAbove.sum \in Int /\ VerticalAbove.sum > 0
      BY <1>6, <3>1 DEF FilledTo, VerticalAbove
    <3> QED BY <2>2, <3>2
  <2> QED BY <2>1, <2>2
<1> HIDE DEF up
<1>8. level.sum \in Int /\ level.sum > 0
  BY <1>7, BelowRouted
<1>9. levelHorizontal - h \in 0..levelHorizontal - 1
  BY <1>1, <1>2, <1>4
<1> HIDE DEF level
<1>10. FilledTo([horizontal EXCEPT ![levelHorizontal - h] = level],
                levelHorizontal, levelHorizontal - h + 1)
  BY <1>2, <1>6, <1>8, <1>9, FillNext
<1>11. /\ DoneHorizontal' = levelHorizontal - h + 1
       /\ DoneVertical' = levelVertical - v
  BY <1>1, <1>2, <1>3, <1>4 DEF DoneHorizontal, DoneVertical
<1>12. Loops'
  BY <1>1, <1>2, <1>3, <1>4 DEF Loops
<1> QED BY <1>1, <1>3, <1>6, <1>10, <1>11, <1>12 DEF LevelInv, Filled

(* The vertical level of a pair hangs below the horizontal one.             *)
LEMMA PairVerticalLevels == LevelInv /\ PairVertical => LevelInv'
<1> SUFFICES ASSUME LevelInv, PairVertical PROVE LevelInv'
  OBVIOUS
<1> DEFINE halved == rowToActive > 1
           up     == horizontal[levelHorizontal - h]
           tiers  == IF levelHorizontal = 2 THEN vTemp ELSE 2 * vTemp
           level  == Below(up, tiers, halved)
<1>1. /\ request' = request /\ invalid' = invalid /\ pc = "pair" /\ pc' = "route"
      /\ h' = h - 1 /\ v' = v - 1 /\ horizontal' = horizontal
      /\ vertical' = [vertical EXCEPT ![levelVertical - v] = level]
  BY DEF PairVertical, SplitRows, NextPair
<1>2. levelHorizontal \in Nat /\ levelVertical \in Nat
  BY LevelsAreNat DEF LevelInv, Loops
<1>3. levelHorizontal' = levelHorizontal /\ levelVertical' = levelVertical
  BY <1>1, LevelsStay
<1>4. /\ ~invalid /\ request \in Requests /\ h \in 0..levelHorizontal
      /\ v \in 0..levelVertical /\ h = v /\ h > 0 /\ h < levelHorizontal
  BY <1>1, <1>2 DEF LevelInv, Loops
<1>5. DoneHorizontal = levelHorizontal - h + 1 /\ DoneVertical = levelVertical - v
  BY <1>1, <1>2, <1>4 DEF DoneHorizontal, DoneVertical
<1>6. /\ FilledTo(horizontal, levelHorizontal, levelHorizontal - h + 1)
      /\ FilledTo(vertical, levelVertical, levelVertical - v)
  BY <1>4, <1>5 DEF LevelInv, Filled
<1>7. up.sum \in Int /\ up.sum > 0
  <2>1. /\ levelHorizontal - h \in 0..levelHorizontal - 1
        /\ levelHorizontal - h < levelHorizontal - h + 1
    BY <1>2, <1>4
  <2> QED BY <1>6, <2>1 DEF FilledTo
<1> HIDE DEF up, tiers
<1>8. level.sum \in Int /\ level.sum > 0
  BY <1>7, BelowRouted
<1>9. levelVertical - v \in 0..levelVertical - 1
  BY <1>2, <1>4
<1> HIDE DEF level
<1>10. FilledTo([vertical EXCEPT ![levelVertical - v] = level],
                levelVertical, levelVertical - v + 1)
  BY <1>2, <1>6, <1>8, <1>9, FillNext
<1>11. /\ DoneHorizontal' = levelHorizontal - h + 1
       /\ DoneVertical' = levelVertical - v + 1
  BY <1>1, <1>2, <1>3, <1>4 DEF DoneHorizontal, DoneVertical
<1>12. Loops'
  BY <1>1, <1>2, <1>3, <1>4 DEF Loops
<1> QED BY <1>1, <1>3, <1>6, <1>10, <1>11, <1>12 DEF LevelInv, Filled

LEMMA LastLevels == LevelInv /\ Last => LevelInv'
<1> SUFFICES ASSUME LevelInv, Last PROVE LevelInv'
  OBVIOUS
<1>1. /\ request' = request /\ invalid' = invalid /\ pc = "route" /\ pc' = "mat"
      /\ h' = h /\ v' = v /\ h = 0 /\ v = 0
      /\ horizontal' = horizontal /\ vertical' = vertical
  BY DEF Last
<1>2. levelHorizontal' = levelHorizontal /\ levelVertical' = levelVertical
  BY <1>1, LevelsStay
<1>3. Loops'
  BY <1>1, <1>2 DEF LevelInv, Loops
<1>4. DoneHorizontal' = DoneHorizontal /\ DoneVertical' = DoneVertical
  BY <1>1, <1>2 DEF DoneHorizontal, DoneVertical
<1> QED BY <1>1, <1>3, <1>4, SameLevels

LEMMA InitializeMatLevels == LevelInv /\ InitializeMat => LevelInv'
<1> SUFFICES ASSUME LevelInv, InitializeMat PROVE LevelInv'
  OBVIOUS
<1>1. /\ request' = request /\ pc = "mat" /\ pc' = "done"
      /\ h' = h /\ v' = v /\ horizontal' = horizontal /\ vertical' = vertical
  BY DEF InitializeMat, route
<1>2. levelHorizontal' = levelHorizontal /\ levelVertical' = levelVertical
  BY <1>1, LevelsStay
<1>3. ~invalid /\ h = 0 /\ v = 0
  BY <1>1 DEF LevelInv, Loops
<1>4. Loops'
  BY <1>1, <1>2, <1>3 DEF LevelInv, Loops
<1>5. DoneHorizontal' = DoneHorizontal /\ DoneVertical' = DoneVertical
  BY <1>1, <1>2 DEF DoneHorizontal, DoneVertical
<1> QED BY <1>1, <1>3, <1>4, <1>5, SameLevels

LEMMA StutterLevels == LevelInv /\ UNCHANGED vars => LevelInv'
<1> SUFFICES ASSUME LevelInv, UNCHANGED vars PROVE LevelInv'
  OBVIOUS
<1>1. /\ request' = request /\ pc' = pc /\ h' = h /\ v' = v
      /\ horizontal' = horizontal /\ vertical' = vertical /\ invalid' = invalid
  BY DEF vars, route
<1>2. levelHorizontal' = levelHorizontal /\ levelVertical' = levelVertical
  BY <1>1, LevelsStay
<1>3. Loops'
  BY <1>1, <1>2 DEF LevelInv, Loops
<1>4. DoneHorizontal' = DoneHorizontal /\ DoneVertical' = DoneVertical
  BY <1>1, <1>2 DEF DoneHorizontal, DoneVertical
<1> QED BY <1>1, <1>3, <1>4, SameLevels

LEMMA NextLevels == LevelInv /\ [Next]_vars => LevelInv'
BY RejectLevels, StartLevels, ReduceHorizontalLevels, ReduceVerticalLevels,
   PairHorizontalLevels, PairVerticalLevels, LastLevels, InitializeMatLevels,
   StutterLevels
   DEF Next, Returned

LEMMA LevelInvImplies == LevelInv => LevelsInOrder
<1> SUFFICES ASSUME LevelInv, ~invalid PROVE LevelsInOrder
  BY DEF LevelsInOrder
<1>1. levelHorizontal \in Nat /\ levelVertical \in Nat
  BY LevelsAreNat DEF LevelInv, Loops
<1>2. /\ DoneHorizontal \in 0..levelHorizontal
      /\ DoneVertical \in 0..levelVertical
      /\ pc \in {"mat", "done"} =>
           DoneHorizontal = levelHorizontal /\ DoneVertical = levelVertical
  BY <1>1 DEF LevelInv, Loops, DoneHorizontal, DoneVertical
<1>3. /\ FilledTo(horizontal, levelHorizontal, DoneHorizontal)
      /\ FilledTo(vertical, levelVertical, DoneVertical)
  BY DEF LevelInv, Filled
<1>4. /\ DOMAIN horizontal = 0..levelHorizontal - 1
      /\ DOMAIN vertical = 0..levelVertical - 1
  BY <1>3 DEF FilledTo
<1> QED BY <1>2, <1>3, <1>4 DEF LevelsInOrder, FilledTo

(* The inductive invariant of the routing loops (BankWithHtree.cpp:224-363) *)
(* for every request whose bank has at least one row and column of mats.    *)
THEOREM RoutingInvariance == Spec => []LevelInv
<1>1. Init => LevelInv
  BY InitLevels
<1>2. LevelInv /\ [Next]_vars => LevelInv'
  BY NextLevels
<1> QED BY <1>1, <1>2, PTL DEF Spec

(* LevelsInOrder for every size: BankWithHtree::Initialize() never reads or *)
(* writes outside the arrays of its levels, nor reads one it did not fill.  *)
THEOREM RoutingInOrder == Spec => []LevelsInOrder
<1>1. LevelInv => LevelsInOrder
  BY LevelInvImplies
<1> QED BY <1>1, RoutingInvariance, PTL

-----------------------------------------------------------------------------
(* Bandwidth.                                                               *)

(* The bits still to be distributed.  A data array always has some, at      *)
(* least one for every active mat below, or the partitioning would be too   *)
(* aggressive.                                                              *)
BitsLeft ==
  /\ distribute \in PowersOfTwo \union {0}
  /\ rowToActive \in Nat \ {0} /\ columnToActive \in Nat \ {0}
  /\ request.array = "data" =>
       /\ distribute > 0
       /\ pc \in {"start", "route", "pair"} =>
            distribute >= rowToActive * columnToActive

(* The active groups of a level bear `total' bits together, as long as      *)
(* `left' bits get to the mats; so do those of the first `done' levels of   *)
(* an array.                                                                *)
Bears(level, total, left) ==
  /\ level.active \in Nat
  /\ left # 0 => level.active * level.distribute = total

Carry(levels, done, total, left) ==
  \A i \in 0..done - 1 : Bears(levels[i], total, left)

LevelsCarry ==
  /\ Carry(horizontal, DoneHorizontal, Distributed(request), distribute)
  /\ Carry(vertical, DoneVertical, Distributed(request), distribute)

(* The level the next one hangs from carries what is still to distribute.   *)
HangsBelow ==
  /\ pc = "start" => distribute = Distributed(request)
  /\ pc = "route" /\ h > v => v = levelVertical
  /\ pc = "route" /\ v = levelVertical /\ v > h =>
       distribute = Distributed(request)
  /\ pc = "route" /\ v = levelVertical /\ levelHorizontal > 0 =>
       horizontal[levelHorizontal - h - 1].distribute = distribute
  /\ pc = "route" /\ v < levelVertical =>
       vertical[levelVertical - v - 1].distribute = distribute
  /\ pc = "pair" => horizontal[levelHorizontal - h].distribute = distribute

BandwidthInv ==
  ~invalid => /\ BitsLeft /\ LevelsCarry /\ HangsBelow
              /\ pc = "done" => distribute # 0

(* Half of a power of two, or nothing.                                      *)
LEMMA Halving ==
  ASSUME NEW d \in PowersOfTwo \union {0}
  PROVE  /\ d \div 2 \in PowersOfTwo \union {0}
         /\ d \div 2 # 0 => d = 2 * (d \div 2)
<1>1. CASE d = 0
  BY <1>1
<1>2. CASE d \in PowersOfTwo /\ d > 1
  BY <1>2, HalfOfPower
<1>3. CASE d \in PowersOfTwo /\ ~(d > 1)
  <2>1. d = 1
    BY <1>3, PowerLog
  <2> QED
    BY <2>1
<1> QED
  BY <1>1, <1>2, <1>3

LEMMA PowersArePositive == PowersOfTwo \subseteq Nat \ {0}
BY PowerLog

(* One bit per active mat remains when both are halved.                     *)
LEMMA StillCovers ==
  ASSUME NEW a \in Nat \ {0}, NEW b \in Nat \ {0}, NEW d \in Nat,
         d >= a * b, a > 1
  PROVE  /\ a \div 2 \in Nat \ {0}
         /\ d \div 2 >= (a \div 2) * b
         /\ d \div 2 >= b * (a \div 2)
         /\ d \div 2 > 0
<1> DEFINE q == a \div 2
<1>1. q \in Nat \ {0} /\ 2 * q <= a
  OBVIOUS
<1> HIDE DEF q
<1>2. q * b \in Nat /\ q * b > 0
  BY <1>1
<1>3. 2 * (q * b) <= a * b
  <2>1. 2 * (q * b) = (2 * q) * b
    BY <1>1
  <2>2. (2 * q) * b <= a * b
    BY <1>1
  <2> QED
    BY <2>1, <2>2
<1>4. a * b \in Nat
  OBVIOUS
<1>5. 2 * (q * b) <= d
  BY <1>2, <1>3, <1>4
<1> DEFINE p == q * b
<1>6. p \in Nat /\ p > 0 /\ 2 * p <= d
  BY <1>2, <1>5
<1> HIDE DEF p
<1>7. d \div 2 >= p /\ d \div 2 > 0
  BY <1>6
<1>8. q * b = b * q
  BY <1>1
<1> QED
  BY <1>1, <1>7, <1>8 DEF p, q

(* Twice as much is something.                                              *)
LEMMA TwiceOfSome == \A a, b \in Nat : a # 0 /\ b = 2 * a => b # 0
OBVIOUS

(* The level below a group that carries the block carries it too.           *)
LEMMA BelowCarries ==
  ASSUME request \in Requests, BitsLeft,
         NEW halved \in BOOLEAN, Split(halved), NEW tiers, NEW up,
         up.active \in Nat,
         distribute # 0 => up.active * distribute = Distributed(request)
  PROVE  LET level == Below(up, tiers, halved)
         IN  /\ level.active \in Nat
             /\ level.distribute = distribute'
             /\ distribute' # 0 =>
                  /\ distribute # 0
                  /\ level.active * level.distribute = Distributed(request)
<1> DEFINE level == Below(up, tiers, halved)
<1>1. /\ level.active = IF halved THEN 2 * up.active ELSE up.active
      /\ level.distribute = distribute'
  BY DEF Below, Level
<1>2. /\ distribute \in PowersOfTwo \union {0} /\ PowersOfTwo \subseteq Nat \ {0}
      /\ distribute \div 2 # 0 => distribute = 2 * (distribute \div 2)
      /\ distribute \div 2 \in PowersOfTwo \union {0}
  BY Halving, PowersArePositive DEF BitsLeft
<1> HIDE DEF level
<1>3. CASE halved
  <2>1. distribute' = distribute \div 2
    BY <1>3 DEF Split
  <2>2. distribute' \in Nat /\ distribute \in Nat
        /\ (distribute' # 0 => distribute = 2 * distribute')
    BY <1>2, <2>1
  <2>3. level.active = 2 * up.active /\ level.active \in Nat
    BY <1>1, <1>3
  <2>4. ASSUME distribute' # 0
        PROVE  distribute # 0 /\ level.active * level.distribute = Distributed(request)
    <3>1. distribute # 0 /\ up.active * (2 * distribute') = Distributed(request)
      <4>1. distribute = 2 * distribute' /\ distribute' > 0
        BY <2>2, <2>4
      <4>2. distribute # 0
        BY ONLY <2>2, <2>4, <4>1, TwiceOfSome
      <4>3. up.active * distribute = Distributed(request)
        BY <4>2
      <4> QED
        BY ONLY <4>1, <4>2, <4>3, Zenon
    <3>2. (2 * up.active) * distribute' = up.active * (2 * distribute')
      BY <2>2
    <3> QED
      BY <1>1, <2>3, <3>1, <3>2
  <2> QED
    BY <1>1, <2>3, <2>4 DEF level
<1>4. CASE ~halved
  BY <1>1, <1>4 DEF Split, level
<1> QED
  BY <1>3, <1>4

(* The next level of an array is routed.                                    *)
LEMMA CarryNext ==
  ASSUME NEW levels, NEW n \in Nat, NEW done \in 0..n - 1, NEW level,
         NEW total, NEW left, NEW next,
         FilledTo(levels, n, done), Carry(levels, done, total, left),
         next # 0 => left # 0, Bears(level, total, next)
  PROVE  /\ Carry([levels EXCEPT ![done] = level], done + 1, total, next)
         /\ [levels EXCEPT ![done] = level][done] = level
<1> DEFINE new == [levels EXCEPT ![done] = level]
<1>1. levels = [i \in 0..n - 1 |-> levels[i]]
  BY DEF FilledTo
<1>2. \A i \in 0..n - 1 : new[i] = IF i = done THEN level ELSE levels[i]
  BY <1>1
<1> HIDE DEF new
<1>3. ASSUME NEW i \in 0..(done + 1) - 1
      PROVE  Bears(new[i], total, next)
  <2>1. CASE i = done
    BY <1>2, <2>1
  <2>2. CASE i # done
    <3>1. i \in 0..done - 1 /\ i \in 0..n - 1
      BY <2>2
    <3>2. new[i] = levels[i]
      BY <1>2, <2>2, <3>1
    <3> QED
      BY <3>1, <3>2 DEF Carry, Bears
  <2> QED
    BY <2>1, <2>2
<1>4. Carry(new, done + 1, total, next)
  BY <1>3 DEF Carry
<1>5. new[done] = level
  BY <1>2
<1> QED
  BY <1>4, <1>5 DEF new

(* An array that is left alone goes on carrying the block.                  *)
LEMMA CarryStays ==
  ASSUME NEW levels, NEW done, NEW total, NEW left, NEW next,
         Carry(levels, done, total, left), next # 0 => left # 0
  PROVE  Carry(levels, done, total, next)
BY DEF Carry, Bears

(* What a split does to the bits and the mats that remain to be activated.  *)
LEMMA SplitKeepsBits ==
  ASSUME BitsLeft, request' = request,
         pc \in {"start", "route", "pair"}, NEW halved \in BOOLEAN,
         distribute' = IF halved THEN distribute \div 2 ELSE distribute,
         \/ /\ halved <=> columnToActive > 1
            /\ columnToActive' = IF halved THEN columnToActive \div 2
                                 ELSE columnToActive
            /\ rowToActive' = rowToActive
         \/ /\ halved <=> rowToActive > 1
            /\ rowToActive' = IF halved THEN rowToActive \div 2 ELSE rowToActive
            /\ columnToActive' = columnToActive
  PROVE  BitsLeft' /\ (distribute' # 0 => distribute # 0)
<1>1. /\ distribute \in PowersOfTwo \union {0} /\ PowersOfTwo \subseteq Nat \ {0}
      /\ distribute \div 2 \in PowersOfTwo \union {0}
      /\ rowToActive \in Nat \ {0} /\ columnToActive \in Nat \ {0}
      /\ request.array = "data" => distribute > 0 /\ distribute >= rowToActive * columnToActive
  BY Halving, PowersArePositive DEF BitsLeft
<1>2. distribute \in Nat /\ columnToActive * rowToActive = rowToActive * columnToActive
  BY <1>1
<1>3. CASE halved
  <2>1. distribute' = distribute \div 2
    BY <1>3
  <2>2. distribute' \in PowersOfTwo \union {0} /\ (distribute' # 0 => distribute # 0)
    BY <1>1, <1>2, <2>1
  <2>3. CASE columnToActive > 1 /\ columnToActive' = columnToActive \div 2
             /\ rowToActive' = rowToActive
    <3>1. columnToActive' \in Nat \ {0}
      BY <1>1, <2>3
    <3>2. request.array = "data" =>
            distribute' > 0 /\ distribute' >= rowToActive' * columnToActive'
      BY <1>1, <1>2, <2>1, <2>3, StillCovers
    <3> QED
      BY <1>1, <2>2, <2>3, <3>1, <3>2 DEF BitsLeft
  <2>4. CASE rowToActive > 1 /\ rowToActive' = rowToActive \div 2
             /\ columnToActive' = columnToActive
    <3>1. rowToActive' \in Nat \ {0}
      BY <1>1, <2>4
    <3>2. request.array = "data" =>
            distribute' > 0 /\ distribute' >= rowToActive' * columnToActive'
      BY <1>1, <1>2, <2>1, <2>4, StillCovers
    <3> QED
      BY <1>1, <2>2, <2>4, <3>1, <3>2 DEF BitsLeft
  <2> QED
    BY <1>3, <2>3, <2>4
<1>4. CASE ~halved
  <2>1. distribute' = distribute /\ rowToActive' = rowToActive
        /\ columnToActive' = columnToActive
    BY <1>4
  <2> QED
    BY <1>1, <2>1 DEF BitsLeft
<1> QED
  BY <1>3, <1>4

(* What the invariant of the levels says of a bank that is being routed.    *)
LEMMA Position ==
  ASSUME LevelInv, pc \in {"route", "pair"}
  PROVE  /\ ~invalid /\ request \in Requests
         /\ levelHorizontal \in Nat /\ levelVertical \in Nat
         /\ h \in 0..levelHorizontal /\ v \in 0..levelVertical
         /\ levelHorizontal > 0 => h < levelHorizontal
         /\ DoneHorizontal = levelHorizontal - h + (IF pc = "pair" THEN 1 ELSE 0)
         /\ DoneVertical = levelVertical - v
         /\ FilledTo(horizontal, levelHorizontal, DoneHorizontal)
         /\ FilledTo(vertical, levelVertical, DoneVertical)
<1>1. ~invalid /\ request \in Requests
  BY DEF LevelInv, Loops
<1>2. levelHorizontal \in Nat /\ levelVertical \in Nat
  BY <1>1, LevelsAreNat
<1>3. /\ h \in 0..levelHorizontal /\ v \in 0..levelVertical
      /\ levelHorizontal > 0 => h < levelHorizontal
  BY <1>1 DEF LevelInv, Loops
<1>4. /\ DoneHorizontal = levelHorizontal - h + (IF pc = "pair" THEN 1 ELSE 0)
      /\ DoneVertical = levelVertical - v
  BY DEF DoneHorizontal, DoneVertical
<1>5. /\ FilledTo(horizontal, levelHorizontal, DoneHorizontal)
      /\ FilledTo(vertical, levelVertical, DoneVertical)
  BY <1>1 DEF LevelInv, Filled
<1> QED
  BY <1>1, <1>2, <1>3, <1>4, <1>5

(* The bits of a bank that is being routed are natural numbers.             *)
LEMMA BitsAreNat ==
  ASSUME BitsLeft
  PROVE  distribute \in Nat
BY PowersArePositive DEF BitsLeft

(* "To aggressive partitioning" (main.cpp:465) keeps a bit for every active *)
(* mat: a block of fewer bits than active mats is not considered.           *)
LEMMA OneBitPerMat ==
  ASSUME NEW r \in Requests, ~TooAggressive(r), r.array = "data",
         Distributed(r) \in Nat
  PROVE  Distributed(r) >= r.org.activeRows * r.org.activeColumns
<1> DEFINE a == r.org.activeRows * r.org.activeColumns
           b == r.org.activeSubRows
           c == r.org.activeSubColumns
<1>1. /\ r.org.activeRows \in Nat \ {0} /\ r.org.activeColumns \in Nat \ {0}
      /\ b \in Nat \ {0} /\ c \in Nat \ {0}
  <2>1. r.org \in Organisation
    BY ShapeAssumption DEF Request
  <2> QED
    BY <2>1 DEF Organisation, Counts
<1>2. a \in Nat /\ a > 0
  BY <1>1
<1>3. Activated(r.org) = (a * b) * c
  BY DEF Activated
<1>4. BlockSize(r) \div Activated(r.org) # 0 /\ BlockSize(r) = Distributed(r)
  BY DEF TooAggressive, Distributed
<1> HIDE DEF a, b, c
<1>5. a * b \in Nat /\ a * b >= a
  BY <1>1, <1>2
<1> DEFINE p == a * b
<1>6. p \in Nat /\ p >= a
  BY <1>5
<1>7. Activated(r.org) = p * c
  BY <1>3
<1> HIDE DEF p
<1>8. p * c \in Nat /\ p * c >= p
  BY <1>1, <1>6
<1> DEFINE q == p * c
           d == Distributed(r)
<1>9. q \in Nat /\ q >= p /\ d \in Nat /\ d \div q # 0
  BY <1>4, <1>7, <1>8
<1> HIDE DEF q, d
<1>10. q > 0
  BY <1>2, <1>6, <1>9
<1>11. d >= q
  BY <1>9, <1>10
<1>12. d >= a
  BY <1>2, <1>6, <1>9, <1>11
<1> QED
  BY <1>12 DEF d, a

LEMMA InitBandwidth ==
  ASSUME PowerBlocks, Init
  PROVE  BandwidthInv
<1>1. /\ pc = "start" /\ h = levelHorizontal /\ v = levelVertical
      /\ distribute = Distributed(request) /\ request \in Requests
      /\ ~TooAggressive(request)
      /\ rowToActive = request.org.activeRows
      /\ columnToActive = request.org.activeColumns
  BY DEF Init
<1>2. distribute \in PowersOfTwo /\ PowersOfTwo \subseteq Nat \ {0}
  BY <1>1, PowersArePositive DEF PowerBlocks
<1>3. rowToActive \in Nat \ {0} /\ columnToActive \in Nat \ {0}
  <2>1. request.org \in Organisation
    BY <1>1, ShapeAssumption DEF Request
  <2> QED
    BY <1>1, <2>1 DEF Organisation, Counts
<1>4. request.array = "data" => distribute >= rowToActive * columnToActive
  BY <1>1, <1>2, OneBitPerMat
<1>5. distribute > 0
  BY <1>2
<1>6. BitsLeft
  BY <1>2, <1>3, <1>4, <1>5 DEF BitsLeft
<1>7. LevelsCarry
  <2>1. levelHorizontal \in Nat /\ levelVertical \in Nat
    BY <1>1, LevelsAreNat
  <2>2. DoneHorizontal = 0 /\ DoneVertical = 0
    BY <1>1, <2>1 DEF DoneHorizontal, DoneVertical
  <2> QED
    BY <2>2 DEF LevelsCarry, Carry, Bears
<1>8. HangsBelow
  BY <1>1 DEF HangsBelow
<1> QED
  BY <1>1, <1>6, <1>7, <1>8 DEF BandwidthInv

-----------------------------------------------------------------------------
LEMMA StartBandwidth ==
  ASSUME LevelInv, BandwidthInv, Start
  PROVE  BandwidthInv'
<1>1. /\ request' = request /\ pc = "start" /\ pc' = "route" /\ v' = v
      /\ vertical' = vertical /\ invalid' = invalid /\ distribute' = distribute
      /\ rowToActive' = rowToActive /\ columnToActive' = columnToActive
  BY DEF Start
<1>2. /\ ~invalid /\ request \in Requests
      /\ h = levelHorizontal /\ v = levelVertical
  BY <1>1 DEF LevelInv, Loops
<1>3. levelHorizontal \in Nat /\ levelVertical \in Nat
  BY <1>2, LevelsAreNat
<1>4. levelHorizontal' = levelHorizontal /\ levelVertical' = levelVertical
  BY <1>1, LevelsStay
<1>5. BitsLeft /\ LevelsCarry /\ distribute = Distributed(request)
  BY <1>1, <1>2 DEF BandwidthInv, HangsBelow
<1>6. distribute \in Nat
  BY <1>5, BitsAreNat
<1>7. DoneHorizontal = 0 /\ DoneVertical = 0 /\ DoneVertical' = 0
  BY <1>1, <1>2, <1>3, <1>4 DEF DoneHorizontal, DoneVertical
<1>8. BitsLeft'
  BY <1>1, <1>5 DEF BitsLeft
<1>9. Carry(vertical', DoneVertical', Distributed(request'), distribute')
  BY <1>1, <1>5, <1>7 DEF LevelsCarry
<1>10. CASE levelHorizontal > 0
  <2> DEFINE level == Level(address, distribute, broadcast, 1, 1, 1)
  <2>1. h' = h - 1 /\ horizontal' = [horizontal EXCEPT ![0] = level]
    BY <1>10 DEF Start
  <2>2. level.active = 1 /\ level.distribute = distribute
    BY DEF Level
  <2> HIDE DEF level
  <2>3. level.active \in Nat /\ level.active * level.distribute = Distributed(request)
    BY <1>5, <1>6, <2>2
  <2>4. DoneHorizontal' = 1
    BY <1>1, <1>2, <1>3, <1>4, <2>1 DEF DoneHorizontal
  <2>5. FilledTo(horizontal, levelHorizontal, 0)
    BY <1>2, <1>7 DEF LevelInv, Filled
  <2>6. Carry(horizontal, 0, Distributed(request), distribute)
    BY <1>5, <1>7 DEF LevelsCarry
  <2>7. 0 \in 0..levelHorizontal - 1 /\ 0 + 1 = 1
    BY <1>3, <1>10
  <2>8. /\ Carry(horizontal', 0 + 1, Distributed(request), distribute)
        /\ horizontal'[0] = level
    <3> DEFINE first == 0
               next == [horizontal EXCEPT ![first] = level]
    <3>1. /\ FilledTo(horizontal, levelHorizontal, first)
          /\ Carry(horizontal, first, Distributed(request), distribute)
          /\ first \in 0..levelHorizontal - 1
      BY <2>5, <2>6, <2>7
    <3>2. /\ Carry(next, first + 1, Distributed(request), distribute)
          /\ next[first] = level
      <4> HIDE DEF first
      <4> QED
        BY <1>3, <2>3, <3>1, CarryNext DEF Bears
    <3> QED
      BY <2>1, <3>2
  <2>9. LevelsCarry'
    BY <1>1, <1>9, <2>4, <2>7, <2>8 DEF LevelsCarry
  <2>10. levelHorizontal' - h' - 1 = 0
    BY <1>2, <1>3, <1>4, <2>1
  <2>11. HangsBelow'
    BY <1>1, <1>2, <1>3, <1>4, <1>5, <2>1, <2>2, <2>8, <2>10 DEF HangsBelow
  <2> QED
    BY <1>1, <1>8, <2>9, <2>11 DEF BandwidthInv
<1>11. CASE ~(levelHorizontal > 0)
  <2>1. h' = h /\ horizontal' = horizontal
    BY <1>11 DEF Start
  <2>2. DoneHorizontal' = 0
    BY <1>1, <1>2, <1>3, <1>4, <1>11, <2>1 DEF DoneHorizontal
  <2>3. LevelsCarry'
    BY <1>1, <1>9, <2>2 DEF LevelsCarry, Carry, Bears
  <2>4. HangsBelow'
    BY <1>1, <1>2, <1>3, <1>4, <1>5, <1>11, <2>1 DEF HangsBelow
  <2> QED
    BY <1>1, <1>8, <2>3, <2>4 DEF BandwidthInv
<1> QED
  BY <1>10, <1>11

(* while (h > v): every horizontal level hangs from the one above.          *)
LEMMA ReduceHorizontalBandwidth ==
  ASSUME LevelInv, BandwidthInv, ReduceHorizontal
  PROVE  BandwidthInv'
<1> DEFINE halved == columnToActive > 1
           level  == Below(HorizontalAbove, 1, halved)
<1>1. /\ request' = request /\ invalid' = invalid /\ pc = "route" /\ pc' = "route"
      /\ v' = v /\ vertical' = vertical /\ h > v /\ h' = h - 1
      /\ horizontal' = [horizontal EXCEPT ![levelHorizontal - h] = level]
      /\ rowToActive' = rowToActive /\ Split(halved)
      /\ columnToActive' = IF halved THEN columnToActive \div 2 ELSE columnToActive
  BY DEF ReduceHorizontal, SplitColumns
<1>2. /\ ~invalid /\ request \in Requests
      /\ levelHorizontal \in Nat /\ levelVertical \in Nat
      /\ h \in 0..levelHorizontal /\ v \in 0..levelVertical
      /\ levelHorizontal > 0 => h < levelHorizontal
      /\ DoneHorizontal = levelHorizontal - h /\ DoneVertical = levelVertical - v
      /\ FilledTo(horizontal, levelHorizontal, DoneHorizontal)
  BY <1>1, Position
<1>3. levelHorizontal' = levelHorizontal /\ levelVertical' = levelVertical
  BY <1>1, LevelsStay
<1>4. BitsLeft /\ LevelsCarry /\ HangsBelow
  BY <1>2 DEF BandwidthInv
<1>5. h < levelHorizontal /\ v = levelVertical
  BY <1>1, <1>2, <1>4 DEF HangsBelow
<1>6. /\ HorizontalAbove.active \in Nat
      /\ distribute # 0 => HorizontalAbove.active * distribute = Distributed(request)
  <2>1. levelHorizontal - h - 1 \in 0..DoneHorizontal - 1
    BY <1>2, <1>5
  <2>2. HorizontalAbove.distribute = distribute
    BY <1>1, <1>2, <1>4, <1>5 DEF HangsBelow, HorizontalAbove
  <2> QED
    BY <1>4, <2>1, <2>2 DEF LevelsCarry, Carry, Bears, HorizontalAbove
<1> HIDE DEF halved
<1>7. halved \in BOOLEAN
  BY DEF halved
<1>8. /\ level.active \in Nat
      /\ level.distribute = distribute'
      /\ distribute' # 0 =>
           /\ distribute # 0
           /\ level.active * level.distribute = Distributed(request)
  BY <1>1, <1>2, <1>4, <1>6, <1>7, BelowCarries
<1> HIDE DEF level
<1>9. BitsLeft'
  BY <1>1, <1>4, <1>7, SplitKeepsBits DEF halved, Split
<1>10. levelHorizontal - h \in 0..levelHorizontal - 1
  BY <1>1, <1>2, <1>5
<1>11. /\ Carry(horizontal', levelHorizontal - h + 1, Distributed(request), distribute')
       /\ horizontal'[levelHorizontal - h] = level
  <2>1. Carry(horizontal, levelHorizontal - h, Distributed(request), distribute)
    BY <1>2, <1>4 DEF LevelsCarry
  <2>2. FilledTo(horizontal, levelHorizontal, levelHorizontal - h)
    BY <1>2
  <2> DEFINE next == [horizontal EXCEPT ![levelHorizontal - h] = level]
  <2>3. /\ Carry(next, levelHorizontal - h + 1, Distributed(request), distribute')
        /\ next[levelHorizontal - h] = level
    BY <1>2, <1>8, <1>10, <2>1, <2>2, CarryNext DEF Bears
  <2> QED
    BY <1>1, <2>3
<1>12. Carry(vertical', levelVertical - v, Distributed(request), distribute')
  BY <1>1, <1>2, <1>4, <1>8, CarryStays DEF LevelsCarry
<1>13. LevelsCarry'
  <2>1. /\ DoneHorizontal' = levelHorizontal - h + 1
        /\ DoneVertical' = levelVertical - v
    BY <1>1, <1>2, <1>3 DEF DoneHorizontal, DoneVertical
  <2> QED
    BY <1>1, <1>11, <1>12, <2>1 DEF LevelsCarry
<1>14. HangsBelow'
  <2>1. levelHorizontal' - h' - 1 = levelHorizontal - h
    BY <1>1, <1>2, <1>3
  <2>2. v' = levelVertical' /\ ~(v' > h') /\ ~(v' < levelVertical')
    BY <1>1, <1>2, <1>3, <1>5
  <2> QED
    BY <1>1, <1>8, <1>11, <2>1, <2>2 DEF HangsBelow
<1> QED
  BY <1>1, <1>9, <1>13, <1>14 DEF BandwidthInv

(* while (v > h): the first vertical level hangs from the root, which       *)
(* carries the whole block.                                                 *)
LEMMA ReduceVerticalBandwidth ==
  ASSUME LevelInv, BandwidthInv, ReduceVertical
  PROVE  BandwidthInv'
<1> DEFINE halved == rowToActive > 1
           up     == IF v = levelVertical THEN Root ELSE VerticalAbove
           level  == Below(up, 1, halved)
<1>1. /\ request' = request /\ invalid' = invalid /\ pc = "route" /\ pc' = "route"
      /\ h' = h /\ horizontal' = horizontal /\ v > h /\ v' = v - 1
      /\ vertical' = [vertical EXCEPT ![levelVertical - v] = level]
      /\ columnToActive' = columnToActive /\ Split(halved)
      /\ rowToActive' = IF halved THEN rowToActive \div 2 ELSE rowToActive
  BY DEF ReduceVertical, SplitRows
<1>2. /\ ~invalid /\ request \in Requests
      /\ levelHorizontal \in Nat /\ levelVertical \in Nat
      /\ h \in 0..levelHorizontal /\ v \in 0..levelVertical
      /\ DoneHorizontal = levelHorizontal - h /\ DoneVertical = levelVertical - v
      /\ FilledTo(vertical, levelVertical, DoneVertical)
  BY <1>1, Position
<1>3. levelHorizontal' = levelHorizontal /\ levelVertical' = levelVertical
  BY <1>1, LevelsStay
<1>4. BitsLeft /\ LevelsCarry /\ HangsBelow
  BY <1>2 DEF BandwidthInv
<1>5. /\ up.active \in Nat
      /\ distribute # 0 => up.active * distribute = Distributed(request)
  <2>1. CASE v = levelVertical
    <3>1. distribute \in Nat /\ distribute = Distributed(request)
      BY <1>1, <1>4, <2>1, BitsAreNat DEF HangsBelow
    <3>2. up.active = 1
      BY <2>1 DEF Root
    <3> QED
      BY <3>1, <3>2
  <2>2. CASE v # levelVertical
    <3>1. levelVertical - v - 1 \in 0..DoneVertical - 1 /\ v < levelVertical
      BY <1>2, <2>2
    <3>2. VerticalAbove.distribute = distribute
      BY <1>1, <1>4, <3>1 DEF HangsBelow, VerticalAbove
    <3>3. /\ VerticalAbove.active \in Nat
          /\ distribute # 0 => VerticalAbove.active * distribute = Distributed(request)
      BY <1>4, <3>1, <3>2 DEF LevelsCarry, Carry, Bears, VerticalAbove
    <3> QED
      BY <2>2, <3>3
  <2> QED
    BY <2>1, <2>2
<1> HIDE DEF halved, up
<1>6. halved \in BOOLEAN
  BY DEF halved
<1>7. /\ level.active \in Nat
      /\ level.distribute = distribute'
      /\ distribute' # 0 =>
           /\ distribute # 0
           /\ level.active * level.distribute = Distributed(request)
  BY <1>1, <1>2, <1>4, <1>5, <1>6, BelowCarries
<1> HIDE DEF level
<1>8. BitsLeft'
  BY <1>1, <1>4, <1>6, SplitKeepsBits DEF halved, Split
<1>9. levelVertical - v \in 0..levelVertical - 1
  BY <1>1, <1>2
<1>10. /\ Carry(vertical', levelVertical - v + 1, Distributed(request), distribute')
       /\ vertical'[levelVertical - v] = level
  <2>1. /\ Carry(vertical, levelVertical - v, Distributed(request), distribute)
        /\ FilledTo(vertical, levelVertical, levelVertical - v)
    BY <1>2, <1>4 DEF LevelsCarry
  <2> DEFINE next == [vertical EXCEPT ![levelVertical - v] = level]
  <2>2. /\ Carry(next, levelVertical - v + 1, Distributed(request), distribute')
        /\ next[levelVertical - v] = level
    BY <1>2, <1>7, <1>9, <2>1, CarryNext DEF Bears
  <2> QED
    BY <1>1, <2>2
<1>11. Carry(horizontal', levelHorizontal - h, Distributed(request), distribute')
  BY <1>1, <1>2, <1>4, <1>7, CarryStays DEF LevelsCarry
<1>12. LevelsCarry'
  <2>1. /\ DoneHorizontal' = levelHorizontal - h
        /\ DoneVertical' = levelVertical - v + 1
    BY <1>1, <1>2, <1>3 DEF DoneHorizontal, DoneVertical
  <2> QED
    BY <1>1, <1>10, <1>11, <2>1 DEF LevelsCarry
<1>13. HangsBelow'
  <2>1. levelVertical' - v' - 1 = levelVertical - v
    BY <1>1, <1>2, <1>3
  <2>2. v' # levelVertical' /\ ~(h' > v')
    BY <1>1, <1>2, <1>3
  <2> QED
    BY <1>1, <1>7, <1>10, <2>1, <2>2 DEF HangsBelow
<1> QED
  BY <1>1, <1>8, <1>12, <1>13 DEF BandwidthInv

(* while (h > 0): the horizontal level of a pair hangs from the level       *)
(* routed last.                                                             *)
LEMMA PairHorizontalBandwidth ==
  ASSUME LevelInv, BandwidthInv, PairHorizontal
  PROVE  BandwidthInv'
<1> DEFINE halved == columnToActive > 1
           up     == IF v = levelVertical THEN HorizontalAbove ELSE VerticalAbove
           level  == Below(up, hTemp, halved)
<1>1. /\ request' = request /\ invalid' = invalid /\ pc = "route" /\ pc' = "pair"
      /\ h' = h /\ v' = v /\ vertical' = vertical /\ h = v /\ h > 0
      /\ horizontal' = [horizontal EXCEPT ![levelHorizontal - h] = level]
      /\ rowToActive' = rowToActive /\ Split(halved)
      /\ columnToActive' = IF halved THEN columnToActive \div 2 ELSE columnToActive
  BY DEF PairHorizontal, SplitColumns
<1>2. /\ ~invalid /\ request \in Requests
      /\ levelHorizontal \in Nat /\ levelVertical \in Nat
      /\ h \in 0..levelHorizontal /\ v \in 0..levelVertical
      /\ levelHorizontal > 0 => h < levelHorizontal
      /\ DoneHorizontal = levelHorizontal - h /\ DoneVertical = levelVertical - v
      /\ FilledTo(horizontal, levelHorizontal, DoneHorizontal)
  BY <1>1, Position
<1>3. levelHorizontal' = levelHorizontal /\ levelVertical' = levelVertical
  BY <1>1, LevelsStay
<1>4. BitsLeft /\ LevelsCarry /\ HangsBelow
  BY <1>2 DEF BandwidthInv
<1>5. h < levelHorizontal /\ levelHorizontal > 0
  BY <1>1, <1>2
<1>6. /\ up.active \in Nat
      /\ distribute # 0 => up.active * distribute = Distributed(request)
  <2>1. CASE v = levelVertical
    <3>1. levelHorizontal - h - 1 \in 0..DoneHorizontal - 1
      BY <1>2, <1>5
    <3>2. HorizontalAbove.distribute = distribute
      BY <1>1, <1>4, <1>5, <2>1 DEF HangsBelow, HorizontalAbove
    <3>3. /\ HorizontalAbove.active \in Nat
          /\ distribute # 0 =>
               HorizontalAbove.active * distribute = Distributed(request)
      BY <1>4, <3>1, <3>2 DEF LevelsCarry, Carry, Bears, HorizontalAbove
    <3> QED
      BY <2>1, <3>3
  <2>2. CASE v # levelVertical
    <3>1. levelVertical - v - 1 \in 0..DoneVertical - 1 /\ v < levelVertical
      BY <1>2, <2>2
    <3>2. VerticalAbove.distribute = distribute
      BY <1>1, <1>4, <3>1 DEF HangsBelow, VerticalAbove
    <3>3. /\ VerticalAbove.active \in Nat
          /\ distribute # 0 => VerticalAbove.active * distribute = Distributed(request)
      BY <1>4, <3>1, <3>2 DEF LevelsCarry, Carry, Bears, VerticalAbove
    <3> QED
      BY <2>2, <3>3
  <2> QED
    BY <2>1, <2>2
<1> HIDE DEF halved, up
<1>7. halved \in BOOLEAN
  BY DEF halved
<1>8. /\ level.active \in Nat
      /\ level.distribute = distribute'
      /\ distribute' # 0 =>
           /\ distribute # 0
           /\ level.active * level.distribute = Distributed(request)
  BY <1>1, <1>2, <1>4, <1>6, <1>7, BelowCarries
<1> HIDE DEF level
<1>9. BitsLeft'
  BY <1>1, <1>4, <1>7, SplitKeepsBits DEF halved, Split
<1>10. levelHorizontal - h \in 0..levelHorizontal - 1
  BY <1>1, <1>2, <1>5
<1>11. /\ Carry(horizontal', levelHorizontal - h + 1, Distributed(request), distribute')
       /\ horizontal'[levelHorizontal - h] = level
  <2>1. /\ Carry(horizontal, levelHorizontal - h, Distributed(request), distribute)
        /\ FilledTo(horizontal, levelHorizontal, levelHorizontal - h)
    BY <1>2, <1>4 DEF LevelsCarry
  <2> DEFINE next == [horizontal EXCEPT ![levelHorizontal - h] = level]
  <2>2. /\ Carry(next, levelHorizontal - h + 1, Distributed(request), distribute')
        /\ next[levelHorizontal - h] = level
    BY <1>2, <1>8, <1>10, <2>1, CarryNext DEF Bears
  <2> QED
    BY <1>1, <2>2
<1>12. Carry(vertical', levelVertical - v, Distributed(request), distribute')
  BY <1>1, <1>2, <1>4, <1>8, CarryStays DEF LevelsCarry
<1>13. LevelsCarry'
  <2>1. /\ DoneHorizontal' = levelHorizontal - h + 1
        /\ DoneVertical' = levelVertical - v
    BY <1>1, <1>2, <1>3 DEF DoneHorizontal, DoneVertical
  <2> QED
    BY <1>1, <1>11, <1>12, <2>1 DEF LevelsCarry
<1>14. HangsBelow'
  <2>1. levelHorizontal' - h' = levelHorizontal - h
    BY <1>1, <1>3
  <2> QED
    BY <1>1, <1>8, <1>11, <2>1 DEF HangsBelow
<1> QED
  BY <1>1, <1>9, <1>13, <1>14 DEF BandwidthInv

(* The vertical level of a pair hangs from the horizontal one.              *)
LEMMA PairVerticalBandwidth ==
  ASSUME LevelInv, BandwidthInv, PairVertical
  PROVE  BandwidthInv'
<1> DEFINE halved == rowToActive > 1
           up     == horizontal[levelHorizontal - h]
           tiers  == IF levelHorizontal = 2 THEN vTemp ELSE 2 * vTemp
           level  == Below(up, tiers, halved)
<1>1. /\ request' = request /\ invalid' = invalid /\ pc = "pair" /\ pc' = "route"
      /\ h' = h - 1 /\ v' = v - 1 /\ horizontal' = horizontal
      /\ vertical' = [vertical EXCEPT ![levelVertical - v] = level]
      /\ columnToActive' = columnToActive /\ Split(halved)
      /\ rowToActive' = IF halved THEN rowToActive \div 2 ELSE rowToActive
  BY DEF PairVertical, SplitRows, NextPair
<1>2. /\ ~invalid /\ request \in Requests
      /\ levelHorizontal \in Nat /\ levelVertical \in Nat
      /\ h \in 0..levelHorizontal /\ v \in 0..levelVertical
      /\ levelHorizontal > 0 => h < levelHorizontal
      /\ DoneHorizontal = levelHorizontal - h + 1
      /\ DoneVertical = levelVertical - v
      /\ FilledTo(vertical, levelVertical, DoneVertical)
  BY <1>1, Position
<1>3. levelHorizontal' = levelHorizontal /\ levelVertical' = levelVertical
  BY <1>1, LevelsStay
<1>4. BitsLeft /\ LevelsCarry /\ HangsBelow
  BY <1>2 DEF BandwidthInv
<1>5. h = v /\ h > 0
  BY <1>1 DEF LevelInv, Loops
<1>6. /\ up.active \in Nat
      /\ distribute # 0 => up.active * distribute = Distributed(request)
  <2>1. levelHorizontal - h \in 0..DoneHorizontal - 1
    BY <1>2
  <2>2. up.distribute = distribute
    BY <1>1, <1>4 DEF HangsBelow
  <2> QED
    BY <1>4, <2>1, <2>2 DEF LevelsCarry, Carry, Bears
<1> HIDE DEF halved, up, tiers
<1>7. halved \in BOOLEAN
  BY DEF halved
<1>8. /\ level.active \in Nat
      /\ level.distribute = distribute'
      /\ distribute' # 0 =>
           /\ distribute # 0
           /\ level.active * level.distribute = Distributed(request)
  BY <1>1, <1>2, <1>4, <1>6, <1>7, BelowCarries
<1> HIDE DEF level
<1>9. BitsLeft'
  BY <1>1, <1>4, <1>7, SplitKeepsBits DEF halved, Split
<1>10. levelVertical - v \in 0..levelVertical - 1
  BY <1>2, <1>5
<1>11. /\ Carry(vertical', levelVertical - v + 1, Distributed(request), distribute')
       /\ vertical'[levelVertical - v] = level
  <2>1. /\ Carry(vertical, levelVertical - v, Distributed(request), distribute)
        /\ FilledTo(vertical, levelVertical, levelVertical - v)
    BY <1>2, <1>4 DEF LevelsCarry
  <2> DEFINE first == levelVertical - v
             next  == [vertical EXCEPT ![first] = level]
  <2>2. first \in 0..levelVertical - 1
    BY <1>10
  <2>3. /\ Carry(next, first + 1, Distributed(request), distribute')
        /\ next[first] = level
    <3>1. /\ levelVertical \in Nat
          /\ Carry(vertical, first, Distributed(request), distribute)
          /\ FilledTo(vertical, levelVertical, first)
      BY <1>2, <2>1
    <3>2. Bears(level, Distributed(request), distribute') /\ (distribute' # 0 => distribute # 0)
      BY <1>8 DEF Bears
    <3> HIDE DEF first
    <3> QED
      BY <2>2, <3>1, <3>2, CarryNext
  <2> QED
    BY <1>1, <2>3
<1>12. Carry(horizontal', levelHorizontal - h + 1, Distributed(request), distribute')
  BY <1>1, <1>2, <1>4, <1>8, CarryStays DEF LevelsCarry
<1>13. LevelsCarry'
  <2>1. /\ DoneHorizontal' = levelHorizontal - h + 1
        /\ DoneVertical' = levelVertical - v + 1
    BY <1>1, <1>2, <1>3 DEF DoneHorizontal, DoneVertical
  <2> QED
    BY <1>1, <1>11, <1>12, <2>1 DEF LevelsCarry
<1>14. HangsBelow'
  <2>1. levelVertical' - v' - 1 = levelVertical - v
    BY <1>1, <1>2, <1>3
  <2>2. v' # levelVertical' /\ ~(h' > v') /\ ~(v' > h')
    BY <1>1, <1>2, <1>3, <1>5
  <2> QED
    BY <1>1, <1>8, <1>11, <2>1, <2>2 DEF HangsBelow
<1> QED
  BY <1>1, <1>9, <1>13, <1>14 DEF BandwidthInv

(* The split of the root: a data array has a bit left for either side.      *)
LEMMA LastBandwidth ==
  ASSUME LevelInv, BandwidthInv, Last
  PROVE  BandwidthInv'
<1> DEFINE halved == columnToActive > 1
<1>1. /\ request' = request /\ invalid' = invalid /\ pc = "route" /\ pc' = "mat"
      /\ h' = h /\ v' = v /\ horizontal' = horizontal /\ vertical' = vertical
      /\ rowToActive' = rowToActive
      /\ distribute' = IF halved THEN distribute \div 2 ELSE distribute
      /\ columnToActive' = IF halved THEN columnToActive \div 2 ELSE columnToActive
  BY DEF Last, LastSplit
<1>2. ~invalid
  BY <1>1, Position
<1>3. BitsLeft /\ LevelsCarry
  BY <1>2 DEF BandwidthInv
<1>4. halved \in BOOLEAN
  OBVIOUS
<1>5. BitsLeft' /\ (distribute' # 0 => distribute # 0)
  BY <1>1, <1>3, <1>4, SplitKeepsBits
<1>6. LevelsCarry'
  <2>1. levelHorizontal' = levelHorizontal /\ levelVertical' = levelVertical
    BY <1>1, LevelsStay
  <2>2. DoneHorizontal' = DoneHorizontal /\ DoneVertical' = DoneVertical
    BY <1>1, <2>1 DEF DoneHorizontal, DoneVertical
  <2> QED
    BY <1>1, <1>3, <1>5, <2>2, CarryStays DEF LevelsCarry
<1>7. HangsBelow'
  BY <1>1 DEF HangsBelow
<1> QED
  BY <1>1, <1>5, <1>6, <1>7 DEF BandwidthInv

(* A tag array that has lost its last bit on the way is rejected in front   *)
(* of its mat: no way would be left for it (BankWithHtree.cpp:433-436).     *)
LEMMA InitializeMatBandwidth ==
  ASSUME LevelInv, BandwidthInv, InitializeMat
  PROVE  BandwidthInv'
<1>1. /\ request' = request /\ pc = "mat" /\ pc' = "done" /\ UNCHANGED route
      /\ invalid' = mat'.invalid
  BY DEF InitializeMat
<1>2. /\ h' = h /\ v' = v /\ horizontal' = horizontal /\ vertical' = vertical
      /\ rowToActive' = rowToActive /\ columnToActive' = columnToActive
      /\ distribute' = distribute
  BY <1>1 DEF route
<1>3. ~invalid /\ request \in Requests
  BY <1>1 DEF LevelInv, Loops
<1>4. BitsLeft /\ LevelsCarry
  BY <1>3 DEF BandwidthInv
<1>5. BitsLeft' /\ HangsBelow'
  BY <1>1, <1>2, <1>4 DEF BitsLeft, HangsBelow
<1>6. LevelsCarry'
  <2>1. levelHorizontal' = levelHorizontal /\ levelVertical' = levelVertical
    BY <1>1, LevelsStay
  <2>2. DoneHorizontal' = DoneHorizontal /\ DoneVertical' = DoneVertical
    BY <1>1, <1>2, <2>1 DEF DoneHorizontal, DoneVertical
  <2> QED
    BY <1>1, <1>2, <1>4, <2>2 DEF LevelsCarry
<1>7. ~invalid' => distribute' # 0
  <2>1. SUFFICES ASSUME distribute = 0 PROVE invalid'
    BY <1>2
  <2>2. request.array = "tag"
    <3>1. request.array \in Arrays
      BY <1>3, ShapeAssumption DEF Request
    <3>2. request.array # "data"
      BY <1>4, <2>1 DEF BitsLeft
    <3> QED
      BY <3>1, <3>2 DEF Arrays
  <2>3. IllegalWays
    BY <2>1, <2>2 DEF IllegalWays
  <2>4. mat' = Rejected
    BY <2>3 DEF InitializeMat
  <2> QED
    BY <1>1, <2>4 DEF Rejected
<1> QED
  BY <1>1, <1>5, <1>6, <1>7 DEF BandwidthInv

LEMMA NextBandwidth ==
  ASSUME LevelInv, BandwidthInv, [Next]_vars
  PROVE  BandwidthInv'
<1>1. CASE Reject
  BY <1>1 DEF Reject, BandwidthInv
<1>2. CASE UNCHANGED vars
  <2>1. /\ request' = request /\ pc' = pc /\ h' = h /\ v' = v /\ invalid' = invalid
        /\ horizontal' = horizontal /\ vertical' = vertical
        /\ rowToActive' = rowToActive /\ columnToActive' = columnToActive
        /\ distribute' = distribute
    BY <1>2 DEF vars, route
  <2>2. levelHorizontal' = levelHorizontal /\ levelVertical' = levelVertical
    BY <2>1, LevelsStay
  <2>3. DoneHorizontal' = DoneHorizontal /\ DoneVertical' = DoneVertical
    BY <2>1, <2>2 DEF DoneHorizontal, DoneVertical
  <2> QED
    BY <2>1, <2>2, <2>3 DEF BandwidthInv, BitsLeft, LevelsCarry, HangsBelow
<1> QED
  BY <1>1, <1>2, StartBandwidth, ReduceHorizontalBandwidth,
     ReduceVerticalBandwidth, PairHorizontalBandwidth, PairVerticalBandwidth,
     LastBandwidth, InitializeMatBandwidth
     DEF Next, Returned

LEMMA BandwidthInvImplies ==
  ASSUME LevelInv, BandwidthInv
  PROVE  BandwidthKept
<1> SUFFICES ASSUME pc = "done", ~invalid,
                    NEW level \in {horizontal[i] : i \in DOMAIN horizontal}
                                    \union {vertical[i] : i \in DOMAIN vertical}
             PROVE  level.active * level.distribute = Distributed(request)
  BY DEF BandwidthKept
<1>1. levelHorizontal \in Nat /\ levelVertical \in Nat /\ h = 0 /\ v = 0
  BY LevelsAreNat DEF LevelInv, Loops
<1>2. DoneHorizontal = levelHorizontal /\ DoneVertical = levelVertical
  BY <1>1 DEF DoneHorizontal, DoneVertical
<1>3. /\ DOMAIN horizontal = 0..levelHorizontal - 1
      /\ DOMAIN vertical = 0..levelVertical - 1
  BY DEF LevelInv, Filled, FilledTo
<1>4. LevelsCarry /\ distribute # 0
  BY DEF BandwidthInv
<1>5. CASE level \in {horizontal[i] : i \in DOMAIN horizontal}
  BY <1>2, <1>3, <1>4, <1>5 DEF LevelsCarry, Carry, Bears
<1>6. CASE level \in {vertical[i] : i \in DOMAIN vertical}
  BY <1>2, <1>3, <1>4, <1>6 DEF LevelsCarry, Carry, Bears
<1> QED
  BY <1>5, <1>6

(* BandwidthKept for a bank of any size: in a bank that is not invalid the  *)
(* active wire groups of every level carry the whole block together, if the *)
(* block of a data array and the ways of a tag array are powers of two, as  *)
(* BankWithHtree::Initialize() needs them to be.                            *)
THEOREM RoutingKeepsBandwidth ==
  ASSUME PowerBlocks
  PROVE  Spec => []BandwidthKept
<1>1. Init => LevelInv /\ BandwidthInv
  BY InitLevels, InitBandwidth
<1>2. LevelInv /\ BandwidthInv /\ [Next]_vars => LevelInv' /\ BandwidthInv'
  BY NextLevels, NextBandwidth
<1>3. LevelInv /\ BandwidthInv => BandwidthKept
  BY BandwidthInvImplies
<1> QED
  BY <1>1, <1>2, <1>3, PTL DEF Spec

-----------------------------------------------------------------------------
(* Shares.  A level either halves the data bits and the mats that remain to *)
(* be activated, or uses up one address bit: what an active mat will get of *)
(* the block, and of the address, is settled from the beginning.            *)

(* The splits between left and right that are still to come.                *)
ColumnSplits ==
  IF pc = "mat" \/ levelHorizontal = 0 THEN 0
  ELSE IF pc = "route" THEN h + 1 ELSE h

(* The mats that remain to be activated fit the splits.                     *)
Activation ==
  /\ rowToActive \in PowersOfTwo /\ Log2(rowToActive) <= v
  /\ columnToActive \in PowersOfTwo /\ Log2(columnToActive) <= ColumnSplits

DataSettled ==
  /\ distribute \in Nat /\ broadcast = Broadcast(request)
  /\ distribute \div (rowToActive * columnToActive) =
       Distributed(request) \div (request.org.activeRows * request.org.activeColumns)

AddressSettled ==
  /\ address \in Int
  /\ address - (v - Log2(rowToActive)) - (ColumnSplits - Log2(columnToActive)) =
       Shares!AddressToMat(request)

(* What BankWithoutHtree makes of a request.                                *)
Share(r) ==
  IF Shares!IllegalWays(r) THEN Rejected
  ELSE Mat(r, Shares!AddressToMat(r), Shares!DataToMat(r), Shares!WaysInMat(r))

SharesInv ==
  /\ ~TooAggressive(request)
  /\ pc # "done" => Activation /\ DataSettled /\ AddressSettled
  /\ pc = "done" => Shape = Share(request)
  /\ pc = "done" /\ ~invalid => ~mat.invalid

(* A split halves what is active on it, or leaves a single one and uses up  *)
(* an address bit.                                                          *)
LEMMA SplitSettles ==
  ASSUME NEW x \in PowersOfTwo, NEW y \in PowersOfTwo, NEW d \in Nat, NEW a \in Int,
         NEW n \in Nat \ {0}, Log2(x) <= n,
         NEW xx, xx = IF x > 1 THEN x \div 2 ELSE x,
         NEW dd, dd = IF x > 1 THEN d \div 2 ELSE d,
         NEW aa, aa = IF x > 1 THEN a ELSE a - 1
  PROVE  /\ xx \in PowersOfTwo /\ Log2(xx) <= n - 1
         /\ dd \in Nat /\ aa \in Int
         /\ dd \div (xx * y) = d \div (x * y) /\ dd \div (y * xx) = d \div (y * x)
         /\ aa - ((n - 1) - Log2(xx)) = a - (n - Log2(x))
<1>1. x \in Nat \ {0} /\ y \in Nat \ {0} /\ Log2(x) \in Nat
  BY PowerLog
<1>2. CASE x > 1
  <2>1. /\ xx \in PowersOfTwo /\ Log2(xx) = Log2(x) - 1 /\ x = 2 * xx
        /\ dd = d \div 2 /\ aa = a
    BY <1>2, HalfOfPower
  <2>2. xx \in Nat \ {0}
    BY <2>1, PowerLog
  <2>3. dd \in Nat
    BY <2>1
  <2> DEFINE k == xx * y
  <2>4. k \in Nat \ {0} /\ y * xx = k /\ x * y = 2 * k /\ y * x = 2 * k
    <3>1. (2 * xx) * y = 2 * (xx * y) /\ y * (2 * xx) = 2 * (xx * y)
          /\ y * xx = xx * y
      BY <1>1, <2>2
    <3>2. xx * y \in Nat \ {0}
      BY <1>1, <2>2
    <3> QED
      BY <2>1, <3>1, <3>2
  <2> HIDE DEF k
  <2>5. (d \div 2) \div k = d \div (2 * k)
    <3> HIDE DEF k
    <3> QED
      BY <2>4, HalveAndDivide
  <2>6. dd \div k = d \div (2 * k)
    BY <2>1, <2>5
  <2>7. dd \div (xx * y) = d \div (x * y) /\ dd \div (y * xx) = d \div (y * x)
    BY <2>4, <2>6 DEF k
  <2>8. Log2(xx) <= n - 1 /\ aa - ((n - 1) - Log2(xx)) = a - (n - Log2(x))
    BY <1>1, <2>1
  <2> QED
    BY <2>1, <2>3, <2>7, <2>8
<1>3. CASE ~(x > 1)
  <2>1. x = 1 /\ xx = x /\ dd = d /\ aa = a - 1
    BY <1>1, <1>3
  <2>2. Log2(x) = 0
    BY <2>1, SmallPowers
  <2> QED
    BY <2>1, <2>2
<1> QED
  BY <1>2, <1>3

(* A mat without address bits is rejected.                                  *)
LEMMA NoAddressNoMat ==
  ASSUME NEW r, PowerOrganisation(r.org), NEW a \in Int, a <= 0, NEW d, NEW w
  PROVE  Mat(r, a, d, w) = Rejected
<1> DEFINE o == r.org
           gating == Log2((o.subRows * o.subColumns)
                            \div (o.activeSubRows * o.activeSubColumns))
<1>1. gating \in Nat
  <2>1. /\ o.subRows \in PowersOfTwo /\ o.subColumns \in PowersOfTwo
        /\ o.activeSubRows \in PowersOfTwo /\ o.activeSubColumns \in PowersOfTwo
        /\ o.activeSubRows <= o.subRows /\ o.activeSubColumns <= o.subColumns
        /\ o.subRows * o.subColumns <= 2^30
    BY DEF PowerOrganisation
  <2>2. (o.subRows * o.subColumns) \div (o.activeSubRows * o.activeSubColumns)
          \in PowersOfTwo
    BY <2>1, ChoiceOfPowers
  <2> QED
    BY <2>2, PowerLog
<1> HIDE DEF gating
<1>2. a - gating <= 0
  BY <1>1
<1> QED
  BY <1>2 DEF Mat, gating

(* The definitions both kinds of banks share.                               *)
LEMMA SameLog == \A p, q : Shares!Log(p, q) = Log(p, q) /\ Shares!Log2(p) = Log2(p)
<1>1. \A p, q : Shares!Log(p, q) = Log(p, q)
  BY DEF Shares!Log, Log
<1> QED
  BY <1>1 DEF Shares!Log2, Log2

LEMMA SameBlock ==
  ASSUME NEW r
  PROVE  /\ Shares!BlockSize(r) = BlockSize(r) /\ Shares!Ways(r) = Ways(r)
         /\ Shares!TooAggressive(r) <=> TooAggressive(r)
         /\ Shares!NumAddressBit(r) = NumAddressBit(r)
<1>1. \A o : Shares!Activated(o) = Activated(o)
  BY DEF Shares!Activated, Activated
<1>2. \A m : Shares!TagWidth(m) = TagWidth(m)
  BY SameLog DEF Shares!TagWidth, TagWidth
<1>3. \A m, o : Shares!TagBlock(m, o) = TagBlock(m, o)
  BY <1>1, <1>2 DEF Shares!TagBlock, TagBlock
<1>4. Shares!BlockSize(r) = BlockSize(r)
  BY <1>3 DEF Shares!BlockSize, BlockSize
<1>5. Shares!Ways(r) = Ways(r)
  BY DEF Shares!Ways, Ways
<1>6. Shares!TooAggressive(r) <=> TooAggressive(r)
  BY <1>1, <1>2, <1>4 DEF Shares!TooAggressive, TooAggressive
<1>7. Shares!Capacity(r) = Capacity(r)
  BY <1>4 DEF Shares!Capacity, Capacity
<1>8. Shares!NumAddressBit(r) = NumAddressBit(r)
  BY <1>4, <1>5, <1>7, SameLog DEF Shares!NumAddressBit, NumAddressBit
<1> QED
  BY <1>4, <1>5, <1>6, <1>8

LEMMA SameMat ==
  ASSUME NEW r, NEW a, NEW d, NEW w
  PROVE  Shares!Mat(r, a, d, w) = Mat(r, a, d, w)
<1>1. \A k, n : Shares!ExtraMux(k, n) = ExtraMux(k, n)
  BY SameLog DEF Shares!ExtraMux, ExtraMux
<1>2. \A m, p, q, s : Shares!SubArrayInvalid(m, p, q, s) <=> SubArrayInvalid(m, p, q, s)
  BY DEF Shares!SubArrayInvalid, SubArrayInvalid
<1>3. \A b, n, p : Shares!MatRows(r, b, n, p) = MatRows(r, b, n, p)
  BY DEF Shares!MatRows, MatRows
<1>4. \A b, n, p : Shares!MatColumns(r, b, n, p) = MatColumns(r, b, n, p)
  BY DEF Shares!MatColumns, MatColumns
<1>5. Shares!Rejected = Rejected
  BY DEF Shares!Rejected, Rejected
<1> DEFINE o == r.org
           one == IF r.array = "data" THEN ExtraMux(r.memory.cell, w \div o.rowPerSet)
                  ELSE ExtraMux(r.memory.cell, 1)
           two == IF r.array = "data"
                  THEN Shares!ExtraMux(r.memory.cell, w \div o.rowPerSet)
                  ELSE Shares!ExtraMux(r.memory.cell, 1)
           gatingOne == Log2((o.subRows * o.subColumns)
                               \div (o.activeSubRows * o.activeSubColumns))
           gatingTwo == Shares!Log2((o.subRows * o.subColumns)
                                      \div (o.activeSubRows * o.activeSubColumns))
           Sense(e) == o.sense * e.sense
           Product(e) == Sense(e) * (o.lev1 * e.lev1) * (o.lev2 * e.lev2)
           One(e, bits) ==
             IF \/ bits <= 0
                \/ MatRows(r, bits, w, Product(e)) = 0
                \/ MatColumns(r, d, w, Product(e)) = 0
                \/ SubArrayInvalid(r.memory, MatRows(r, bits, w, Product(e)),
                                   MatColumns(r, d, w, Product(e)), Sense(e))
                \/ bits - Log2(Product(e)) < 0
             THEN Rejected
             ELSE [invalid |-> FALSE, rows |-> MatRows(r, bits, w, Product(e)),
                   columns |-> MatColumns(r, d, w, Product(e)),
                   rowAddress |-> bits - Log2(Product(e))]
           Two(e, bits) ==
             IF \/ bits <= 0
                \/ Shares!MatRows(r, bits, w, Product(e)) = 0
                \/ Shares!MatColumns(r, d, w, Product(e)) = 0
                \/ Shares!SubArrayInvalid(r.memory, Shares!MatRows(r, bits, w, Product(e)),
                                   Shares!MatColumns(r, d, w, Product(e)), Sense(e))
                \/ bits - Shares!Log2(Product(e)) < 0
             THEN Shares!Rejected
             ELSE [invalid |-> FALSE, rows |-> Shares!MatRows(r, bits, w, Product(e)),
                   columns |-> Shares!MatColumns(r, d, w, Product(e)),
                   rowAddress |-> bits - Shares!Log2(Product(e))]
<1>6. Mat(r, a, d, w) = One(one, a - gatingOne)
  BY ZenonT(60) DEF Mat
<1>7. Shares!Mat(r, a, d, w) = Two(two, a - gatingTwo)
  BY ZenonT(60) DEF Shares!Mat
<1>8. one = two /\ gatingOne = gatingTwo
  BY <1>1, SameLog
<1>9. \A e, bits : One(e, bits) = Two(e, bits)
  <2> TAKE e, bits
  <2> DEFINE p == Product(e)
             s == Sense(e)
             rows == MatRows(r, bits, w, p)
             columns == MatColumns(r, d, w, p)
             bad == SubArrayInvalid(r.memory, rows, columns, s)
             low == bits - Log2(p)
  <2>1. Shares!MatRows(r, bits, w, p) = rows /\ Shares!MatColumns(r, d, w, p) = columns
        /\ bits - Shares!Log2(p) = low
    <3> HIDE DEF p
    <3> QED
      BY <1>3, <1>4, SameLog
  <2>2. Shares!SubArrayInvalid(r.memory, rows, columns, s) <=> bad
    <3> HIDE DEF p, s, rows, columns
    <3> QED
      BY <1>2
  <2>3. One(e, bits) =
          IF bits <= 0 \/ rows = 0 \/ columns = 0 \/ bad \/ low < 0 THEN Rejected
          ELSE [invalid |-> FALSE, rows |-> rows, columns |-> columns, rowAddress |-> low]
    BY Zenon
  <2>4. Two(e, bits) =
          IF bits <= 0 \/ rows = 0 \/ columns = 0
             \/ Shares!SubArrayInvalid(r.memory, rows, columns, s) \/ low < 0
          THEN Rejected
          ELSE [invalid |-> FALSE, rows |-> rows, columns |-> columns, rowAddress |-> low]
    <3>1. Two(e, bits) =
            IF \/ bits <= 0
               \/ Shares!MatRows(r, bits, w, p) = 0
               \/ Shares!MatColumns(r, d, w, p) = 0
               \/ Shares!SubArrayInvalid(r.memory, Shares!MatRows(r, bits, w, p),
                                         Shares!MatColumns(r, d, w, p), s)
               \/ bits - Shares!Log2(p) < 0
            THEN Shares!Rejected
            ELSE [invalid |-> FALSE, rows |-> Shares!MatRows(r, bits, w, p),
                  columns |-> Shares!MatColumns(r, d, w, p),
                  rowAddress |-> bits - Shares!Log2(p)]
      BY Zenon
    <3> HIDE DEF rows, columns, low, p, s, Two
    <3> QED
      BY <1>5, <2>1, <3>1, Zenon
  <2> HIDE DEF rows, columns, low, bad, p, s, One, Two
  <2> QED
    BY <2>2, <2>3, <2>4
<1> HIDE DEF one, two, gatingOne, gatingTwo, One, Two
<1> QED
  BY <1>6, <1>7, <1>8, <1>9

LEMMA SameRequest == Shares!Request = Request
BY DEF Shares!Request, Request, Shares!Memory, Memory, Shares!Organisation,
       Organisation, Shares!Arrays, Arrays, Shares!Modes, Modes,
       Shares!CellKinds, CellKinds, Shares!Counts, Counts

(* All ways of a data array are broadcast to its mats.                      *)
LEMMA BroadcastIsWays ==
  ASSUME NEW r, r.array = "data", Ways(r) \in PowersOfTwo
  PROVE  Broadcast(r) \in Nat /\ 2^Broadcast(r) = Ways(r)
<1> DEFINE w == Ways(r)
           k == Log2(w)
           Is(j) == 2^j <= w /\ w < 2^(j + 1)
<1>1. k \in 0..30 /\ w = 2^k /\ w \in Nat
  BY PowerLog
<1> HIDE DEF w, k
<1>2. Is(k)
  <2>1. 2^k < 2^(k + 1) /\ 2^k <= 2^k
    <3>1. k \in Nat /\ k + 1 \in Nat /\ k < k + 1
      BY <1>1
    <3> QED
      BY <3>1, PowersGrow, ExponentsCompare
  <2> QED
    BY <1>1, <2>1
<1>3. ASSUME NEW j \in 0..30, Is(j) PROVE j = k
  <2> DEFINE i == j + 1
  <2>1. i \in Nat /\ j \in Nat /\ k \in Nat
    BY <1>1
  <2>2. 2^j <= 2^k /\ 2^k < 2^i
    BY <1>1, <1>3
  <2> HIDE DEF i
  <2>3. j <= k /\ k < i
    BY <2>1, <2>2, PowersGrow, ExponentsCompare
  <2> QED
    BY <2>1, <2>3 DEF i
<1>4. (CHOOSE j \in 0..30 : Is(j)) = k
  <2> HIDE DEF Is
  <2> QED
    BY <1>1, <1>2, <1>3
<1>5. Broadcast(r) = k
  BY <1>4 DEF Broadcast, w
<1> QED
  BY <1>1, <1>5 DEF w

(* What the hypothesis says of one request.                                 *)
LEMMA RequestFacts ==
  ASSUME PowerBanks, NEW r \in Requests
  PROVE  /\ PowerOrganisation(r.org)
         /\ r.org.rows \in PowersOfTwo /\ r.org.columns \in PowersOfTwo
         /\ r.org.activeRows \in PowersOfTwo /\ r.org.activeColumns \in PowersOfTwo
         /\ r.org.activeRows * r.org.activeColumns \in Nat \ {0}
         /\ Log2(r.org.activeRows) <= Log2(r.org.rows)
         /\ Log2(r.org.activeColumns) <= Log2(r.org.columns)
         /\ NumAddressBit(r) \in Int
         /\ Shares!AddressToMat(r) =
              NumAddressBit(r) - ((Log2(r.org.rows) - Log2(r.org.activeRows))
                                    + (Log2(r.org.columns) - Log2(r.org.activeColumns)))
         /\ Distributed(r) \in Nat /\ Broadcast(r) \in Nat
         /\ r.array \in {"tag", "data"}
<1>1. /\ PowerOrganisation(r.org) /\ Ways(r) \in PowersOfTwo
      /\ BlockSize(r) \in Nat /\ NumAddressBit(r) \in Int
  BY DEF PowerBanks
<1>2. /\ r.org.rows \in PowersOfTwo /\ r.org.columns \in PowersOfTwo
      /\ r.org.activeRows \in PowersOfTwo /\ r.org.activeColumns \in PowersOfTwo
      /\ r.org.activeRows <= r.org.rows /\ r.org.activeColumns <= r.org.columns
      /\ r.org.rows * r.org.columns <= 2^30
  BY <1>1 DEF PowerOrganisation
<1>3. /\ r.org.activeRows * r.org.activeColumns \in PowersOfTwo
      /\ Log2((r.org.rows * r.org.columns) \div (r.org.activeRows * r.org.activeColumns))
           = (Log2(r.org.rows) - Log2(r.org.activeRows))
               + (Log2(r.org.columns) - Log2(r.org.activeColumns))
  BY <1>2, ChoiceOfPowers
<1>4. /\ Log2(r.org.activeRows) <= Log2(r.org.rows)
      /\ Log2(r.org.activeColumns) <= Log2(r.org.columns)
  BY <1>2, PowersOver
<1>5. r.array \in {"tag", "data"}
  BY ShapeAssumption DEF Request, Arrays
<1>6. Distributed(r) \in Nat
  BY <1>1, PowerLog DEF Distributed
<1>7. Broadcast(r) \in Nat
  <2>1. CASE r.array = "data"
    BY <1>1, <2>1, BroadcastIsWays
  <2>2. CASE r.array = "tag"
    BY <1>1, <2>2 DEF Broadcast
  <2> QED
    BY <1>5, <2>1, <2>2
<1>8. r.org.activeRows * r.org.activeColumns \in Nat \ {0}
  BY <1>3, PowerLog
<1>9. Shares!AddressToMat(r) =
        NumAddressBit(r)
          - Log2((r.org.rows * r.org.columns) \div (r.org.activeRows * r.org.activeColumns))
  BY SameLog, SameBlock DEF Shares!AddressToMat
<1> QED
  BY <1>1, <1>2, <1>3, <1>4, <1>5, <1>6, <1>7, <1>8, <1>9

LEMMA InitShares ==
  ASSUME PowerBanks, Init
  PROVE  SharesInv
<1> DEFINE o == request.org
<1>1. /\ request \in Requests /\ ~TooAggressive(request) /\ pc = "start"
      /\ h = levelHorizontal /\ v = levelVertical
      /\ rowToActive = o.activeRows /\ columnToActive = o.activeColumns
      /\ address = NumAddressBit(request)
      /\ distribute = Distributed(request) /\ broadcast = Broadcast(request)
  BY DEF Init
<1>2. /\ o.rows \in PowersOfTwo /\ o.columns \in PowersOfTwo
      /\ o.activeRows \in PowersOfTwo /\ o.activeColumns \in PowersOfTwo
      /\ Log2(o.activeRows) <= Log2(o.rows)
      /\ Log2(o.activeColumns) <= Log2(o.columns)
      /\ NumAddressBit(request) \in Int
      /\ Shares!AddressToMat(request) =
           NumAddressBit(request) - ((Log2(o.rows) - Log2(o.activeRows))
                                       + (Log2(o.columns) - Log2(o.activeColumns)))
      /\ Distributed(request) \in Nat
  BY <1>1, RequestFacts
<1> HIDE DEF o
<1>3. /\ Log2(o.rows) \in Nat /\ Log2(o.columns) \in Nat
      /\ Log2(o.activeRows) \in Nat /\ Log2(o.activeColumns) \in Nat
  BY <1>2, PowerLog
<1>4. levelHorizontal = Log2(o.columns) /\ levelVertical = Log2(o.rows)
  BY DEF levelHorizontal, levelVertical, o
<1>5. ColumnSplits = Log2(o.columns)
  BY <1>1, <1>4 DEF ColumnSplits
<1>6. Activation
  BY <1>1, <1>2, <1>4, <1>5 DEF Activation
<1>7. DataSettled
  BY <1>1, <1>2 DEF DataSettled, o
<1>8. AddressSettled
  BY <1>1, <1>2, <1>3, <1>4, <1>5 DEF AddressSettled
<1> QED
  BY <1>1, <1>6, <1>7, <1>8 DEF SharesInv

-----------------------------------------------------------------------------
(* A level of the tree splits the rows of mats, another one the columns.    *)
LEMMA SplitRowsShares ==
  ASSUME SharesInv, pc # "done", pc' # "done", request' = request,
         broadcast' = broadcast, v \in Nat \ {0}, v' = v - 1,
         ColumnSplits \in Nat, ColumnSplits' = ColumnSplits,
         columnToActive' = columnToActive, Split(rowToActive > 1),
         rowToActive' = IF rowToActive > 1 THEN rowToActive \div 2 ELSE rowToActive
  PROVE  SharesInv'
<1>1. /\ rowToActive \in PowersOfTwo /\ Log2(rowToActive) <= v
      /\ columnToActive \in PowersOfTwo /\ Log2(columnToActive) <= ColumnSplits
      /\ distribute \in Nat /\ address \in Int /\ broadcast = Broadcast(request)
      /\ distribute \div (rowToActive * columnToActive) =
           Distributed(request) \div (request.org.activeRows * request.org.activeColumns)
      /\ address - (v - Log2(rowToActive)) - (ColumnSplits - Log2(columnToActive)) =
           Shares!AddressToMat(request)
  BY DEF SharesInv, Activation, DataSettled, AddressSettled
<1>2. /\ distribute' = IF rowToActive > 1 THEN distribute \div 2 ELSE distribute
      /\ address' = IF rowToActive > 1 THEN address ELSE address - 1
  BY DEF Split
<1>3. /\ rowToActive' \in PowersOfTwo /\ Log2(rowToActive') <= v - 1
      /\ distribute' \in Nat /\ address' \in Int
      /\ distribute' \div (rowToActive' * columnToActive) =
           distribute \div (rowToActive * columnToActive)
      /\ address' - ((v - 1) - Log2(rowToActive')) = address - (v - Log2(rowToActive))
  BY <1>1, <1>2, SplitSettles
<1>4. Activation'
  BY <1>1, <1>3 DEF Activation
<1>5. DataSettled'
  BY <1>1, <1>3 DEF DataSettled
<1>6. AddressSettled'
  BY <1>1, <1>3 DEF AddressSettled
<1> QED
  BY <1>4, <1>5, <1>6 DEF SharesInv

LEMMA SplitColumnsShares ==
  ASSUME SharesInv, pc # "done", pc' # "done", request' = request,
         broadcast' = broadcast, v \in Nat, v' = v,
         ColumnSplits \in Nat \ {0}, ColumnSplits' = ColumnSplits - 1,
         rowToActive' = rowToActive, Split(columnToActive > 1),
         columnToActive' = IF columnToActive > 1 THEN columnToActive \div 2
                           ELSE columnToActive
  PROVE  SharesInv'
<1>1. /\ rowToActive \in PowersOfTwo /\ Log2(rowToActive) <= v
      /\ columnToActive \in PowersOfTwo /\ Log2(columnToActive) <= ColumnSplits
      /\ distribute \in Nat /\ address \in Int /\ broadcast = Broadcast(request)
      /\ distribute \div (rowToActive * columnToActive) =
           Distributed(request) \div (request.org.activeRows * request.org.activeColumns)
      /\ address - (v - Log2(rowToActive)) - (ColumnSplits - Log2(columnToActive)) =
           Shares!AddressToMat(request)
  BY DEF SharesInv, Activation, DataSettled, AddressSettled
<1>2. /\ distribute' = IF columnToActive > 1 THEN distribute \div 2 ELSE distribute
      /\ address' = IF columnToActive > 1 THEN address ELSE address - 1
  BY DEF Split
<1>3. /\ columnToActive' \in PowersOfTwo
      /\ Log2(columnToActive') <= ColumnSplits - 1
      /\ distribute' \in Nat /\ address' \in Int
      /\ distribute' \div (rowToActive * columnToActive') =
           distribute \div (rowToActive * columnToActive)
      /\ address' - ((ColumnSplits - 1) - Log2(columnToActive')) =
           address - (ColumnSplits - Log2(columnToActive))
  <2> DEFINE n == ColumnSplits
             xx == columnToActive'
             x == columnToActive
             y == rowToActive
             d == distribute
             a == address
             dd == distribute'
             aa == address'
  <2>1. /\ n \in Nat \ {0} /\ Log2(x) <= n /\ x \in PowersOfTwo /\ y \in PowersOfTwo
        /\ d \in Nat /\ a \in Int
    BY <1>1
  <2>2. /\ xx = IF x > 1 THEN x \div 2 ELSE x
        /\ dd = IF x > 1 THEN d \div 2 ELSE d
        /\ aa = IF x > 1 THEN a ELSE a - 1
    BY <1>2
  <2> HIDE DEF n, xx, x, y, d, a, dd, aa
  <2>3. /\ xx \in PowersOfTwo /\ Log2(xx) <= n - 1
        /\ dd \in Nat /\ aa \in Int
        /\ dd \div (y * xx) = d \div (y * x)
        /\ aa - ((n - 1) - Log2(xx)) = a - (n - Log2(x))
    <3>1. xx \in PowersOfTwo /\ Log2(xx) <= n - 1 /\ dd \in Nat /\ aa \in Int
      BY ONLY <2>1, <2>2, SplitSettles
    <3>2. dd \div (y * xx) = d \div (y * x)
      BY ONLY <2>1, <2>2, SplitSettles
    <3>3. aa - ((n - 1) - Log2(xx)) = a - (n - Log2(x))
      BY ONLY <2>1, <2>2, SplitSettles
    <3> QED
      BY ONLY <2>1, <3>1, <3>2, <3>3
  <2> QED
    BY <2>3 DEF n, xx, x, y, d, a, dd, aa
<1>4. Activation'
  BY <1>1, <1>3 DEF Activation
<1>5. DataSettled'
  BY <1>1, <1>3 DEF DataSettled
<1>6. AddressSettled'
  <2>1. Log2(rowToActive) \in Nat
    BY <1>1, PowerLog
  <2>2. Log2(columnToActive) \in Nat /\ Log2(columnToActive') \in Nat
    BY <1>1, <1>3, PowerLog
  <2> QED
    BY <1>1, <1>3, <2>1, <2>2 DEF AddressSettled
<1> QED
  BY <1>4, <1>5, <1>6 DEF SharesInv

(* A step that splits nothing.                                              *)
LEMMA SameShares ==
  ASSUME SharesInv, pc # "done", pc' # "done", request' = request,
         broadcast' = broadcast, v' = v, ColumnSplits' = ColumnSplits,
         rowToActive' = rowToActive, columnToActive' = columnToActive,
         distribute' = distribute, address' = address
  PROVE  SharesInv'
BY DEF SharesInv, Activation, DataSettled, AddressSettled

LEMMA StartShares ==
  ASSUME LevelInv, SharesInv, Start
  PROVE  SharesInv'
<1>1. /\ request' = request /\ pc = "start" /\ pc' = "route" /\ v' = v
      /\ rowToActive' = rowToActive /\ columnToActive' = columnToActive
      /\ address' = address /\ distribute' = distribute /\ broadcast' = broadcast
      /\ levelHorizontal > 0 => h' = h - 1
  BY DEF Start
<1>2. levelHorizontal \in Nat /\ h = levelHorizontal
  BY <1>1, LevelsAreNat DEF LevelInv, Loops
<1>3. levelHorizontal' = levelHorizontal
  BY <1>1, LevelsStay
<1>4. ColumnSplits' = ColumnSplits
  BY <1>1, <1>2, <1>3 DEF ColumnSplits
<1> QED
  BY <1>1, <1>4, SameShares

LEMMA ReduceHorizontalShares ==
  ASSUME LevelInv, SharesInv, ReduceHorizontal
  PROVE  SharesInv'
<1>1. /\ request' = request /\ pc = "route" /\ pc' = "route"
      /\ v' = v /\ h > v /\ h' = h - 1 /\ broadcast' = broadcast
      /\ rowToActive' = rowToActive /\ Split(columnToActive > 1)
      /\ columnToActive' = IF columnToActive > 1 THEN columnToActive \div 2
                           ELSE columnToActive
  BY DEF ReduceHorizontal, SplitColumns
<1>2. /\ levelHorizontal \in Nat /\ h \in 0..levelHorizontal /\ v \in Nat
  BY <1>1, Position
<1>3. levelHorizontal' = levelHorizontal
  BY <1>1, LevelsStay
<1>4. ColumnSplits = h + 1 /\ ColumnSplits' = h
  BY <1>1, <1>2, <1>3 DEF ColumnSplits
<1>5. ColumnSplits \in Nat \ {0} /\ ColumnSplits' = ColumnSplits - 1
  BY <1>2, <1>4
<1> QED
  BY <1>1, <1>2, <1>5, SplitColumnsShares

LEMMA ReduceVerticalShares ==
  ASSUME LevelInv, SharesInv, ReduceVertical
  PROVE  SharesInv'
<1>1. /\ request' = request /\ pc = "route" /\ pc' = "route"
      /\ h' = h /\ v > h /\ v' = v - 1 /\ broadcast' = broadcast
      /\ columnToActive' = columnToActive /\ Split(rowToActive > 1)
      /\ rowToActive' = IF rowToActive > 1 THEN rowToActive \div 2 ELSE rowToActive
  BY DEF ReduceVertical, SplitRows
<1>2. /\ levelHorizontal \in Nat /\ h \in 0..levelHorizontal /\ v \in Nat
  BY <1>1, Position
<1>3. levelHorizontal' = levelHorizontal
  BY <1>1, LevelsStay
<1>4. ColumnSplits \in Nat /\ ColumnSplits' = ColumnSplits
  BY <1>1, <1>2, <1>3 DEF ColumnSplits
<1>5. v \in Nat \ {0}
  BY <1>1, <1>2
<1> QED
  BY <1>1, <1>4, <1>5, SplitRowsShares

LEMMA PairHorizontalShares ==
  ASSUME LevelInv, SharesInv, PairHorizontal
  PROVE  SharesInv'
<1>1. /\ request' = request /\ pc = "route" /\ pc' = "pair"
      /\ h' = h /\ v' = v /\ h > 0 /\ broadcast' = broadcast
      /\ rowToActive' = rowToActive /\ Split(columnToActive > 1)
      /\ columnToActive' = IF columnToActive > 1 THEN columnToActive \div 2
                           ELSE columnToActive
  BY DEF PairHorizontal, SplitColumns
<1>2. /\ levelHorizontal \in Nat /\ h \in 0..levelHorizontal /\ v \in Nat
  BY <1>1, Position
<1>3. levelHorizontal' = levelHorizontal
  BY <1>1, LevelsStay
<1>4. ColumnSplits = h + 1 /\ ColumnSplits' = h
  BY <1>1, <1>2, <1>3 DEF ColumnSplits
<1>5. ColumnSplits \in Nat \ {0} /\ ColumnSplits' = ColumnSplits - 1
  BY <1>2, <1>4
<1> QED
  BY <1>1, <1>2, <1>5, SplitColumnsShares

LEMMA PairVerticalShares ==
  ASSUME LevelInv, SharesInv, PairVertical
  PROVE  SharesInv'
<1>1. /\ request' = request /\ pc = "pair" /\ pc' = "route"
      /\ h' = h - 1 /\ v' = v - 1 /\ broadcast' = broadcast
      /\ columnToActive' = columnToActive /\ Split(rowToActive > 1)
      /\ rowToActive' = IF rowToActive > 1 THEN rowToActive \div 2 ELSE rowToActive
  BY DEF PairVertical, SplitRows, NextPair
<1>2. /\ levelHorizontal \in Nat /\ h \in 0..levelHorizontal /\ v \in Nat
      /\ h = v /\ h > 0
  <2>1. levelHorizontal \in Nat /\ h \in 0..levelHorizontal /\ v \in 0..levelVertical
        /\ levelVertical \in Nat
    BY <1>1, Position
  <2>2. h = v /\ h > 0
    BY <1>1 DEF LevelInv, Loops
  <2> QED
    BY <2>1, <2>2
<1>3. levelHorizontal' = levelHorizontal
  BY <1>1, LevelsStay
<1>4. ColumnSplits \in Nat /\ ColumnSplits' = ColumnSplits
  BY <1>1, <1>2, <1>3 DEF ColumnSplits
<1>5. v \in Nat \ {0}
  BY <1>2
<1> QED
  BY <1>1, <1>4, <1>5, SplitRowsShares

(* The split of the root is the last one of the columns.  A bank with one   *)
(* column of mats has none.                                                 *)
LEMMA LastShares ==
  ASSUME LevelInv, SharesInv, Last
  PROVE  SharesInv'
<1>1. /\ request' = request /\ pc = "route" /\ pc' = "mat" /\ LastSplit
      /\ h' = h /\ v' = v /\ h = 0 /\ v = 0
      /\ rowToActive' = rowToActive /\ broadcast' = broadcast
  BY DEF Last
<1>2. levelHorizontal \in Nat
  BY <1>1, Position
<1>3. ColumnSplits' = 0
  BY <1>1 DEF ColumnSplits
<1>4. CASE levelHorizontal > 0
  <2>1. /\ Split(columnToActive > 1)
        /\ columnToActive' = IF columnToActive > 1 THEN columnToActive \div 2
                             ELSE columnToActive
    BY <1>1, <1>4 DEF LastSplit, Split
  <2>2. ColumnSplits = 1
    BY <1>1, <1>4 DEF ColumnSplits
  <2>3. ColumnSplits \in Nat \ {0} /\ ColumnSplits' = ColumnSplits - 1 /\ v \in Nat
    BY <1>1, <1>3, <2>2
  <2> QED
    BY <1>1, <2>1, <2>3, SplitColumnsShares
<1>5. CASE ~(levelHorizontal > 0)
  <2>1. ColumnSplits = 0
    BY <1>2, <1>5 DEF ColumnSplits
  <2>2. columnToActive \in PowersOfTwo /\ Log2(columnToActive) <= 0
    BY <1>1, <2>1 DEF SharesInv, Activation
  <2>3. columnToActive = 1
    <3>1. Log2(columnToActive) = 0
      BY <2>2, PowerLog
    <3>2. columnToActive = 2^0
      BY <2>2, <3>1, PowerLog
    <3> QED
      BY <3>2
  <2>4. address' = address /\ distribute' = distribute
        /\ columnToActive' = columnToActive
    BY <1>1, <1>5, <2>3 DEF LastSplit
  <2> QED
    BY <1>1, <1>3, <2>1, <2>4, SameShares
<1> QED
  BY <1>4, <1>5

(* A mat is rejected as a whole.                                            *)
LEMMA ShareRejects ==
  ASSUME NEW r, NEW a, NEW d, NEW w, Mat(r, a, d, w).invalid
  PROVE  Mat(r, a, d, w) = Rejected
<1> DEFINE Is(rows, columns, rowAddress) ==
             [invalid |-> FALSE, rows |-> rows, columns |-> columns,
              rowAddress |-> rowAddress]
<1>1. \/ Mat(r, a, d, w) = Rejected
      \/ \E rows, columns, rowAddress : Mat(r, a, d, w) = Is(rows, columns, rowAddress)
  BY Zenon DEF Mat
<1>2. ASSUME NEW rows, NEW columns, NEW rowAddress,
             Mat(r, a, d, w) = Is(rows, columns, rowAddress)
      PROVE  FALSE
  <2>1. Is(rows, columns, rowAddress).invalid = FALSE
    OBVIOUS
  <2> QED
    BY <1>2, <2>1
<1> QED
  BY <1>1, <1>2

(* What is decoded, distributed and broadcast to the mat is its share.      *)
LEMMA InitializeMatShares ==
  ASSUME PowerBanks, LevelInv, SharesInv, InitializeMat
  PROVE  SharesInv'
<1> DEFINE o == request.org
<1>1. /\ request' = request /\ pc = "mat" /\ pc' = "done"
      /\ invalid' = mat'.invalid
      /\ mat' = IF IllegalWays THEN Rejected
                ELSE IF request.array = "data"
                THEN Mat(request, address, distribute, 2^broadcast)
                ELSE Mat(request, address, broadcast, distribute)
  BY DEF InitializeMat
<1>2. request \in Requests /\ v = 0
  BY <1>1 DEF LevelInv, Loops
<1>3. ColumnSplits = 0
  BY <1>1 DEF ColumnSplits
<1>4. /\ rowToActive \in PowersOfTwo /\ columnToActive \in PowersOfTwo
      /\ Log2(rowToActive) <= 0 /\ Log2(columnToActive) <= 0
  BY <1>1, <1>2, <1>3 DEF SharesInv, Activation
<1>5. Log2(rowToActive) = 0 /\ Log2(columnToActive) = 0
  BY <1>4, PowerLog
<1>6. rowToActive = 1 /\ columnToActive = 1
  <2>1. rowToActive = 2^0 /\ columnToActive = 2^0
    BY <1>4, <1>5, PowerLog
  <2> QED
    BY <2>1
<1>7. address = Shares!AddressToMat(request)
  BY <1>1, <1>2, <1>3, <1>5 DEF SharesInv, AddressSettled
<1>8. /\ distribute \in Nat /\ broadcast = Broadcast(request)
      /\ distribute = Distributed(request) \div (o.activeRows * o.activeColumns)
  <2>1. /\ distribute \in Nat /\ broadcast = Broadcast(request)
        /\ distribute \div (rowToActive * columnToActive) =
             Distributed(request) \div (o.activeRows * o.activeColumns)
    BY <1>1 DEF SharesInv, DataSettled
  <2>2. distribute \div (rowToActive * columnToActive) = distribute
    BY <1>6, <2>1
  <2> QED
    BY <2>1, <2>2
<1>9. mat' = Share(request)
  <2>1. CASE request.array = "data"
    <3>1. 2^broadcast = Ways(request)
      BY <1>2, <1>8, <2>1, BroadcastIsWays DEF PowerBanks
    <3>2. Shares!IllegalWays(request) <=> IllegalWays
      BY <2>1, <3>1, SameBlock DEF Shares!IllegalWays, IllegalWays
    <3>3. Shares!DataToMat(request) = distribute
      BY <1>8, <2>1, SameBlock DEF Shares!DataToMat, Distributed
    <3>4. Shares!WaysInMat(request) = 2^broadcast
      BY <2>1, <3>1, SameBlock DEF Shares!WaysInMat
    <3> QED
      BY <1>1, <1>7, <2>1, <3>2, <3>3, <3>4 DEF Share
  <2>2. CASE request.array # "data"
    <3>1. request.array = "tag"
      BY <1>2, <2>2, RequestFacts
    <3>2. Shares!WaysInMat(request) = distribute
      BY <1>8, <2>2, SameBlock DEF Shares!WaysInMat, Distributed
    <3>3. Shares!IllegalWays(request) <=> IllegalWays
      BY <1>8, <2>2, <3>2 DEF Shares!IllegalWays, IllegalWays
    <3>4. Shares!DataToMat(request) = broadcast
      BY <1>8, <2>2, <3>1, SameBlock DEF Shares!DataToMat, Broadcast
    <3> QED
      BY <1>1, <1>7, <2>2, <3>2, <3>3, <3>4 DEF Share
  <2> QED
    BY <2>1, <2>2
<1>10. invalid' => mat' = Rejected
  BY <1>1, ShareRejects
<1>11. Shape' = Share(request)
  BY <1>1, <1>9, <1>10 DEF Shape
<1>12. ~TooAggressive(request)
  BY DEF SharesInv
<1> QED
  BY <1>1, <1>11, <1>12 DEF SharesInv

(* A bank that is rejected in front of a level gives its mats no address,   *)
(* or gives the active mats of a tag array no way.                          *)
LEMMA RejectShares ==
  ASSUME PowerBanks, LevelInv, SharesInv, Reject
  PROVE  SharesInv'
<1> DEFINE o == request.org
           k == o.activeRows * o.activeColumns
<1>1. /\ request' = request /\ pc # "done" /\ pc' = "done" /\ invalid' = TRUE /\ Dead
  BY DEF Reject
<1>2. /\ request \in Requests /\ levelHorizontal \in Nat
      /\ h \in 0..levelHorizontal /\ v \in Nat
  <2>1. /\ request \in Requests /\ h \in 0..levelHorizontal
        /\ v \in 0..levelVertical
    BY DEF LevelInv, Loops
  <2> QED
    BY <2>1, LevelsAreNat
<1>3. Activation /\ DataSettled /\ AddressSettled /\ ~TooAggressive(request)
  BY <1>1 DEF SharesInv
<1>4. ASSUME address = 0 PROVE Share(request) = Rejected
  <2>1. /\ Log2(rowToActive) \in Nat /\ Log2(columnToActive) \in Nat
        /\ Log2(rowToActive) <= v /\ Log2(columnToActive) <= ColumnSplits
    BY <1>3, PowerLog DEF Activation
  <2>2. ColumnSplits \in Nat
    BY <1>2 DEF ColumnSplits
  <2>3. Shares!AddressToMat(request) =
          0 - (v - Log2(rowToActive)) - (ColumnSplits - Log2(columnToActive))
    BY <1>3, <1>4 DEF AddressSettled
  <2>4. Shares!AddressToMat(request) \in Int /\ Shares!AddressToMat(request) <= 0
    BY <1>2, <2>1, <2>2, <2>3
  <2>5. PowerOrganisation(request.org)
    BY <1>2, RequestFacts
  <2> QED
    BY <2>4, <2>5, NoAddressNoMat DEF Share
<1>5. ASSUME distribute + broadcast = 0 PROVE Share(request) = Rejected
  <2>1. distribute \in Nat /\ broadcast = Broadcast(request)
        /\ distribute \div (rowToActive * columnToActive) = Distributed(request) \div k
    BY <1>3 DEF DataSettled
  <2>2. distribute = 0
    BY <1>2, <1>5, <2>1, RequestFacts
  <2>3. Distributed(request) \div k = 0
    <3>1. rowToActive \in Nat \ {0} /\ columnToActive \in Nat \ {0}
      BY <1>3, PowerLog DEF Activation
    <3> DEFINE j == rowToActive * columnToActive
    <3>2. j \in Nat \ {0}
      BY <3>1
    <3>3. distribute \div j = Distributed(request) \div k
      BY <2>1
    <3> HIDE DEF j, k
    <3>4. 0 \div j = 0
      BY <3>2
    <3> QED
      BY <2>2, <3>3, <3>4
  <2>4. k \in Nat \ {0} /\ Distributed(request) \in Nat /\ request.array \in {"tag", "data"}
    BY <1>2, RequestFacts
  <2>5. request.array = "tag"
    <3> SUFFICES ASSUME request.array = "data" PROVE FALSE
      BY <2>4
    <3>1. Distributed(request) >= k
      BY <1>2, <1>3, <2>4, OneBitPerMat
    <3> HIDE DEF k
    <3> QED
      BY <2>3, <2>4, <3>1
  <2>6. Shares!WaysInMat(request) = 0
    BY <2>3, <2>5, SameBlock DEF Shares!WaysInMat, Distributed
  <2>7. Shares!IllegalWays(request)
    BY <2>5, <2>6 DEF Shares!IllegalWays
  <2> QED
    BY <2>7 DEF Share
<1>6. Share(request) = Rejected
  BY <1>1, <1>4, <1>5 DEF Dead
<1>7. Shape' = Share(request)
  BY <1>1, <1>6 DEF Shape
<1> QED
  BY <1>1, <1>3, <1>7 DEF SharesInv

LEMMA NextShares ==
  ASSUME PowerBanks, LevelInv, SharesInv, [Next]_vars
  PROVE  SharesInv'
<1>1. CASE UNCHANGED vars
  <2>1. /\ request' = request /\ pc' = pc /\ h' = h /\ v' = v /\ address' = address
        /\ rowToActive' = rowToActive /\ columnToActive' = columnToActive
        /\ distribute' = distribute /\ broadcast' = broadcast
        /\ invalid' = invalid /\ mat' = mat
    BY <1>1 DEF vars, route
  <2>2. levelHorizontal' = levelHorizontal
    BY <2>1, LevelsStay
  <2>3. ColumnSplits' = ColumnSplits /\ Shape' = Shape
    BY <2>1, <2>2 DEF ColumnSplits, Shape
  <2> QED
    BY <2>1, <2>3 DEF SharesInv, Activation, DataSettled, AddressSettled
<1> QED
  BY <1>1, RejectShares, StartShares, ReduceHorizontalShares,
     ReduceVerticalShares, PairHorizontalShares, PairVerticalShares, LastShares,
     InitializeMatShares
     DEF Next, Returned

(* A bank is routed at once when it is considered from outside: the shape   *)
(* appears with the return from Initialize().                               *)
LEMMA StepShares ==
  ASSUME LevelInv, SharesInv, SharesInv', [Next]_vars
  PROVE  [Shares!Initialize]_<<request, Shape>>
<1>1. request' = request
  BY DEF Next, Reject, Start, ReduceHorizontal, ReduceVertical, PairHorizontal,
         PairVertical, Last, InitializeMat, Returned, vars
<1>2. CASE pc' # "done"
  <2>1. pc # "done"
    BY <1>2 DEF Next, Reject, Start, ReduceHorizontal, ReduceVertical,
                PairHorizontal, PairVertical, Last, InitializeMat, Returned, vars
  <2>2. Shape' = Shape
    BY <1>2, <2>1 DEF Shape, Rejected
  <2> QED
    BY <1>1, <2>2
<1>3. CASE pc' = "done" /\ pc # "done"
  <2>1. Shape' = Share(request)
    BY <1>1, <1>3 DEF SharesInv
  <2>2. Shape = Shares!None
    BY <1>3 DEF Shape, Rejected, Shares!None
  <2>3. Shape' = IF Shares!IllegalWays(request) THEN Shares!Rejected
                 ELSE Shares!Mat(request, Shares!AddressToMat(request),
                                 Shares!DataToMat(request), Shares!WaysInMat(request))
    BY <2>1, SameMat DEF Share, Shares!Rejected, Rejected
  <2> QED
    BY <1>1, <2>2, <2>3 DEF Shares!Initialize
<1>4. CASE pc' = "done" /\ pc = "done"
  <2>1. UNCHANGED vars
    BY <1>4 DEF Next, Reject, Start, ReduceHorizontal, ReduceVertical,
                PairHorizontal, PairVertical, Last, InitializeMat, Returned
  <2>2. Shape' = Shape
    BY <2>1 DEF vars, Shape
  <2> QED
    BY <1>1, <2>2
<1> QED
  BY <1>2, <1>3, <1>4

LEMMA InitSharesAbstractly ==
  ASSUME Init
  PROVE  Shares!Init
<1>1. request \in Requests /\ ~TooAggressive(request) /\ pc = "start"
  BY DEF Init
<1>2. request \in Shares!Request
  BY <1>1, SameRequest, ShapeAssumption
<1>3. ~Shares!TooAggressive(request)
  BY <1>1, SameBlock
<1>4. Shape = Shares!None
  BY <1>1 DEF Shape, Rejected, Shares!None
<1> QED
  BY <1>2, <1>3, <1>4 DEF Shares!Init

(* SharesLikeABus for a bank of any size: routing the bits of an access     *)
(* over the H-tree, level by level, gives every mat what dividing them by   *)
(* the active mats gives in a bank without one, and the checks in front of  *)
(* the levels reject no organisation that the mat would not.                *)
THEOREM RoutingSharesLikeABus ==
  ASSUME PowerBanks
  PROVE  Spec => SharesLikeABus
<1>1. Init => LevelInv /\ SharesInv /\ Shares!Init
  BY InitLevels, InitShares, InitSharesAbstractly
<1>2. LevelInv /\ SharesInv /\ [Next]_vars => LevelInv' /\ SharesInv'
  BY NextLevels, NextShares
<1>3. LevelInv /\ SharesInv /\ SharesInv' /\ [Next]_vars
        => [Shares!Initialize]_<<request, Shape>>
  BY StepShares
<1> QED
  BY <1>1, <1>2, <1>3, PTL DEF Spec, SharesLikeABus, Shares!Spec

-----------------------------------------------------------------------------
(* Capacity.                                                                *)

(* The mats of a bank, and the subarrays of a mat, that are not active are  *)
(* selected by address bits.                                                *)
LEMMA AddressSelects ==
  ASSUME NEW m \in PowersOfTwo, NEW s \in PowersOfTwo,
         NEW bits \in Nat, NEW n \in Int, n = bits + Log2(s) + Log2(m)
  PROVE  n \in Nat /\ 2^n = 2^bits * s * m
<1> DEFINE i == Log2(s)
           j == Log2(m)
           k == bits + i
<1>1. i \in Nat /\ j \in Nat /\ s = 2^i /\ m = 2^j /\ k \in Nat /\ n = k + j
  BY PowerLog
<1> HIDE DEF i, j
<1>2. 2^k = 2^bits * 2^i
  BY <1>1, PowersMultiply
<1> HIDE DEF k
<1>3. 2^(k + j) = 2^k * 2^j
  BY <1>1, PowersMultiply
<1> QED
  BY <1>1, <1>2, <1>3

(* The bits of all mats and subarrays on all dies together.                 *)
LEMMA AllMats ==
  ASSUME NEW held \in Nat, NEW power \in Nat, NEW ways \in Nat, NEW share \in Nat,
         NEW a \in Nat, NEW b \in Nat, NEW mats \in Nat, NEW subs \in Nat,
         NEW dies \in Nat, NEW or \in Nat, NEW oc \in Nat, NEW sr \in Nat, NEW sc \in Nat,
         held = power * ways * share, or * oc = a * mats, sr * sc = b * subs
  PROVE  held * or * oc * sr * sc * dies =
           (power * subs * mats) * (a * b * share * ways * dies)
<1> DEFINE x == a * mats
           y == b * subs
<1>1. held * or * oc * sr * sc * dies = held * (or * oc) * (sr * sc) * dies
  OBVIOUS
<1>2. held * (or * oc) * (sr * sc) * dies = held * x * y * dies
  BY ONLY or * oc = a * mats, sr * sc = b * subs
<1>3. held * x * y * dies = (power * ways * share) * x * y * dies
  BY ONLY held = power * ways * share
<1>4. (power * ways * share) * (a * mats) * (b * subs) * dies
        = (power * subs * mats) * (a * b * share * ways * dies)
  BY ONLY power \in Nat, ways \in Nat, share \in Nat, a \in Nat, b \in Nat,
          mats \in Nat, subs \in Nat, dies \in Nat
<1> QED
  BY ONLY <1>1, <1>2, <1>3, <1>4 DEF x, y

(* Data bits and ways of a mat together: its part of the block for every    *)
(* way of a set.                                                            *)
LEMMA PartOfBlock ==
  ASSUME PowerMemories, NEW r \in Requests, ~TooAggressive(r), ~Shares!IllegalWays(r)
  PROVE  LET o == r.org
             a == o.activeRows * o.activeColumns
             b == o.activeSubRows * o.activeSubColumns
             share == BlockSize(r) \div (a * b)
         IN  /\ Shares!DataToMat(r) \in Nat /\ Shares!WaysInMat(r) \in PowersOfTwo
             /\ r.array = "data" => o.rowPerSet <= Shares!WaysInMat(r)
             /\ share \in Nat
             /\ Shares!WaysInMat(r) * (Shares!DataToMat(r) \div b) = Ways(r) * share
<1> DEFINE o == r.org
           a == o.activeRows * o.activeColumns
           b == o.activeSubRows * o.activeSubColumns
           size == BlockSize(r)
           share == size \div (a * b)
           w == Ways(r)
           ways == Shares!WaysInMat(r)
           data == Shares!DataToMat(r)
<1>1. /\ PowerOrganisation(r.org) /\ PowerMemory(r) /\ w \in PowersOfTwo
      /\ r.array = "data" => size \in PowersOfTwo
  BY DEF PowerMemories, PowerBlocks, PowerBanks, Distributed
<1>2. r.array \in {"tag", "data"} /\ a \in PowersOfTwo
  <2>1. r.array \in {"tag", "data"}
    BY RequestFacts DEF PowerMemories, PowerBlocks
  <2>2. /\ o.rows \in PowersOfTwo /\ o.columns \in PowersOfTwo
        /\ o.activeRows \in PowersOfTwo /\ o.activeColumns \in PowersOfTwo
        /\ o.activeRows <= o.rows /\ o.activeColumns <= o.columns
        /\ o.rows * o.columns <= 2^30
    BY <1>1 DEF PowerOrganisation
  <2>3. a \in PowersOfTwo
    BY <2>2, ChoiceOfPowers
  <2> QED
    BY <2>1, <2>3
<1>3. /\ a \in Nat \ {0} /\ b \in Nat \ {0} /\ size \in Nat \ {0}
      /\ size = (a * b) * share
  BY <1>1, <1>2, BlockIsShared DEF Arrays
<1>4. w \in Nat \ {0}
  BY <1>1, PowerLog
<1> HIDE DEF a, b, size, w, ways, data
<1>5. share \in Nat /\ a * b \in Nat \ {0}
  <2> DEFINE k == a * b
  <2>1. k \in Nat \ {0}
    BY <1>3
  <2>2. size \div k \in Nat
    <3> HIDE DEF k
    <3> QED
      BY <1>3, <2>1, QuotientBounds
  <2> QED
    BY <2>1, <2>2
<1>6. CASE r.array = "data"
  <2>1. ways = w /\ data = size \div a
    BY <1>6, SameBlock DEF Shares!WaysInMat, Shares!DataToMat, ways, w, data, size, a
  <2>2. data \in Nat /\ data \div b = share
    BY <1>3, <2>1, QuotientBounds, DivideTwice
  <2>3. o.rowPerSet <= w
    <3>1. ~(o.rowPerSet > w)
      BY <1>6, SameBlock DEF Shares!IllegalWays, w
    <3>2. o.rowPerSet \in Nat
      BY PowerLog DEF PowerMemories, PowerMultiplexing
    <3> QED
      BY <1>4, <3>1, <3>2
  <2>4. ways * (data \div b) = w * share
    BY <2>1, <2>2
  <2> HIDE DEF share
  <2> QED
    BY <1>1, <1>5, <2>1, <2>2, <2>3, <2>4 DEF a, b, size, share, w, ways, data
<1>7. CASE r.array = "tag"
  <2>1. ways = w \div a /\ data = size /\ ~(ways < 1)
    BY <1>7, SameBlock DEF Shares!WaysInMat, Shares!DataToMat, Shares!IllegalWays,
                           ways, w, data, size, a
  <2>2. ways \in Nat /\ a * ways <= w
    BY <1>3, <1>4, <2>1, QuotientBounds
  <2>3. a <= w
    <3>1. a <= a * ways /\ a * ways \in Nat
      BY <1>3, <2>1, <2>2
    <3> QED
      BY <1>3, <1>4, <2>2, <3>1
  <2>4. ways \in PowersOfTwo /\ w = a * ways
    BY <1>1, <1>2, <2>1, <2>3, PowersOver
  <2>5. data \div b = a * share
    <3> HIDE DEF share
    <3> DEFINE q == a * share
    <3>1. q \in Nat
      BY <1>3, <1>5
    <3>2. size = b * q
      <4>1. (a * b) * share = b * (a * share)
        BY <1>3, <1>5
      <4> QED
        BY <1>3, <4>1
    <3> HIDE DEF q
    <3>3. (b * q) \div b = q
      BY <1>3, <3>1, Divides
    <3> QED
      BY <2>1, <3>2, <3>3 DEF q
  <2>6. ways * (data \div b) = w * share
    <3> HIDE DEF share
    <3>1. ways * (a * share) = (a * ways) * share
      BY <1>3, <1>5, <2>2
    <3> QED
      BY <2>4, <2>5, <3>1
  <2> HIDE DEF share
  <2> QED
    BY <1>3, <1>5, <1>7, <2>1, <2>4, <2>6 DEF a, b, size, share, w, ways, data
<1> QED
  BY <1>2, <1>6, <1>7

(* What a bank without a tree gives its mats holds the capacity.            *)
LEMMA ShareHolds ==
  ASSUME PowerMemories, NEW r \in Requests, ~TooAggressive(r), ~Share(r).invalid
  PROVE  HoldsCapacity(r, Share(r))
<1> DEFINE o == r.org
           a == o.activeRows * o.activeColumns
           b == o.activeSubRows * o.activeSubColumns
           mats == (o.rows * o.columns) \div a
           subs == (o.subRows * o.subColumns) \div b
           share == BlockSize(r) \div (a * b)
           addressBit == Shares!AddressToMat(r)
           data == Shares!DataToMat(r)
           ways == Shares!WaysInMat(r)
           n == NumAddressBit(r)
           bits == addressBit - Log2(subs)
           m == Mat(r, addressBit, data, ways)
           held == m.rows * m.columns
<1>1. ~Shares!IllegalWays(r)
  BY DEF Share, Rejected
<1>2. Share(r) = m /\ ~m.invalid
  BY <1>1 DEF Share
<1>3. /\ PowerOrganisation(r.org) /\ PowerMemory(r) /\ PowerMultiplexing(r.org)
      /\ Ways(r) \in PowersOfTwo /\ r.array \in Arrays /\ n \in Int
      /\ r.array = "data" => BlockSize(r) \in PowersOfTwo
  <2>1. r.array \in {"tag", "data"}
    BY RequestFacts DEF PowerMemories, PowerBlocks
  <2> QED
    BY <2>1 DEF PowerMemories, PowerBlocks, PowerBanks, Distributed, Arrays
<1>4. /\ data \in Nat /\ ways \in PowersOfTwo /\ share \in Nat
      /\ r.array = "data" => o.rowPerSet <= ways
      /\ ways * (data \div b) = Ways(r) * share
  BY <1>1, PartOfBlock
<1>5. /\ a \in Nat \ {0} /\ b \in Nat \ {0} /\ BlockSize(r) \in Nat \ {0}
      /\ BlockSize(r) = (a * b) * share
  BY <1>3, BlockIsShared
<1>6. /\ mats \in PowersOfTwo /\ subs \in PowersOfTwo
      /\ o.rows * o.columns = a * mats /\ o.subRows * o.subColumns = b * subs
      /\ o.rows \in Nat /\ o.columns \in Nat /\ o.subRows \in Nat /\ o.subColumns \in Nat
  <2>1. /\ o.rows \in PowersOfTwo /\ o.columns \in PowersOfTwo
        /\ o.activeRows \in PowersOfTwo /\ o.activeColumns \in PowersOfTwo
        /\ o.activeRows <= o.rows /\ o.activeColumns <= o.columns
        /\ o.rows * o.columns <= 2^30
        /\ o.subRows \in PowersOfTwo /\ o.subColumns \in PowersOfTwo
        /\ o.activeSubRows \in PowersOfTwo /\ o.activeSubColumns \in PowersOfTwo
        /\ o.activeSubRows <= o.subRows /\ o.activeSubColumns <= o.subColumns
        /\ o.subRows * o.subColumns <= 2^30
    BY <1>3 DEF PowerOrganisation
  <2>2. mats \in PowersOfTwo /\ o.rows * o.columns = a * mats
    BY <2>1, ChoiceOfPowers
  <2>3. subs \in PowersOfTwo /\ o.subRows * o.subColumns = b * subs
    BY <2>1, ChoiceOfPowers
  <2> QED
    BY <2>1, <2>2, <2>3, PowerLog
<1>7. addressBit = n - Log2(mats) /\ addressBit \in Int
  <2>1. addressBit = n - Log2(mats)
    BY SameLog, SameBlock DEF Shares!AddressToMat
  <2> QED
    BY <1>3, <1>6, <2>1, PowerLog
<1> HIDE DEF n, addressBit, data, ways, mats, subs, share
<1>8. bits \in Nat \ {0} /\ held = 2^bits * ways * (data \div b)
  BY <1>2, <1>3, <1>4, <1>7, MatHolds DEF subs
<1> HIDE DEF m, a, b
<1>9. n = bits + Log2(subs) + Log2(mats)
  BY <1>3, <1>6, <1>7, PowerLog
<1> HIDE DEF bits, held
<1>10. n \in Nat /\ n > 0 /\ 2^n = 2^bits * subs * mats
  <2>1. n \in Nat /\ 2^n = 2^bits * subs * mats
    BY <1>3, <1>6, <1>8, <1>9, AddressSelects
  <2>2. Log2(subs) \in Nat /\ Log2(mats) \in Nat
    BY <1>6, PowerLog
  <2> QED
    BY <1>8, <1>9, <2>1, <2>2
<1> DEFINE power == 2^bits
           d == data \div b
           w == Ways(r)
<1>11. power \in Nat /\ w \in Nat /\ o.dies \in Nat /\ mats \in Nat /\ subs \in Nat
       /\ ways \in Nat
  <2>1. o.dies \in PowersOfTwo
    BY <1>3 DEF PowerMemory
  <2>2. /\ w \in PowersOfTwo /\ mats \in PowersOfTwo /\ subs \in PowersOfTwo
        /\ ways \in PowersOfTwo /\ o.dies \in PowersOfTwo
    BY <1>3, <1>4, <1>6, <2>1
  <2>3. power \in Nat
    BY <1>8, PowerIsNat
  <2> HIDE DEF power, w
  <2> QED
    BY <2>2, <2>3, PowerLog
<1>12. d \in Nat
  BY <1>4, <1>5, QuotientBounds
<1> HIDE DEF power, d, w
<1>13. held = power * w * share /\ held \in Nat
  <2>1. power * ways * d = power * (ways * d)
    BY <1>11, <1>12
  <2>2. power * (w * share) = power * w * share
    BY <1>4, <1>11
  <2>3. held = power * w * share
    BY <1>4, <1>8, <2>1, <2>2 DEF power, d, w
  <2> QED
    BY <1>4, <1>11, <2>3
<1>14. held * o.rows * o.columns * o.subRows * o.subColumns * o.dies =
         (power * subs * mats) * (a * b * share * w * o.dies)
  <2> DEFINE or == o.rows
             oc == o.columns
             sr == o.subRows
             sc == o.subColumns
             dies == o.dies
  <2>1. /\ held \in Nat /\ power \in Nat /\ w \in Nat /\ share \in Nat
        /\ a \in Nat /\ b \in Nat /\ mats \in Nat /\ subs \in Nat /\ dies \in Nat
        /\ or \in Nat /\ oc \in Nat /\ sr \in Nat /\ sc \in Nat
        /\ held = power * w * share /\ or * oc = a * mats /\ sr * sc = b * subs
    BY <1>4, <1>5, <1>6, <1>11, <1>13
  <2> HIDE DEF o, or, oc, sr, sc, dies
  <2>2. held * or * oc * sr * sc * dies = (power * subs * mats) * (a * b * share * w * dies)
    BY ONLY <2>1, AllMats
  <2> QED
    BY <2>2 DEF or, oc, sr, sc, dies
<1>15. Capacity(r) = 2^n * (BlockSize(r) * w * o.dies)
  BY <1>3, <1>5, <1>10, AddressCounts DEF n, w
<1>16. Capacity(r) = (power * subs * mats) * (a * b * share * w * o.dies)
  BY <1>5, <1>10, <1>15 DEF power
<1> QED
  BY <1>2, <1>14, <1>16 DEF HoldsCapacity, held

(* ValidHoldsCapacity for a memory of any size made of powers of two: a     *)
(* bank that is not invalid holds exactly the capacity that was asked for,  *)
(* so that the checks of BIGFOR (VERIFY_DATA_CAPACITY, macros.h:176) never  *)
(* fail, although it divides with remainders all along.                     *)
THEOREM RoutingHoldsCapacity ==
  ASSUME PowerMemories
  PROVE  Spec => []ValidHoldsCapacity
<1>1. PowerBanks
  BY DEF PowerMemories, PowerBlocks
<1>2. Init => LevelInv /\ SharesInv
  BY <1>1, InitLevels, InitShares
<1>3. LevelInv /\ SharesInv /\ [Next]_vars => LevelInv' /\ SharesInv'
  BY <1>1, NextLevels, NextShares
<1>4. LevelInv /\ SharesInv => ValidHoldsCapacity
  <2> SUFFICES ASSUME LevelInv, SharesInv, pc = "done", ~invalid
               PROVE  HoldsCapacity(request, mat)
    BY DEF ValidHoldsCapacity
  <2>1. /\ mat = Share(request) /\ ~mat.invalid
        /\ ~TooAggressive(request) /\ request \in Requests
    BY DEF Shape, SharesInv, LevelInv, Loops
  <2> QED
    BY <2>1, ShareHolds
<1> QED
  BY <1>2, <1>3, <1>4, PTL DEF Spec
=============================================================================
