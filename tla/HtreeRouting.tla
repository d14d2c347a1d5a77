----------------------------- MODULE HtreeRouting -----------------------------
(***************************************************************************)
(* BankWithHtree::Initialize(): the address and data bits of a bank are    *)
(* routed over a tree of horizontal and vertical wires down to the mats.   *)
(* Each level either halves the data bits, because mats on both sides are  *)
(* active, or uses up one address bit to choose a side.  One action is one *)
(* turn of a loop.                                                         *)
(***************************************************************************)
EXTENDS BankShape

VARIABLES
  request,        \* the arguments of Initialize()
  pc,             \* "start", the loops "route" and "pair", "mat", "done"
  h, v,           \* levels still to route
  rowToActive, columnToActive,
  address,        \* numAddressBitToRoute
  distribute,     \* numDataDistributeBitToRoute
  broadcast,      \* numDataBroadcastBitToRoute
  hTemp, vTemp,   \* wire tiers of the next level
  horizontal,     \* the arrays of the horizontal levels, by index
  vertical,       \* the arrays of the vertical levels
  mat,            \* the mat after its Initialize()
  invalid

route == <<h, v, rowToActive, columnToActive, address, distribute, broadcast,
           hTemp, vTemp, horizontal, vertical>>
vars  == <<request, pc, route, mat, invalid>>

(* A bank has at least one row and one column of mats.                      *)
ASSUME LevelAssumption ==
  \A r \in Requests : Log2(r.org.columns) \in Nat /\ Log2(r.org.rows) \in Nat

levelHorizontal == Log2(request.org.columns)
levelVertical   == Log2(request.org.rows)

(* What is known of one level: the bits each wire group carries, its tiers, *)
(* and the groups there are and that are active.                            *)
Level(a, d, b, tiers, sum, active) ==
  [address |-> a, distribute |-> d, broadcast |-> b, tiers |-> tiers,
   sum |-> sum, active |-> active]

Unrouted == Level(-1, -1, -1, -1, -1, -1)
Root     == [sum |-> 1, active |-> 1]

Distributed(r) == IF r.array = "data" THEN BlockSize(r) ELSE Ways(r)

(* (int)(log2(associativity)), without the 0.1.                             *)
Broadcast(r) ==
  IF r.array = "tag" THEN BlockSize(r)
  ELSE CHOOSE k \in 0..30 : 2^k <= Ways(r) /\ Ways(r) < 2^(k + 1)

Init ==
  /\ request \in {r \in Requests : ~TooAggressive(r)}
  /\ pc = "start" /\ invalid = FALSE /\ mat = Rejected
  /\ h = levelHorizontal /\ v = levelVertical
  /\ rowToActive = request.org.activeRows
  /\ columnToActive = request.org.activeColumns
  /\ address = NumAddressBit(request)
  /\ distribute = Distributed(request) /\ broadcast = Broadcast(request)
  /\ hTemp = 1 /\ vTemp = 1
  /\ horizontal = [i \in 0..levelHorizontal - 1 |-> Unrouted]
  /\ vertical = [i \in 0..levelVertical - 1 |-> Unrouted]

-----------------------------------------------------------------------------
(* Nothing is left to route.                                                *)
Dead == distribute + broadcast = 0 \/ address = 0

(* The return with an invalid bank in front of every level.                 *)
Reject ==
  /\ pc \in {"route", "pair"} \/ (pc = "start" /\ levelHorizontal > 0)
  /\ Dead
  /\ invalid' = TRUE /\ pc' = "done"
  /\ UNCHANGED <<request, route, mat>>

(* The first horizontal level carries everything.                           *)
Start ==
  /\ pc = "start" /\ (levelHorizontal > 0 => ~Dead)
  /\ pc' = "route"
  /\ IF levelHorizontal > 0
     THEN /\ horizontal' = [horizontal EXCEPT ![0] =
                              Level(address, distribute, broadcast, 1, 1, 1)]
          /\ h' = h - 1
     ELSE UNCHANGED <<h, horizontal>>
  /\ UNCHANGED <<request, v, rowToActive, columnToActive, address, distribute,
                 broadcast, hTemp, vTemp, vertical, mat, invalid>>

(* Both sides active: half of the data goes to each.  Otherwise one address *)
(* bit chooses the side.                                                    *)
Split(halved) ==
  /\ distribute' = IF halved THEN distribute \div 2 ELSE distribute
  /\ address' = IF halved THEN address ELSE address - 1

(* Slip: the groups on both sides count as active.                          *)
BelowAllActive(up, tiers, halved) ==
  Level(address', distribute', broadcast, tiers, 2 * up.sum, 2 * up.active)

(* One level further down a wire group of `up', with so many wire tiers.    *)
Below(up, tiers, halved) ==
  Level(address', distribute', broadcast, tiers, 2 * up.sum,
        IF halved THEN 2 * up.active ELSE up.active)

SplitColumns(up, tiers) ==
  LET halved == columnToActive > 1
  IN  /\ Split(halved)
      /\ columnToActive' = IF halved THEN columnToActive \div 2 ELSE columnToActive
      /\ horizontal' = [horizontal EXCEPT ![levelHorizontal - h] =
                          Below(up, tiers, halved)]

SplitRows(up, tiers) ==
  LET halved == rowToActive > 1
  IN  /\ Split(halved)
      /\ rowToActive' = IF halved THEN rowToActive \div 2 ELSE rowToActive
      /\ vertical' = [vertical EXCEPT ![levelVertical - v] =
                        Below(up, tiers, halved)]

(* The level above in each direction; the first vertical level hangs below  *)
(* the root.                                                                *)
HorizontalAbove == horizontal[levelHorizontal - h - 1]
VerticalAbove   == vertical[levelVertical - v - 1]

(* while (h > v)                                                            *)
ReduceHorizontal ==
  /\ pc = "route" /\ h > v /\ ~Dead
  /\ SplitColumns(HorizontalAbove, 1)
  /\ h' = h - 1 /\ vTemp' = 2 * vTemp
  /\ UNCHANGED <<request, pc, v, rowToActive, broadcast, hTemp, vertical, mat,
                 invalid>>

(* while (v > h)                                                            *)
ReduceVertical ==
  /\ pc = "route" /\ v > h /\ ~Dead
  /\ SplitRows(IF v = levelVertical THEN Root ELSE VerticalAbove, 1)
  /\ v' = v - 1 /\ hTemp' = 2 * hTemp
  /\ UNCHANGED <<request, pc, h, columnToActive, broadcast, vTemp, horizontal,
                 mat, invalid>>

(* while (h > 0): a horizontal and a vertical level.                        *)
PairHorizontal ==
  /\ pc = "route" /\ h = v /\ h > 0 /\ ~Dead
  /\ SplitColumns(IF v = levelVertical THEN HorizontalAbove ELSE VerticalAbove,
                  hTemp)
  /\ pc' = "pair"
  /\ UNCHANGED <<request, h, v, rowToActive, broadcast, hTemp, vTemp, vertical,
                 mat, invalid>>

(* Slip: only the horizontal level is counted down.                         *)
NextHorizontal == h' = h - 1 /\ UNCHANGED v

NextPair == h' = h - 1 /\ v' = v - 1

PairVertical ==
  /\ pc = "pair" /\ ~Dead
  /\ SplitRows(horizontal[levelHorizontal - h],
               IF levelHorizontal = 2 THEN vTemp ELSE 2 * vTemp)
  /\ NextPair
  /\ hTemp' = 2 * hTemp /\ vTemp' = 2 * vTemp
  /\ pc' = "route"
  /\ UNCHANGED <<request, columnToActive, broadcast, horizontal, mat, invalid>>

(* Slip: the last split is forgotten.                                       *)
NoLastSplit == UNCHANGED <<address, distribute, columnToActive>>

(* The split of the root, for which there is no wire.                       *)
LastSplit ==
  IF columnToActive > 1
  THEN /\ distribute' = distribute \div 2
       /\ columnToActive' = columnToActive \div 2
       /\ UNCHANGED address
  ELSE /\ address' = IF levelHorizontal > 0 THEN address - 1 ELSE address
       /\ UNCHANGED <<distribute, columnToActive>>

Last ==
  /\ pc = "route" /\ h = 0 /\ v = 0 /\ ~Dead
  /\ LastSplit
  /\ pc' = "mat"
  /\ UNCHANGED <<request, h, v, rowToActive, broadcast, hTemp, vTemp,
                 horizontal, vertical, mat, invalid>>

(* The ways of a set must fit the mat.                                      *)
IllegalWays ==
  IF request.array = "data" THEN request.org.rowPerSet > 2^broadcast
  ELSE request.org.rowPerSet > 1 \/ distribute = 0

InitializeMat ==
  /\ pc = "mat"
  /\ mat' = IF IllegalWays THEN Rejected
            ELSE IF request.array = "data"
            THEN Mat(request, address, distribute, 2^broadcast)
            ELSE Mat(request, address, broadcast, distribute)
  /\ invalid' = mat'.invalid
  /\ pc' = "done"
  /\ UNCHANGED <<request, route>>

Returned == pc = "done" /\ UNCHANGED vars

Next ==
  \/ Reject \/ Start \/ ReduceHorizontal \/ ReduceVertical
  \/ PairHorizontal \/ PairVertical \/ Last \/ InitializeMat
  \/ Returned

Spec == Init /\ [][Next]_vars

-----------------------------------------------------------------------------
(* Properties.                                                              *)

(* Levels that were routed.                                                 *)
DoneHorizontal == IF pc = "start" THEN 0
                  ELSE levelHorizontal - h + (IF pc = "pair" THEN 1 ELSE 0)
DoneVertical   == levelVertical - v

(* The loops fill the arrays of the levels in order, each level once and    *)
(* none behind the end of its array, and never read a level that was not    *)
(* filled (indices levelHorizontal - h and levelVertical - v).              *)
LevelsInOrder ==
  ~invalid =>
    /\ DoneHorizontal \in 0..levelHorizontal /\ DoneVertical \in 0..levelVertical
    /\ \A i \in DOMAIN horizontal : horizontal[i].sum > 0 <=> i < DoneHorizontal
    /\ \A i \in DOMAIN vertical : vertical[i].sum > 0 <=> i < DoneVertical
    /\ pc \in {"mat", "done"} =>
         DoneHorizontal = levelHorizontal /\ DoneVertical = levelVertical

(* In a bank that is not invalid no level loses or invents bandwidth: the   *)
(* active wire groups of a level together carry the distributed bits of the *)
(* block (arrays numActive*Wire and num*DataDistributeBitToRoute).          *)
BandwidthKept ==
  pc = "done" /\ ~invalid =>
    \A level \in {horizontal[i] : i \in DOMAIN horizontal}
                   \union {vertical[i] : i \in DOMAIN vertical} :
      level.active * level.distribute = Distributed(request)

(* A bank that is not invalid holds the capacity, whatever the route, the   *)
(* multiplexers and the ways ("Shouldn't happen", macros.h:176 and 201).    *)
ValidHoldsCapacity ==
  pc = "done" /\ ~invalid => HoldsCapacity(request, mat)

(* The row predecoders of a mat tell all rows of a subarray apart ("The     *)
(* address bit on row decodeing", Mat.cpp:107).                             *)
RowsAreDecoded ==
  pc = "done" /\ ~invalid => mat.rows <= 2^mat.rowAddress

(* The abstract view: what the bank has come to.                            *)
Shape ==
  IF pc # "done" THEN [Rejected EXCEPT !.invalid = FALSE]
  ELSE IF invalid THEN Rejected ELSE mat
Shares == INSTANCE BankShares WITH shape <- Shape

(* Routing over the tree gives every mat the share a bank without it would  *)
(* give, and rejects the same organisations: the checks in front of the     *)
(* levels anticipate those of the mat.                                      *)
SharesLikeABus == Shares!Spec

-----------------------------------------------------------------------------
(* The banks the program is made for: the ways are a power of two as well,  *)
(* the block has a size and every block its address.                        *)
PowerBanks ==
  \A r \in Requests :
    /\ PowerOrganisation(r.org) /\ Ways(r) \in PowersOfTwo
    /\ BlockSize(r) \in Nat /\ NumAddressBit(r) \in Int

(* What is distributed over the mats can be halved down to one.             *)
PowerBlocks == PowerBanks /\ \A r \in Requests : Distributed(r) \in PowersOfTwo

(* The capacity and what multiplexes it are powers of two, too.             *)
PowerMemories ==
  PowerBlocks /\ \A r \in Requests : PowerMultiplexing(r.org) /\ PowerMemory(r)
=============================================================================
