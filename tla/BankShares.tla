----------------------------- MODULE BankShares -----------------------------
(***************************************************************************)
(* The share of an access that each mat of a bank gets, computed in one    *)
(* step from the organisation: BankWithoutHtree::Initialize() with         *)
(* internal sensing.  A bank with an H-tree promises the same share.       *)
(***************************************************************************)
EXTENDS BankShape

VARIABLES
  request, \* the arguments of Initialize()
  shape    \* what it makes of them

None == [invalid |-> FALSE, rows |-> 0, columns |-> 0, rowAddress |-> 0]

Init ==
  /\ request \in Request /\ ~TooAggressive(request)
  /\ shape = None

(* Address bits that do not select among the mats.                          *)
AddressToMat(r) ==
  NumAddressBit(r)
    - Log2((r.org.rows * r.org.columns) \div (r.org.activeRows * r.org.activeColumns))

(* The data bits of an active mat; every tag mat sees the whole tag.        *)
DataToMat(r) ==
  IF r.array = "data"
  THEN BlockSize(r) \div (r.org.activeRows * r.org.activeColumns)
  ELSE BlockSize(r)

(* Ways of a set in one mat: all of them in a data array, the share of an   *)
(* active mat in a tag array.                                               *)
WaysInMat(r) ==
  IF r.array = "data" THEN Ways(r)
  ELSE Ways(r) \div (r.org.activeRows * r.org.activeColumns)

IllegalWays(r) ==
  IF r.array = "data" THEN r.org.rowPerSet > Ways(r)
  ELSE r.org.rowPerSet > 1 \/ WaysInMat(r) < 1

Initialize ==
  /\ shape = None
  /\ shape' = IF IllegalWays(request) THEN Rejected
              ELSE Mat(request, AddressToMat(request), DataToMat(request),
                       WaysInMat(request))
  /\ UNCHANGED request

Spec == Init /\ [][Initialize]_<<request, shape>>
=============================================================================
