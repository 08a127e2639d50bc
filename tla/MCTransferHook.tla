--------------------------- MODULE MCTransferHook ---------------------------
(* Instances of TransferHook for TLC: every call with up to two splits, and     *)
(* some with three, over a whole of four basis points.                         *)
EXTENDS TransferHook

CONSTANTS router, ann, ben, shop
CONSTANTS Amounts

MCAccounts == {router, ann, ben, shop}

One(rs, bs) == {[recipient |-> r, bips |-> b] : r \in rs, b \in bs}

AnySplit == One({ann, shop, NoAccount}, 0 .. MaxBips)
GoodSplit == One({ann, ben, shop, router}, 1 .. 2)

DataOf(n, S) == [1 .. n -> S]

MCCalls ==
    [sender: {Router}, amount: Amounts, payTo: {shop},
     data: {NoData, <<>>} \cup DataOf(1, AnySplit) \cup DataOf(2, AnySplit) \cup DataOf(3, GoodSplit)]
    \cup [sender: {Router, ann}, amount: {1}, payTo: {ann, NoAccount}, data: {NoData}]
=============================================================================
