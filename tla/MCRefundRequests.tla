--------------------------- MODULE MCRefundRequests ---------------------------
(***************************************************************************)
(* Instances of RefundRequests for TLC.                                    *)
(***************************************************************************)
EXTENDS RefundRequests, TLC

CONSTANTS i1, r1, r2, w1, w2, a1

OneCent == (i1 :> 1)
TwoCents == (i1 :> 2)

\* Requests are alike, and so are workers.
Alike == Permutations({r1, r2}) \cup Permutations({w1, w2})
=============================================================================
