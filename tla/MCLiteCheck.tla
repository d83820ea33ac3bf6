----------------------------- MODULE MCLiteCheck -----------------------------
(* LiteCheck on small instances. `big` and `small` differ in their hosts    *)
(* only, so that they share a fingerprint; `other` serves another model.    *)
EXTENDS LiteCheck, TLC

CONSTANTS big, small, other, f1, f2

FpOfModels == (big :> f1) @@ (other :> f2)
FpOfHosts  == (big :> f1) @@ (small :> f1)

SlotsOfModels == (big :> 2) @@ (other :> 1)
SlotsOfHosts  == (big :> 2) @@ (small :> 1)

=============================================================================
