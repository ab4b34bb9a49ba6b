------------------------------ MODULE MCSendView ------------------------------
(***************************************************************************)
(* Balances for model-checking the send page: of BEAM alone, every one; of *)
(* BEAM and another asset, those that lack the fee, the asset or neither.  *)
(* The wallets are named by a token of theirs.                             *)
(***************************************************************************)
EXTENDS SendView

BeamBalances == [Assets -> Amounts]

AssetBalances ==
    {[a \in Assets |-> IF a = Beam THEN b[1] ELSE b[2]] :
        b \in {<<0, 2>>, <<1, 2>>, <<2, 1>>}}

\* Tokens of one wallet; every other one is of a wallet of its own.
CONSTANT Shared

Sharing == [t \in Tokens |-> IF t \in Shared THEN CHOOSE x \in Shared : TRUE ELSE t]
===============================================================================
