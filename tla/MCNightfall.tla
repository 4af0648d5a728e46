---------------------------- MODULE MCNightfall ----------------------------
(* Small instances of Nightfall for TLC. *)
EXTENDS Nightfall, TLC

CONSTANTS t1, t2, f

TwoTokens   == {t1, t2}
FungibleAndNFT == (t1 :> "ERC20" @@ t2 :> "ERC721")

=============================================================================
