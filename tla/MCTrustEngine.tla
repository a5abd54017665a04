--------------------------- MODULE MCTrustEngine ---------------------------
(* Scores on both sides of every band boundary, none of them a point where *)
(* the float product in _update_trust is an integer.                       *)
EXTENDS TrustEngine

Places == {"IN-GJ", "SG", ""}
HomeOnly == {"IN-GJ"}
CountryOf == [place \in Places |-> CASE place = "IN-GJ" -> "IN"
                                     [] place = "SG"    -> "SG"
                                     [] OTHER           -> ""]

LowMidHigh == {107, 551, 703}
LowOnly == {107}
LowShifted == {107, 207}
AroundCusum == {107, 523}
OneOfEachPolicy == {"login", "privileged_access", "account_recovery"}
LoginOnly == {"login"}
=============================================================================
