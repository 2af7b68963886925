--------------------------- MODULE MCHeaderCheck ----------------------------
(* Instances of HeaderCheck for TLC: four nodes, of which the last is the  *)
(* one whose number plus one does not fit; a class 1, a class 2 and a      *)
(* class 3 packet; types no sender uses, and one of another class.         *)
EXTENDS HeaderCheck
FirstNodes == 0 .. MAX_NUM_ROUTES - 2
SentTypes == {DATA, CTS, P3_RTS}
OtherTypes == {CTS, 0, LAST_ENTRY_DO_NOT_MOVE}
=============================================================================
