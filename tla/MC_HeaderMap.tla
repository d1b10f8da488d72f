----------------------------- MODULE MC_HeaderMap -----------------------------
(* Two names, one of them in two spellings.  The .cfg gives the values as *)
(* model values: two the typed parser accepts and one it refuses.  There  *)
(* is room for three headers, one more than the names, so a duplicate     *)
(* has room to appear.                                                    *)
EXTENDS HeaderMap

MC_Spellings  == {"From", "FROM", "To"}
MC_Key        == [n \in MC_Spellings |-> IF n = "To" THEN "to" ELSE "from"]
MC_TypedNames == {"From", "To"}
MC_MaxHeaders == 3
=============================================================================
