--------------------------- MODULE MC_DotStuffing ---------------------------
(* One letter, the dot and both halves of CRLF; contents of up to five      *)
(* characters, enough for "a CR LF . a" and a dot between two line breaks. *)
EXTENDS DotStuffing

MC_Alphabet == {"a", ".", "CR", "LF"}
MC_MaxLen   == 5
=============================================================================
