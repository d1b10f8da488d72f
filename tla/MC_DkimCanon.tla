---------------------------- MODULE MC_DkimCanon ----------------------------
(* Two regimes, joined in MC_Init.  Headers: two names, values of up to  *)
(* two characters (a letter, a space, a character outside ASCII),        *)
(* messages of up to two headers and header lists of up to two names, so *)
(* that a name can occur twice in either; the body is fixed.  Body: every *)
(* body of up to six characters over a letter, SP, HT, CR and LF; no     *)
(* headers.                                                              *)
EXTENDS DkimCanon

MC_Names == {"From", "To"}

H_BodyChars  == {"a"}
H_MaxBody    == 0
H_ValueChars == {"a", "SP", "u"}
H_MaxValue   == 2
H_MaxHeaders == 2
H_MaxSigned  == 2

B_BodyChars  == {"a", "SP", "HT", "CR", "LF"}
B_MaxBody    == 6
B_ValueChars == {"a"}
B_MaxValue   == 0
B_MaxHeaders == 0
B_MaxSigned  == 0

\* Both regimes in one run.
MC_Init ==
    \/ InitWithin(H_BodyChars, H_MaxBody, H_ValueChars, H_MaxValue, H_MaxHeaders, H_MaxSigned)
    \/ InitWithin(B_BodyChars, B_MaxBody, B_ValueChars, B_MaxValue, B_MaxHeaders, B_MaxSigned)
=============================================================================
