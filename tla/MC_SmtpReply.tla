---------------------------- MODULE MC_SmtpReply ----------------------------
(* Two well-formed codes (to have mismatches), one with an invalid second   *)
(* digit, a line too short to hold a code, and two whose third byte starts  *)
(* a two-byte character (U1 U2); an empty and a non-empty text; streams of  *)
(* up to three lines (a reply of two, then the next).                       *)
EXTENDS SmtpReply

MC_LineCodes == {<<"2", "5", "0">>, <<"2", "5", "1">>, <<"2", "6", "0">>, <<"2", "5">>,
                 <<"2", "U1", "U2">>, <<"2", "5", "U1", "U2">>}
MC_Texts     == {<<>>, <<"a">>}
MC_MaxLines  == 3
=============================================================================
