------------------------------ MODULE MC_OldClient ------------------------------
(* A positive code, the challenge code and a negative one; one text word;   *)
(* three commands, two connections, one dropped connection.                *)
EXTENDS OldClient

MC_Codes    == {250, 334, 550}
MC_Texts    == {"c"}
MC_MaxCmds  == 3
MC_MaxConns == 2
MC_MaxDrops == 1
=============================================================================
