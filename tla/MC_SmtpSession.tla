--------------------------- MODULE MC_SmtpSession ---------------------------
(* Model values for SmtpSession: two messages of up to two recipients, the  *)
(* challenge cap of auth(), mechanisms with up to two further responses     *)
(* (PLAIN sends none, CRAM-MD5 one), and one dropped connection.            *)
EXTENDS SmtpSession

MC_MaxSends      == 2
MC_MaxRcpts      == 2
MC_MaxChallenges == 10
MC_MechSteps     == {0, 1, 2}
MC_MaxFaults     == 1
=============================================================================
