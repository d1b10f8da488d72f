---------------------------- MODULE MC_ServerInfo ----------------------------
(* A host name, the keywords the client acts on (one of them also in lower *)
(* case), both mechanisms it knows; replies of a greeting and two more     *)
(* lines of up to two words, enough for "AUTH PLAIN".                     *)
EXTENDS ServerInfo

MC_Keywords  == {"host", "STARTTLS", "8BITMIME", "AUTH", "PLAIN"}
MC_LowerCase == {"STARTTLS"}
MC_MaxLines  == 3
MC_MaxWords  == 2
=============================================================================
