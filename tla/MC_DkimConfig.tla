---------------------------- MODULE MC_DkimConfig ---------------------------
(* Three key strings: an RSA key in PKCS#1 PEM, an Ed25519 key pair in     *)
(* base64, and a string that is neither.  Three calls reach a signature   *)
(* after a constructor, update_key or a field write.                      *)
EXTENDS DkimConfig, TLC

CONSTANTS rsaPem, edKey, junk

MC_KeyStrings == {rsaPem, edKey, junk}
MC_Holds      == (rsaPem :> "Rsa") @@ (edKey :> "Ed25519") @@ (junk :> "none")
MC_MaxCalls   == 3
=============================================================================
