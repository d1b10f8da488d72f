----------------------------- MODULE DkimConfig -----------------------------
(***************************************************************************)
(* The DKIM configuration and the key dkim_sign signs with,                *)
(* src/src/message/dkim.rs: the constructors default_config and new,       *)
(* update_key, a write of the public field signing_algorithm, and the      *)
(* DKIM-Signature header dkim_sign appends, reduced to what tells a key    *)
(* and an algorithm apart: its a= tag and the variant of the key that      *)
(* computed its b= tag.                                                    *)
(*                                                                         *)
(* A key string is a model value; Holds[s] is the kind of key it encodes   *)
(* ("Rsa", "Ed25519", or "none" for a string that is neither).  Parsing a  *)
(* string as a key of another kind fails, and DkimSigningKey::new unwraps  *)
(* the failure: the program panics and makes no further call.              *)
(***************************************************************************)
EXTENDS Naturals, Sequences

CONSTANTS
    KeyStrings,  \* private key strings handed to the configuration
    Holds,       \* Holds[s]: the kind of key s encodes
    MaxCalls,    \* calls made on the configuration and dkim_sign
    None         \* no configuration, no signature yet

Algorithms == {"Rsa", "Ed25519"}

\* Display for DkimSigningAlgorithm.
AlgText(a) == IF a = "Rsa" THEN "rsa" ELSE "ed25519"

\* DkimSigningKey::new: the key s parses to as algorithm says; FALSE when
\* from_pkcs1_pem, decode or Keypair::from_bytes fails and unwrap panics.
Parses(s, algorithm) == Holds[s] = algorithm

VARIABLES
    config,    \* the DkimConfig: [signing_algorithm, private_key], or None
    dkim,      \* the last DKIM-Signature appended: [name, a, signedBy], or None
    panicked,  \* a constructor or update_key has panicked
    calls      \* calls made so far

vars == <<config, dkim, panicked, calls>>

Init ==
    /\ config = None
    /\ dkim = None
    /\ panicked = FALSE
    /\ calls = 0

\* A call the program can still make.
Call == ~panicked /\ calls < MaxCalls /\ calls' = calls + 1

\* The program state after storing a configuration whose key is s parsed
\* as keyAlgorithm: the configuration, or a panic.
Store(algorithm, s, keyAlgorithm) ==
    IF Parses(s, keyAlgorithm)
    THEN config' = [signing_algorithm |-> algorithm, private_key |-> keyAlgorithm]
         /\ UNCHANGED panicked
    ELSE panicked' = TRUE /\ UNCHANGED config

\* DkimConfig::default_config: an RSA key and the RSA algorithm.
DefaultConfig(s) ==
    /\ Call
    /\ Store("Rsa", s, "Rsa")
    /\ UNCHANGED dkim

\* DkimConfig::new: the algorithm given is stored, the key is parsed as RSA.
New(s, algorithm) ==
    /\ Call
    /\ Store(algorithm, s, "Rsa")
    /\ UNCHANGED dkim

\* DkimConfig::update_key: signing_algorithm is written, then the key is
\* parsed as that algorithm (a panic leaves the algorithm written).
UpdateKey(s, algorithm) ==
    /\ config # None
    /\ Call
    /\ IF Parses(s, algorithm)
       THEN config' = [signing_algorithm |-> algorithm, private_key |-> algorithm]
            /\ UNCHANGED panicked
       ELSE config' = [config EXCEPT !.signing_algorithm = algorithm]
            /\ panicked' = TRUE
    /\ UNCHANGED dkim

\* An assignment to the public field signing_algorithm.
SetSigningAlgorithm(algorithm) ==
    /\ config # None
    /\ Call
    /\ config' = [config EXCEPT !.signing_algorithm = algorithm]
    /\ UNCHANGED <<dkim, panicked>>

\* dkim_header_format, reduced to the a= tag: "{signing_algorithm}-sha256".
DkimHeaderFormat(cfg) == AlgText(cfg.signing_algorithm) \o "-sha256"

\* dkim_sign with dkim_header_format: a= is the configured algorithm, b= is
\* computed by whichever key the configuration holds (the match on
\* private_key), and the header is appended as "DKIM-Signature".
DkimSign ==
    /\ config # None
    /\ Call
    /\ dkim' = [name     |-> "DKIM-Signature",
                a        |-> DkimHeaderFormat(config),
                signedBy |-> config.private_key]
    /\ UNCHANGED <<config, panicked>>

Next ==
    \/ \E s \in KeyStrings : DefaultConfig(s)
    \/ \E s \in KeyStrings, a \in Algorithms : New(s, a) \/ UpdateKey(s, a)
    \/ \E a \in Algorithms : SetSigningAlgorithm(a)
    \/ DkimSign

Spec == Init /\ [][Next]_vars

-----------------------------------------------------------------------------

\* Spec 3 (DkimConfig): "the algorithm tag and the key variant agree".  The
\* a= tag of every DKIM-Signature dkim_sign appends names the algorithm of
\* the key that computed its b= tag, whatever the configuration was built
\* with (default_config, new, update_key).
AlgorithmTagMatchesKey ==
    dkim # None => dkim.a = AlgText(dkim.signedBy) \o "-sha256"

=============================================================================
