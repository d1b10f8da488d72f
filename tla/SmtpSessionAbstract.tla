------------------------- MODULE SmtpSessionAbstract -------------------------
(***************************************************************************)
(* What a session promises, the life cycle of spec 4.5:                    *)
(*                                                                         *)
(*   Disconnected -connect-> Connected -greeting-> Greeted -EHLO-> Capable *)
(*   Capable(plain) -STARTTLS, upgrade, EHLO-> Capable(tls)                *)
(*   Capable -AUTH/235-> Authenticated                                     *)
(*   Capable or Authenticated -MAIL-> InTransaction -content/250-> back    *)
(*   Any -error-> Broken;  Any but Broken -QUIT/221-> Disconnected         *)
(*                                                                         *)
(* Authenticated is Capable with authed set.  A message is delivered only  *)
(* by a transaction that completes, and a transaction that does not        *)
(* complete leaves the session Broken.  Once Broken, nothing but the       *)
(* session's bookkeeping changes.                                          *)
(***************************************************************************)
EXTENDS FiniteSets

CONSTANT Ids   \* messages

VARIABLES
    state,      \* where the session is in its life cycle
    tls,        \* the stream is encrypted
    authed,     \* AUTH succeeded
    delivered   \* messages the server accepted in a completed transaction

vars == <<state, tls, authed, delivered>>

States == {"Disconnected", "Connected", "Greeted", "Capable", "InTransaction", "Broken"}

Init ==
    /\ state = "Disconnected"
    /\ tls = FALSE
    /\ authed = FALSE
    /\ delivered = {}

\* Plain TCP, or TLS from the first byte.
Connect ==
    /\ state = "Disconnected"
    /\ state' = "Connected"
    /\ tls' \in BOOLEAN
    /\ UNCHANGED <<authed, delivered>>

Greet ==
    /\ state = "Connected"
    /\ state' = "Greeted"
    /\ UNCHANGED <<tls, authed, delivered>>

Ehlo ==
    /\ state = "Greeted"
    /\ state' = "Capable"
    /\ UNCHANGED <<tls, authed, delivered>>

StartTls ==
    /\ state = "Capable" /\ ~tls /\ ~authed
    /\ tls' = TRUE
    /\ UNCHANGED <<state, authed, delivered>>

Auth ==
    /\ state = "Capable" /\ ~authed
    /\ authed' = TRUE
    /\ UNCHANGED <<state, tls, delivered>>

Mail ==
    /\ state = "Capable"
    /\ state' = "InTransaction"
    /\ UNCHANGED <<tls, authed, delivered>>

\* The server's 250 to the content: the transaction is over, one message is
\* delivered.
Deliver ==
    /\ state = "InTransaction"
    /\ \E m \in Ids \ delivered : delivered' = delivered \cup {m}
    /\ state' = "Capable"
    /\ UNCHANGED <<tls, authed>>

Quit ==
    /\ state \notin {"Disconnected", "Broken"}
    /\ state' = "Disconnected"
    /\ UNCHANGED <<tls, authed, delivered>>

\* An error, or a step of a broken session: nothing is delivered any more.
Break ==
    /\ state' = "Broken"
    /\ tls' \in BOOLEAN /\ authed' \in BOOLEAN
    /\ UNCHANGED delivered

Next == Connect \/ Greet \/ Ehlo \/ StartTls \/ Auth \/ Mail \/ Deliver \/ Quit \/ Break

Spec == Init /\ [][Next]_vars

=============================================================================
