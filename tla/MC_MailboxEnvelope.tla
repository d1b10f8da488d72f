------------------------ MODULE MC_MailboxEnvelope ------------------------
EXTENDS MailboxEnvelope

\* Two addresses; names of up to two characters over a space, a comma and
\* a character that is itself an address, so that a name can look like a
\* mailbox list.
MC_Addrs     == {"x", "y"}
MC_NameChars == {"SP", ",", "x"}
MC_MaxName   == 2
MC_MaxBoxes  == 2

=============================================================================
