---------------------------- MODULE DotStuffing ----------------------------
(***************************************************************************)
(* Sending the message content after DATA: Client::message                 *)
(* (src/src/transport/smtp/client/mod.rs) writes escape_dot(content) and   *)
(* the end-of-data sequence CRLF "." CRLF (the same bytes that             *)
(* SmtpConnection::message writes after the encoded content).  An RFC 5321 *)
(* 4.5.2 server reads the data line by line up to the line ".", removing   *)
(* the first "." of every other line that starts with one.                 *)
(*                                                                         *)
(* Content is a sequence of characters over a small alphabet: one letter,  *)
(* ".", and CR and LF written "CR" and "LF".                               *)
(***************************************************************************)
EXTENDS Integers, Sequences, FiniteSets

CONSTANTS
    Alphabet,   \* characters of the content
    MaxLen      \* length of the content

CRLF == <<"CR", "LF">>

Contents == UNION {[1..n -> Alphabet] : n \in 0..MaxLen}

\* str::replace: every non-overlapping occurrence of s in t, from the left,
\* replaced by r.
RECURSIVE Replace(_, _, _)
Replace(t, s, r) ==
    CASE Len(t) < Len(s)            -> t
      [] SubSeq(t, 1, Len(s)) = s   -> r \o Replace(SubSeq(t, Len(s) + 1, Len(t)), s, r)
      [] OTHER                      -> <<Head(t)>> \o Replace(Tail(t), s, r)

\* Variant: the dot after a leading "." of the content is not doubled.
EscapeDotNoLeadingDot(s) ==
    Replace(Replace(s, <<"CR", ".">>, <<"CR", ".", ".">>), <<"LF", ".">>, <<"LF", ".", ".">>)

\* Variant: only dots after CR are doubled.
EscapeDotCrOnly(s) ==
    LET p == IF Len(s) > 0 /\ s[1] = "." THEN <<".">> \o s ELSE s
    IN Replace(p, <<"CR", ".">>, <<"CR", ".", ".">>)

\* escape_dot: a leading "." is doubled, then every "." after a CR, then
\* every "." after an LF.
EscapeDot(s) ==
    LET p == IF Len(s) > 0 /\ s[1] = "." THEN <<".">> \o s ELSE s
    IN Replace(Replace(p, <<"CR", ".">>, <<"CR", ".", ".">>), <<"LF", ".">>, <<"LF", ".", ".">>)

\* MESSAGE_ENDING, b"\r\n.\r\n".
MessageEnding == <<"CR", "LF", ".", "CR", "LF">>

\* The position of the first CRLF in t at or after i, 0 if none.
NextCrlf(t, i) ==
    LET js == {j \in i..Len(t) - 1 : t[j] = "CR" /\ t[j + 1] = "LF"}
    IN IF js = {} THEN 0 ELSE CHOOSE j \in js : \A k \in js : j <= k

-----------------------------------------------------------------------------

VARIABLES
    content,   \* the message content handed to message()
    wire,      \* the bytes written after the server's 354
    pos,       \* the server's read position in wire
    received,  \* the mail data the server has taken
    phase      \* "client", "server" (reading data), "done" (line "." read)

vars == <<content, wire, pos, received, phase>>

Init ==
    /\ content \in Contents
    /\ wire = <<>>
    /\ pos = 1
    /\ received = <<>>
    /\ phase = "client"

\* Client::message: send_server(&escape_dot(message_content), MESSAGE_ENDING)
\* writes the escaped content, then the end-of-data sequence.
Message ==
    /\ phase = "client"
    /\ wire' = EscapeDot(content) \o MessageEnding
    /\ phase' = "server"
    /\ UNCHANGED <<content, pos, received>>

\* The server takes one line of data (RFC 5321 4.5.2, not code of this
\* repository): "." ends the data, a leading "." is removed.
ServerReadLine ==
    /\ phase = "server"
    /\ NextCrlf(wire, pos) # 0
    /\ LET j    == NextCrlf(wire, pos)
           line == SubSeq(wire, pos, j - 1)
       IN /\ pos' = j + 2
          /\ IF line = <<".">>
               THEN phase' = "done" /\ UNCHANGED received
               ELSE /\ received' = received \o
                                   (IF Len(line) > 0 /\ line[1] = "." THEN Tail(line) ELSE line)
                                   \o CRLF
                    /\ UNCHANGED phase
    /\ UNCHANGED <<content, wire>>

Done == phase = "done" /\ UNCHANGED vars

Next == Message \/ ServerReadLine \/ Done

Spec == Init /\ [][Next]_vars

-----------------------------------------------------------------------------

\* Line ends: CRLF, and the bare LF or CR some servers also accept.
Eols == {CRLF, <<"LF">>, <<"CR">>}

\* No content makes the data end early: after the CRLF of the DATA line,
\* every "." that stands alone between two line ends in the bytes message()
\* writes, strict or with bare LF or CR, is the last one, the "." of the
\* end-of-data sequence.  A content that ended the data early would have
\* its remaining lines read as SMTP commands.
NoEarlyEnd ==
    phase # "client" =>
        LET w == CRLF \o wire
        IN \A a, b \in Eols : \A i \in 1..Len(w) - Len(a) - Len(b) :
              SubSeq(w, i, i + Len(a) + Len(b)) = a \o <<".">> \o b
                  => i + Len(a) = Len(w) - 2

\* The content's line breaks are all CRLF.
CrlfText(s) == \A i \in 1..Len(s) :
                   /\ s[i] = "CR" => i < Len(s) /\ s[i + 1] = "LF"
                   /\ s[i] = "LF" => i > 1 /\ s[i - 1] = "CR"

\* For content whose line breaks are CRLF, the server undoes the stuffing
\* exactly: it takes the content followed by one CRLF, the end of the
\* sequence message() appends.
UnstuffingRestoresContent ==
    phase = "done" /\ CrlfText(content) => received = content \o CRLF

=============================================================================
