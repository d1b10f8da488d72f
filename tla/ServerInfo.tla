----------------------------- MODULE ServerInfo -----------------------------
(***************************************************************************)
(* ServerInfo::from_response (src/src/transport/smtp/extension.rs): the    *)
(* server name and the ESMTP features the client learns from the reply to  *)
(* EHLO.  The reply is the list of its lines' texts, each split into words *)
(* (split_whitespace); a word is its letters and whether they are in upper *)
(* case, so that exact and case-insensitive comparison differ.             *)
(* The loop over the lines is a step per line.                             *)
(***************************************************************************)
EXTENDS Integers, Sequences, FiniteSets

CONSTANTS
    Keywords,    \* words a server may write, in upper case
    LowerCase,   \* those of them that also appear in lower case
    MaxLines,    \* lines of the EHLO reply
    MaxWords     \* words per line

Words == {[w |-> k, upper |-> TRUE] : k \in Keywords}
         \cup {[w |-> k, upper |-> FALSE] : k \in LowerCase}

\* The word the code compares against: the literal in upper case.
K(k) == [w |-> k, upper |-> TRUE]

ReplyLines == UNION {[1..n -> Words] : n \in 0..MaxWords}
Replies    == UNION {[1..n -> ReplyLines] : n \in 0..MaxLines}

\* Extension values, as their Display form.
Features == {"8BITMIME", "SMTPUTF8", "STARTTLS", "AUTH PLAIN", "AUTH CRAM-MD5"}
Mechanism == [m \in {"PLAIN", "CRAM-MD5"} |-> "AUTH " \o m]

-----------------------------------------------------------------------------
(* The reference, spec 4.2: line 0 is the greeting; every later line is a  *)
(* keyword, compared ASCII-case-insensitively, then its arguments; AUTH's  *)
(* arguments are the mechanism names.  Anything else is ignored.           *)

SpecLineFeatures(l) ==
    IF Len(l) = 0 THEN {}
    ELSE LET key == l[1].w IN
         CASE key \in {"8BITMIME", "SMTPUTF8", "STARTTLS"} -> {key}
           [] key = "AUTH" -> {Mechanism[l[j].w] : j \in {j \in 2..Len(l) :
                                   l[j].upper /\ l[j].w \in DOMAIN Mechanism}}
           [] OTHER -> {}

SpecFeatures(r) == UNION {SpecLineFeatures(r[i]) : i \in 2..Len(r)}

-----------------------------------------------------------------------------

VARIABLES
    reply,     \* response.message(), each line split into words
    next,      \* the loop's next line (0: the name is not read yet)
    features,  \* the HashSet being built
    result     \* "running", "ok", "err" (Err returned) or "panic"

vars == <<reply, next, features, result>>

\* Variant: the AUTH arguments are taken from the third word on.
LineFeaturesSkipFirstMech(l) ==
    CASE l[1] = K("8BITMIME") -> {"8BITMIME"}
      [] l[1] = K("SMTPUTF8") -> {"SMTPUTF8"}
      [] l[1] = K("STARTTLS") -> {"STARTTLS"}
      [] l[1] = K("AUTH")     -> {Mechanism[m] : m \in {m \in DOMAIN Mechanism :
                                      \E j \in 3..Len(l) : l[j] = K(m)}}
      [] OTHER                -> {}

\* Variant: every AUTH argument is taken as a mechanism, known or not.
LineFeaturesAnyMech(l) ==
    CASE l[1] = K("8BITMIME") -> {"8BITMIME"}
      [] l[1] = K("SMTPUTF8") -> {"SMTPUTF8"}
      [] l[1] = K("STARTTLS") -> {"STARTTLS"}
      [] l[1] = K("AUTH")     -> {"AUTH " \o l[j].w : j \in 2..Len(l)}
      [] OTHER                -> {}

\* The match on splitted[0], and the loop over splitted[1..] for AUTH.
LineFeatures(l) ==
    CASE l[1] = K("8BITMIME") -> {"8BITMIME"}
      [] l[1] = K("SMTPUTF8") -> {"SMTPUTF8"}
      [] l[1] = K("STARTTLS") -> {"STARTTLS"}
      [] l[1] = K("AUTH")     -> {Mechanism[m] : m \in {m \in DOMAIN Mechanism :
                                      \E j \in 2..Len(l) : l[j] = K(m)}}
      [] OTHER                -> {}

Init ==
    /\ reply \in Replies
    /\ next = 0
    /\ features = {}
    /\ result = "running"

\* Response::first_word: the reply has a first line with a word.
HasFirstWord(r) == Len(r) > 0 /\ Len(r[1]) > 0

\* `response.first_word()`: the server name, or Err.
ReadName ==
    /\ result = "running" /\ next = 0
    /\ \/ /\ HasFirstWord(reply)
          /\ next' = 1
          /\ UNCHANGED result
       \/ /\ ~HasFirstWord(reply)
          /\ result' = "err"
          /\ UNCHANGED next
    /\ UNCHANGED <<reply, features>>

\* One iteration of `for line in response.message()`, the first line
\* included; `splitted[0]` on a line without words panics.
ScanLine ==
    /\ result = "running" /\ next \in 1..Len(reply)
    /\ \/ /\ Len(reply[next]) > 0
          /\ features' = features \cup LineFeatures(reply[next])
          /\ next' = next + 1
          /\ UNCHANGED result
       \/ /\ Len(reply[next]) = 0
          /\ result' = "panic"
          /\ UNCHANGED <<features, next>>
    /\ UNCHANGED reply

\* The loop is over: Ok(ServerInfo).
Finish ==
    /\ result = "running" /\ next = Len(reply) + 1
    /\ result' = "ok"
    /\ UNCHANGED <<reply, next, features>>

Done == result # "running" /\ UNCHANGED vars

Next == ReadName \/ ScanLine \/ Finish \/ Done

Spec == Init /\ [][Next]_vars

-----------------------------------------------------------------------------

TypeOK ==
    /\ reply \in Replies
    /\ next \in 0..MaxLines + 1
    /\ features \subseteq Features
    /\ result \in {"running", "ok", "err", "panic"}

\* The greeting's first word is a host name, not a keyword.
HostGreeting(r) == r[1][1].w \notin {"8BITMIME", "SMTPUTF8", "STARTTLS", "AUTH"}

\* All words are in upper case.
UpperCase(r) == \A i \in DOMAIN r : \A j \in DOMAIN r[i] : r[i][j].upper

\* The features from_response reports for a reply whose keywords are all in
\* upper case and whose greeting is a host name are exactly those spec 4.2
\* reads: every keyword line is matched, and every AUTH mechanism.
UpperCaseRepliesMatchSpec ==
    result = "ok" /\ HostGreeting(reply) /\ UpperCase(reply)
        => features = SpecFeatures(reply)

=============================================================================
