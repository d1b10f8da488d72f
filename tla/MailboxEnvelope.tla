-------------------------- MODULE MailboxEnvelope --------------------------
(***************************************************************************)
(* Mailboxes in headers and the envelope taken from them.                  *)
(*                                                                         *)
(* A caller builds the address headers of a message (Sender holds one      *)
(* Mailbox; From, To, Cc and Bcc hold Mailboxes, built with new, with and  *)
(* push, src/src/message/mailbox/types.rs).  Envelope::try_from            *)
(* (src/src/lib.rs) takes the reverse-path from Sender, else the first     *)
(* From, and the forward-path from To, Cc and Bcc.  The headers are        *)
(* written with Display; a reader of the message gets them back with       *)
(* FromStr.                                                                *)
(*                                                                         *)
(* Text is a sequence of characters: the letters and "SP" of NameChars,    *)
(* the punctuation ",", "<", ">", and the addresses of Addrs, each one     *)
(* token.  Address::from_str (not in this snapshot of the repository,      *)
(* spec 3: "validated to match local@domain") accepts exactly one address  *)
(* token.  utf8_b::decode (not in this snapshot either) returns a name     *)
(* without encoded words unchanged; no name here holds one.                *)
(***************************************************************************)
EXTENDS Integers, SequencesExt

CONSTANTS
    NameChars,  \* characters of display names
    MaxName,    \* length of a display name
    Addrs,      \* addresses, as model values
    MaxBoxes    \* mailboxes in all headers together

ListKinds == {"From", "To", "Cc", "Bcc"}
Kinds     == {"Sender"} \cup ListKinds

\* Option<String> is a record: named = FALSE is None.
Names     == [named : {FALSE}, name : {<<>>}]
             \cup [named : {TRUE}, name : BoundedSeq(NameChars, MaxName)]

\* Mailbox::new(name, email).
NewMailbox(n, a) == [named |-> n.named, name |-> n.name, email |-> a]

\* str::trim, for the one whitespace character of the model.
RECURSIVE Trim(_)
Trim(s) == CASE s # <<>> /\ Head(s) = "SP" -> Trim(Tail(s))
             [] s # <<>> /\ Last(s) = "SP" -> Trim(Front(s))
             [] OTHER                      -> s

\* Display for Mailbox: "name <addr>" when the trimmed name is not empty,
\* else the address alone.
MailboxText(m) ==
    IF m.named /\ Trim(m.name) # <<>>
        THEN Trim(m.name) \o <<"SP", "<", m.email, ">">>
        ELSE <<m.email>>

\* Display for Mailboxes: the mailboxes joined by ", ".
MailboxesText(ms) ==
    IF ms = <<>> THEN <<>>
    ELSE FlattenSeq([i \in 1..Len(ms) |->
             IF i = 1 THEN MailboxText(ms[i]) ELSE <<",", "SP">> \o MailboxText(ms[i])])

\* Address::from_str.
IsAddress(s) == Len(s) = 1 /\ s[1] \in Addrs

\* The first index of c in s, 0 if none (str::find).
Find(s, c) == SelectInSeq(s, LAMBDA x : x = c)

Ok(ms) == [ok |-> TRUE, boxes |-> ms]
Err    == [ok |-> FALSE, boxes |-> <<>>]

\* Variant: the address is sliced up to and including the '>'.
ParseMailboxWithClose(src) ==
    LET lt == Find(src, "<")
        gt == Find(src, ">")
        addr == SubSeq(src, lt + 1, gt)
        name == Trim(SubSeq(src, 1, lt - 1))
    IN CASE lt # 0 /\ gt # 0 /\ lt < gt ->
              IF IsAddress(addr)
                THEN Ok(<<[named |-> name # <<>>, name |-> name, email |-> addr[1]]>>)
                ELSE Err
         [] lt # 0 -> Err
         [] OTHER  -> IF IsAddress(src) THEN Ok(<<[named |-> FALSE, name |-> <<>>, email |-> src[1]]>>) ELSE Err

\* FromStr for Mailbox: the address between the first '<' and the first
\* '>' after it, the trimmed text before the '<' as the name (None when
\* empty); a '<' without a later '>' is Unbalanced; without '<' the whole
\* text is the address.  The result is Ok(<<mailbox>>) or Err.
ParseMailbox(src) ==
    LET lt == Find(src, "<")
        gt == Find(src, ">")
        addr == SubSeq(src, lt + 1, gt - 1)
        name == Trim(SubSeq(src, 1, lt - 1))
    IN CASE lt # 0 /\ gt # 0 /\ lt < gt ->
              IF IsAddress(addr)
                THEN Ok(<<[named |-> name # <<>>, name |-> name, email |-> addr[1]]>>)
                ELSE Err
         [] lt # 0 -> Err
         [] OTHER  -> IF IsAddress(src) THEN Ok(<<[named |-> FALSE, name |-> <<>>, email |-> src[1]]>>) ELSE Err

\* str::split(','): the pieces between the commas, one more than there are
\* commas.
RECURSIVE Split(_)
Split(s) == IF Find(s, ",") = 0 THEN <<s>>
            ELSE <<SubSeq(s, 1, Find(s, ",") - 1)>> \o Split(SubSeq(s, Find(s, ",") + 1, Len(s)))

\* FromStr for Mailboxes: every piece trimmed and parsed as a Mailbox, its
\* name decoded; Err if one piece fails.
ParseMailboxes(src) ==
    LET parts == [i \in 1..Len(Split(src)) |-> ParseMailbox(Trim(Split(src)[i]))]
    IN IF \A i \in DOMAIN parts : parts[i].ok
         THEN Ok(FlattenSeq([i \in DOMAIN parts |-> parts[i].boxes]))
         ELSE Err

\* The addresses of a list of mailboxes.
Emails(ms) == [i \in DOMAIN ms |-> ms[i].email]

NoEnvelope == [res |-> "none", from |-> <<>>, to |-> <<>>]

\* Envelope::try_from(&headers): the Sender's address, else the first From
\* address (a.iter().next().unwrap() panics on an empty From), else None;
\* the addresses of To, Cc and Bcc in that order; then Envelope::new, Err
\* MissingTo when there is no recipient.  h[k] is the header's value and
\* present the headers the message has.
EnvelopeOf(h, present) ==
    LET emails(k) == IF k \in present THEN Emails(h[k]) ELSE <<>>
        to == emails("To") \o emails("Cc") \o emails("Bcc")
    IN CASE "Sender" \notin present /\ "From" \in present /\ h["From"] = <<>>
              -> [res |-> "panic", from |-> <<>>, to |-> <<>>]
         [] to = <<>> -> [res |-> "missing_to", from |-> <<>>, to |-> <<>>]
         [] OTHER -> [res |-> "ok", to |-> to,
                      from |-> IF "Sender" \in present THEN <<h["Sender"][1].email>>
                               ELSE IF "From" \in present THEN <<h["From"][1].email>> ELSE <<>>]

-----------------------------------------------------------------------------

MailboxSet == {NewMailbox(n, a) : n \in Names, a \in Addrs}

VARIABLES
    headers,   \* the value of every address header (Sender: one mailbox)
    set,       \* the headers the message has
    envelope,  \* the result of Envelope::try_from
    phase      \* "build", then "sent"

vars == <<headers, set, envelope, phase>>

Boxes(h) == h["Sender"] \o h["From"] \o h["To"] \o h["Cc"] \o h["Bcc"]

Init ==
    /\ headers = [k \in Kinds |-> <<>>]
    /\ set = {}
    /\ envelope = NoEnvelope
    /\ phase = "build"

\* headers.set(From(Mailboxes::new().with(m1).with(m2)...)), and the same
\* for To, Cc and Bcc: the list replaces the header's value.
SetMailboxes(k, ms) ==
    /\ phase = "build"
    /\ Len(Boxes([headers EXCEPT ![k] = ms])) <= MaxBoxes
    /\ headers' = [headers EXCEPT ![k] = ms]
    /\ set' = set \cup {k}
    /\ UNCHANGED <<envelope, phase>>

\* Variant: the mailbox is added to the Sender's value instead of replacing it.
SetSenderAppend(m) ==
    /\ phase = "build"
    /\ Len(Boxes([headers EXCEPT !["Sender"] = Append(@, m)])) <= MaxBoxes
    /\ headers' = [headers EXCEPT !["Sender"] = Append(@, m)]
    /\ set' = set \cup {"Sender"}
    /\ UNCHANGED <<envelope, phase>>

\* headers.set(Sender(mailbox)).
SetSender(m) ==
    /\ phase = "build"
    /\ Len(Boxes([headers EXCEPT !["Sender"] = <<m>>])) <= MaxBoxes
    /\ headers' = [headers EXCEPT !["Sender"] = <<m>>]
    /\ set' = set \cup {"Sender"}
    /\ UNCHANGED <<envelope, phase>>

\* The message is sent: its envelope is taken from the headers.
Send ==
    /\ phase = "build"
    /\ envelope' = EnvelopeOf(headers, set)
    /\ phase' = "sent"
    /\ UNCHANGED <<headers, set>>

Done == phase = "sent" /\ UNCHANGED vars

Next ==
    \/ \E k \in ListKinds, ms \in BoundedSeq(MailboxSet, MaxBoxes) : SetMailboxes(k, ms)
    \/ \E m \in MailboxSet : SetSender(m)
    \/ Send
    \/ Done

Spec == Init /\ [][Next]_vars

-----------------------------------------------------------------------------

TypeOK ==
    /\ headers \in [Kinds -> BoundedSeq(MailboxSet, MaxBoxes)]
    /\ Len(headers["Sender"]) <= 1
    /\ set \subseteq Kinds
    /\ envelope.res \in {"none", "ok", "missing_to", "panic"}
    /\ phase \in {"build", "sent"}

\* What a reader of the written header k gets back.
Read(k) == IF k = "Sender" THEN ParseMailbox(MailboxText(headers[k][1]))
           ELSE ParseMailboxes(MailboxesText(headers[k]))

\* The mailboxes as the reader should get them: names trimmed, a name that
\* trims to nothing is None.
Normalize(ms) == [i \in DOMAIN ms |->
                    [named |-> Trim(ms[i].name) # <<>>, name |-> Trim(ms[i].name),
                     email |-> ms[i].email]]

PlainNames == \A i \in DOMAIN Boxes(headers) : \A j \in DOMAIN Boxes(headers)[i].name :
                  Boxes(headers)[i].name[j] \notin {",", "<", ">"}

NoEmptyHeader == \A k \in set : headers[k] # <<>>

\* For a sent message whose headers are not empty and whose names hold no
\* ',', '<' or '>', a reader of the written headers (Display, then FromStr)
\* gets every mailbox back, names trimmed, and the envelope try_from took
\* is the one the reader's headers give: the recipients a reader sees are
\* the ones the message went to.
ReadBackMatchesEnvelope ==
    phase = "sent" /\ PlainNames /\ NoEmptyHeader =>
        /\ \A k \in set : Read(k) = Ok(Normalize(headers[k]))
        /\ envelope = EnvelopeOf([k \in Kinds |-> IF k \in set THEN Read(k).boxes ELSE <<>>], set)

\* Whatever the names: a To, Cc or Bcc header a reader can read names the
\* recipients the envelope has for it.  Display writes a name unquoted, so
\* a ',' in it splits the mailbox in two for Mailboxes::from_str.
ReadRecipientsAreEnvelopeRecipients ==
    phase = "sent" /\ envelope.res = "ok" =>
        \A k \in set \cap {"To", "Cc", "Bcc"} :
            Read(k).ok => Emails(Read(k).boxes) = Emails(headers[k])

=============================================================================
