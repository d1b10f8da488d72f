----------------------------- MODULE SmtpReply -----------------------------
(***************************************************************************)
(* Reading one SMTP reply from a stream of CRLF-terminated lines, by the   *)
(* two readers of the repository:                                          *)
(*  - SmtpConnection::read_response (connection.rs), which reads a line at *)
(*    a time and re-runs the nom parser parse_response                     *)
(*    (lettre/src/smtp/response.rs) on everything read so far, until it    *)
(*    returns a reply or an error;                                         *)
(*  - Client::get_reply (client/mod.rs), which feeds each line, its CRLF   *)
(*    removed, to ResponseParser::read_line (transport/smtp/response.rs)   *)
(*    until read_line says no more lines follow.                           *)
(* Both are compared with the reply grammar of RFC 5321 4.2 / spec 4.1.    *)
(*                                                                         *)
(* A line is a record: its code, the character after the code and its     *)
(* text; the readers see it as the sequence of its characters, CR and LF   *)
(* written "CR" and "LF".                                                  *)
(***************************************************************************)
EXTENDS Integers, Sequences, FiniteSets

CONSTANTS
    LineCodes,  \* the bytes a line starts with: codes, shorter and longer prefixes
    Texts,      \* texts after the separator, as character sequences
    MaxLines    \* length of the stream the server writes

Digits    == {"0", "1", "2", "3", "4", "5", "6", "7", "8", "9"}
Severity  == {"2", "3", "4", "5"}
Category  == {"0", "1", "2", "3", "4", "5"}
CRLF      == <<"CR", "LF">>

\* The character after the code: continuation mark, space, none, another
\* ASCII character, or a two-byte UTF-8 character.
Seps == {<<"-">>, <<" ">>, <<>>, <<"x">>, <<"U1", "U2">>}

\* A line of the stream; a line shorter than a code has nothing after it.
Lines ==
    {l \in [code : LineCodes, sep : Seps, text : Texts] :
        (l.sep = <<>> \/ Len(l.code) < 3) => l.sep = <<>> /\ l.text = <<>>}

\* The characters of a line, without and with its CRLF.
Chars(l) == l.code \o l.sep \o l.text
Wire(l)  == Chars(l) \o CRLF

\* The bytes of the first n lines of a stream.
RECURSIVE WireOf(_, _)
WireOf(s, n) == IF n = 0 THEN <<>> ELSE WireOf(s, n - 1) \o Wire(s[n])

Streams == UNION {[1..n -> Lines] : n \in 1..MaxLines}

-----------------------------------------------------------------------------
(* The reference: RFC 5321 4.2, Reply-code = %x32-35 %x30-35 %x30-39,     *)
(* continuation lines Reply-code "-" [textstring] CRLF, last line          *)
(* Reply-code [SP textstring] CRLF, the same code on every line.           *)

IsCode(c)  == Len(c) = 3 /\ c[1] \in Severity /\ c[2] \in Category /\ c[3] \in Digits
IsCont(l)  == IsCode(l.code) /\ l.sep = <<"-">>
IsLast(l)  == IsCode(l.code) /\ l.sep \in {<<" ">>, <<>>}

\* The reply at the head of stream s: how many lines it takes, its code and
\* the texts of its lines (none for a last line without SP).
RefReply(s) ==
    IF \A i \in DOMAIN s : IsCont(s[i])
      THEN [st |-> "err"]
      ELSE LET k == CHOOSE i \in DOMAIN s : ~IsCont(s[i]) /\ \A j \in 1..i-1 : IsCont(s[j])
           IN IF IsLast(s[k]) /\ \A j \in 1..k : s[j].code = s[k].code
                THEN [st |-> "ok", code |-> s[k].code, used |-> k,
                      msg |-> [j \in 1..k-1 |-> s[j].text]
                              \o (IF s[k].sep = <<" ">> THEN <<s[k].text>> ELSE <<>>)]
                ELSE [st |-> "err"]

-----------------------------------------------------------------------------
(* The nom parsers of lettre/src/smtp/response.rs over a byte buffer b,    *)
(* from position i.  A result is "ok", "error" (no match) or "incomplete"  *)
(* (more bytes could make it match).                                       *)

\* One byte out of set at position i (tag!, char!).
Expect(b, i, set) ==
    IF i > Len(b) THEN "incomplete" ELSE IF b[i] \in set THEN "ok" ELSE "error"

\* The first failure of a sequence of parsers, or "ok".
FirstFailure(rs) ==
    IF \E k \in DOMAIN rs : rs[k] # "ok"
      THEN rs[CHOOSE k \in DOMAIN rs : rs[k] # "ok" /\ \A j \in 1..k-1 : rs[j] = "ok"]
      ELSE "ok"

\* parse_code: parse_severity, parse_category, parse_detail.
ParseCode(b, i) ==
    FirstFailure(<<Expect(b, i, Severity), Expect(b, i + 1, Category),
                   Expect(b, i + 2, Digits)>>)

\* take_until!("\r\n"): the position of the next CRLF at or after i, 0 if none.
FindCrlf(b, i) ==
    LET js == {j \in i..Len(b) - 1 : b[j] = "CR" /\ b[j + 1] = "LF"}
    IN IF js = {} THEN 0 ELSE CHOOSE j \in js : \A k \in js : j <= k

\* A parsed line: the code, the text (if any) and the position after it.
Parsed(b, i, t, next) == [st |-> "ok", code |-> SubSeq(b, i, i + 2), text |-> t, next |-> next]

\* tuple!(parse_code, preceded!(char!('-'), take_until_and_consume!("\r\n")))
ContLine(b, i) ==
    LET r == FirstFailure(<<ParseCode(b, i), Expect(b, i + 3, {"-"})>>)
        j == FindCrlf(b, i + 4)
    IN CASE r # "ok" -> [st |-> r]
         [] j = 0    -> [st |-> "incomplete"]
         [] OTHER    -> Parsed(b, i, <<SubSeq(b, i + 4, j - 1)>>, j + 2)

\* tuple!(parse_code, terminated!(opt!(preceded!(char!(' '),
\*                                     take_until!("\r\n"))), crlf))
LastLine(b, i) ==
    LET sp == Expect(b, i + 3, {" "})
        j  == FindCrlf(b, i + 4)
        nl == FirstFailure(<<Expect(b, i + 3, {"CR"}), Expect(b, i + 4, {"LF"})>>)
    IN CASE ParseCode(b, i) # "ok"    -> [st |-> ParseCode(b, i)]
         [] sp = "incomplete"         -> [st |-> "incomplete"]
         [] sp = "ok" /\ j = 0        -> [st |-> "incomplete"]
         [] sp = "ok"                 -> Parsed(b, i, <<SubSeq(b, i + 4, j - 1)>>, j + 2)
         [] nl # "ok"                 -> [st |-> nl]
         [] OTHER                     -> Parsed(b, i, <<>>, i + 5)

\* many0!(ContLine): continuation lines up to the first that does not match.
RECURSIVE ContLines(_, _, _)
ContLines(b, i, acc) ==
    LET r == ContLine(b, i)
    IN CASE r.st = "ok"    -> ContLines(b, r.next, Append(acc, r))
         [] r.st = "error" -> [st |-> "ok", lines |-> acc, next |-> i]
         [] OTHER          -> [st |-> "incomplete"]

\* Variant: only the first continuation line is compared with the last.
CodesAgreeWithFirst(lines, last) == Len(lines) = 0 \/ lines[1].code = last.code

\* The check of map_res!: every continuation line has the last line's code.
CodesAgree(lines, last) == \A k \in DOMAIN lines : lines[k].code = last.code

\* parse_response
ParseResponse(b) ==
    LET m == ContLines(b, 1, <<>>)
        f == LastLine(b, m.next)
    IN CASE m.st # "ok"                  -> [st |-> m.st]
         [] f.st # "ok"                  -> [st |-> f.st]
         [] ~CodesAgree(m.lines, f)      -> [st |-> "error"]
         [] OTHER -> [st |-> "ok", code |-> f.code,
                      msg |-> [k \in DOMAIN m.lines |-> m.lines[k].text[1]] \o f.text]

-----------------------------------------------------------------------------
(* The two readers, one line at a time, over the same stream.              *)

VARIABLES
    stream,   \* the lines the server writes, then end of stream
    nomRead,  \* read_response: lines read into its buffer
    nomRes,   \* read_response: its result, or None while it reads
    oldRead,  \* get_reply: lines read
    oldCode,  \* ResponseParser.code (NoCode for None)
    oldMsg,   \* ResponseParser.message
    oldRes    \* get_reply: its result, or None while it reads

vars == <<stream, nomRead, nomRes, oldRead, oldCode, oldMsg, oldRes>>

None   == [st |-> "none"]
NoCode == [severity |-> "none"]

Init ==
    /\ stream \in Streams
    /\ nomRead = 0 /\ nomRes = None
    /\ oldRead = 0 /\ oldCode = NoCode /\ oldMsg = <<>> /\ oldRes = None

\* read_response: `while self.stream.read_line(&mut buffer)? > 0`, then
\* parse_response on the whole buffer.  Incomplete: read another line;
\* end of stream: "incomplete response".
NomReadLine ==
    /\ nomRes = None
    /\ \/ /\ nomRead = Len(stream)
          /\ nomRes' = [st |-> "err"]
          /\ UNCHANGED nomRead
       \/ /\ nomRead < Len(stream)
          /\ nomRead' = nomRead + 1
          /\ LET p == ParseResponse(WireOf(stream, nomRead + 1))
             IN nomRes' = CASE p.st = "ok"    -> [st |-> "ok", code |-> p.code,
                                                  msg |-> p.msg, used |-> nomRead + 1]
                            [] p.st = "error" -> [st |-> "err"]
                            [] OTHER          -> None
    /\ UNCHANGED <<stream, oldRead, oldCode, oldMsg, oldRes>>

\* Display for Severity and Category: the digit each variant is written as.
SeverityDigit == [PositiveCompletion |-> "2", PositiveIntermediate |-> "3",
                  TransientNegativeCompletion |-> "4", PermanentNegativeCompletion |-> "5"]
CategoryDigit == [Syntax |-> "0", Information |-> "1", Connections |-> "2",
                  Unspecified3 |-> "3", Unspecified4 |-> "4", MailSystem |-> "5"]
DigitSeq      == <<"0", "1", "2", "3", "4", "5", "6", "7", "8", "9">>

\* The variant a Display table writes as s, or "err".
FromDigit(table, s) ==
    IF \E v \in DOMAIN table : table[v] = s THEN CHOOSE v \in DOMAIN table : table[v] = s
    ELSE "err"

\* FromStr for Severity ("2".."5") and for Category ("0".."5").
SeverityFromStr(s) == FromDigit(SeverityDigit, s)
CategoryFromStr(s) == FromDigit(CategoryDigit, s)

\* A byte string can be cut after its k-th byte: the next byte does not
\* continue a UTF-8 character ("U1" starts a two-byte character, "U2"
\* continues it).  Slicing a &str elsewhere panics.
CharBoundary(l, k) == k >= Len(l) \/ l[k + 1] # "U2"

\* Code::from_str on three bytes c: s[0..1], s[1..2] and s[2..3] parsed as
\* Severity, Category and u8; "panic" when a slice cuts a character.
CodeFromStr(c) ==
    CASE Len(c) # 3                                   -> [st |-> "err"]
      [] ~CharBoundary(c, 1) \/ ~CharBoundary(c, 2)   -> [st |-> "panic"]
      [] SeverityFromStr(c[1]) = "err"
            \/ CategoryFromStr(c[2]) = "err" \/ c[3] \notin Digits -> [st |-> "err"]
      [] OTHER -> [st   |-> "ok",
                   code |-> [severity |-> SeverityFromStr(c[1]),
                             category |-> CategoryFromStr(c[2]),
                             detail   |-> CHOOSE n \in 0..9 : DigitSeq[n + 1] = c[3]]]

\* Code::code: format!("{}{}{}", severity, category, detail).
CodeText(code) ==
    <<SeverityDigit[code.severity], CategoryDigit[code.category], DigitSeq[code.detail + 1]>>

\* Variant: a line without text is taken as announcing more lines.
OldMoreShortLines(l) == IF Len(l) > 4 THEN l[4] = "-" ELSE TRUE

\* The bool read_line returns when it accepts line l: more lines follow.
OldMore(l) == IF Len(l) > 4 THEN l[4] = "-" ELSE FALSE

\* ResponseParser::read_line on line l, in the order of the code: too short;
\* line[0..3] cut inside a character; a code other than the first line's
\* (code.code() != line[0..3]); no code yet and Code::from_str fails;
\* line[4..] cut inside a character.
ReadLineOutcome(l) ==
    CASE Len(l) < 3                                                  -> "err"
      [] ~CharBoundary(l, 3)                                         -> "panic"
      [] oldCode # NoCode /\ CodeText(oldCode) # SubSeq(l, 1, 3)     -> "err"
      [] oldCode = NoCode /\ CodeFromStr(SubSeq(l, 1, 3)).st # "ok"  -> CodeFromStr(SubSeq(l, 1, 3)).st
      [] Len(l) > 4 /\ ~CharBoundary(l, 4)                           -> "panic"
      [] OTHER                                                       -> "ok"

\* get_reply feeds line l, the used-th it has read, to read_line: an error or
\* a panic ends it; otherwise the code is kept, the text after the fourth
\* byte pushed, and the reply built by response() when no more lines follow.
OldFeed(l, used) ==
    LET code == IF oldCode = NoCode THEN CodeFromStr(SubSeq(l, 1, 3)).code ELSE oldCode
        msg  == IF Len(l) > 4 THEN Append(oldMsg, SubSeq(l, 5, Len(l))) ELSE oldMsg
    IN \/ /\ ReadLineOutcome(l) # "ok"
          /\ oldRes' = [st |-> ReadLineOutcome(l)]
          /\ UNCHANGED <<oldCode, oldMsg>>
       \/ /\ ReadLineOutcome(l) = "ok"
          /\ oldCode' = code
          /\ oldMsg' = msg
          /\ oldRes' = IF OldMore(l) THEN None
                       ELSE [st |-> "ok", code |-> CodeText(code), msg |-> msg, used |-> used]

\* The line get_reply reads next: the next line of the stream, CRLF
\* removed, or "" at its end.
NextLine == IF oldRead < Len(stream) THEN Chars(stream[oldRead + 1]) ELSE <<>>

\* Variant: the line counter also advances on the empty read at the end.
OldReadLinePastEnd ==
    /\ oldRes = None
    /\ oldRead' = oldRead + 1
    /\ OldFeed(NextLine, oldRead + 1)
    /\ UNCHANGED <<stream, nomRead, nomRes>>

\* Client::get_reply: read_line from the stream, then
\* ResponseParser::read_line, until it returns false or fails.
OldReadLine ==
    /\ oldRes = None
    /\ oldRead' = IF oldRead < Len(stream) THEN oldRead + 1 ELSE oldRead
    /\ OldFeed(NextLine, oldRead + 1)
    /\ UNCHANGED <<stream, nomRead, nomRes>>

\* Both readers have returned.
Done == nomRes # None /\ oldRes # None /\ UNCHANGED vars

Next == NomReadLine \/ OldReadLine \/ Done

Spec == Init /\ [][Next]_vars

-----------------------------------------------------------------------------

Results == {None, [st |-> "err"], [st |-> "panic"]}
    \cup [st : {"ok"}, code : LineCodes, msg : Seq(Texts), used : 1..MaxLines]

TypeOK ==
    /\ stream \in Streams
    /\ nomRead \in 0..Len(stream) /\ oldRead \in 0..Len(stream)
    /\ nomRes \in Results /\ oldRes \in Results
    /\ oldCode \in [severity : DOMAIN SeverityDigit, category : DOMAIN CategoryDigit, detail : 0..9]
                  \cup {NoCode}
    /\ oldMsg \in Seq(Texts)

\* read_response returns exactly the reply RFC 5321 reads at the head of the
\* stream (code, every line's text, the lines it takes) and fails exactly
\* when the head of the stream is not a reply; the nom grammar, its
\* continuation loop and its code check together match the RFC.
NomMatchesReference == nomRes # None => nomRes = RefReply(stream)

\* get_reply never reads a line of the next reply: once it has read the
\* last line of a well-formed reply it stops.
OldNeverReadsPastReply == RefReply(stream).st = "ok" => oldRead <= RefReply(stream).used

=============================================================================
