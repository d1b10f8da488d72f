----------------------------- MODULE DkimCanon ------------------------------
(***************************************************************************)
(* DKIM signing, src/src/message/dkim.rs: the canonical body the body hash *)
(* is taken over (dkim_canonicalize_body), and the canonical header block  *)
(* the signature is taken over (dkim_canonicalize_headers and              *)
(* dkim_canonicalize_header_value), set against what an RFC 6376 verifier  *)
(* computes from the message as it is written.                             *)
(*                                                                         *)
(* Text is a sequence of characters: "a" (any ASCII letter), "SP", "HT",   *)
(* "CR", "LF", and "u", a character outside ASCII.  SHA-256 and the        *)
(* signature are injective in what they are taken over, so the model      *)
(* keeps the canonical text itself as the hash.                            *)
(***************************************************************************)
EXTENDS Integers, Sequences, FiniteSets

CONSTANTS
    BodyChars,   \* characters of the body
    MaxBody,     \* length of the body
    ValueChars,  \* characters of a raw header value
    MaxValue,    \* length of a raw header value
    Names,       \* header names, in their usual spelling
    MaxHeaders,  \* headers of the message
    MaxSigned    \* names in the configured header list

CRLF == <<"CR", "LF">>
Wsp  == {"SP", "HT"}

SeqsUpTo(S, n) == UNION {[1..k -> S] : k \in 0..n}

\* A header name: the name, and whether it is written in lower case.
HeaderNames == [n : Names, lower : BOOLEAN]
ToLower(h) == [h EXCEPT !.lower = TRUE]
\* eq_ignore_ascii_case
SameName(h, g) == h.n = g.n

-----------------------------------------------------------------------------
(* Text operations the code takes from regex and str.                      *)

\* Regex::replace_all(t, literal s, r): non-overlapping, from the left.
RECURSIVE Replace(_, _, _)
Replace(t, s, r) ==
    CASE Len(t) < Len(s)            -> t
      [] SubSeq(t, 1, Len(s)) = s   -> r \o Replace(SubSeq(t, Len(s) + 1, Len(t)), s, r)
      [] OTHER                      -> <<Head(t)>> \o Replace(Tail(t), s, r)

\* replace_all("[\t ]+", " "): every run of SP and HT becomes one SP.
RECURSIVE CollapseWsp(_)
CollapseWsp(t) ==
    CASE Len(t) = 0                        -> t
      [] Len(t) >= 2 /\ t[1] \in Wsp /\ t[2] \in Wsp -> CollapseWsp(Tail(t))
      [] t[1] \in Wsp                      -> <<"SP">> \o CollapseWsp(Tail(t))
      [] OTHER                             -> <<t[1]>> \o CollapseWsp(Tail(t))

EndsWithCrlf(t) == Len(t) >= 2 /\ SubSeq(t, Len(t) - 1, Len(t)) = CRLF

RECURSIVE StripCrlfs(_)
StripCrlfs(t) == IF EndsWithCrlf(t) THEN StripCrlfs(SubSeq(t, 1, Len(t) - 2)) ELSE t

\* str::trim_end over this alphabet.
RECURSIVE TrimEnd(_)
TrimEnd(t) ==
    IF Len(t) > 0 /\ t[Len(t)] \in Wsp \cup {"CR", "LF"}
    THEN TrimEnd(SubSeq(t, 1, Len(t) - 1)) ELSE t

\* Leading SP and HT removed.
RECURSIVE TrimStartWsp(_)
TrimStartWsp(t) == IF Len(t) > 0 /\ t[1] \in Wsp THEN TrimStartWsp(Tail(t)) ELSE t

-----------------------------------------------------------------------------
(* The body.                                                               *)

\* RE.replace(body, "\r\n") with RE = "(\r\n)+$": the CRLFs ending the body,
\* if any, become one.
TrailingCrlfs(t) == IF EndsWithCrlf(t) THEN StripCrlfs(t) \o CRLF ELSE t

\* Variant: a space before CRLF is stripped before runs are collapsed.
CanonicalizeBodyStripFirst(b, c) ==
    IF c = "simple" THEN TrailingCrlfs(b)
    ELSE TrailingCrlfs(CollapseWsp(Replace(Replace(b, <<"SP", "CR", "LF">>, CRLF),
                                           <<"HT", "CR", "LF">>, CRLF)))

\* dkim_canonicalize_body.
CanonicalizeBody(b, c) ==
    IF c = "simple" THEN TrailingCrlfs(b)
    ELSE LET b1 == CollapseWsp(b)
             b2 == Replace(Replace(b1, <<"SP", "CR", "LF">>, CRLF), <<"HT", "CR", "LF">>, CRLF)
         IN TrailingCrlfs(b2)

\* The reference, spec 4.6: simple strips the empty lines at the end so that
\* the body ends with exactly one CRLF, and an empty body is CRLF; relaxed
\* first collapses every run of SP and HT and strips them before each CRLF.
RECURSIVE RelaxLines(_)
RelaxLines(t) ==
    LET i == CHOOSE i \in 0..Len(t) :
                 \/ i = 0 /\ \A j \in 1..Len(t) - 1 : t[j] # "CR" \/ t[j + 1] # "LF"
                 \/ i > 0 /\ i < Len(t) /\ t[i] = "CR" /\ t[i + 1] = "LF"
                    /\ \A j \in 1..i - 1 : t[j] # "CR" \/ t[j + 1] # "LF"
        line == IF i = 0 THEN t ELSE SubSeq(t, 1, i - 1)
        rest == IF i = 0 THEN <<>> ELSE SubSeq(t, i + 2, Len(t))
        relaxed == LET l == CollapseWsp(line)
                   IN IF Len(l) > 0 /\ l[Len(l)] = "SP" THEN SubSeq(l, 1, Len(l) - 1) ELSE l
    IN IF i = 0 THEN relaxed ELSE relaxed \o CRLF \o RelaxLines(rest)

SpecSimpleBody(t) == IF Len(StripCrlfs(t)) = 0 THEN CRLF ELSE StripCrlfs(t) \o CRLF

SpecBody(b, c) == SpecSimpleBody(IF c = "simple" THEN b ELSE RelaxLines(b))

-----------------------------------------------------------------------------
(* Header values: HeaderValue::new keeps the raw value and its encoded     *)
(* form, the one Display writes into the message.                          *)

\* allowed_char: ASCII without NUL, CR and LF.
Allowed(c) == c \notin {"u", "CR", "LF"}
AllowedStr(w) == \A i \in DOMAIN w : Allowed(w[i])

\* The spelling of a header name in the text.
NameText(h) == IF h.lower THEN "lc-" \o h.n ELSE h.n

RECURSIVE Concat(_)
Concat(t) == IF t = <<>> THEN "" ELSE Head(t) \o Concat(Tail(t))

\* rfc2047::encode: one encoded word, ASCII without whitespace.
EncodedWord(t) == <<"=?" \o Concat(t) \o "?=">>

\* WordsPlusFillIterator: each word is its first character and the
\* characters up to the next SP or HT.
RECURSIVE WordsOf(_)
WordsOf(t) ==
    IF t = <<>> THEN <<>>
    ELSE LET ends == {i \in 2..Len(t) : t[i] \in Wsp}
             k    == IF ends = {} THEN Len(t) + 1 ELSE CHOOSE i \in ends : \A j \in ends : i <= j
         IN <<SubSeq(t, 1, k - 1)>> \o WordsOf(SubSeq(t, k, Len(t)))

\* flush_encode_buf: the buffer's plain prefix and suffix around one encoded
\* word from its first to its last character that is not allowed.
Flush(buf) ==
    IF buf = <<>> THEN <<>>
    ELSE LET bad == {i \in DOMAIN buf : ~Allowed(buf[i])}
             f   == CHOOSE i \in bad : \A j \in bad : i <= j
             l   == CHOOSE i \in bad : \A j \in bad : i >= j
         IN SubSeq(buf, 1, f - 1) \o EncodedWord(SubSeq(buf, f, l)) \o SubSeq(buf, l + 1, Len(buf))

\* HeaderValueEncoder::format: allowed words are written as they are, runs
\* of other words are buffered and flushed as one encoded word.
RECURSIVE Format(_, _)
Format(words, buf) ==
    CASE words = <<>>             -> Flush(buf)
      [] AllowedStr(Head(words))  -> Flush(buf) \o Head(words) \o Format(Tail(words), <<>>)
      [] OTHER                    -> Format(Tail(words), buf \o Head(words))

Encode(v) == Format(WordsOf(v), <<>>)

HeaderValue(h, v) == [name |-> h, raw |-> v, enc |-> Encode(v)]

\* Headers::find_header: the first header of that name, in any case.
HasHeader(hs, h) == \E i \in DOMAIN hs : SameName(hs[i].name, h)
FindHeader(hs, h) ==
    hs[CHOOSE i \in DOMAIN hs : SameName(hs[i].name, h)
                                /\ \A j \in 1..i - 1 : ~SameName(hs[j].name, h)]

-----------------------------------------------------------------------------
(* The header block the signature is taken over.                          *)

\* Variant: trailing whitespace of a relaxed value is kept.
CanonicalizeHeaderValueNoTrim(v, c) ==
    IF c = "simple" THEN v ELSE CollapseWsp(Replace(v, CRLF, <<>>)) \o CRLF

\* dkim_canonicalize_header_value.
CanonicalizeHeaderValue(v, c) ==
    IF c = "simple" THEN v ELSE TrimEnd(CollapseWsp(Replace(v, CRLF, <<>>))) \o CRLF

\* One iteration of dkim_canonicalize_headers' loop: simple appends the
\* header to a Headers and formats it ("Name: " encoded value CRLF),
\* relaxed writes "name:" and the canonical raw value.
HeaderLine(hs, h0, c) ==
    LET h == IF c = "relaxed" THEN ToLower(h0) ELSE h0
        v == CanonicalizeHeaderValue(FindHeader(hs, h).raw, c)
    IN CASE ~HasHeader(hs, h) -> <<>>
         [] c = "simple"      -> <<NameText(h), ":", "SP">> \o Encode(v) \o CRLF
         [] OTHER             -> <<NameText(h), ":">> \o v

\* dkim_canonicalize_headers.
RECURSIVE CanonicalizeHeaders(_, _, _)
CanonicalizeHeaders(list, hs, c) ==
    IF list = <<>> THEN <<>>
    ELSE HeaderLine(hs, Head(list), c) \o CanonicalizeHeaders(Tail(list), hs, c)

-----------------------------------------------------------------------------
(* The verifier, RFC 6376 3.4 and 5.4.2 (not code of this repository): the *)
(* k-th occurrence of a name in h= selects the k-th header of that name    *)
(* from the bottom, and none if there are fewer; the header is read as     *)
(* written, "Name: " encoded value CRLF.                                   *)

Instance(hs, list, i) ==
    LET k   == Cardinality({j \in 1..i - 1 : SameName(list[j], list[i])})
        idx == {j \in DOMAIN hs : SameName(hs[j].name, list[i])
                                  /\ Cardinality({m \in DOMAIN hs : m > j
                                                   /\ SameName(hs[m].name, list[i])}) = k}
    IN idx

VerifierLine(hdr, c) ==
    IF c = "simple" THEN <<NameText(hdr.name), ":", "SP">> \o hdr.enc \o CRLF
    ELSE <<NameText(ToLower(hdr.name)), ":">>
         \o TrimStartWsp(TrimEnd(CollapseWsp(<<"SP">> \o hdr.enc))) \o CRLF

RECURSIVE VerifierBlock(_, _, _, _)
VerifierBlock(hs, list, c, i) ==
    IF i > Len(list) THEN <<>>
    ELSE LET idx == Instance(hs, list, i)
             l   == IF idx = {} THEN <<>> ELSE VerifierLine(hs[CHOOSE j \in idx : TRUE], c)
         IN l \o VerifierBlock(hs, list, c, i + 1)

-----------------------------------------------------------------------------

Canon == {"simple", "relaxed"}

\* The name of the header dkim_sign appends.
DkimSignatureName == [n |-> "DKIM-Signature", lower |-> FALSE]

VARIABLES
    body,       \* message.body_raw()
    headers,    \* message.headers, in order: [name, raw, enc]
    config,     \* the DkimConfig: canonicalization pair and header list
    signature,  \* [bh, block] the signature is over, or <<>> before signing
    phase       \* "unsigned" or "signed"

vars == <<body, headers, config, signature, phase>>

\* Every message and configuration within the given bounds, before signing.
InitWithin(bodyChars, maxBody, valueChars, maxValue, maxHeaders, maxSigned) ==
    /\ body \in SeqsUpTo(bodyChars, maxBody)
    /\ headers \in SeqsUpTo({HeaderValue(h, v) : h \in HeaderNames,
                                               v \in SeqsUpTo(valueChars, maxValue)},
                            maxHeaders)
    /\ config \in [header : Canon, body : Canon, signed : SeqsUpTo(HeaderNames, maxSigned)]
    /\ signature = <<>>
    /\ phase = "unsigned"

Init == InitWithin(BodyChars, MaxBody, ValueChars, MaxValue, MaxHeaders, MaxSigned)

\* dkim_sign: the body hash over the canonical body, the signature over the
\* canonical header block, then the DKIM-Signature header appended (its tag
\* list is ASCII text without whitespace here).
Sign ==
    /\ phase = "unsigned"
    /\ signature' = [bh    |-> CanonicalizeBody(body, config.body),
                     block |-> CanonicalizeHeaders(config.signed, headers, config.header)]
    /\ headers' = Append(headers, HeaderValue(DkimSignatureName, <<"a">>))
    /\ phase' = "signed"
    /\ UNCHANGED <<body, config>>

Done == phase = "signed" /\ UNCHANGED vars

Next == Sign \/ Done

Spec == Init /\ [][Next]_vars

-----------------------------------------------------------------------------

\* The headers of the message before signing.
Signed == SubSeq(headers, 1, Len(headers) - 1)

\* The header list h= names, as the verifier reads it.
SignedList == IF config.header = "relaxed" THEN [i \in DOMAIN config.signed |-> ToLower(config.signed[i])]
              ELSE config.signed

\* The block a verifier computes from the signed message.
Verified == VerifierBlock(Signed, SignedList, config.header, 1)

DistinctInMessage == \A i, j \in DOMAIN Signed : i # j => ~SameName(Signed[i].name, Signed[j].name)
DistinctInConfig  == \A i, j \in DOMAIN config.signed : i # j => ~SameName(config.signed[i], config.signed[j])
AsciiValues       == \A i \in DOMAIN Signed : AllowedStr(Signed[i].raw)
NoLeadingWsp      == \A i \in DOMAIN Signed : Len(Signed[i].raw) > 0 => Signed[i].raw[1] \notin Wsp
NamesAsWritten    == config.header = "simple" =>
                         \A i \in DOMAIN Signed, j \in DOMAIN config.signed :
                             SameName(Signed[i].name, config.signed[j]) => Signed[i].name = config.signed[j]

\* For a message with one header of each name, ASCII values without leading
\* whitespace, and a header list naming each header once as it is written,
\* the block dkim_canonicalize_headers signs is the block a verifier
\* computes from the message: same headers, same order, and for relaxed the
\* same folding, collapsing and trimming of every value.
HeadersVerify ==
    phase = "signed" /\ DistinctInMessage /\ DistinctInConfig /\ AsciiValues
        /\ NoLeadingWsp /\ NamesAsWritten
        => signature.block = Verified

\* RFC 6376 3.4: the verifier canonicalises the header as written, in its
\* encoded form; relaxed dkim_canonicalize_header_value takes the raw value.
EncodedValuesSigned ==
    phase = "signed" /\ DistinctInMessage /\ DistinctInConfig /\ NoLeadingWsp /\ NamesAsWritten
        => signature.block = Verified

\* For a body ending in CRLF, the body dkim_canonicalize_body hashes is the
\* one spec 4.6 defines: simple and relaxed, every run of whitespace, every
\* whitespace before a line end, every empty line at the end.
CrlfBodyMatchesSpec ==
    phase = "signed" /\ EndsWithCrlf(body) => signature.bh = SpecBody(body, config.body)

=============================================================================
