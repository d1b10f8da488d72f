----------------------------- MODULE HeaderMap -----------------------------
(***************************************************************************)
(* The header map of a message: Headers in src/src/message/header/mod.rs, *)
(* a Vec<HeaderValue> searched with eq_ignore_ascii_case.                 *)
(*                                                                         *)
(* A header name is one of Spellings; Key gives its ASCII-folded form, so  *)
(* two spellings with the same Key match.  TypedNames are the names of the *)
(* typed headers (Header::name()), Values the raw values, and Parses the   *)
(* raw values Header::parse accepts.  A typed header's display() can be a  *)
(* value its parse refuses (an empty Mailboxes, a display name with a      *)
(* comma: see MailboxEnvelope), so set chooses among all Values.           *)
(***************************************************************************)
EXTENDS Integers, SequencesExt

CONSTANTS
    Spellings,   \* header names as written
    Key,         \* Key[n]: n folded to lower case
    TypedNames,  \* Header::name() of the typed headers
    Values,      \* raw header values
    Parses,      \* the raw values Header::parse accepts
    MaxHeaders,  \* length of the vector
    None         \* Option::None

Keys == {Key[n] : n \in Spellings}

VARIABLES
    headers,  \* Headers.headers: a sequence of [name, value]
    ret       \* what the last call returned (None for nothing)

vars == <<headers, ret>>

\* Variant: the name is compared exactly, not ignoring ASCII case.
FindHeaderIndexExact(hs, n) == SelectInSeq(hs, LAMBDA h : h.name = n)

\* find_header, find_header_mut, find_header_index: the first header whose
\* name equals n ignoring ASCII case (its index, 0 for None).
FindHeaderIndex(hs, n) == SelectInSeq(hs, LAMBDA h : Key[h.name] = Key[n])

\* H::parse on a raw value: the value, or None when it is refused.
Parse(v) == IF v \in Parses THEN v ELSE None

\* Headers::new and Headers::with_capacity: an empty vector.
Init == headers = <<>> /\ ret = None

\* insert_raw(value): overwrite the first header of that name, name and
\* value, in place; without one, push it.
InsertRaw(n, v) ==
    LET i == FindHeaderIndex(headers, n) IN
    /\ i = 0 => Len(headers) < MaxHeaders
    /\ headers' = IF i # 0 THEN [headers EXCEPT ![i] = [name |-> n, value |-> v]]
                  ELSE Append(headers, [name |-> n, value |-> v])
    /\ ret' = None

\* set(header): insert_raw(header.display()) under H::name().
Set(n, v) == n \in TypedNames /\ InsertRaw(n, v)

\* Variant: the HeaderValue found is returned, not its raw_value.
GetRawHeaderValue(n) ==
    LET i == FindHeaderIndex(headers, n) IN
    /\ ret' = IF i = 0 THEN None ELSE headers[i]
    /\ UNCHANGED headers

\* get_raw(name): the raw value of the first match.
GetRaw(n) ==
    LET i == FindHeaderIndex(headers, n) IN
    /\ ret' = IF i = 0 THEN None ELSE headers[i].value
    /\ UNCHANGED headers

\* get::<H>(): get_raw(H::name()) and H::parse, None when either fails.
Get(n) ==
    LET i == FindHeaderIndex(headers, n) IN
    /\ ret' = IF i = 0 THEN None ELSE Parse(headers[i].value)
    /\ UNCHANGED headers

\* remove_raw(name): Vec::remove of the first match, returned.
RemoveRaw(n) ==
    LET i == FindHeaderIndex(headers, n) IN
    /\ headers' = IF i = 0 THEN headers ELSE RemoveAt(headers, i)
    /\ ret' = IF i = 0 THEN None ELSE headers[i].value

\* remove::<H>(): remove_raw(H::name()), then H::parse of what it removed;
\* a value parse refuses is removed all the same and None returned.
RemoveTyped(n) ==
    LET i == FindHeaderIndex(headers, n) IN
    /\ headers' = IF i = 0 THEN headers ELSE RemoveAt(headers, i)
    /\ ret' = IF i = 0 THEN None ELSE Parse(headers[i].value)

\* clear(): Vec::clear.
Clear == headers' = <<>> /\ ret' = None

Next ==
    \/ \E n \in Spellings, v \in Values : InsertRaw(n, v)
    \/ \E n \in TypedNames, v \in Values : Set(n, v)
    \/ \E n \in Spellings : GetRaw(n) \/ RemoveRaw(n)
    \/ \E n \in TypedNames : Get(n) \/ RemoveTyped(n)
    \/ Clear

Spec == Init /\ [][Next]_vars

-----------------------------------------------------------------------------

\* Display for Headers: "name: encoded_value CRLF" for every header in
\* vector order; here the (name, value) pairs in that order.
Written == [i \in DOMAIN headers |-> <<headers[i].name, headers[i].value>>]

TypeOK ==
    /\ headers \in BoundedSeq([name : Spellings, value : Values], MaxHeaders)
    /\ ret \in Values \cup {None}

\* The value under folded name k: that of the first header of that name.
ValueOf(k) ==
    LET i == SelectInSeq(headers, LAMBDA h : Key[h.name] = k) IN
    IF i = 0 THEN None ELSE headers[i].value

Abs == INSTANCE HeaderMapAbstract
          WITH order <- [i \in DOMAIN Written |-> Key[Written[i][1]]],
               dict  <- [k \in Keys |-> ValueOf(k)]

\* Over any sequence of insert_raw, set, get(_raw), remove(_raw) and clear
\* calls under any spellings of the names, Headers behaves as the ordered
\* case-insensitive map of HeaderMapAbstract: one header per name, written
\* in the order names were first set, a name set again replaced in place,
\* a removed name gone for every spelling, and every call returning what
\* the map holds.
RefinesHeaderMap == Abs!Spec

=============================================================================
