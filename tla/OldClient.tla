----------------------------- MODULE OldClient -----------------------------
(***************************************************************************)
(* The blocking SMTP Client of src/src/transport/smtp/client/mod.rs and    *)
(* the ResponseParser it reads replies with                                *)
(* (src/src/transport/smtp/response.rs), against a server over one stream. *)
(*                                                                         *)
(* Every public method that talks to the server goes through send_server:  *)
(* write the line, flush, then get_reply, which reads lines and feeds them *)
(* to ResponseParser::read_line until it says no more lines follow.  The   *)
(* Client keeps no state but the stream: after an error it goes on using   *)
(* the same stream, whatever is left in it.  The caller (SmtpTransport,    *)
(* not in this snapshot) may call the methods in any order; the model lets *)
(* it.                                                                     *)
(*                                                                         *)
(* A reply line is a record: code, the character after it ("-", " " or     *)
(* none) and its text (none, or one word); `for` is the id of the command  *)
(* the server wrote it for, a ghost field the client never reads.  The     *)
(* server is the environment (any RFC 5321 reply to any command); it may   *)
(* drop the connection, and it answers when it likes, so a read may time   *)
(* out before the reply arrives.                                           *)
(***************************************************************************)
EXTENDS Integers, Sequences, ReplyCode

CONSTANTS
    Codes,      \* reply codes the server uses
    Texts,      \* words of reply texts; "c" decodes as base64, others do not
    MaxCmds,    \* public method calls that write to the server
    MaxConns,   \* successful connect() calls
    MaxDrops    \* connections the server drops

\* `let mut challenge_expected = 3;` in auth().
ChallengeExpected == 3

Seps == {"-", " ", ""}
None == "none"

\* Lines an RFC 5321 server writes: a continuation line code "-" [text],
\* a last line code [" " text].
ContLines == [code : Codes, sep : {"-"}, text : Texts \cup {None}]
LastLines == [code : Codes, sep : {" "}, text : Texts]
             \cup [code : Codes, sep : {""}, text : {None}]
Replies   == {<<l>> : l \in LastLines}
             \cup {r \in {<<c, l>> : c \in ContLines, l \in LastLines} : r[1].code = r[2].code}

\* A reply whose lines do not share one code, as a server that breaks
\* RFC 5321 4.2 may write.
MixedReplies == {r \in {<<[code |-> c, sep |-> "-", text |-> t], [code |-> d, sep |-> " ", text |-> t]>> :
                            c \in Codes, d \in Codes, t \in Texts} : r[1].code # r[2].code}

\* The length of the line without its CRLF, as remove_crlf leaves it.
LineLen(l) == 3 + (IF l.sep = "" THEN 0 ELSE 1) + (IF l.text = None THEN 0 ELSE 1)

\* Response::has_code: code() (Code::code) equals format!("{}", c).
HasCode(code, c) == CodeDigits(code) = DecimalDigits(c)

\* Response::is_positive: severity 2 or 3.
IsPositive(code) == code \div 100 \in {2, 3}

\* Variant: the character after the code is read one index too far, in
\* the text, so no line announces more.
MoreWrongIndex(l) == LineLen(l) > 4 /\ l.text = "-"

\* The bool read_line returns: `line.len() > 4` and `line[3] == '-'`.
More(l) == LineLen(l) > 4 /\ l.sep = "-"

-----------------------------------------------------------------------------

VARIABLES
    stream,     \* Client.stream: "none" or "open"
    enc,        \* the stream is encrypted (is_encrypted)
    tmo,        \* a read timeout is set on the stream
    pc,         \* "idle", "read" (in get_reply) or "step" (auth() between replies)
    op,         \* the public method in progress
    authLeft,   \* auth(): challenge_expected
    pcode,      \* ResponseParser.code (0 for None)
    first,      \* the first string of ResponseParser.message (None if empty)
    got,        \* ghost: the `for` of every line this get_reply read
    cur,        \* ghost: the id of the command this get_reply answers
    res,        \* the result of the last get_reply: "ok", "neg" (Err(response)), "err"
    out,        \* what the last public method returned: "ok" or "err"
    cmdId,      \* commands written so far (the greeting counts as one)
    conns,      \* successful connect() calls
    srvOpen,    \* the server has the connection open
    toServer,   \* commands the server has not answered, by id
    toClient,   \* reply lines written and not yet read
    drops,      \* connections the server dropped
    faulted,    \* ghost: a read on this connection failed
    shortCont   \* ghost: the server wrote a continuation line without text

clientVars == <<stream, enc, tmo, pc, op, authLeft, pcode, first, got, cur, res, out, cmdId, conns>>
serverVars == <<srvOpen, toServer, toClient, drops>>
ghostVars  == <<faulted, shortCont>>
vars       == <<clientVars, serverVars, ghostVars>>

Init ==
    /\ stream = "none" /\ enc = FALSE /\ tmo = FALSE
    /\ pc = "idle" /\ op = None /\ authLeft = 0
    /\ pcode = 0 /\ first = None /\ got = <<>> /\ cur = 0
    /\ res = None /\ out = None /\ cmdId = 0 /\ conns = 0
    /\ srvOpen = FALSE /\ toServer = <<>> /\ toClient = <<>> /\ drops = 0
    /\ faulted = FALSE /\ shortCont = FALSE

\* send_server for method o: "Connection closed" without a stream;
\* otherwise write and flush (to a closed peer the write may still succeed,
\* or fail), then get_reply with a fresh ResponseParser.
Write(o) ==
    /\ op' = o
    /\ \/ /\ stream = "none"
          /\ pc' = "idle" /\ out' = "err"
          /\ UNCHANGED <<cmdId, toServer, pcode, first, got, cur>>
       \/ /\ stream = "open"
          /\ cmdId' = cmdId + 1 /\ cur' = cmdId + 1
          /\ toServer' = IF srvOpen THEN Append(toServer, cmdId + 1) ELSE toServer
          /\ pc' = "read" /\ pcode' = 0 /\ first' = None /\ got' = <<>>
          /\ UNCHANGED out
       \/ /\ stream = "open" /\ ~srvOpen
          /\ cmdId' = cmdId + 1
          /\ pc' = "idle" /\ out' = "err"
          /\ UNCHANGED <<toServer, pcode, first, got, cur>>

\* A public method may start.
Ready == pc = "idle" /\ cmdId < MaxCmds

\* connect(addr, ssl_context): Err if a stream is set; Err if the address
\* does not resolve or Connector::connect fails; else set_stream (a new
\* socket, with no timeout) and get_reply for the greeting.
Connect(tls) ==
    /\ Ready
    /\ \/ /\ out' = "err"    \* a stream is set, or no address, or connect failed
          /\ UNCHANGED <<stream, enc, tmo, pc, op, authLeft, pcode, first, got, cur,
                         res, cmdId, conns, serverVars, ghostVars>>
       \/ /\ stream = "none" /\ conns < MaxConns
          /\ stream' = "open" /\ enc' = tls /\ tmo' = FALSE /\ conns' = conns + 1
          /\ cmdId' = cmdId + 1 /\ cur' = cmdId + 1
          /\ pc' = "read" /\ op' = "connect" /\ pcode' = 0 /\ first' = None /\ got' = <<>>
          /\ srvOpen' = TRUE /\ toServer' = <<cmdId + 1>> /\ toClient' = <<>>
          /\ faulted' = FALSE /\ shortCont' = FALSE
          /\ UNCHANGED <<authLeft, res, out, drops>>

\* set_timeout(d): a no-op without a stream, else set_read_timeout(d).
SetTimeout(d) ==
    /\ pc = "idle"
    /\ tmo' = (stream = "open" /\ d)
    /\ out' = "ok"
    /\ UNCHANGED <<stream, enc, pc, op, authLeft, pcode, first, got, cur, res, cmdId, conns,
                   serverVars, ghostVars>>

\* upgrade_tls_stream: Ok without a stream; else the handshake succeeds
\* or fails.
UpgradeTls ==
    /\ pc = "idle"
    /\ \/ /\ stream = "none" /\ out' = "ok" /\ UNCHANGED enc
       \/ /\ stream = "open" /\ enc' = TRUE /\ out' = "ok"
       \/ /\ stream = "open" /\ out' = "err" /\ UNCHANGED enc
    /\ UNCHANGED <<stream, tmo, pc, op, authLeft, pcode, first, got, cur, res, cmdId, conns,
                   serverVars, ghostVars>>

\* command, ehlo, mail, rcpt, data, quit, noop (and is_connected), help,
\* vrfy, expn, rset, starttls: one line, then its reply.
Command ==
    /\ Ready
    /\ Write("command")
    /\ UNCHANGED <<stream, enc, tmo, authLeft, res, conns, srvOpen, toClient, drops, ghostVars>>

\* message: the escaped content and MESSAGE_ENDING, then the reply.
Message ==
    /\ Ready
    /\ Write("message")
    /\ UNCHANGED <<stream, enc, tmo, authLeft, res, conns, srvOpen, toClient, drops, ghostVars>>

\* auth(mechanism, ...): with an initial response (PLAIN) one command;
\* otherwise "AUTH <mechanism>", and the challenge loop in AuthStep.
Auth(initial) ==
    /\ Ready
    /\ Write(IF initial THEN "auth_init" ELSE "auth_start")
    /\ UNCHANGED <<stream, enc, tmo, authLeft, res, conns, srvOpen, toClient, drops, ghostVars>>

\* close: `let _ = self.quit();` then the stream is dropped.
Close ==
    /\ Ready
    /\ Write("close")
    /\ stream' = IF pc' = "idle" THEN "none" ELSE stream
    /\ UNCHANGED <<enc, tmo, authLeft, res, conns, srvOpen, toClient, drops, ghostVars>>

\* get_reply returns r: auth() goes on after an Ok reply, close() drops the
\* stream, every other method returns the reply's result.
Finish(r) ==
    /\ res' = r
    /\ pc' = IF op \in {"auth_start", "auth_loop"} /\ r = "ok" THEN "step" ELSE "idle"
    /\ stream' = IF op = "close" THEN "none" ELSE stream
    /\ out' = CASE pc' = "step"               -> out
                 [] r = "ok" \/ op = "close"    -> "ok"
                 [] OTHER                       -> "err"

\* Variant: no timeout, the read blocks until a line or the end of stream.
ReadLineBlocking ==
    /\ pc = "read"
    /\ \/ /\ toClient # <<>>
          /\ LET l == Head(toClient) IN
             \/ /\ pcode # 0 /\ l.code # pcode
                /\ faulted' = TRUE
                /\ Finish("err")
                /\ UNCHANGED <<pcode, first, got>>
             \/ /\ pcode = 0 \/ l.code = pcode
                /\ pcode' = l.code
                /\ first' = IF first = None /\ LineLen(l) > 4 THEN l.text ELSE first
                /\ got' = Append(got, l.for)
                /\ IF More(l)
                     THEN UNCHANGED <<pc, stream, res, out>>
                     ELSE Finish(IF IsPositive(l.code) THEN "ok" ELSE "neg")
                /\ UNCHANGED faulted
          /\ toClient' = Tail(toClient)
       \/ /\ toClient = <<>> /\ ~srvOpen
          /\ faulted' = TRUE
          /\ Finish("err")
          /\ UNCHANGED <<toClient, pcode, first, got>>
    /\ UNCHANGED <<enc, tmo, op, authLeft, cur, cmdId, conns, srvOpen, toServer, drops, shortCont>>

\* One turn of get_reply's loop: read_line from the stream, then
\* parser.read_line on it.  A line whose code differs from the first is an
\* error (it is consumed); at the end of the stream read_line gives "",
\* shorter than a code, an error; with no line yet and a read timeout set
\* the read fails; with none set it blocks (no step).
ReadLine ==
    /\ pc = "read"
    /\ \/ /\ toClient # <<>>
          /\ LET l == Head(toClient) IN
             \/ /\ pcode # 0 /\ l.code # pcode
                /\ faulted' = TRUE
                /\ Finish("err")
                /\ UNCHANGED <<pcode, first, got>>
             \/ /\ pcode = 0 \/ l.code = pcode
                /\ pcode' = l.code
                /\ first' = IF first = None /\ LineLen(l) > 4 THEN l.text ELSE first
                /\ got' = Append(got, l.for)
                /\ IF More(l)
                     THEN UNCHANGED <<pc, stream, res, out>>
                     ELSE Finish(IF IsPositive(l.code) THEN "ok" ELSE "neg")
                /\ UNCHANGED faulted
          /\ toClient' = Tail(toClient)
       \/ /\ toClient = <<>>
          /\ ~srvOpen \/ tmo
          /\ faulted' = TRUE
          /\ Finish("err")
          /\ UNCHANGED <<toClient, pcode, first, got>>
    /\ UNCHANGED <<enc, tmo, op, authLeft, cur, cmdId, conns, srvOpen, toServer, drops, shortCont>>

\* Return from auth() to the caller.
AuthReturn(r) ==
    /\ pc' = "idle" /\ out' = r
    /\ UNCHANGED <<op, cmdId, toServer, pcode, first, got, cur>>

\* Variant: the loop runs while challenge_expected >= 0.
AuthStepOffByOne ==
    /\ pc = "step"
    /\ \/ /\ op = "auth_start"
          /\ \/ /\ first \in {None} \cup (Texts \ {"c"}) /\ AuthReturn("err") /\ UNCHANGED authLeft
             \/ /\ first = "c" /\ authLeft' = ChallengeExpected /\ Write("auth_loop")
       \/ /\ op = "auth_loop"
          /\ \/ /\ ~HasCode(pcode, 334) /\ AuthReturn("ok") /\ UNCHANGED authLeft
             \/ /\ HasCode(pcode, 334) /\ authLeft - 1 >= 0
                /\ authLeft' = authLeft - 1 /\ Write("auth_loop")
             \/ /\ HasCode(pcode, 334) /\ authLeft - 1 < 0 /\ authLeft' = 0 /\ AuthReturn("err")
    /\ UNCHANGED <<stream, enc, tmo, res, conns, srvOpen, toClient, drops, ghostVars>>

\* auth() after an Ok reply.  After "AUTH <mechanism>": first_word of the
\* message, None -> Err; base64 and UTF-8 decoding of it, failure -> Err;
\* else the loop: send the mechanism's response to the decoded challenge
\* (the same challenge every time), return the reply unless it is 334,
\* give up with Err after challenge_expected 334 replies.
AuthStep ==
    /\ pc = "step"
    /\ \/ /\ op = "auth_start"
          /\ \/ /\ first \in {None} \cup (Texts \ {"c"}) /\ AuthReturn("err") /\ UNCHANGED authLeft
             \/ /\ first = "c" /\ authLeft' = ChallengeExpected /\ Write("auth_loop")
       \/ /\ op = "auth_loop"
          /\ \/ /\ ~HasCode(pcode, 334) /\ AuthReturn("ok") /\ UNCHANGED authLeft
             \/ /\ HasCode(pcode, 334) /\ authLeft - 1 > 0
                /\ authLeft' = authLeft - 1 /\ Write("auth_loop")
             \/ /\ HasCode(pcode, 334) /\ authLeft - 1 = 0 /\ authLeft' = 0 /\ AuthReturn("err")
    /\ UNCHANGED <<stream, enc, tmo, res, conns, srvOpen, toClient, drops, ghostVars>>

\* The server answers its oldest unanswered command with any reply.
ServerReply ==
    /\ srvOpen /\ toServer # <<>>
    /\ \E r \in Replies \cup MixedReplies :
          /\ toClient' = toClient \o [i \in DOMAIN r |-> [code |-> r[i].code, sep |-> r[i].sep, text |-> r[i].text, for |-> Head(toServer)]]
          /\ shortCont' = (shortCont \/ \E i \in 1..Len(r) - 1 : LineLen(r[i]) <= 4)
    /\ toServer' = Tail(toServer)
    /\ UNCHANGED <<clientVars, srvOpen, drops, faulted>>

\* The server closes the connection; what it wrote stays readable.
ServerDrop ==
    /\ srvOpen /\ drops < MaxDrops
    /\ srvOpen' = FALSE /\ toServer' = <<>> /\ drops' = drops + 1
    /\ UNCHANGED <<clientVars, toClient, ghostVars>>

\* No more calls: the caller is done with the client.
Done == pc = "idle" /\ cmdId >= MaxCmds /\ UNCHANGED vars

ClientStep == ReadLine \/ AuthStep

Caller ==
    \/ \E tls \in BOOLEAN : Connect(tls)
    \/ \E d \in BOOLEAN : SetTimeout(d)
    \/ UpgradeTls \/ Command \/ Message \/ Close
    \/ \E initial \in BOOLEAN : Auth(initial)

Server == ServerReply \/ ServerDrop

Next == Caller \/ ClientStep \/ Server \/ Done

\* The client thread runs whenever it can; the server and the caller need
\* no fairness: a read with a timeout returns without them.
Spec == Init /\ [][Next]_vars /\ WF_vars(ClientStep)

-----------------------------------------------------------------------------

Lines == [code : Codes, sep : Seps, text : Texts \cup {None}, for : 0..MaxCmds + ChallengeExpected]

TypeOK ==
    /\ stream \in {"none", "open"} /\ enc \in BOOLEAN /\ tmo \in BOOLEAN
    /\ pc \in {"idle", "read", "step"}
    /\ op \in {None, "connect", "command", "message", "auth_init", "auth_start", "auth_loop", "close"}
    /\ authLeft \in 0..ChallengeExpected
    /\ pcode \in {0} \cup Codes /\ first \in {None} \cup Texts
    /\ got \in Seq(0..MaxCmds + ChallengeExpected)
    /\ res \in {None, "ok", "neg", "err"} /\ out \in {None, "ok", "err"}
    /\ cmdId \in 0..MaxCmds + ChallengeExpected /\ conns \in 0..MaxConns
    /\ srvOpen \in BOOLEAN /\ toServer \in Seq(1..MaxCmds + ChallengeExpected)
    /\ toClient \in Seq(Lines) /\ drops \in 0..MaxDrops

\* get_reply returned a Response (Ok, or Err(response)) for command cur,
\* and it is the whole reply the server wrote for cur: every line read
\* was written for cur, and no line written for cur is left in the stream.
ReplyIsWholeAnswer ==
    /\ got # <<>> /\ \A i \in DOMAIN got : got[i] = cur
    /\ \A j \in DOMAIN toClient : toClient[j].for # cur

\* Until a read on the connection fails (a timeout, the end of the stream,
\* a changed code) and as long as the server writes no continuation line
\* without text, every reply get_reply returns is the whole answer to the
\* command just written: the client and the server stay in step across
\* any sequence of calls, the auth() challenge loop and server drops.
InSyncUntilFault ==
    pc # "read" /\ res \in {"ok", "neg"} /\ ~faulted /\ ~shortCont => ReplyIsWholeAnswer

\* With a read timeout set, every call returns, whatever the server does:
\* get_reply's loop and auth()'s challenge loop end.
OperationsReturn == (tmo /\ pc # "idle") ~> (pc = "idle")

=============================================================================
