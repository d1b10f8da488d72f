---------------------------- MODULE SmtpSession ----------------------------
(***************************************************************************)
(* The SMTP client session, SmtpConnection in                              *)
(* src/src/transport/smtp/client/connection.rs, talking to an SMTP server  *)
(* over one stream.  The client blocks on every reply (command() writes a  *)
(* line, then read_response()), but the server answers at its own pace:    *)
(* a read may time out before the reply arrives, the reply then stays in   *)
(* the stream, and the server may drop the connection at any time.         *)
(*                                                                         *)
(* Data is abstracted to what the client decides on: a reply is its code   *)
(* (plus, for EHLO, the parsed feature set), a command is its verb (plus   *)
(* the MAIL parameters and, for the message content, the message id).      *)
(* The server is a nondeterministic RFC 5321/3207/4954 server; it is the   *)
(* environment, not code of this repository.  The caller is the transport  *)
(* or pool that owns the session (not under src/): connect, then at most   *)
(* one STARTTLS and one AUTH, then sends and NOOPs, then QUIT; it drops the *)
(* session after an error, except after a send error when has_broken() is  *)
(* false, as a pool does.                                                  *)
(***************************************************************************)
EXTENDS Integers, Sequences, FiniteSets, ReplyCode

CONSTANTS
    MaxSends,       \* messages the caller submits on one session
    MaxRcpts,       \* largest forward-path of an envelope
    MaxChallenges,  \* `let mut challenges = 10;` in auth()
    MechSteps,      \* responses a SASL mechanism sends after its initial one
    MaxFaults       \* connections the server drops with 421

ASSUME /\ MaxSends \in Nat /\ MaxRcpts \in Nat \ {0}
       /\ MaxChallenges \in Nat /\ MechSteps \subseteq Nat /\ MaxFaults \in Nat

Features   == {"STARTTLS", "SMTPUTF8", "8BITMIME", "AUTH"}
MailParams == {"SMTPUTF8", "8BITMIME"}
Verbs      == {"EHLO", "STARTTLS", "AUTH", "SASL", "MAIL", "RCPT", "DATA",
               "BODY", "NOOP", "QUIT"}
Codes      == {220, 221, 235, 250, 334, 354, 421, 454, 500, 503, 535, 550, 554}

Commands == [verb : Verbs, params : SUBSET MailParams, id : 0..MaxSends]
Replies  == [code : Codes, caps : SUBSET Features]
Ops      == {"none", "connect", "send", "starttls", "auth", "noop", "quit", "set_timeout"}
Results  == {"none", "ok", "code", "io", "client", "tls", "challenges"}

Cmd(v)   == [verb |-> v, params |-> {}, id |-> 0]
Reply(c) == [code |-> c, caps |-> {}]

VARIABLES
    pc,          \* where the client thread is
    op,          \* the public method of SmtpConnection in progress
    panic,       \* SmtpConnection.panic, what has_broken() returns
    serverInfo,  \* SmtpConnection.server_info, as its feature set
    challenges,  \* auth(): challenges still allowed
    mech,        \* auth(): responses the SASL mechanism still has to send
    rcptLeft,    \* send(): recipients whose RCPT is still to be written
    msg,         \* sends started so far; the id of the current message
    authTried,   \* the caller has called auth()
    delivered,   \* ids of messages for which send() returned Ok
    outcome,     \* the last result returned to the caller
    srv,         \* server: "idle", "greet", "cmd", "sasl", "body", "tls", "closed"
    srvEhlo,     \* server: EHLO received on the current channel
    srvTx,       \* server: mail transaction "none", "mail", "rcpt"
    srvAuthed,   \* server: the client is authenticated
    caps,        \* server: features it advertises, per channel encryption
    accepted,    \* server: ids of messages it accepted with 250
    toServer,    \* bytes written by the client, not yet read by the server
    toClient,    \* replies written by the server, not yet read by the client
    encrypted,   \* the stream is TLS (NetworkStream::is_encrypted)
    faults,      \* connections the server dropped
    timeout      \* the stream has read/write timeouts (connect's Option<Duration>)

clientVars == <<pc, op, panic, serverInfo, challenges, mech, rcptLeft, msg, authTried>>
ghostVars  == <<delivered, outcome>>
serverVars == <<srv, srvEhlo, srvTx, srvAuthed, caps, accepted>>
netVars    == <<toServer, toClient, encrypted, faults, timeout>>
vars       == <<clientVars, ghostVars, serverVars, netVars>>

-----------------------------------------------------------------------------
(* Replies and the stream, as read_response() and write() see them.        *)

\* Response::is_positive: the first digit is 2 or 3.
IsPositive(code) == code \div 100 \in {2, 3}

\* Response::has_code: the code's text equals the text of the number c.
HasCode(r, c) == CodeDigits(r.code) = DecimalDigits(c)

\* write(): the line goes into the stream; once the server has closed its
\* side, the bytes are lost (the read that follows fails).
Write(c) == toServer' = IF srv = "closed" THEN toServer ELSE Append(toServer, c)

\* read_response() returns the reply at the head of the stream, Ok when it
\* is positive and Err(code) when it is not.
Recv(pos) ==
    /\ toClient # <<>>
    /\ IsPositive(Head(toClient).code) = pos
    /\ toClient' = Tail(toClient)

\* Variant: the stream's timeouts are never applied, so a read only
\* returns at end of stream.
RecvFailsBlocking ==
    /\ toClient = <<>>
    /\ srv = "closed"
    /\ UNCHANGED toClient

\* read_response() fails without a reply: the read timeout fires while the
\* server is silent, or the stream ends ("incomplete response").  Without
\* a timeout the read blocks until the server writes or closes.
RecvFails ==
    /\ toClient = <<>>
    /\ timeout \/ srv = "closed"
    /\ UNCHANGED toClient

\* An Err from read_response(): a negative code, or an I/O error.
RecvErr(res) ==
    \/ Recv(FALSE) /\ res = "code"
    \/ RecvFails /\ res = "io"

\* The method returns res to the caller, which goes on at `next`.
Return(res, next) ==
    /\ outcome' = [op |-> op, res |-> res]
    /\ pc' = next

\* Variant: an error propagated with `?` instead of try_smtp!: no abort(),
\* has_broken() stays false and the caller goes on with the session.
AbortWithoutQuit(res) ==
    /\ Return(res, "idle")
    /\ UNCHANGED <<panic, toServer>>

\* try_smtp! on an Err: abort(), which sets panic and, since the session was
\* not broken before (the caller never uses a broken session), writes QUIT
\* and reads a reply, then shuts the stream down; the error is returned to
\* the caller, which drops the session.
Abort(res) ==
    /\ outcome' = [op |-> op, res |-> res]
    /\ ~panic
    /\ panic' = TRUE
    /\ Write(Cmd("QUIT"))
    /\ pc' = "abort"

\* abort(): the reply to its QUIT, whatever it is, then shutdown(Both).
AbortDone ==
    /\ pc = "abort"
    /\ \/ toClient # <<>> /\ toClient' = Tail(toClient)
       \/ RecvFails
    /\ pc' = "closed"
    /\ UNCHANGED <<op, panic, serverInfo, challenges, mech, rcptLeft, msg, authTried>>
    /\ UNCHANGED <<ghostVars, serverVars, toServer, encrypted, faults, timeout>>

-----------------------------------------------------------------------------
(* SmtpConnection::connect: open the stream (implicit TLS when TLS         *)
(* parameters are given), set the timeouts, read the greeting, EHLO.       *)

Connect ==
    /\ pc = "start"
    /\ op' = "connect"
    /\ \/ /\ \E tls \in BOOLEAN : encrypted' = tls
          /\ \E t \in BOOLEAN : timeout' = t
          /\ srv' = "greet"
          /\ pc' = "greet"
          /\ UNCHANGED outcome
       \/ /\ Return("io", "closed")
          /\ UNCHANGED <<srv, encrypted, timeout>>
    /\ UNCHANGED <<panic, serverInfo, challenges, mech, rcptLeft, msg, authTried>>
    /\ UNCHANGED <<delivered, srvEhlo, srvTx, srvAuthed, caps, accepted>>
    /\ UNCHANGED <<toServer, toClient, faults>>

\* `let _response = conn.read_response()?;` then `conn.ehlo(hello_name)?;`
\* An error here drops the connection without QUIT.
RecvGreeting ==
    /\ pc = "greet"
    /\ \/ /\ Recv(TRUE)
          /\ Write(Cmd("EHLO"))
          /\ pc' = "ehlo"
          /\ UNCHANGED outcome
       \/ /\ \E res \in {"code", "io"} : RecvErr(res) /\ Return(res, "closed")
          /\ UNCHANGED toServer
    /\ UNCHANGED <<op, panic, serverInfo, challenges, mech, rcptLeft, msg, authTried>>
    /\ UNCHANGED <<delivered, serverVars, encrypted, faults, timeout>>

\* ehlo(): server_info is replaced by the features of the EHLO reply.
RecvEhlo ==
    /\ pc = "ehlo"
    /\ \/ /\ Recv(TRUE)
          /\ serverInfo' = Head(toClient).caps
          /\ Return("ok", "idle")
          /\ UNCHANGED <<panic, toServer>>
       \/ /\ \E res \in {"code", "io"} : RecvErr(res) /\ Abort(res)
          /\ UNCHANGED serverInfo
    /\ UNCHANGED <<op, challenges, mech, rcptLeft, msg, authTried>>
    /\ UNCHANGED <<delivered, serverVars, encrypted, faults, timeout>>

-----------------------------------------------------------------------------
(* SmtpConnection::send                                                    *)

\* The MAIL parameters send() puts in mail_options.
MailOptions(utf8, eight) ==
    (IF utf8 THEN {"SMTPUTF8"} ELSE {}) \cup (IF eight THEN {"8BITMIME"} ELSE {})

\* send(): the SMTPUTF8 and 8BITMIME checks against server_info, then MAIL.
\* utf8: the envelope has non-ASCII addresses; eight: the message is not
\* ASCII; n: the number of recipients.
Send ==
    /\ pc = "idle"
    /\ msg < MaxSends
    /\ msg' = msg + 1
    /\ op' = "send"
    /\ \E utf8, eight \in BOOLEAN, n \in 1..MaxRcpts :
         \/ /\ utf8 /\ "SMTPUTF8" \notin serverInfo
            /\ outcome' = [op |-> "send", res |-> "client"]
            /\ UNCHANGED <<pc, rcptLeft, toServer>>
         \/ /\ utf8 => "SMTPUTF8" \in serverInfo
            /\ eight /\ "8BITMIME" \notin serverInfo
            /\ outcome' = [op |-> "send", res |-> "client"]
            /\ UNCHANGED <<pc, rcptLeft, toServer>>
         \/ /\ utf8 => "SMTPUTF8" \in serverInfo
            /\ eight => "8BITMIME" \in serverInfo
            /\ Write([verb |-> "MAIL", params |-> MailOptions(utf8, eight), id |-> 0])
            /\ rcptLeft' = n
            /\ pc' = "mail"
            /\ UNCHANGED outcome
    /\ UNCHANGED <<panic, serverInfo, challenges, mech, authTried>>
    /\ UNCHANGED <<delivered, serverVars, toClient, encrypted, faults, timeout>>

\* The reply to MAIL: the first RCPT.
RecvMail ==
    /\ pc = "mail"
    /\ \/ /\ Recv(TRUE)
          /\ Write(Cmd("RCPT"))
          /\ rcptLeft' = rcptLeft - 1
          /\ pc' = "rcpt"
          /\ UNCHANGED <<outcome, panic>>
       \/ /\ \E res \in {"code", "io"} : RecvErr(res) /\ Abort(res)
          /\ UNCHANGED rcptLeft
    /\ UNCHANGED <<op, serverInfo, challenges, mech, msg, authTried>>
    /\ UNCHANGED <<delivered, serverVars, encrypted, faults, timeout>>

\* Variant: one RCPT too many, the loop bound off by one.
RecvRcptOffByOne ==
    /\ pc = "rcpt"
    /\ Recv(TRUE)
    /\ rcptLeft >= 0
    /\ Write(Cmd("RCPT"))
    /\ rcptLeft' = rcptLeft - 1
    /\ UNCHANGED <<pc, outcome, panic>>
    /\ UNCHANGED <<op, serverInfo, challenges, mech, msg, authTried>>
    /\ UNCHANGED <<delivered, serverVars, encrypted, faults, timeout>>

\* The reply to a RCPT: the next RCPT, or DATA after the last one.
RecvRcpt ==
    /\ pc = "rcpt"
    /\ \/ /\ Recv(TRUE)
          /\ rcptLeft > 0
          /\ Write(Cmd("RCPT"))
          /\ rcptLeft' = rcptLeft - 1
          /\ UNCHANGED <<pc, outcome, panic>>
       \/ /\ Recv(TRUE)
          /\ rcptLeft = 0
          /\ Write(Cmd("DATA"))
          /\ pc' = "data"
          /\ UNCHANGED <<rcptLeft, outcome, panic>>
       \/ /\ \E res \in {"code", "io"} : RecvErr(res) /\ Abort(res)
          /\ UNCHANGED rcptLeft
    /\ UNCHANGED <<op, serverInfo, challenges, mech, msg, authTried>>
    /\ UNCHANGED <<delivered, serverVars, encrypted, faults, timeout>>

\* Variant: the reply to DATA is not checked for a positive code.
RecvDataAnyReply ==
    /\ pc = "data"
    /\ toClient # <<>>
    /\ toClient' = Tail(toClient)
    /\ Write([verb |-> "BODY", params |-> {}, id |-> msg])
    /\ pc' = "body"
    /\ UNCHANGED <<outcome, panic>>
    /\ UNCHANGED <<op, serverInfo, challenges, mech, rcptLeft, msg, authTried>>
    /\ UNCHANGED <<delivered, serverVars, encrypted, faults, timeout>>

\* The reply to DATA: message() writes the encoded content and the
\* terminator in one go.
RecvData ==
    /\ pc = "data"
    /\ \/ /\ Recv(TRUE)
          /\ Write([verb |-> "BODY", params |-> {}, id |-> msg])
          /\ pc' = "body"
          /\ UNCHANGED <<outcome, panic>>
       \/ /\ \E res \in {"code", "io"} : RecvErr(res) /\ Abort(res)
    /\ UNCHANGED <<op, serverInfo, challenges, mech, rcptLeft, msg, authTried>>
    /\ UNCHANGED <<delivered, serverVars, encrypted, faults, timeout>>

\* Variant: message() returns once the content is written, without
\* reading the server's verdict.
MessageWithoutReply ==
    /\ pc = "body"
    /\ delivered' = delivered \cup {msg}
    /\ Return("ok", "idle")
    /\ UNCHANGED <<op, panic, serverInfo, challenges, mech, rcptLeft, msg, authTried>>
    /\ UNCHANGED <<serverVars, netVars>>

\* Variant: the reply to the content read with `?` instead of try_smtp!:
\* an Err is returned without abort() and the session stays usable.
RecvBodyPropagates ==
    /\ pc = "body"
    /\ \/ /\ Recv(TRUE)
          /\ delivered' = delivered \cup {msg}
          /\ Return("ok", "idle")
       \/ /\ \E res \in {"code", "io"} : RecvErr(res) /\ Return(res, "idle")
          /\ UNCHANGED delivered
    /\ UNCHANGED <<op, panic, serverInfo, challenges, mech, rcptLeft, msg, authTried>>
    /\ UNCHANGED <<serverVars, toServer, encrypted, faults, timeout>>

\* The reply to the message content is the result of send().
RecvBody ==
    /\ pc = "body"
    /\ \/ /\ Recv(TRUE)
          /\ delivered' = delivered \cup {msg}
          /\ Return("ok", "idle")
          /\ UNCHANGED <<panic, toServer>>
       \/ /\ \E res \in {"code", "io"} : RecvErr(res) /\ Abort(res)
          /\ UNCHANGED delivered
    /\ UNCHANGED <<op, serverInfo, challenges, mech, rcptLeft, msg, authTried>>
    /\ UNCHANGED <<serverVars, encrypted, faults, timeout>>

-----------------------------------------------------------------------------
(* SmtpConnection::starttls, called by the caller before auth and sends.   *)

StartTls ==
    /\ pc = "idle"
    /\ ~encrypted /\ ~authTried /\ msg = 0
    /\ op' = "starttls"
    /\ \/ /\ "STARTTLS" \in serverInfo
          /\ Write(Cmd("STARTTLS"))
          /\ pc' = "starttls"
          /\ UNCHANGED outcome
       \/ /\ "STARTTLS" \notin serverInfo
          /\ outcome' = [op |-> "starttls", res |-> "client"]
          /\ pc' = "closed"
          /\ UNCHANGED toServer
    /\ UNCHANGED <<panic, serverInfo, challenges, mech, rcptLeft, msg, authTried>>
    /\ UNCHANGED <<delivered, serverVars, toClient, encrypted, faults, timeout>>

RecvStarttls ==
    /\ pc = "starttls"
    /\ \/ /\ Recv(TRUE)
          /\ pc' = "handshake"
          /\ UNCHANGED <<outcome, panic, toServer>>
       \/ /\ \E res \in {"code", "io"} : RecvErr(res) /\ Abort(res)
    /\ UNCHANGED <<op, serverInfo, challenges, mech, rcptLeft, msg, authTried>>
    /\ UNCHANGED <<delivered, serverVars, encrypted, faults, timeout>>

Handshake ==
    /\ pc = "handshake"
    /\ \/ /\ srv = "tls"
          /\ encrypted' = TRUE
          /\ srv' = "cmd"
          /\ srvEhlo' = FALSE
          /\ srvTx' = "none"
          /\ Write(Cmd("EHLO"))
          /\ pc' = "ehlo"
          /\ UNCHANGED outcome
       \/ /\ Return("tls", "closed")
          /\ UNCHANGED <<encrypted, srv, srvEhlo, srvTx, toServer>>
    /\ UNCHANGED <<op, panic, serverInfo, challenges, mech, rcptLeft, msg, authTried>>
    /\ UNCHANGED <<delivered, srvAuthed, caps, accepted, toClient, faults, timeout>>

-----------------------------------------------------------------------------
(* SmtpConnection::auth, called by the caller before any send.             *)

\* start_suggested_iter() over the server's mechanisms, Auth::initial(),
\* then the AUTH line.  No mechanism, or no initial step: Err, nothing sent.
StartAuth ==
    /\ pc = "idle"
    /\ ~authTried /\ msg = 0
    /\ authTried' = TRUE
    /\ op' = "auth"
    /\ \/ /\ "AUTH" \in serverInfo
          /\ \E n \in MechSteps : mech' = n
          /\ challenges' = MaxChallenges
          /\ Write(Cmd("AUTH"))
          /\ pc' = "auth"
          /\ UNCHANGED outcome
       \/ /\ outcome' = [op |-> "auth", res |-> "client"]
          /\ pc' = "closed"
          /\ UNCHANGED <<mech, challenges, toServer>>
    /\ UNCHANGED <<panic, serverInfo, rcptLeft, msg>>
    /\ UNCHANGED <<delivered, serverVars, toClient, encrypted, faults, timeout>>

\* The loop `while response.has_code(334)` and what follows it, for a
\* positive reply r.  The mechanism is finished when mech = 0.
AuthReply(r) ==
    \/ /\ HasCode(r, 334)
       /\ challenges = 0 \/ mech = 0
       /\ Return("challenges", "closed")
       /\ UNCHANGED <<challenges, mech, toServer>>
    \/ /\ HasCode(r, 334)
       /\ challenges > 0 /\ mech > 0
       /\ challenges' = challenges - 1
       /\ \/ /\ mech' = mech - 1
             /\ Write(Cmd("SASL"))
             /\ pc' = "authStep"
             /\ UNCHANGED outcome
          \/ /\ Return("client", "closed")
             /\ UNCHANGED <<mech, toServer>>
    \/ /\ ~HasCode(r, 334)
       /\ \/ Return("ok", "idle")
          \/ mech > 0 /\ Return("client", "closed")
       /\ UNCHANGED <<challenges, mech, toServer>>

\* The reply to the AUTH line: `self.command(cmd)?`, no abort().
RecvAuth ==
    /\ pc = "auth"
    /\ \/ /\ Recv(TRUE)
          /\ AuthReply(Head(toClient))
       \/ /\ \E res \in {"code", "io"} : RecvErr(res) /\ Return(res, "closed")
          /\ UNCHANGED <<challenges, mech, toServer>>
    /\ UNCHANGED <<op, panic, serverInfo, rcptLeft, msg, authTried>>
    /\ UNCHANGED <<delivered, serverVars, encrypted, faults, timeout>>

\* The reply to a SASL response: try_smtp!, so an Err aborts.
RecvAuthStep ==
    /\ pc = "authStep"
    /\ \/ /\ Recv(TRUE)
          /\ AuthReply(Head(toClient))
          /\ UNCHANGED panic
       \/ /\ \E res \in {"code", "io"} : RecvErr(res) /\ Abort(res)
          /\ UNCHANGED <<challenges, mech>>
    /\ UNCHANGED <<op, serverInfo, rcptLeft, msg, authTried>>
    /\ UNCHANGED <<delivered, serverVars, encrypted, faults, timeout>>

-----------------------------------------------------------------------------
(* set_timeout(duration), called by the caller between operations.         *)

\* set_read_timeout then set_write_timeout with the same duration: None
\* clears the timeouts, a positive duration sets them, and a zero duration
\* is refused by the first call (InvalidInput) and changes nothing.
SetTimeout ==
    /\ pc = "idle"
    /\ op' = "set_timeout"
    /\ \E d \in {"none", "positive", "zero"} :
         \/ d = "none"     /\ timeout' = FALSE /\ outcome' = [op |-> "set_timeout", res |-> "ok"]
         \/ d = "positive" /\ timeout' = TRUE  /\ outcome' = [op |-> "set_timeout", res |-> "ok"]
         \/ d = "zero"     /\ UNCHANGED timeout /\ outcome' = [op |-> "set_timeout", res |-> "io"]
    /\ UNCHANGED <<pc, panic, serverInfo, challenges, mech, rcptLeft, msg, authTried>>
    /\ UNCHANGED <<delivered, serverVars, toServer, toClient, encrypted, faults>>

-----------------------------------------------------------------------------
(* test_connected() and quit()                                             *)

\* test_connected(): NOOP, true when the reply is Ok.  No abort(); a pool
\* discards a session that fails it.
TestConnected ==
    /\ pc = "idle"
    /\ op' = "noop"
    /\ Write(Cmd("NOOP"))
    /\ pc' = "noop"
    /\ UNCHANGED <<panic, serverInfo, challenges, mech, rcptLeft, msg, authTried>>
    /\ UNCHANGED <<ghostVars, serverVars, toClient, encrypted, faults, timeout>>

RecvNoop ==
    /\ pc = "noop"
    /\ \/ Recv(TRUE) /\ Return("ok", "idle")
       \/ \E res \in {"code", "io"} : RecvErr(res) /\ Return(res, "closed")
    /\ UNCHANGED <<op, panic, serverInfo, challenges, mech, rcptLeft, msg, authTried>>
    /\ UNCHANGED <<delivered, serverVars, toServer, encrypted, faults, timeout>>

\* quit(): try_smtp!(self.command(Quit)); the caller then drops the session.
Quit ==
    /\ pc = "idle"
    /\ op' = "quit"
    /\ Write(Cmd("QUIT"))
    /\ pc' = "quit"
    /\ UNCHANGED <<panic, serverInfo, challenges, mech, rcptLeft, msg, authTried>>
    /\ UNCHANGED <<ghostVars, serverVars, toClient, encrypted, faults, timeout>>

RecvQuit ==
    /\ pc = "quit"
    /\ \/ /\ Recv(TRUE)
          /\ Return("ok", "closed")
          /\ UNCHANGED <<panic, toServer>>
       \/ \E res \in {"code", "io"} : RecvErr(res) /\ Abort(res)
    /\ UNCHANGED <<op, serverInfo, challenges, mech, rcptLeft, msg, authTried>>
    /\ UNCHANGED <<delivered, serverVars, encrypted, faults, timeout>>

-----------------------------------------------------------------------------
(* The server: reads one line at a time and answers it according to its   *)
(* own state.  Not code of this repository.                                *)

\* The server consumes the head line, a v command, and replies r.
Answers(v, r) ==
    /\ toServer # <<>>
    /\ Head(toServer).verb = v
    /\ toServer' = Tail(toServer)
    /\ toClient' = Append(toClient, r)

ServerGreet ==
    /\ srv = "greet"
    /\ \E code \in {220, 554} : toClient' = Append(toClient, Reply(code))
    /\ srv' = "cmd"
    /\ UNCHANGED <<clientVars, ghostVars, srvEhlo, srvTx, srvAuthed, caps, accepted>>
    /\ UNCHANGED <<toServer, encrypted, faults, timeout>>

ServerEhlo ==
    /\ srv = "cmd"
    /\ \/ /\ Answers("EHLO", [code |-> 250, caps |-> caps[encrypted]])
          /\ srvEhlo' = TRUE
          /\ srvTx' = "none"
       \/ /\ Answers("EHLO", Reply(550))
          /\ UNCHANGED <<srvEhlo, srvTx>>
    /\ UNCHANGED <<clientVars, ghostVars, srv, srvAuthed, caps, accepted, encrypted, faults, timeout>>

ServerStarttls ==
    /\ srv = "cmd"
    /\ \/ /\ ~encrypted /\ srvEhlo /\ "STARTTLS" \in caps[encrypted]
          /\ Answers("STARTTLS", Reply(220))
          /\ srv' = "tls"
       \/ /\ Answers("STARTTLS", Reply(454))
          /\ UNCHANGED srv
    /\ UNCHANGED <<clientVars, ghostVars, srvEhlo, srvTx, srvAuthed, caps, accepted>>
    /\ UNCHANGED <<encrypted, faults, timeout>>

ServerAuth ==
    /\ srv = "cmd"
    /\ \/ /\ srvEhlo /\ "AUTH" \in caps[encrypted] /\ ~srvAuthed
          /\ \/ Answers("AUTH", Reply(334)) /\ srv' = "sasl" /\ UNCHANGED srvAuthed
             \/ Answers("AUTH", Reply(235)) /\ srvAuthed' = TRUE /\ UNCHANGED srv
       \/ /\ Answers("AUTH", Reply(535))
          /\ UNCHANGED <<srv, srvAuthed>>
    /\ UNCHANGED <<clientVars, ghostVars, srvEhlo, srvTx, caps, accepted>>
    /\ UNCHANGED <<encrypted, faults, timeout>>

\* Any line is the client's SASL response while the server is in SASL mode.
ServerSasl ==
    /\ srv = "sasl"
    /\ toServer # <<>>
    /\ toServer' = Tail(toServer)
    /\ \/ toClient' = Append(toClient, Reply(334)) /\ UNCHANGED <<srv, srvAuthed>>
       \/ toClient' = Append(toClient, Reply(235)) /\ srv' = "cmd" /\ srvAuthed' = TRUE
       \/ toClient' = Append(toClient, Reply(535)) /\ srv' = "cmd" /\ UNCHANGED srvAuthed
    /\ UNCHANGED <<clientVars, ghostVars, srvEhlo, srvTx, caps, accepted>>
    /\ UNCHANGED <<encrypted, faults, timeout>>

ServerMail ==
    /\ srv = "cmd"
    /\ \/ /\ srvEhlo /\ srvTx = "none"
          /\ toServer # <<>> /\ Head(toServer).params \subseteq caps[encrypted]
          /\ Answers("MAIL", Reply(250))
          /\ srvTx' = "mail"
       \/ /\ Answers("MAIL", Reply(550))
          /\ UNCHANGED srvTx
    /\ UNCHANGED <<clientVars, ghostVars, srv, srvEhlo, srvAuthed, caps, accepted>>
    /\ UNCHANGED <<encrypted, faults, timeout>>

ServerRcpt ==
    /\ srv = "cmd"
    /\ \/ /\ srvTx \in {"mail", "rcpt"}
          /\ Answers("RCPT", Reply(250))
          /\ srvTx' = "rcpt"
       \/ /\ Answers("RCPT", Reply(550))
          /\ UNCHANGED srvTx
    /\ UNCHANGED <<clientVars, ghostVars, srv, srvEhlo, srvAuthed, caps, accepted>>
    /\ UNCHANGED <<encrypted, faults, timeout>>

ServerData ==
    /\ srv = "cmd"
    /\ \/ /\ srvTx = "rcpt"
          /\ Answers("DATA", Reply(354))
          /\ srv' = "body"
       \/ /\ Answers("DATA", Reply(554))
          /\ UNCHANGED srv
    /\ UNCHANGED <<clientVars, ghostVars, srvEhlo, srvTx, srvAuthed, caps, accepted>>
    /\ UNCHANGED <<encrypted, faults, timeout>>

\* The message content up to the terminator; the verdict ends the transaction.
ServerBody ==
    /\ srv = "body"
    /\ toServer # <<>> /\ Head(toServer).verb = "BODY"
    /\ toServer' = Tail(toServer)
    /\ \/ /\ toClient' = Append(toClient, Reply(250))
          /\ accepted' = accepted \cup {Head(toServer).id}
       \/ /\ toClient' = Append(toClient, Reply(550))
          /\ UNCHANGED accepted
    /\ srv' = "cmd"
    /\ srvTx' = "none"
    /\ UNCHANGED <<clientVars, ghostVars, srvEhlo, srvAuthed, caps, encrypted, faults, timeout>>

\* A command line written while the server reads message content is content.
ServerAbsorb ==
    /\ srv = "body"
    /\ toServer # <<>> /\ Head(toServer).verb # "BODY"
    /\ toServer' = Tail(toServer)
    /\ UNCHANGED <<clientVars, ghostVars, serverVars, toClient, encrypted, faults, timeout>>

ServerNoop ==
    /\ srv = "cmd"
    /\ Answers("NOOP", Reply(250))
    /\ UNCHANGED <<clientVars, ghostVars, serverVars, encrypted, faults, timeout>>

ServerQuit ==
    /\ srv = "cmd"
    /\ toServer # <<>> /\ Head(toServer).verb = "QUIT"
    /\ toClient' = Append(toClient, Reply(221))
    /\ toServer' = <<>>
    /\ srv' = "closed"
    /\ UNCHANGED <<clientVars, ghostVars, srvEhlo, srvTx, srvAuthed, caps, accepted>>
    /\ UNCHANGED <<encrypted, faults, timeout>>

\* The server gives up on the connection: 421, then close.
ServerDrop ==
    /\ srv \in {"greet", "cmd", "sasl", "body"}
    /\ faults < MaxFaults
    /\ faults' = faults + 1
    /\ toClient' = Append(toClient, Reply(421))
    /\ toServer' = <<>>
    /\ srv' = "closed"
    /\ UNCHANGED <<clientVars, ghostVars, srvEhlo, srvTx, srvAuthed, caps, accepted, encrypted, timeout>>

-----------------------------------------------------------------------------

Init ==
    /\ pc = "start"
    /\ op = "none"
    /\ panic = FALSE
    /\ serverInfo = {}
    /\ challenges = MaxChallenges
    /\ mech = 0
    /\ rcptLeft = 0
    /\ msg = 0
    /\ authTried = FALSE
    /\ delivered = {}
    /\ outcome = [op |-> "none", res |-> "none"]
    /\ srv = "idle"
    /\ srvEhlo = FALSE
    /\ srvTx = "none"
    /\ srvAuthed = FALSE
    /\ caps \in [BOOLEAN -> SUBSET Features]
    /\ "STARTTLS" \notin caps[TRUE]
    /\ accepted = {}
    /\ toServer = <<>>
    /\ toClient = <<>>
    /\ encrypted = FALSE
    /\ faults = 0
    /\ timeout = FALSE

Client ==
    \/ Connect \/ RecvGreeting \/ RecvEhlo
    \/ Send \/ RecvMail \/ RecvRcpt \/ RecvData \/ RecvBody
    \/ StartTls \/ RecvStarttls \/ Handshake
    \/ StartAuth \/ RecvAuth \/ RecvAuthStep
    \/ TestConnected \/ RecvNoop \/ Quit \/ RecvQuit \/ SetTimeout
    \/ AbortDone

Server ==
    \/ ServerGreet \/ ServerEhlo \/ ServerStarttls \/ ServerAuth \/ ServerSasl
    \/ ServerMail \/ ServerRcpt \/ ServerData \/ ServerBody \/ ServerAbsorb
    \/ ServerNoop \/ ServerQuit \/ ServerDrop

\* The session is over once the caller has dropped it.
Done == pc = "closed" /\ UNCHANGED vars

Next == Client \/ Server \/ Done

\* The client thread is never descheduled for good: a step it can take is
\* eventually taken (a read with a timeout returns a reply or times out).
\* The server gets no fairness: it may stop answering at any point.
Spec == Init /\ [][Next]_vars /\ WF_vars(Client)

-----------------------------------------------------------------------------

TypeOK ==
    /\ pc \in {"start", "greet", "ehlo", "idle", "mail", "rcpt", "data", "body",
               "starttls", "handshake", "auth", "authStep", "noop", "quit",
               "abort", "closed"}
    /\ op \in Ops
    /\ panic \in BOOLEAN
    /\ serverInfo \subseteq Features
    /\ challenges \in 0..MaxChallenges
    /\ mech \in Nat
    /\ rcptLeft \in 0..MaxRcpts
    /\ msg \in 0..MaxSends
    /\ authTried \in BOOLEAN
    /\ delivered \subseteq 1..MaxSends
    /\ outcome \in [op : Ops, res : Results]
    /\ srv \in {"idle", "greet", "cmd", "sasl", "body", "tls", "closed"}
    /\ srvEhlo \in BOOLEAN
    /\ srvTx \in {"none", "mail", "rcpt"}
    /\ srvAuthed \in BOOLEAN
    /\ caps \in [BOOLEAN -> SUBSET Features]
    /\ accepted \subseteq 1..MaxSends
    /\ toServer \in Seq(Commands)
    /\ toClient \in Seq(Replies)
    /\ encrypted \in BOOLEAN
    /\ faults \in 0..MaxFaults
    /\ timeout \in BOOLEAN


-----------------------------------------------------------------------------
(* Properties                                                              *)

\* send() returns Ok for a message only after the server accepted that very
\* message: the 250 that RecvBody reads is the server's verdict on this
\* message's content, not a stale reply to an earlier command.
OkMeansAccepted == delivered \subseteq accepted

\* message() writes the content only while the server reads message content
\* (after its 354), and nothing is queued in front of it; otherwise the
\* lines of the message would be executed as commands.
BodyOnlyInDataMode ==
    \A i \in 1..Len(toServer) :
        toServer[i].verb = "BODY" => i = 1 /\ srv = "body"

SessionInSync ==
    pc = "idle" =>
        \/ srv = "cmd" /\ toServer = <<>> /\ toClient = <<>>
        \/ srv = "closed"

\* A message the server has accepted but for which send() did not return Ok
\* (the 250 was lost to a read timeout or a dropped connection, and send()
\* returned Err) is only ever left behind on a broken session: the Err of
\* message() goes through try_smtp!, so has_broken() tells the caller that
\* the outcome is unknown, and a pool does not reuse the session.  Only the
\* message whose verdict the client is still waiting for is exempt.
UnreportedDeliveryBreaks ==
    \A id \in accepted \ delivered :
        panic \/ (id = msg /\ pc = "body")

\* Once the stream has timeouts, every call into SmtpConnection returns,
\* whatever the server does, including never answering.
Busy == {"greet", "ehlo", "mail", "rcpt", "data", "body", "starttls",
         "handshake", "auth", "authStep", "noop", "quit", "abort"}
OperationsReturn == (timeout /\ pc \in Busy) ~> (pc \in {"idle", "closed"})


\* The client steps of a mail transaction, the reads send() makes.
TxSteps == {"mail", "rcpt", "data", "body"}

\* spec: a 4yz/5yz reply during a transaction triggers RSET and keeps the
\* session usable.  send() reads every reply through try_smtp!, so a
\* negative code aborts the session instead.
NegativeReplyKeepsSession ==
    [][(pc \in TxSteps /\ outcome'.res = "code" => ~panic')]_vars


-----------------------------------------------------------------------------
(* Refinement: the session implements the life cycle of spec 4.5.  The     *)
(* caller drops the session after an error, so a session closed by any     *)
(* result but the Ok of quit() is Broken, like one with panic set.          *)

AbsState ==
    CASE panic \/ (pc = "closed" /\ outcome.res # "ok") -> "Broken"
      [] pc \in {"start", "closed"}                       -> "Disconnected"
      [] pc = "greet"                                     -> "Connected"
      [] pc = "ehlo" /\ op = "connect"                    -> "Greeted"
      [] pc \in TxSteps                                   -> "InTransaction"
      [] OTHER                                            -> "Capable"

Abstract == INSTANCE SmtpSessionAbstract
                WITH Ids <- 1..MaxSends, state <- AbsState, tls <- encrypted,
                     authed <- srvAuthed, delivered <- delivered

\* Every behaviour of SmtpConnection and its server is one of the life
\* cycle's: no transaction before EHLO, STARTTLS only on a plain stream
\* before AUTH, a message delivered only by a transaction that completes,
\* and every transaction that fails leaves the session Broken.
RefinesLifeCycle == Abstract!Spec

=============================================================================
