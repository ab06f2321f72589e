----------------------------- MODULE SMTPSender -----------------------------
(***************************************************************************)
(* One call of emailx.SMTPSender.Send (emailx/smtp.go) with the goroutine  *)
(* of closeOnCancellation, the caller's context and an SMTP server that    *)
(* may answer, refuse, stay silent or go away.  Calls of Send share no     *)
(* state, so one call is enough.                                           *)
(*                                                                         *)
(* A message is a record of what Send branches on: its recipients, whether *)
(* it has a text and an HTML body, its headers and, for each attachment,   *)
(* its length in chunks of copyWithContext.                                *)
(***************************************************************************)
EXTENDS Naturals, Sequences

CONSTANTS
    Addresses,   \* what callers write as addresses
    BadAddress,  \* an address that validateAddress refuses
    Messages,    \* the messages that callers send
    Options      \* the SMTPOptions of senders

Message == [from : Addresses, to : Seq(Addresses), cc : Seq(Addresses),
            bcc : Seq(Addresses), replyTo : Seq(Addresses), text : BOOLEAN,
            html : BOOLEAN, headers : STRING,
            attachments : Seq([named : BOOLEAN, hasOpen : BOOLEAN, chunks : Nat])]

ASSUME MessageAssumption == Messages \subseteq Message
ASSUME OptionAssumption ==
    Options \subseteq [implicitTLS : BOOLEAN, allowInsecure : BOOLEAN, auth : BOOLEAN,
                       localhost : BOOLEAN]

VARIABLES
    opts,        \* the sender's options
    message,     \* the argument of Send
    pc,          \* where Send is
    ctx,         \* the caller's context: live, canceled or expired
    watcher,     \* the goroutine of closeOnCancellation
    conn,        \* our end of the connection
    peer,        \* whether the server is still there
    tls,         \* whether the connection is encrypted
    rcpts,       \* the recipients the server has accepted
    part,        \* how many MIME parts have been written
    chunk,       \* how many chunks of the current attachment
    cut,         \* writeMIME has failed
    accepted,    \* what the server has taken for delivery
    opened,      \* the attachments that have been opened, in order
    closed,      \* the attachments that have been closed, in order
    result       \* what Send returns

vars == <<opts, message, pc, ctx, watcher, conn, peer, tls, rcpts, part, chunk,
          cut, accepted, opened, closed, result>>
session == <<watcher, conn, peer, tls, rcpts>>
mime == <<part, chunk, cut, accepted, opened, closed>>
fixed == <<opts, message>>

\* recipients(message): the envelope, blind copies included.
Recipients == message.to \o message.cc \o message.bcc

Elements(s) == {s[i] : i \in DOMAIN s}

\* The MIME parts that writeMIME writes after the headers: the text, the HTML
\* or both as alternatives, then the attachments.
TextParts == (IF message.text THEN 1 ELSE 0) + (IF message.html THEN 1 ELSE 0)
AllParts == TextParts + Len(message.attachments)
Attachment == part - TextParts + 1      \* the index of the one being written

\* validateMessage.
Valid ==
    /\ message.from # BadAddress
    /\ Recipients # <<>>
    /\ BadAddress \notin Elements(Recipients) \cup Elements(message.replyTo)
    /\ message.text \/ message.html
    /\ message.headers = "plain"
    /\ \A i \in DOMAIN message.attachments :
          message.attachments[i].named /\ message.attachments[i].hasOpen

PC == {"validate", "dial", "newClient", "startTLS", "auth", "mail", "rcpt", "data",
       "headers", "parts", "copy", "closeAttachment", "endData", "quit",
       "closeClient", "stopWatcher", "closeConnection", "done"}

TypeOK ==
    /\ opts \in Options /\ message \in Messages
    /\ pc \in PC
    /\ ctx \in {"live", "canceled", "expired"}
    /\ watcher \in {"none", "waiting", "ended"}
    /\ conn \in {"none", "open", "closed"}
    /\ peer \in {"there", "gone"}
    /\ tls \in BOOLEAN /\ cut \in BOOLEAN
    /\ rcpts \in 0 .. Len(Recipients)
    /\ part \in 0 .. AllParts
    /\ chunk \in Nat
    /\ accepted \in {"none", "whole", "cut"}
    /\ opened \in Seq(Nat) /\ closed \in Seq(Nat)
    /\ result \in {"none", "ok", "error"}

Init ==
    /\ opts \in Options /\ message \in Messages
    /\ pc = "validate" /\ ctx \in {"live", "canceled", "expired"}
    /\ watcher = "none" /\ conn = "none" /\ peer = "there" /\ tls = FALSE
    /\ rcpts = 0 /\ part = 0 /\ chunk = 0 /\ cut = FALSE
    /\ accepted = "none" /\ opened = <<>> /\ closed = <<>> /\ result = "none"

----------------------------------------------------------------------------
\* A command can be answered while both ends are up and the deadline of the
\* context, which SetDeadline gives to the connection, has not passed.  When
\* one of these is over it stays so, and a read or write fails for certain.
Reachable == conn = "open" /\ peer = "there" /\ ctx # "expired"
Broken == conn = "closed" \/ peer = "gone" \/ ctx = "expired"

\* A command that the server answers with success.
Answered(here, next) ==
    /\ pc = here
    /\ Reachable
    /\ pc' = next

\* Send returns err: its deferred calls run, last one first.
Fail(label) ==
    /\ pc' = label
    /\ result' = "error"

\* validateMessage.
Validate ==
    /\ pc = "validate"
    /\ IF Valid THEN pc' = "dial" /\ UNCHANGED result ELSE Fail("done")
    /\ UNCHANGED <<fixed, ctx, session, mime>>

\* dial succeeds (implicit TLS ignores the context) and closeOnCancellation
\* starts its goroutine.
Dial ==
    /\ pc = "dial"
    /\ opts.implicitTLS \/ ctx = "live"
    /\ peer = "there"
    /\ conn' = "open"
    /\ tls' = opts.implicitTLS
    /\ watcher' = "waiting"
    /\ pc' = "newClient"
    /\ UNCHANGED <<fixed, ctx, peer, rcpts, mime, result>>

\* dial fails: refused, timed out, or, without implicit TLS, canceled.
DialFails ==
    /\ pc = "dial"
    /\ Fail("done")
    /\ UNCHANGED <<fixed, ctx, session, mime>>

\* smtp.NewClient reads the greeting.
NewClient ==
    /\ Answered("newClient", IF opts.implicitTLS THEN IF opts.auth THEN "auth" ELSE "mail"
                             ELSE "startTLS")
    /\ UNCHANGED <<fixed, ctx, session, mime, result>>

\* Mutant: a server without STARTTLS is accepted whatever AllowInsecure says.
StartTLSOptional ==
    /\ \E upgraded \in BOOLEAN :
          /\ Answered("startTLS", IF opts.auth THEN "auth" ELSE "mail")
          /\ tls' = upgraded
    /\ UNCHANGED <<fixed, ctx, watcher, conn, peer, rcpts, mime, result>>

\* The server offers STARTTLS and the handshake succeeds; or it does not
\* offer it (or does not answer EHLO) and AllowInsecure decides.
StartTLS ==
    /\ \/ /\ Answered("startTLS", IF opts.auth THEN "auth" ELSE "mail")
          /\ tls' = TRUE
          /\ UNCHANGED result
       \/ /\ opts.allowInsecure
          /\ Answered("startTLS", IF opts.auth THEN "auth" ELSE "mail")
          /\ UNCHANGED <<tls, result>>
       \/ /\ ~opts.allowInsecure
          /\ pc = "startTLS"
          /\ Reachable
          /\ Fail("closeClient")
          /\ UNCHANGED tls
    /\ UNCHANGED <<fixed, ctx, watcher, conn, peer, rcpts, mime>>

\* client.Auth; smtp.PlainAuth refuses a clear connection unless it is local.
Auth ==
    /\ \/ /\ tls \/ opts.localhost
          /\ Answered("auth", "mail")
          /\ UNCHANGED result
       \/ /\ ~(tls \/ opts.localhost)
          /\ pc = "auth"
          /\ Fail("closeClient")
    /\ UNCHANGED <<fixed, ctx, session, mime>>

\* client.Mail.
Mail ==
    /\ Answered("mail", "rcpt")
    /\ UNCHANGED <<fixed, ctx, session, mime, result>>

\* Mutant: a refused recipient is skipped.
RcptSkips ==
    /\ Answered("rcpt", "data")
    /\ rcpts' \in {rcpts, rcpts + 1}
    /\ UNCHANGED <<fixed, ctx, watcher, conn, peer, tls, mime, result>>

\* One round of the loop of client.Rcpt over recipients(message).
Rcpt ==
    /\ Answered("rcpt", IF rcpts + 1 = Len(Recipients) THEN "data" ELSE "rcpt")
    /\ rcpts' = rcpts + 1
    /\ UNCHANGED <<fixed, ctx, watcher, conn, peer, tls, mime, result>>

\* client.Data.
Data ==
    /\ Answered("data", "headers")
    /\ UNCHANGED <<fixed, ctx, session, mime, result>>

\* A command is refused, or the connection breaks under it.
CommandFails ==
    /\ pc \in {"newClient", "startTLS", "auth", "mail", "rcpt", "data", "quit"}
    /\ Reachable
    /\ Fail(IF pc = "newClient" THEN "stopWatcher" ELSE "closeClient")
    /\ UNCHANGED <<fixed, ctx, session, mime>>

CommandBreaks ==
    /\ pc \in {"newClient", "startTLS", "auth", "mail", "rcpt", "data", "quit"}
    /\ Broken
    /\ Fail(IF pc = "newClient" THEN "stopWatcher" ELSE "closeClient")
    /\ UNCHANGED <<fixed, ctx, session, mime>>

----------------------------------------------------------------------------
\* writeMIME stops with an error, and writer.Close() is called all the same.
Cut ==
    /\ pc' = "endData"
    /\ cut' = TRUE

\* newMessageID and writeHeaders.  Here and below a write may end in a buffer
\* (bufio.Writer's, then smtp.Client's), so it can succeed on a broken
\* connection; WriteBreaks and CopyStops are the writes that do not.
WriteHeaders ==
    /\ pc = "headers"
    /\ pc' = "parts"
    /\ UNCHANGED <<fixed, ctx, session, mime, result>>

\* writeTextPart or writeQuotedPrintable, whose copyWithContext looks at the
\* context before every read.
WriteText ==
    /\ pc = "parts" /\ part < TextParts
    /\ \/ /\ ctx = "live"
          /\ part' = part + 1
          /\ UNCHANGED <<pc, cut>>
       \/ /\ ctx # "live"
          /\ Cut
          /\ UNCHANGED part
    /\ UNCHANGED <<fixed, ctx, session, chunk, accepted, opened, closed, result>>

\* writeAttachment up to its copy loop: the caller's Open, which may fail.
OpenAttachment ==
    /\ pc = "parts" /\ part >= TextParts /\ part < AllParts
    /\ \/ /\ opened' = Append(opened, Attachment)
          /\ pc' = "copy"
          /\ UNCHANGED cut
       \/ /\ Cut
          /\ UNCHANGED opened
    /\ UNCHANGED <<fixed, ctx, session, part, chunk, accepted, closed, result>>

\* One round of copyWithContext that reads and writes a chunk.
CopyChunk ==
    /\ pc = "copy" /\ ctx = "live"
    /\ chunk < message.attachments[Attachment].chunks
    /\ chunk' = chunk + 1
    /\ UNCHANGED <<fixed, pc, ctx, session, part, cut, accepted, opened, closed, result>>

\* The round that meets io.EOF, and encoder.Close.
CopyDone ==
    /\ pc = "copy" /\ ctx = "live"
    /\ chunk = message.attachments[Attachment].chunks
    /\ pc' = "closeAttachment"
    /\ UNCHANGED <<fixed, ctx, session, mime, result>>

\* Mutant: the reader is not closed when the copy fails.
CopyStopsOpen ==
    /\ pc = "copy"
    /\ ctx # "live" \/ Broken
    /\ Cut
    /\ UNCHANGED <<fixed, ctx, session, part, chunk, accepted, opened, closed, result>>

\* The copy fails: the context is done or the connection broken.
CopyStops ==
    /\ pc = "copy"
    /\ ctx # "live" \/ Broken
    /\ cut' = TRUE
    /\ pc' = "closeAttachment"
    /\ UNCHANGED <<fixed, ctx, session, part, chunk, accepted, opened, closed, result>>

\* The copy fails: the caller's reader does.
ReaderFails ==
    /\ pc = "copy" /\ ctx = "live"
    /\ cut' = TRUE
    /\ pc' = "closeAttachment"
    /\ UNCHANGED <<fixed, ctx, session, part, chunk, accepted, opened, closed, result>>

\* writeAttachment's deferred body.Close().
CloseAttachment ==
    /\ pc = "closeAttachment"
    /\ closed' = Append(closed, Attachment)
    /\ chunk' = 0
    /\ IF cut THEN pc' = "endData" /\ UNCHANGED part
              ELSE pc' = "parts" /\ part' = part + 1
    /\ UNCHANGED <<fixed, ctx, session, cut, accepted, opened, result>>

\* Mutant: success is returned without waiting for the verdict on the data.
FlushReturns ==
    /\ pc = "parts" /\ part = AllParts
    /\ pc' = "quit"
    /\ UNCHANGED <<fixed, ctx, session, mime, result>>

\* mixed.Close() and buffered.Flush().
Flush ==
    /\ pc = "parts" /\ part = AllParts
    /\ pc' = "endData"
    /\ UNCHANGED <<fixed, ctx, session, mime, result>>

\* A write of writeMIME meets a broken connection.
WriteBreaks ==
    /\ \/ pc = "headers"
       \/ pc = "parts" /\ part < TextParts
       \/ pc = "parts" /\ part = AllParts
    /\ Broken
    /\ Cut
    /\ UNCHANGED <<fixed, ctx, session, part, chunk, accepted, opened, closed, result>>

\* writer.Close() ends the data and reads the server's verdict; an error of
\* writeMIME is returned only afterwards.
EndData ==
    /\ pc = "endData"
    /\ \/ /\ Reachable                        \* the server takes the message
          /\ accepted' = IF cut THEN "cut" ELSE "whole"
          /\ \/ ~cut /\ pc' = "quit" /\ UNCHANGED result
             \/ cut /\ Fail("closeClient")
       \/ /\ Reachable                        \* and its answer is lost
          /\ accepted' = IF cut THEN "cut" ELSE "whole"
          /\ Fail("closeClient")
       \/ /\ Reachable                        \* the server refuses the message
          /\ Fail("closeClient")
          /\ UNCHANGED accepted
    /\ UNCHANGED <<fixed, ctx, session, part, chunk, cut, opened, closed>>

EndDataBreaks ==
    /\ pc = "endData"
    /\ Broken
    /\ Fail("closeClient")
    /\ UNCHANGED <<fixed, ctx, session, mime>>

\* client.Quit.
Quit ==
    /\ Answered("quit", "closeClient")
    /\ result' = "ok"
    /\ UNCHANGED <<fixed, ctx, session, mime>>

----------------------------------------------------------------------------
\* The deferred client.Close(), stopCancellation() and connection.Close().
CloseClient ==
    /\ pc = "closeClient"
    /\ conn' = "closed"
    /\ pc' = "stopWatcher"
    /\ UNCHANGED <<fixed, ctx, watcher, peer, tls, rcpts, mime, result>>

CloseConnection ==
    /\ pc = "closeConnection"
    /\ conn' = "closed"
    /\ pc' = "done"
    /\ UNCHANGED <<fixed, ctx, watcher, peer, tls, rcpts, mime, result>>

\* stopCancellation closes the channel that the goroutine selects on.
StopWatcher ==
    /\ pc = "stopWatcher"
    /\ pc' = "closeConnection"
    /\ UNCHANGED <<fixed, ctx, session, mime, result>>

Stopped == pc \in {"closeConnection", "done"}

\* Mutant: the goroutine waits for the context only.
WatcherStopsNever == FALSE /\ UNCHANGED vars

\* The goroutine's select: <-stopped.
WatcherStops ==
    /\ watcher = "waiting"
    /\ Stopped
    /\ watcher' = "ended"
    /\ UNCHANGED <<fixed, pc, ctx, conn, peer, tls, rcpts, mime, result>>

\* Mutant: the goroutine ends without closing the connection.
WatcherLeaves ==
    /\ watcher = "waiting"
    /\ ctx # "live"
    /\ watcher' = "ended"
    /\ UNCHANGED <<fixed, pc, ctx, conn, peer, tls, rcpts, mime, result>>

\* The goroutine's select: <-ctx.Done(), and connection.Close().
WatcherCloses ==
    /\ watcher = "waiting"
    /\ ctx # "live"
    /\ watcher' = "ended"
    /\ conn' = "closed"
    /\ UNCHANGED <<fixed, pc, ctx, peer, tls, rcpts, mime, result>>

----------------------------------------------------------------------------
\* The caller's context ends, and the server goes away.
ContextEnds ==
    /\ ctx = "live"
    /\ ctx' \in {"canceled", "expired"}
    /\ UNCHANGED <<fixed, pc, session, mime, result>>

PeerGoes ==
    /\ peer = "there"
    /\ peer' = "gone"
    /\ UNCHANGED <<fixed, pc, ctx, watcher, conn, tls, rcpts, mime, result>>

Terminated ==
    /\ pc = "done" /\ watcher # "waiting"
    /\ UNCHANGED vars

\* What waits for the server to read or to answer.
NeedsServer ==
    \/ NewClient \/ StartTLS \/ Auth \/ Mail \/ Rcpt \/ Data \/ CommandFails
    \/ WriteHeaders \/ WriteText \/ CopyChunk \/ Flush \/ EndData \/ Quit

\* What needs nobody else: the machine, and the caller's attachments.
Local ==
    \/ Validate \/ DialFails \/ CommandBreaks \/ OpenAttachment \/ CopyDone
    \/ CopyStops \/ CloseAttachment \/ WriteBreaks \/ EndDataBreaks
    \/ CloseClient \/ StopWatcher \/ CloseConnection

Watcher == WatcherStops \/ WatcherCloses

Next ==
    \/ NeedsServer \/ Local \/ Dial \/ ReaderFails \/ Watcher
    \/ ContextEnds \/ PeerGoes \/ Terminated

\* The machine runs what can run (a dial ends at DialTimeout at the latest);
\* nothing is assumed of the server or of the caller's context.
Fairness == WF_vars(Local) /\ WF_vars(Watcher)

Spec == Init /\ [][Next]_vars /\ Fairness

----------------------------------------------------------------------------
\* "SMTP requires implicit TLS or STARTTLS by default" (README.md:136): no
\* envelope and no message goes out in the clear unless AllowInsecure allows
\* it (smtp.go:83-91).
NoCleartext ==
    pc \in {"rcpt", "data", "headers", "parts", "copy", "closeAttachment",
            "endData", "quit"} \/ accepted # "none"
       => tls \/ opts.allowInsecure

\* Delivery is all or nothing over the recipients, and Send reports success
\* only for a whole message that the server has taken (smtp.go:105-125).
DeliveryIsTotal ==
    /\ accepted # "none" => rcpts = Len(Recipients)
    /\ result = "ok" => accepted = "whole"

\* "Senders call Open once per delivery and close the returned reader"
\* (email.go:25-26), and nothing of the session outlives Send: at most one
\* attachment is open, none when Send has returned, and by then the
\* connection is closed.
ResourcesReleased ==
    /\ \A i \in DOMAIN opened : opened[i] = i
    /\ \E n \in 0 .. 1 : Len(opened) = Len(closed) + n
                         /\ (n = 1 => pc \in {"copy", "closeAttachment"})
    /\ closed = SubSeq(opened, 1, Len(closed))
    /\ pc = "done" => conn # "open"

\* Cancelling the context gets Send to return, whatever the server does.
CancelReturns == ctx # "live" ~> pc = "done"

\* The goroutine of closeOnCancellation does not outlive its Send for good.
WatcherEnds == pc = "done" ~> watcher # "waiting"
============================================================================
