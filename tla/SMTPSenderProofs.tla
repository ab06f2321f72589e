-------------------------- MODULE SMTPSenderProofs --------------------------
(***************************************************************************)
(* Proofs about emailx.SMTPSender.Send for any options and any message,    *)
(* however many recipients and attachments it has: nothing goes out in the *)
(* clear unless it may, delivery is total, attachments and the connection  *)
(* are released.  Fairness plays no part in them.                          *)
(***************************************************************************)
EXTENDS SMTPSender, SequenceTheorems, TLAPS

\* The parts of Send: before the envelope is complete, while the data are
\* written, and before the verdict on them.
Dialogue == {"validate", "dial", "newClient", "startTLS", "auth", "mail", "rcpt"}
Writing == {"headers", "parts", "copy", "closeAttachment"}
Undecided == Dialogue \cup {"data", "endData"} \cup Writing

\* Until the server has given its verdict it has taken nothing, and Send has no
\* result before its end; success needs a whole message.
Verdict ==
    /\ pc \in Undecided => accepted = "none"
    /\ pc \in Undecided \cup {"quit"} => result = "none"
    /\ pc = "quit" \/ result = "ok" => accepted = "whole"

\* Where encryption has been decided, it is on or not required.
Secured ==
    /\ pc = "newClient" => tls = opts.implicitTLS
    /\ pc \in (Undecided \ {"validate", "dial", "newClient", "startTLS"}) \cup {"quit"}
          \/ accepted # "none"
       => tls \/ opts.allowInsecure

\* The envelope is complete when the data begin.
Enveloped ==
    /\ pc \in {"validate", "dial", "newClient", "startTLS", "auth", "mail"} => rcpts = 0
    /\ pc \notin {"validate", "done"} => Recipients # <<>>
    /\ pc = "rcpt" => rcpts < Len(Recipients)
    /\ pc \in {"data", "endData", "quit"} \cup Writing \/ accepted # "none"
       => rcpts = Len(Recipients)

\* The attachments are opened and closed in their order, each closed before the
\* next is opened.
InTurn ==
    /\ \A i \in DOMAIN opened : opened[i] = i
    /\ \A i \in DOMAIN closed : closed[i] = i
    /\ pc \in Dialogue \cup {"data", "headers"} => part = 0 /\ Len(opened) = 0
    /\ pc = "parts" => Len(opened) = IF part < TextParts THEN 0 ELSE part - TextParts
    /\ pc \in {"copy", "closeAttachment"} =>
          /\ part >= TextParts /\ part < AllParts
          /\ Len(opened) = Attachment
          /\ Len(closed) = Attachment - 1
    /\ pc \notin {"copy", "closeAttachment"} => Len(closed) = Len(opened)

\* The connection and its watcher exist from Dial on; it is closed at the end.
Connected ==
    /\ pc \in {"validate", "dial"} => conn = "none" /\ watcher = "none"
    /\ pc = "done" => conn # "open"

\* The inductive invariant.
SendInv == TypeOK /\ Verdict /\ Secured /\ Enveloped /\ InTurn /\ Connected

-----------------------------------------------------------------------------
\* What the assumption on messages gives: lengths are natural numbers.
LEMMA Lengths ==
    ASSUME message \in Messages
    PROVE  /\ Recipients \in Seq(Addresses) /\ Len(Recipients) \in Nat
           /\ message.attachments \in Seq([named : BOOLEAN, hasOpen : BOOLEAN, chunks : Nat])
           /\ TextParts \in 0 .. 2
           /\ AllParts \in Nat /\ TextParts <= AllParts
<1>1. message \in Message
  BY MessageAssumption
<1>2. message.to \in Seq(Addresses) /\ message.cc \in Seq(Addresses)
      /\ message.bcc \in Seq(Addresses)
  BY <1>1 DEF Message
<1>3. message.attachments \in Seq([named : BOOLEAN, hasOpen : BOOLEAN, chunks : Nat])
  BY <1>1 DEF Message
<1>4. Recipients \in Seq(Addresses)
  BY <1>2 DEF Recipients
<1>5. Len(message.attachments) \in Nat
  BY <1>3, LenProperties
<1>6. TextParts \in 0 .. 2
  BY DEF TextParts
<1> QED BY <1>3, <1>4, <1>5, <1>6, LenProperties DEF AllParts

\* The operators on the message keep their value: no step changes the message.
LEMMA Fixed ==
    ASSUME UNCHANGED fixed
    PROVE  /\ Recipients' = Recipients /\ TextParts' = TextParts /\ AllParts' = AllParts
           /\ opts' = opts /\ message' = message
BY DEF fixed, Recipients, TextParts, AllParts

\* A sequence that counts still counts when the next number is appended.
LEMMA Counting ==
    ASSUME NEW s \in Seq(Nat), \A i \in DOMAIN s : s[i] = i, NEW n \in Nat, n = Len(s) + 1
    PROVE  /\ Append(s, n) \in Seq(Nat) /\ Len(Append(s, n)) = n
           /\ \A i \in DOMAIN Append(s, n) : Append(s, n)[i] = i
BY AppendProperties, LenProperties

\* Every step keeps the invariant.
LEMMA SendStep ==
    ASSUME SendInv, [Next]_vars
    PROVE  SendInv'
<1> USE DEF SendInv, Verdict, Secured, Enveloped, InTurn, Connected, Dialogue, Writing,
            Undecided, PC, session, mime
<1>m. TypeOK /\ message \in Messages
  BY DEF TypeOK
<1>1. CASE Validate
  BY <1>1, <1>m, Lengths, Fixed DEF TypeOK, Validate, Fail, Valid
<1>2. CASE Dial
  <2>1. opts.implicitTLS \in BOOLEAN
    BY <1>m, OptionAssumption DEF TypeOK
  <2>2. TypeOK'
    BY <1>2, <2>1, <1>m, Lengths, Fixed DEF TypeOK, Dial
  <2>3. Secured'
    BY <1>2, <1>m, Fixed DEF Dial
  <2>4. (Verdict /\ Enveloped /\ InTurn /\ Connected)'
    BY <1>2, <1>m, Lengths, Fixed DEF Dial
  <2> QED BY <2>2, <2>3, <2>4
<1>3. CASE DialFails
  BY <1>3, <1>m, Lengths, Fixed DEF TypeOK, DialFails, Fail
<1>4. CASE NewClient
  BY <1>4, <1>m, Lengths, Fixed DEF TypeOK, NewClient, Answered
<1>5. CASE StartTLS
  <2>1. TypeOK'
    <3>1. pc' \in {"auth", "mail", "closeClient"} /\ tls' \in {TRUE, tls} /\ result' \in {"error", result}
      BY <1>5 DEF StartTLS, Answered, Fail
    <3>2. pc' \in PC /\ tls' \in BOOLEAN /\ result' \in {"none", "ok", "error"}
      BY <3>1, <1>m DEF TypeOK, PC
    <3>3. UNCHANGED <<fixed, ctx, watcher, conn, peer, rcpts, mime>>
      BY <1>5 DEF StartTLS
    <3> QED BY <3>2, <3>3, <1>m, Fixed DEF TypeOK
  <2>2. Secured'
    BY <1>5, <1>m, Fixed DEF StartTLS, Answered, Fail
  <2>3. (Verdict /\ Enveloped /\ InTurn /\ Connected)'
    BY <1>5, <1>m, Lengths, Fixed DEF StartTLS, Answered, Fail
  <2> QED BY <2>1, <2>2, <2>3
<1>6. CASE Auth
  BY <1>6, <1>m, Lengths, Fixed DEF TypeOK, Auth, Answered, Fail
<1>7. CASE Mail
  BY <1>7, <1>m, Lengths, Fixed DEF TypeOK, Mail, Answered
<1>8. CASE Rcpt
  BY <1>8, <1>m, Lengths, Fixed DEF TypeOK, Rcpt, Answered
<1>9. CASE Data
  BY <1>9, <1>m, Lengths, Fixed DEF TypeOK, Data, Answered
<1>10. CASE CommandFails
  BY <1>10, <1>m, Lengths, Fixed DEF TypeOK, CommandFails, Fail
<1>11. CASE CommandBreaks
  BY <1>11, <1>m, Lengths, Fixed DEF TypeOK, CommandBreaks, Fail
<1>12. CASE WriteHeaders
  BY <1>12, <1>m, Lengths, Fixed DEF TypeOK, WriteHeaders
<1>13. CASE WriteText
  <2>1. TypeOK'
    <3>1. UNCHANGED fixed /\ part' \in 0 .. AllParts
      BY <1>13, <1>m, Lengths DEF TypeOK, WriteText
    <3>2. pc' \in PC /\ cut' \in BOOLEAN
      BY <1>13, <1>m DEF TypeOK, WriteText, Cut
    <3> QED BY <1>13, <3>1, <3>2, <1>m, Fixed DEF TypeOK, WriteText
  <2>2. InTurn'
    BY <1>13, <1>m, Lengths, Fixed DEF TypeOK, WriteText, Cut
  <2>3. (Verdict /\ Secured /\ Enveloped /\ Connected)'
    BY <1>13, <1>m, Lengths, Fixed DEF TypeOK, WriteText, Cut
  <2> QED BY <2>1, <2>2, <2>3
<1>14. CASE OpenAttachment
  <2>1. CASE Cut /\ UNCHANGED opened
    BY <1>14, <2>1, <1>m, Lengths, Fixed DEF TypeOK, OpenAttachment, Cut
  <2>2. CASE opened' = Append(opened, Attachment) /\ pc' = "copy" /\ UNCHANGED cut
    <3>1. Attachment \in Nat /\ Attachment = Len(opened) + 1
      BY <1>14, <1>m, Lengths DEF TypeOK, OpenAttachment, Attachment
    <3>2. /\ opened' \in Seq(Nat) /\ Len(opened') = Attachment
          /\ \A i \in DOMAIN opened' : opened'[i] = i
      BY <2>2, <3>1, <1>m, Counting DEF TypeOK
    <3> QED BY <1>14, <2>2, <3>1, <3>2, <1>m, Lengths, Fixed
            DEF TypeOK, OpenAttachment, Attachment
  <2> QED BY <1>14, <2>1, <2>2 DEF OpenAttachment
<1>15. CASE CopyChunk
  BY <1>15, <1>m, Lengths, Fixed DEF TypeOK, CopyChunk, Attachment
<1>16. CASE CopyDone
  BY <1>16, <1>m, Lengths, Fixed DEF TypeOK, CopyDone, Attachment
<1>17. CASE CopyStops
  BY <1>17, <1>m, Lengths, Fixed DEF TypeOK, CopyStops, Attachment
<1>18. CASE ReaderFails
  BY <1>18, <1>m, Lengths, Fixed DEF TypeOK, ReaderFails, Attachment
<1>19. CASE CloseAttachment
  <2>1. Attachment \in Nat /\ Attachment = Len(closed) + 1
    BY <1>19, <1>m, Lengths DEF TypeOK, CloseAttachment, Attachment
  <2>2. /\ closed' \in Seq(Nat) /\ Len(closed') = Attachment
        /\ \A i \in DOMAIN closed' : closed'[i] = i
    BY <1>19, <2>1, <1>m, Counting DEF TypeOK, CloseAttachment
  <2>3. TypeOK'
    BY <1>19, <2>2, <1>m, Lengths, Fixed DEF TypeOK, CloseAttachment
  <2>4. InTurn'
    BY <1>19, <2>1, <2>2, <1>m, Lengths, Fixed, SMTT(30) DEF TypeOK, CloseAttachment, Attachment
  <2>5. (Verdict /\ Secured /\ Enveloped /\ Connected)'
    BY <1>19, <1>m, Fixed DEF CloseAttachment
  <2> QED BY <2>3, <2>4, <2>5
<1>20. CASE Flush
  BY <1>20, <1>m, Lengths, Fixed DEF TypeOK, Flush
<1>21. CASE WriteBreaks
  BY <1>21, <1>m, Lengths, Fixed DEF TypeOK, WriteBreaks, Cut
<1>22. CASE EndData
  BY <1>22, <1>m, Lengths, Fixed DEF TypeOK, EndData, Fail
<1>23. CASE EndDataBreaks
  BY <1>23, <1>m, Lengths, Fixed DEF TypeOK, EndDataBreaks, Fail
<1>24. CASE Quit
  BY <1>24, <1>m, Lengths, Fixed DEF TypeOK, Quit, Answered
<1>25. CASE CloseClient
  BY <1>25, <1>m, Lengths, Fixed DEF TypeOK, CloseClient
<1>26. CASE CloseConnection
  BY <1>26, <1>m, Lengths, Fixed DEF TypeOK, CloseConnection
<1>27. CASE StopWatcher
  BY <1>27, <1>m, Lengths, Fixed DEF TypeOK, StopWatcher
<1>28. CASE WatcherStops
  BY <1>28, <1>m, Lengths, Fixed DEF TypeOK, WatcherStops, Attachment
<1>29. CASE WatcherCloses
  BY <1>29, <1>m, Lengths, Fixed DEF TypeOK, WatcherCloses, Attachment
<1>30. CASE ContextEnds
  BY <1>30, <1>m, Lengths, Fixed DEF TypeOK, ContextEnds, Attachment
<1>31. CASE PeerGoes
  BY <1>31, <1>m, Lengths, Fixed DEF TypeOK, PeerGoes, Attachment
<1>32. CASE UNCHANGED vars
  BY <1>32, <1>m, Fixed DEF TypeOK, vars, fixed, Attachment
<1> QED BY <1>1, <1>2, <1>3, <1>4, <1>5, <1>6, <1>7, <1>8, <1>9, <1>10, <1>11, <1>12, <1>13, <1>14, <1>15, <1>16, <1>17, <1>18, <1>19, <1>20, <1>21, <1>22, <1>23, <1>24, <1>25, <1>26, <1>27, <1>28, <1>29, <1>30, <1>31, <1>32 DEF Next, NeedsServer, Local, Watcher, Terminated

\* The invariant holds throughout every behaviour of Send.
THEOREM SendInvariant == Spec => []SendInv
<1>1. Init => SendInv
  <2> SUFFICES ASSUME Init PROVE SendInv
    OBVIOUS
  <2> USE DEF Init, Dialogue, Writing, Undecided
  <2>1. TypeOK
    <3>1. message \in Messages
      OBVIOUS
    <3>2. rcpts \in 0 .. Len(Recipients) /\ part \in 0 .. AllParts
      BY <3>1, Lengths
    <3>3. <<>> \in Seq(Nat)
      OBVIOUS
    <3> QED BY <3>2, <3>3 DEF TypeOK, PC
  <2>2. InTurn
    BY <2>1, Lengths DEF TypeOK, InTurn
  <2> QED BY <2>1, <2>2 DEF SendInv, Verdict, Secured, Enveloped, Connected
<1>2. SendInv /\ [Next]_vars => SendInv'
  BY SendStep
<1> QED BY <1>1, <1>2, PTL DEF Spec

\* Send keeps its state well formed, for any message and options: the recipients and
\* parts it counts never exceed those of the message (smtp.go, Send and writeMIME).
THEOREM SendTypeCorrect == Spec => []TypeOK
BY SendInvariant, PTL DEF SendInv

\* No envelope and no message goes out in the clear unless AllowInsecure allows it,
\* whatever the server offers and refuses (smtp.go, Send and startTLS).
THEOREM NeverCleartext == Spec => []NoCleartext
<1>1. SendInv => NoCleartext
  BY DEF SendInv, Secured, NoCleartext, Dialogue, Writing, Undecided
<1> QED BY <1>1, SendInvariant, PTL

\* The server takes a message only for all recipients, and Send reports success only
\* for a whole message, for any number of recipients (smtp.go, Send).
THEOREM AllOrNothing == Spec => []DeliveryIsTotal
<1>1. SendInv => DeliveryIsTotal
  BY DEF SendInv, Verdict, Enveloped, DeliveryIsTotal
<1> QED BY <1>1, SendInvariant, PTL

\* Attachments are opened once, in order, one at a time, and closed; the connection
\* is closed when Send returns, for any number of attachments (smtp.go, writeAttachment).
THEOREM EverythingReleased == Spec => []ResourcesReleased
<1>1. ASSUME SendInv PROVE ResourcesReleased
  <2>1. opened \in Seq(Nat) /\ closed \in Seq(Nat)
    BY <1>1 DEF SendInv, TypeOK
  <2>2. \E n \in 0 .. 1 : Len(opened) = Len(closed) + n
                          /\ (n = 1 => pc \in {"copy", "closeAttachment"})
    <3>1. CASE pc \in {"copy", "closeAttachment"}
      <4>1. Len(opened) = Len(closed) + 1
        BY <1>1, <2>1, <3>1, LenProperties DEF SendInv, InTurn
      <4> QED BY <3>1, <4>1
    <3>2. CASE pc \notin {"copy", "closeAttachment"}
      <4>1. Len(opened) = Len(closed) + 0
        BY <1>1, <2>1, <3>2, LenProperties DEF SendInv, InTurn
      <4> QED BY <4>1
    <3> QED BY <3>1, <3>2
  <2>3. closed = SubSeq(opened, 1, Len(closed))
    <3>1. Len(closed) \in Nat /\ Len(closed) <= Len(opened)
      BY <2>1, <2>2, LenProperties
    <3>2. /\ SubSeq(opened, 1, Len(closed)) \in Seq(Nat)
          /\ Len(SubSeq(opened, 1, Len(closed))) = Len(closed)
          /\ \A i \in 1 .. Len(closed) : SubSeq(opened, 1, Len(closed))[i] = opened[i]
      BY <2>1, <3>1, SubSeqProperties
    <3>3. \A i \in 1 .. Len(closed) : closed[i] = i /\ opened[i] = i
      BY <1>1, <2>1, <3>1 DEF SendInv, InTurn
    <3> QED BY <2>1, <3>2, <3>3, SeqEqual
  <2> QED BY <1>1, <2>2, <2>3 DEF SendInv, InTurn, Connected, ResourcesReleased
<1> QED BY <1>1, SendInvariant, PTL
=============================================================================
