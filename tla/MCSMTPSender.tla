---------------------------- MODULE MCSMTPSender ----------------------------
(* emailx.SMTPSender for TLC: every combination of options, a few messages. *)
EXTENDS SMTPSender

CONSTANTS addr, bad

MCAddresses == {addr, bad}

MCOptions == [implicitTLS : BOOLEAN, allowInsecure : BOOLEAN, auth : BOOLEAN,
              localhost : BOOLEAN]

File(n) == [named |-> TRUE, hasOpen |-> TRUE, chunks |-> n]
Unnamed == [named |-> FALSE, hasOpen |-> TRUE, chunks |-> 1]

Basic == [from |-> addr, to |-> <<addr>>, cc |-> <<>>, bcc |-> <<>>, replyTo |-> <<>>,
          text |-> TRUE, html |-> FALSE, headers |-> "plain", attachments |-> <<>>]

\* Plain; alternatives with copies; two attachments, one of them empty; and
\* messages that validateMessage refuses.
MCMessages ==
    {Basic,
     [Basic EXCEPT !.html = TRUE, !.cc = <<addr>>, !.bcc = <<addr>>],
     [Basic EXCEPT !.attachments = <<File(2), File(0)>>],
     [Basic EXCEPT !.to = <<>>],
     [Basic EXCEPT !.replyTo = <<bad>>],
     [Basic EXCEPT !.text = FALSE],
     [Basic EXCEPT !.headers = "reserved"],
     [Basic EXCEPT !.attachments = <<Unnamed>>]}
============================================================================
