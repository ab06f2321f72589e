---------------------------- MODULE MailRecorder ----------------------------
(***************************************************************************)
(* emailx.Recorder (emailx/testing.go) and emailx.TemplateRenderer         *)
(* (emailx/template.go): two keepers of messages whose callers go on using *)
(* their own.  A message is a record of references: slices and a map live  *)
(* in the heap, and whoever holds a reference may write through it.  Every *)
(* method of the Recorder is one section under its mutex, and the parsed   *)
(* templates are never written after NewTemplateRenderer.                  *)
(***************************************************************************)
EXTENDS Naturals, Sequences, FiniteSets, SequencesExt

CONSTANTS
    Parts,       \* the fields of Message that are slices or maps
    Nil,         \* no slice, no map
    MaxHeap,     \* bound: heap cells
    MaxMessages  \* bound: recorded messages

ASSUME PartAssumption == IsFiniteSet(Parts) /\ Nil \notin Nat

VARIABLES
    heap,        \* what each cell contains: "first", or "other" once written to
    held,        \* the messages that callers can reach
    messages,    \* Recorder.messages
    failing,     \* Recorder.err is set
    template,    \* the message of a compiledTemplate, or <<>>
    kept         \* history: the contents of messages and template as they came

mailVars == <<heap, held, messages, failing, template, kept>>

Message == [Parts -> 1 .. MaxHeap \cup {Nil}]
Content(h, m) == [p \in Parts |-> IF m[p] = Nil THEN Nil ELSE h[m[p]]]
Cells(m) == {m[p] : p \in Parts} \ {Nil}

\* Part number i of the parts, so that a copy can take fresh cells in order.
PartSeq == SetToSeq(Parts)
Index(p) == CHOOSE i \in DOMAIN PartSeq : PartSeq[i] = p

\* Mutant: one field is copied with the struct only.
ClonedShallow(m, n) ==
    [p \in Parts |-> IF m[p] = Nil THEN Nil ELSE IF Index(p) = 1 THEN m[p] ELSE n + Index(p)]

\* cloneMessage: fresh cells above n for everything that is not nil.
Cloned(m, n) == [p \in Parts |-> IF m[p] = Nil THEN Nil ELSE n + Index(p)]
Grown(m) == heap \o [i \in 1 .. Len(PartSeq) |->
                        IF m[PartSeq[i]] = Nil THEN "unused" ELSE heap[m[PartSeq[i]]]]
Room(n) == Len(heap) + n * Len(PartSeq) <= MaxHeap

\* A caller has a message of its own; some of its parts may be nil.
MailInit ==
    /\ heap = [i \in 1 .. Len(PartSeq) |-> "first"]
    /\ \E nils \in SUBSET Parts :
          held = {[p \in Parts |-> IF p \in nils THEN Nil ELSE Index(p)]}
    /\ messages = <<>> /\ failing = FALSE /\ template = <<>>
    /\ kept = [messages |-> <<>>, template |-> <<>>]

\* Send with a message that validateMessage accepts and a context that is not done.
RecorderSend ==
    /\ ~failing /\ Room(1) /\ Len(messages) < MaxMessages
    /\ \E m \in held :
          /\ messages' = Append(messages, Cloned(m, Len(heap)))
          /\ heap' = Grown(m)
          /\ kept' = [kept EXCEPT !.messages = Append(@, Content(heap, m))]
    /\ UNCHANGED <<held, failing, template>>

\* Messages hands out copies (of one message here, the rest are like it).
RecorderMessages ==
    /\ Room(1)
    /\ \E i \in DOMAIN messages :
          /\ held' = held \cup {Cloned(messages[i], Len(heap))}
          /\ heap' = Grown(messages[i])
    /\ UNCHANGED <<messages, failing, template, kept>>

RecorderSetError ==
    /\ \E e \in BOOLEAN : failing' = e
    /\ UNCHANGED <<heap, held, messages, template, kept>>

RecorderReset ==
    /\ messages' = <<>> /\ failing' = FALSE
    /\ kept' = [kept EXCEPT !.messages = <<>>]
    /\ UNCHANGED <<heap, held, template>>

\* NewTemplateRenderer keeps a copy of the spec's message, if every template of
\* the spec parses.
CompileTemplate ==
    /\ template = <<>> /\ Room(1)
    /\ \E m \in held :
          /\ template' = Cloned(m, Len(heap))
          /\ heap' = Grown(m)
          /\ kept' = [kept EXCEPT !.template = Content(heap, m)]
    /\ UNCHANGED <<held, messages, failing>>

\* Render hands out a copy with its own subject and bodies; when a template fails
\* to execute it returns an empty message.
Render ==
    /\ template # <<>> /\ Room(1)
    /\ held' = held \cup {Cloned(template, Len(heap))}
    /\ heap' = Grown(template)
    /\ UNCHANGED <<messages, failing, template, kept>>

\* A caller writes into a slice or map that it holds.
CallerWrites ==
    /\ \E m \in held : \E c \in Cells(m) : heap' = [heap EXCEPT ![c] = "other"]
    /\ UNCHANGED <<held, messages, failing, template, kept>>

MailNext ==
    \/ RecorderSend \/ RecorderMessages \/ RecorderSetError \/ RecorderReset
    \/ CompileTemplate \/ Render \/ CallerWrites

\* What was recorded, and what a template renders from, stays as it was when it was
\* handed over, whatever callers do to the messages that they passed in or got back
\* (testing.go:21-78, template.go:52, 90).
MessagesKept ==
    /\ Len(kept.messages) = Len(messages)
    /\ \A i \in DOMAIN messages : Content(heap, messages[i]) = kept.messages[i]
    /\ template # <<>> => Content(heap, template) = kept.template
=============================================================================
