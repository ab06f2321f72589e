------------------------- MODULE HTTPPipelineProofs -------------------------
(***************************************************************************)
(* Proofs about a request's way through httpx/middleware, authx and        *)
(* httpx.Handler, for any nesting of the layers, any configuration and     *)
(* request, and any use that the application makes of its ResponseWriter:  *)
(* who decides, what the client gets, what is logged, where panics end.    *)
(***************************************************************************)
EXTENDS HTTPPipeline, SequenceTheorems, FiniteSetTheorems, TLAPS

Loggers == At("logger", DOMAIN chain)
Descending == pc \in {"down", "handler", "returned"}

\* Where control is, and how many layers have got the request.
Placed ==
    /\ pc = "down" => depth \in DOMAIN chain /\ Len(ctx) = depth
    /\ pc \in {"handler", "returned"} => depth = Inner /\ Len(ctx) = Inner
    /\ pc = "up" => depth < Len(ctx)
    /\ pc = "panic" => depth <= Len(ctx) /\ depth <= Len(chain)
    /\ pc = "done" => depth = 0 /\ (out.committed \/ aborted)
    /\ aborted => pc = "done"

\* No layer that a request has passed refuses it, and each context has what the
\* layers outside it have put there.
Passed(j) ==
    /\ j < Len(ctx) => ~Refuses(j)
    /\ ctx[j].roles = IF At("auth", 1..j - 1) = {} THEN {} ELSE req.roles
    /\ At("requestID", 1..j - 1) # {} => ctx[j].id # NoID
    /\ At("requestID", j..Len(ctx) - 1) = {} => ctx[j].id = ctx[Len(ctx)].id

\* A CORS layer has run and grants the origin.
Granted ==
    /\ Allowed
    /\ \E i \in At("cors", DOMAIN chain) : i < Len(ctx) \/ (i = Len(ctx) /\ pc # "down")

\* The header map, and what the status line took of it.
Traced(a, b) == a.id = b.id /\ a.origin = b.origin /\ a.credentials = b.credentials

Headed ==
    /\ out.header.id = ctx[Len(ctx)].id
    /\ out.header.origin = IF ~Granted THEN "none"
                           ELSE IF cfg.wildcard /\ ~cfg.credentials THEN "*" ELSE req.origin
    /\ out.header.credentials <=> Granted /\ cfg.credentials
    /\ out.committed => Traced(out.sent, out.header)

\* A recorder that was written to knows the status, or was misled; the recorders
\* in S have noted the same, and nothing only if nothing was sent.
Odd(code) == Informational(code) \/ Invalid(code)

Consistent(o, S) ==
    /\ \A i \in Loggers : o.rec[i].wrote =>
          Odd(o.rec[i].status) \/ (o.committed /\ o.status = o.rec[i].status)
    /\ \A i, j \in S : o.rec[i] = o.rec[j]
    /\ \A i \in S : ~o.rec[i].wrote => ~o.committed
    /\ ~o.committed => o.body = <<>>

\* The recorders around the layer that control is in.
Around == {i \in Loggers : i <= depth}

\* Nothing is written on the way in.
Clean ==
    /\ pc = "down" => ~out.committed /\ \A i \in DOMAIN chain : ~out.rec[i].wrote
    /\ Consistent(out, Around)

\* Control has turned at the handler, at a refusal, or at an early fault.
Turned ==
    ~Descending /\ Len(ctx) <= Len(chain) =>
       \/ Refuses(Len(ctx)) /\ out.committed /\ out.status = Refusal(Len(ctx))
       \/ \E f \in faults : f.early

\* A line says what the recorder and the context of its layer say, once; an
\* unwritten status stays unwritten unless a panic comes from further out.
Logged(e) ==
    /\ chain[e.layer] = "logger" /\ depth < e.layer /\ e.layer < Len(ctx)
    /\ e.status = out.rec[e.layer].status
    /\ e.id = ctx[e.layer].id
    /\ ~out.rec[e.layer].wrote /\ (\A f \in faults : f.at >= e.layer) =>
          pc # "panic" /\ (out.committed => pc = "done" /\ out.status = 200)

HasLine(i) == \E k \in DOMAIN log : log[k].layer = i

Lined ==
    /\ \A k \in DOMAIN log : Logged(log[k])
    /\ \A k, l \in DOMAIN log : log[k].layer = log[l].layer => k = l

\* A panic under way has passed every layer from its origin to here, an earlier one
\* was stopped further in; lines are there for the loggers that no panic passed.
Unwound ==
    /\ Descending => faults = {} /\ log = <<>>
    /\ \A f \in faults : depth <= f.at
    /\ pc = "up" => \A f \in faults : f.panics =>
          \E j \in At("recovery", DOMAIN chain) : depth < j /\ j <= f.at
    /\ pc = "panic" => \E f \in faults : Passes(f, depth) /\ \A k \in DOMAIN log : log[k].layer > f.at
    /\ \A i \in Loggers : depth < i /\ i <= Len(ctx) =>
          (HasLine(i) <=> ~\E f \in faults : Passes(f, i))
    /\ pc = "done" => (aborted <=> \E f \in faults : Passes(f, 0))

\* An early failure has been reported, or its panic is still under way.
Told(f) ==
    /\ out.committed /\ out.status = f.status
    /\ \A k \in DOMAIN out.body : out.body[k] = "error"
    /\ out.sent.contentType \in {"json", cfg.recovery}

Reported ==
    (\A i \in Loggers : ~Misled(i)) =>
       \A f \in faults : f.early /\ ~Informational(f.status) =>
          Told(f) \/ (~out.committed /\ f.status = 500 /\ (pc = "panic" \/ aborted))

\* The inductive invariant.
HTTPInv ==
    /\ TypeOK /\ Placed
    /\ \A j \in 1..Len(ctx) : Passed(j)
    /\ Headed /\ Clean /\ Turned /\ Lined /\ Unwound /\ Reported
-----------------------------------------------------------------------------
(* The response writers.                                                   *)

\* What a call of the ResponseWriter from layer d may change.
Moves(o, w, d) ==
    /\ w \in Response
    /\ \A i \in DOMAIN chain : w.rec[i].wrote \/ w.rec[i].status = 200
    /\ \A i \in DOMAIN chain : i \notin Recorders(d) \/ o.rec[i].wrote => w.rec[i] = o.rec[i]
    /\ w.committed => ~Odd(w.status)
    /\ Traced(w.header, o.header)
    /\ o.committed => w.committed /\ w.status = o.status /\ w.sent = o.sent
    /\ ~o.committed /\ w.committed => w.sent = w.header

\* The responses that the writers are used on.
Sound(o) ==
    /\ chain \in Seq(Layers)
    /\ o \in Response
    /\ \A i \in DOMAIN chain : o.rec[i].wrote \/ o.rec[i].status = 200
    /\ o.committed => ~Odd(o.status)

Untouched(o, d) == ~o.committed /\ \A i \in Recorders(d) : ~o.rec[i].wrote

\* The recorders that a call from layer d passes are the loggers outside it.
LEMMA RecordersAreLoggers ==
    ASSUME chain \in Seq(Layers), NEW d \in 1..Inner
    PROVE  /\ Recorders(d) \subseteq Loggers /\ Loggers \subseteq DOMAIN chain
           /\ \A i \in Recorders(d) : i < d /\ i > 0 /\ i \in Nat
           /\ \A i \in Loggers : i < d => i \in Recorders(d)
           /\ DOMAIN chain = 1..Len(chain) /\ Len(chain) \in Nat
<1>1. DOMAIN chain = 1..Len(chain) /\ Len(chain) \in Nat
  OBVIOUS
<1>2. 1..d - 1 \subseteq DOMAIN chain
  BY <1>1 DEF Inner
<1> QED BY <1>1, <1>2 DEF Recorders, Loggers, At, Inner

\* The first call decides what the recorders and the server note.
LEMMA ServerHeaderWorks ==
    ASSUME NEW o, Sound(o), NEW code \in Int
    PROVE  LET w == ServerHeader(o, code) IN
           /\ w \in Response
           /\ w.rec = o.rec /\ w.header = o.header /\ w.body = o.body
           /\ w.committed => ~Odd(w.status)
           /\ o.committed => w.committed /\ w.status = o.status /\ w.sent = o.sent
           /\ ~o.committed /\ Odd(code) => w = o
           /\ ~o.committed /\ ~Odd(code) => w.committed /\ w.status = code /\ w.sent = o.header
<1>1. CASE o.committed \/ Odd(code)
  BY <1>1 DEF ServerHeader, Odd, Sound
<1>2. CASE ~o.committed /\ ~Odd(code)
  <2>1. ServerHeader(o, code) = [o EXCEPT !.committed = TRUE, !.status = code, !.sent = o.header]
    BY <1>2 DEF ServerHeader, Odd
  <2>2. o \in Response
    BY DEF Sound
  <2> QED BY <1>2, <2>1, <2>2 DEF Response
<1> QED BY <1>1, <1>2

\* WriteHeader moves the response forward, decides it when nothing outside d has been
\* touched and the code is a final one, and does nothing when something has.
LEMMA WriteHeaderWorks ==
    ASSUME NEW o, Sound(o), NEW d \in 1..Inner, NEW code \in Int, Consistent(o, Recorders(d))
    PROVE  LET w == WriteHeader(o, d, code) IN
           /\ Moves(o, w, d) /\ Consistent(w, Recorders(d)) /\ Sound(w)
           /\ w.header = o.header /\ w.body = o.body
           /\ Untouched(o, d) /\ ~Odd(code) => w.committed /\ w.status = code /\ w.sent = o.header
           /\ Untouched(o, d) /\ Odd(code) =>
                 ~w.committed /\ \A i \in Recorders(d) : w.rec[i].wrote /\ w.rec[i].status = code
           /\ ~Untouched(o, d) => w = o
<1> DEFINE w == WriteHeader(o, d, code)
           rec == [i \in DOMAIN o.rec |->
                     IF i \in Recorders(d) /\ Reaches(o, d, i) /\ ~o.rec[i].wrote
                     THEN [status |-> code, wrote |-> TRUE]
                     ELSE o.rec[i]]
           s == IF Reaches(o, d, 0) THEN ServerHeader(o, code) ELSE o
<1>1. /\ o \in Response /\ chain \in Seq(Layers) /\ DOMAIN o.rec = DOMAIN chain
      /\ o.rec \in [DOMAIN chain -> [status : Int, wrote : BOOLEAN]]
  BY DEF Sound, Response
<1>2. /\ Recorders(d) \subseteq Loggers /\ Loggers \subseteq DOMAIN chain
      /\ \A i \in Recorders(d) : i < d /\ i > 0 /\ i \in Nat
  BY <1>1, RecordersAreLoggers
<1>3. rec \in [DOMAIN chain -> [status : Int, wrote : BOOLEAN]]
  BY <1>1
<1>4. s \in Response /\ w = [s EXCEPT !.rec = rec]
  <2>1. s \in Response
    BY <1>1, ServerHeaderWorks
  <2>2. w = [s EXCEPT !.rec = rec]
    BY DEF WriteHeader
  <2> QED BY <2>1, <2>2
<1>5. /\ w \in Response /\ w.rec = rec /\ w.header = s.header /\ w.body = s.body
      /\ w.committed = s.committed /\ w.status = s.status /\ w.sent = s.sent
  <2> HIDE DEF s, rec, w
  <2> QED BY <1>3, <1>4 DEF Response
<1>6. s.header = o.header /\ s.body = o.body /\ (s.committed => ~Odd(s.status))
      /\ (o.committed => s.committed /\ s.status = o.status /\ s.sent = o.sent)
  BY <1>1, ServerHeaderWorks DEF Sound
<1>7. CASE Untouched(o, d)
  <2>1. Reaches(o, d, 0) /\ \A i \in Recorders(d) : Reaches(o, d, i)
    BY <1>2, <1>7 DEF Reaches, Untouched
  <2>2. \A i \in Recorders(d) : rec[i] = [status |-> code, wrote |-> TRUE]
    BY <1>1, <1>2, <1>7, <2>1 DEF Untouched
  <2>3. \A i \in DOMAIN chain : i \notin Recorders(d) => rec[i] = o.rec[i]
    BY <1>1
  <2>4. s = ServerHeader(o, code)
    BY <2>1
  <2>5. /\ ~Odd(code) => s.committed /\ s.status = code /\ s.sent = o.header
        /\ Odd(code) => s = o
    BY <1>7, <2>4, ServerHeaderWorks DEF Untouched
  <2> HIDE DEF s, rec, w
  <2>6. Moves(o, w, d)
    BY <1>2, <1>5, <1>6, <1>7, <2>2, <2>3, <2>5 DEF Moves, Untouched, Traced, Sound
  <2>7. Consistent(w, Recorders(d))
    <3>1. \A i \in Loggers : w.rec[i].wrote =>
            Odd(w.rec[i].status) \/ (w.committed /\ w.status = w.rec[i].status)
      <4> TAKE i \in Loggers
      <4>1. CASE i \in Recorders(d)
        BY <1>5, <2>2, <2>5, <4>1
      <4>2. CASE i \notin Recorders(d)
        BY <1>2, <1>5, <1>7, <2>3, <4>2 DEF Consistent, Untouched
      <4> QED BY <4>1, <4>2
    <3>2. \A i, j \in Recorders(d) : w.rec[i] = w.rec[j]
      BY <1>5, <2>2
    <3>3. \A i \in Recorders(d) : w.rec[i].wrote
      BY <1>5, <2>2
    <3>4. ~w.committed => w.body = <<>>
      BY <1>5, <1>6, <1>7 DEF Consistent, Untouched
    <3> QED BY <3>1, <3>2, <3>3, <3>4 DEF Consistent
  <2>8. Sound(w)
    BY <1>1, <2>6 DEF Sound, Moves
  <2> QED BY <1>5, <1>6, <1>7, <2>2, <2>5, <2>6, <2>7, <2>8 DEF Untouched, w
<1>8. CASE ~Untouched(o, d)
  <2>1. \A i \in Recorders(d) : o.rec[i].wrote
    BY <1>2, <1>8 DEF Untouched, Consistent
  <2>2. rec = o.rec
    BY <1>1, <2>1
  <2>3. s = o
    <3>1. CASE o.committed
      BY <3>1 DEF ServerHeader
    <3>2. CASE ~o.committed
      BY <1>2, <1>8, <2>1, <3>2 DEF Untouched, Reaches
    <3> QED BY <3>1, <3>2
  <2>4. w = o
    <3> HIDE DEF s, rec, w
    <3> QED BY <1>1, <1>4, <2>2, <2>3 DEF Response
  <2> HIDE DEF w
  <2>5. Moves(o, w, d)
    BY <2>4 DEF Moves, Traced, Sound
  <2> QED BY <1>8, <2>4, <2>5 DEF w
<1> QED BY <1>7, <1>8

\* Write commits the response, with 200 when no status was sent before.
LEMMA WriteWorks ==
    ASSUME NEW o, Sound(o), NEW d \in 1..Inner, NEW chunk \in {"app", "error"},
           Consistent(o, Recorders(d)), broken \in BOOLEAN
    PROVE  LET w == Write(o, d, chunk) IN
           /\ Moves(o, w, d) /\ Consistent(w, Recorders(d)) /\ Sound(w) /\ w.committed
           /\ w.header = o.header
           /\ ~o.committed => w.status = 200
           /\ (\A k \in DOMAIN o.body : o.body[k] = chunk) => \A k \in DOMAIN w.body : w.body[k] = chunk
<1> DEFINE rec == [i \in DOMAIN o.rec |->
                     IF i \in Recorders(d) /\ ~o.rec[i].wrote
                     THEN [status |-> 200, wrote |-> TRUE]
                     ELSE o.rec[i]]
           n == [o EXCEPT !.rec = rec]
           s == ServerHeader(n, 200)
           w == Write(o, d, chunk)
<1>1. /\ o \in Response /\ chain \in Seq(Layers) /\ DOMAIN o.rec = DOMAIN chain
      /\ o.rec \in [DOMAIN chain -> [status : Int, wrote : BOOLEAN]]
  BY DEF Sound, Response
<1>2. Recorders(d) \subseteq Loggers /\ Loggers \subseteq DOMAIN chain
  BY <1>1, RecordersAreLoggers
<1>3. /\ rec \in [DOMAIN chain -> [status : Int, wrote : BOOLEAN]]
      /\ \A i \in DOMAIN chain : i \notin Recorders(d) \/ o.rec[i].wrote => rec[i] = o.rec[i]
      /\ \A i \in Recorders(d) : ~o.rec[i].wrote => rec[i] = [status |-> 200, wrote |-> TRUE]
  BY <1>1, <1>2
<1>4. /\ n \in Response /\ n.rec = rec /\ n.header = o.header /\ n.committed = o.committed
      /\ n.status = o.status /\ n.sent = o.sent /\ n.body = o.body
  <2> HIDE DEF rec
  <2> QED BY <1>1, <1>3 DEF Response
<1> HIDE DEF rec, n
<1>5. Sound(n) /\ ~Odd(200)
  BY <1>1, <1>3, <1>4, SMTT(30) DEF Sound, Odd, Informational, Invalid
<1>6. /\ s \in Response /\ s.rec = rec /\ s.header = o.header /\ s.body = o.body /\ s.committed
      /\ ~Odd(s.status)
      /\ o.committed => s.status = o.status /\ s.sent = o.sent
      /\ ~o.committed => s.status = 200 /\ s.sent = o.header
  BY <1>4, <1>5, ServerHeaderWorks
<1>7. w = IF broken \/ NoBody(s.status) THEN s ELSE [s EXCEPT !.body = Append(s.body, chunk)]
  BY DEF Write, n, rec
<1> HIDE DEF s, w
<1>8. /\ w \in Response /\ w.rec = rec /\ w.header = o.header /\ w.committed
      /\ w.status = s.status /\ w.sent = s.sent
      /\ w.body = o.body \/ w.body = Append(o.body, chunk)
  <2>1. s.body \in Seq({"app", "error"}) /\ Append(s.body, chunk) \in Seq({"app", "error"})
    BY <1>6 DEF Response
  <2>2. CASE w = s
    BY <1>6, <2>2
  <2>3. CASE w = [s EXCEPT !.body = Append(s.body, chunk)]
    BY <1>6, <2>1, <2>3 DEF Response
  <2> QED BY <1>7, <2>2, <2>3
<1>9. Moves(o, w, d)
  <2>1. \A i \in DOMAIN chain : w.rec[i].wrote \/ w.rec[i].status = 200
    <3> TAKE i \in DOMAIN chain
    <3>1. w.rec[i] = o.rec[i] \/ w.rec[i] = [status |-> 200, wrote |-> TRUE]
      BY <1>3, <1>8
    <3> QED BY <3>1 DEF Sound
  <2> QED BY <1>3, <1>6, <1>8, <2>1 DEF Moves, Traced
<1>10. Consistent(w, Recorders(d))
  <2>1. \A i \in Loggers : w.rec[i].wrote =>
            Odd(w.rec[i].status) \/ (w.committed /\ w.status = w.rec[i].status)
    <3> TAKE i \in Loggers
    <3>1. CASE i \in Recorders(d) /\ ~o.rec[i].wrote
      BY <1>3, <1>6, <1>8, <3>1 DEF Consistent
    <3>2. CASE ~(i \in Recorders(d) /\ ~o.rec[i].wrote)
      <4>1. w.rec[i] = o.rec[i]
        BY <1>2, <1>3, <1>8, <3>2
      <4> QED BY <1>6, <1>8, <4>1 DEF Consistent
    <3> QED BY <3>1, <3>2
  <2>2. \A i, j \in Recorders(d) : w.rec[i] = w.rec[j]
    <3> TAKE i, j \in Recorders(d)
    <3>1. o.rec[i] = o.rec[j]
      BY DEF Consistent
    <3> QED BY <1>2, <1>3, <1>8, <3>1
  <2>3. \A i \in Recorders(d) : w.rec[i].wrote
    BY <1>2, <1>3, <1>8
  <2> QED BY <1>8, <2>1, <2>2, <2>3 DEF Consistent
<1>11. Sound(w)
  BY <1>1, <1>9 DEF Sound, Moves
<1>12. ASSUME \A k \in DOMAIN o.body : o.body[k] = chunk
       PROVE  \A k \in DOMAIN w.body : w.body[k] = chunk
  <2>1. o.body \in Seq({"app", "error"})
    BY <1>1 DEF Response
  <2>2. CASE w.body = o.body
    BY <1>12, <2>2
  <2>3. CASE w.body = Append(o.body, chunk)
    <3>1. /\ Len(w.body) = Len(o.body) + 1 /\ DOMAIN w.body = 1 .. Len(o.body) + 1
          /\ w.body[Len(o.body) + 1] = chunk
          /\ \A k \in 1 .. Len(o.body) : k \in DOMAIN o.body /\ w.body[k] = o.body[k]
      BY <2>1, <2>3
    <3>2. \A k \in 1 .. Len(o.body) + 1 : k \in 1 .. Len(o.body) \/ k = Len(o.body) + 1
      BY <2>1
    <3> QED BY <1>12, <3>1, <3>2
  <2> QED BY <1>8, <2>2, <2>3
<1> QED BY <1>6, <1>8, <1>9, <1>10, <1>11, <1>12 DEF w

\* A response with a status and a body.
LEMMA RespondWorks ==
    ASSUME NEW o, Sound(o), NEW d \in 1..Inner, NEW code \in Int, NEW chunk \in {"app", "error"},
           NEW contentType \in {"json", "text"}, Consistent(o, Recorders(d)), broken \in BOOLEAN
    PROVE  LET w == Respond(o, d, contentType, code, chunk) IN
           /\ Moves(o, w, d) /\ Consistent(w, Recorders(d))
           /\ ~Panics(o, d, code) => w.committed
           /\ Untouched(o, d) /\ ~Odd(code) =>
                 w.committed /\ w.status = code /\ w.sent.contentType = contentType
           /\ Panics(o, d, code) => ~w.committed /\ ~o.committed /\ Invalid(code)
           /\ ~Panics(o, d, code) /\ Invalid(code) => ~Untouched(o, d)
           /\ (\A k \in DOMAIN o.body : o.body[k] = chunk) => \A k \in DOMAIN w.body : w.body[k] = chunk
<1> DEFINE n == [o EXCEPT !.header.contentType = contentType]
           h == WriteHeader(n, d, code)
           w == Respond(o, d, contentType, code, chunk)
<1>1. o \in Response /\ o.header \in Header
  BY DEF Sound, Response
<1>2. [o.header EXCEPT !.contentType = contentType] \in Header
  BY <1>1 DEF Header
<1>3. /\ n \in Response /\ n.rec = o.rec /\ n.committed = o.committed /\ n.status = o.status
      /\ n.sent = o.sent /\ n.body = o.body
      /\ n.header = [o.header EXCEPT !.contentType = contentType]
  BY <1>1, <1>2 DEF Response
<1>4. Traced(n.header, o.header) /\ n.header.contentType = contentType
  BY <1>1, <1>3 DEF Traced, Header
<1> HIDE DEF n
<1>5. Sound(n) /\ Consistent(n, Recorders(d)) /\ (Untouched(n, d) <=> Untouched(o, d))
  BY <1>3 DEF Sound, Consistent, Untouched
<1>6. /\ Moves(n, h, d) /\ Consistent(h, Recorders(d)) /\ Sound(h)
      /\ h.header = n.header /\ h.body = o.body
      /\ Untouched(o, d) /\ ~Odd(code) => h.committed /\ h.status = code /\ h.sent = n.header
      /\ Untouched(o, d) /\ Odd(code) => ~h.committed
      /\ ~Untouched(o, d) => h = n
  BY <1>3, <1>5, WriteHeaderWorks
<1>7. Moves(o, h, d)
  BY <1>3, <1>4, <1>6 DEF Moves, Traced
<1>8. w = IF Panics(o, d, code) THEN h ELSE Write(h, d, chunk)
  BY DEF Respond, n
<1> HIDE DEF h
<1>9. Panics(o, d, code) <=> Invalid(code) /\ Untouched(o, d)
  BY <1>1, RecordersAreLoggers DEF Panics, Untouched, Reaches, Sound
<1>10. CASE Panics(o, d, code)
  BY <1>6, <1>7, <1>8, <1>9, <1>10 DEF Odd, w, Untouched
<1>11. CASE ~Panics(o, d, code)
  <2> DEFINE v == Write(h, d, chunk)
  <2>1. /\ Moves(h, v, d) /\ Consistent(v, Recorders(d)) /\ Sound(v) /\ v.committed
        /\ v.header = h.header
        /\ (\A k \in DOMAIN h.body : h.body[k] = chunk) => \A k \in DOMAIN v.body : v.body[k] = chunk
    BY <1>6, WriteWorks
  <2>2. w = v
    BY <1>8, <1>11
  <2> HIDE DEF v, w
  <2>3. Moves(o, v, d)
    BY <1>7, <2>1 DEF Moves, Traced
  <2>4. Untouched(o, d) /\ ~Odd(code) =>
           v.committed /\ v.status = code /\ v.sent.contentType = contentType
    BY <1>4, <1>6, <2>1 DEF Moves
  <2> QED BY <1>6, <1>9, <1>11, <2>1, <2>2, <2>3, <2>4 DEF w
<1> QED BY <1>10, <1>11

-----------------------------------------------------------------------------
(* The invariant is kept.                                                  *)

\* The recorders that a call at the present depth passes.
LEMMA AroundHere ==
    ASSUME TypeOK, depth \in 1..Inner, depth = Inner \/ chain[depth] # "logger"
    PROVE  Recorders(depth) = Around
<1>1. chain \in Seq(Layers) /\ DOMAIN chain = 1..Len(chain) /\ Len(chain) \in Nat
  BY DEF TypeOK
<1>2. \A i \in Loggers : i <= depth => i < depth
  BY <1>1 DEF Loggers, At, Inner
<1> QED BY <1>1, <1>2, RecordersAreLoggers DEF Around

\* What does not change while a request is served.
LEMMA FixedSame ==
    ASSUME UNCHANGED fixed
    PROVE  /\ chain' = chain /\ cfg' = cfg /\ req' = req
           /\ Inner' = Inner /\ Loggers' = Loggers /\ Response' = Response
           /\ (Allowed' <=> Allowed)
           /\ \A i : (Refuses(i)' <=> Refuses(i)) /\ Refusal(i)' = Refusal(i)
           /\ \A f, i : Passes(f, i)' <=> Passes(f, i)
           /\ \A o, S : Consistent(o, S)' <=> Consistent(o, S)
BY DEF fixed, Inner, Loggers, At, Response, Allowed, Identified, Refuses, Refusal, Passes, Consistent

\* The chain and the depth as numbers.
LEMMA ChainFacts ==
    ASSUME TypeOK
    PROVE  /\ chain \in Seq(Layers) /\ DOMAIN chain = 1..Len(chain) /\ Len(chain) \in Nat
           /\ Inner = Len(chain) + 1 /\ Inner \in Nat /\ depth \in Nat /\ depth <= Inner
           /\ Len(ctx) \in Nat /\ Len(ctx) >= 1 /\ Len(ctx) <= Inner
           /\ \A kind, i : i \in At(kind, DOMAIN chain) <=> i \in 1..Len(chain) /\ chain[i] = kind
           /\ \A i : i \in Loggers <=> i \in 1..Len(chain) /\ chain[i] = "logger"
           /\ Sound(out)
BY DEF TypeOK, Inner, At, Loggers, Sound, Odd

\* The lines and the faults as records.
LEMMA HistoryFacts ==
    ASSUME TypeOK
    PROVE  /\ \A k \in DOMAIN log : log[k].layer \in 1..Len(chain) /\ log[k].layer \in Nat
           /\ \A f \in faults : f.at \in 1..Inner /\ f.at \in Nat /\ f.status \in Int
           /\ DOMAIN log = 1..Len(log) /\ Len(log) \in Nat
<1>1. /\ chain \in Seq(Layers) /\ log \in Seq([layer : DOMAIN chain, status : Int, id : Int])
      /\ faults \subseteq [at : 1..Inner, status : Int, panics : BOOLEAN, early : BOOLEAN]
  BY DEF TypeOK
<1>2. DOMAIN chain = 1..Len(chain) /\ Len(chain) \in Nat /\ Inner \in Nat
  BY <1>1 DEF Inner
<1>3. DOMAIN log = 1..Len(log) /\ Len(log) \in Nat
  BY <1>1
<1>4. \A k \in DOMAIN log : log[k] \in [layer : DOMAIN chain, status : Int, id : Int]
  BY <1>1, <1>3, ElementOfSeq
<1> QED BY <1>1, <1>2, <1>3, <1>4

\* A layer passes the request on: nothing has been written yet.
LEMMA DescendStep ==
    ASSUME HTTPInv, pc = "down", ~Refuses(depth),
           NEW c \in Context, CallNext(c),
           UNCHANGED <<fixed, faults, quiet>>,
           c.roles = IF chain[depth] = "auth" THEN req.roles ELSE ctx[depth].roles,
           IF chain[depth] = "requestID" THEN c.id # NoID ELSE c.id = ctx[depth].id,
           out' \in Response, out'.rec = out.rec, out'.committed = out.committed,
           out'.body = out.body, out'.header.id = c.id,
           IF chain[depth] = "cors" /\ Allowed
           THEN /\ out'.header.origin = IF cfg.wildcard /\ ~cfg.credentials THEN "*" ELSE req.origin
                /\ out'.header.credentials <=> out.header.credentials \/ cfg.credentials
           ELSE /\ out'.header.origin = out.header.origin
                /\ out'.header.credentials = out.header.credentials
    PROVE  HTTPInv'
<1>1. TypeOK /\ Placed /\ Headed /\ Clean /\ Unwound /\ \A j \in 1..Len(ctx) : Passed(j)
  BY DEF HTTPInv
<1>2. /\ chain \in Seq(Layers) /\ DOMAIN chain = 1..Len(chain) /\ Len(chain) \in Nat
      /\ Inner = Len(chain) + 1 /\ \A kind, i : i \in At(kind, DOMAIN chain) <=> i \in 1..Len(chain) /\ chain[i] = kind
      /\ \A i : i \in Loggers <=> i \in 1..Len(chain) /\ chain[i] = "logger"
  BY <1>1, ChainFacts
<1>3. depth \in 1..Len(chain) /\ Len(ctx) = depth /\ faults = {} /\ log = <<>>
  BY <1>1, <1>2 DEF Placed, Unwound, Descending
<1>4. /\ depth' = depth + 1 /\ pc' = IF depth + 1 = Inner THEN "handler" ELSE "down"
      /\ ctx' = Append(ctx, c)
  BY DEF CallNext
<1>5. /\ ctx' \in Seq(Context)
      /\ Len(ctx') = depth + 1 /\ ctx'[depth + 1] = c
      /\ \A j \in 1..depth : ctx'[j] = ctx[j]
  BY <1>1, <1>3, <1>4 DEF TypeOK
<1>6. chain' = chain /\ cfg' = cfg /\ req' = req /\ Inner' = Inner /\ Loggers' = Loggers
      /\ Response' = Response /\ (Allowed' <=> Allowed)
      /\ faults' = {} /\ log' = <<>> /\ aborted' = aborted
  BY <1>3, FixedSame DEF quiet
<1>7. TypeOK'
  <2>1. UNCHANGED <<err, bound, broken, aborted, writes, log>>
    BY DEF quiet
  <2>2. \A i \in DOMAIN chain : out'.rec[i].wrote \/ out'.rec[i].status = 200
    BY <1>1 DEF TypeOK
  <2>3. ~out'.committed
    BY <1>1 DEF Clean
  <2> QED BY <1>1, <1>2, <1>3, <1>4, <1>5, <1>6, <2>1, <2>2, <2>3 DEF TypeOK
<1>8. Placed'
  BY <1>1, <1>2, <1>3, <1>4, <1>5, <1>6 DEF Placed
<1>9. ASSUME NEW j \in 1..Len(ctx') PROVE Passed(j)'
  <2>1. j < depth + 1 => ~Refuses(j)'
    <3>1. CASE j < depth
      BY <1>1, <1>3, <1>5, <1>9, <3>1, FixedSame DEF Passed
    <3>2. CASE j = depth
      BY <3>2, FixedSame
    <3> QED BY <1>3, <1>5, <1>9, <3>1, <3>2
  <2>2. ctx'[j].roles = IF At("auth", 1..j - 1) = {} THEN {} ELSE req.roles
    <3>1. CASE j <= depth
      BY <1>1, <1>3, <1>5, <1>9, <3>1 DEF Passed
    <3>2. CASE j = depth + 1
      <4>1. ctx[depth].roles = IF At("auth", 1..depth - 1) = {} THEN {} ELSE req.roles
        BY <1>1, <1>3 DEF Passed
      <4>2. At("auth", 1..j - 1) = At("auth", 1..depth - 1) \cup {i \in {depth} : chain[i] = "auth"}
        BY <1>3, <3>2 DEF At
      <4> QED BY <1>5, <3>2, <4>1, <4>2
    <3> QED BY <1>3, <1>5, <1>9, <3>1, <3>2
  <2>3. At("requestID", 1..j - 1) # {} => ctx'[j].id # NoID
    <3>1. CASE j <= depth
      BY <1>1, <1>3, <1>5, <1>9, <3>1 DEF Passed
    <3>2. CASE j = depth + 1
      <4>1. At("requestID", 1..depth - 1) # {} => ctx[depth].id # NoID
        BY <1>1, <1>3 DEF Passed
      <4>2. At("requestID", 1..j - 1) = At("requestID", 1..depth - 1) \cup {i \in {depth} : chain[i] = "requestID"}
        BY <1>3, <3>2 DEF At
      <4> QED BY <1>5, <3>2, <4>1, <4>2
    <3> QED BY <1>3, <1>5, <1>9, <3>1, <3>2
  <2>4. At("requestID", j..depth) = {} => ctx'[j].id = c.id
    <3>1. CASE j <= depth
      <4>1. At("requestID", j..depth - 1) = {} => ctx[j].id = ctx[depth].id
        BY <1>1, <1>3, <1>9, <1>5, <3>1 DEF Passed
      <4>2. At("requestID", j..depth) = {} => At("requestID", j..depth - 1) = {} /\ chain[depth] # "requestID"
        BY <1>3, <1>5, <1>9, <3>1 DEF At
      <4> QED BY <1>3, <1>5, <1>9, <3>1, <4>1, <4>2
    <3>2. CASE j = depth + 1
      BY <1>5, <3>2
    <3> QED BY <1>3, <1>5, <1>9, <3>1, <3>2
  <2> QED BY <1>3, <1>5, <1>6, <1>9, <2>1, <2>2, <2>3, <2>4 DEF Passed, At
<1>10. Headed'
  <2>1. Granted <=> Allowed /\ \E i \in At("cors", DOMAIN chain) : i < depth
    BY <1>3 DEF Granted
  <2>2. Granted' <=> Allowed /\ \E i \in At("cors", DOMAIN chain) : i <= depth
    BY <1>2, <1>3, <1>4, <1>5, <1>6 DEF Granted, At
  <2>3. Granted' <=> Granted \/ (Allowed /\ chain[depth] = "cors")
    BY <1>2, <1>3, <2>1, <2>2
  <2>4. ~out'.committed
    BY <1>1 DEF Clean
  <2>5. /\ out.header.origin = IF ~Granted THEN "none"
                               ELSE IF cfg.wildcard /\ ~cfg.credentials THEN "*" ELSE req.origin
        /\ out.header.credentials <=> Granted /\ cfg.credentials
    BY <1>1 DEF Headed
  <2>6. out'.header.id = ctx'[Len(ctx')].id
    BY <1>3, <1>5
  <2> QED BY <1>6, <2>3, <2>4, <2>5, <2>6 DEF Headed
<1>11. Clean'
  <2>1. ~out'.committed /\ out'.body = <<>> /\ \A i \in DOMAIN chain : ~out'.rec[i].wrote
    BY <1>1 DEF Clean, Consistent
  <2>2. \A i, j \in DOMAIN chain : out'.rec[i] = out'.rec[j]
    <3> TAKE i, j \in DOMAIN chain
    <3>1. /\ out'.rec[i] \in [status : Int, wrote : BOOLEAN] /\ out'.rec[i].wrote = FALSE
          /\ out'.rec[j] \in [status : Int, wrote : BOOLEAN] /\ out'.rec[j].wrote = FALSE
      BY <2>1 DEF Response
    <3>2. out'.rec[i].status = 200 /\ out'.rec[j].status = 200
      <4>1. \A k \in DOMAIN chain : out'.rec[k].wrote \/ out'.rec[k].status = 200
        BY <1>1 DEF TypeOK
      <4> QED BY <2>1, <4>1
    <3> QED BY <3>1, <3>2
  <2>3. Loggers \subseteq DOMAIN chain
    BY <1>2
  <2> QED BY <1>6, <2>1, <2>2, <2>3 DEF Clean, Consistent, Around
<1>12. Turned' /\ Lined' /\ Reported'
  BY <1>4, <1>6 DEF Turned, Lined, Reported, Descending
<1>13. Unwound'
  BY <1>2, <1>3, <1>4, <1>5, <1>6 DEF Unwound, Descending
<1> QED BY <1>7, <1>8, <1>9, <1>10, <1>11, <1>12, <1>13 DEF HTTPInv

\* A call at layer d leaves the other recorders alone, and no call is one too.
LEMMA NoMove ==
    ASSUME Sound(out), out' = out, NEW d
    PROVE  Moves(out, out', d)
BY DEF Moves, Sound, Traced

\* The types, once the request is on its way out.
LEMMA TypeKept ==
    ASSUME TypeOK, UNCHANGED <<fixed, ctx>>, NEW d, Moves(out, out', d),
           pc' \in {"handler", "returned", "up", "panic", "done"}, depth' \in 0..Inner,
           err' \in [kind : {"none", "other", "http", "nil"}, status : Int],
           bound' \in BOOLEAN, broken' \in BOOLEAN, aborted' \in BOOLEAN,
           writes' \in 0..MaxWrites,
           log' \in Seq([layer : DOMAIN chain, status : Int, id : Int]),
           faults' \subseteq [at : 1..Inner, status : Int, panics : BOOLEAN, early : BOOLEAN]
    PROVE  TypeOK'
<1>1. chain' = chain /\ cfg' = cfg /\ req' = req /\ Inner' = Inner /\ Response' = Response /\ ctx' = ctx
  BY FixedSame
<1>2. /\ out' \in Response
      /\ \A i \in DOMAIN chain : out'.rec[i].wrote \/ out'.rec[i].status = 200
      /\ out'.committed => ~Informational(out'.status) /\ ~Invalid(out'.status)
  BY DEF Moves, Odd
<1> QED BY <1>1, <1>2 DEF TypeOK

\* The contexts and the header map do not change on the way out.
LEMMA ContextKept ==
    ASSUME HTTPInv, UNCHANGED <<fixed, ctx>>, NEW d, Moves(out, out', d),
           pc = "down" => chain[depth] # "cors", pc' # "down"
    PROVE  (\A j \in 1..Len(ctx') : Passed(j)') /\ Headed'
<1>1. TypeOK /\ Placed /\ Headed /\ \A j \in 1..Len(ctx) : Passed(j)
  BY DEF HTTPInv
<1>2. chain' = chain /\ cfg' = cfg /\ req' = req /\ ctx' = ctx /\ (Allowed' <=> Allowed)
  BY FixedSame
<1>3. \A j \in 1..Len(ctx') : Passed(j)'
  BY <1>1, <1>2, FixedSame DEF Passed, At
<1>4. Granted' <=> Granted
  <2>1. At("cors", DOMAIN chain)' = At("cors", DOMAIN chain)
    BY <1>2 DEF At
  <2>2. CASE pc = "down"
    <3>1. Len(ctx) = depth
      BY <1>1, <2>2 DEF Placed
    <3>2. Len(ctx) \notin At("cors", DOMAIN chain)
      BY <2>2, <3>1 DEF At
    <3> QED BY <1>2, <2>1, <3>2 DEF Granted
  <2>3. CASE pc # "down"
    BY <1>2, <2>1, <2>3 DEF Granted
  <2> QED BY <2>2, <2>3
<1>5. Traced(out'.header, out.header)
      /\ (out.committed => out'.committed /\ out'.sent = out.sent)
      /\ (~out.committed /\ out'.committed => out'.sent = out'.header)
  BY DEF Moves
<1>6. out'.committed => Traced(out'.sent, out'.header)
  <2>1. out.committed => Traced(out.sent, out.header)
    BY <1>1 DEF Headed
  <2> QED BY <1>5, <2>1 DEF Traced
<1>7. Headed'
  <2>1. /\ out.header.id = ctx[Len(ctx)].id
        /\ out.header.origin = IF ~Granted THEN "none"
                               ELSE IF cfg.wildcard /\ ~cfg.credentials THEN "*" ELSE req.origin
        /\ out.header.credentials <=> Granted /\ cfg.credentials
    BY <1>1 DEF Headed
  <2>2. /\ out'.header.id = out.header.id /\ out'.header.origin = out.header.origin
        /\ out'.header.credentials = out.header.credentials
    BY <1>5 DEF Traced
  <2> QED BY <1>2, <1>4, <1>6, <2>1, <2>2 DEF Headed
<1> QED BY <1>3, <1>7

\* A layer refuses the request and answers it.  o is the response that it starts
\* from, with the header that it has set.
LEMMA RefuseStep ==
    ASSUME HTTPInv, pc = "down", Refuses(depth), ReturnOut, UNCHANGED <<fixed, ctx, faults, quiet>>,
           chain[depth] # "logger",
           NEW o, Moves(o, out', depth), Consistent(out', Recorders(depth)), ~o.committed,
           out'.committed, out'.status = Refusal(depth), o.header.id = out.header.id,
           IF chain[depth] = "cors" /\ Allowed
           THEN /\ o.header.origin = IF cfg.wildcard /\ ~cfg.credentials THEN "*" ELSE req.origin
                /\ o.header.credentials <=> out.header.credentials \/ cfg.credentials
           ELSE /\ o.header.origin = out.header.origin
                /\ o.header.credentials = out.header.credentials
    PROVE  HTTPInv'
<1>1. TypeOK /\ Placed /\ Headed /\ Clean /\ Unwound /\ \A j \in 1..Len(ctx) : Passed(j)
  BY DEF HTTPInv
<1>2. /\ chain \in Seq(Layers) /\ DOMAIN chain = 1..Len(chain) /\ Len(chain) \in Nat
      /\ Inner = Len(chain) + 1
      /\ \A kind, i : i \in At(kind, DOMAIN chain) <=> i \in 1..Len(chain) /\ chain[i] = kind
      /\ \A i : i \in Loggers <=> i \in 1..Len(chain) /\ chain[i] = "logger"
  BY <1>1, ChainFacts
<1>3. depth \in 1..Len(chain) /\ Len(ctx) = depth /\ faults = {} /\ log = <<>> /\ ~aborted
  BY <1>1, <1>2 DEF Placed, Unwound, Descending
<1>4. /\ chain' = chain /\ cfg' = cfg /\ req' = req /\ Inner' = Inner /\ Loggers' = Loggers
      /\ ctx' = ctx /\ (Allowed' <=> Allowed) /\ Response' = Response
      /\ faults' = {} /\ log' = <<>> /\ ~aborted' /\ pc' = "up" /\ depth' = depth - 1
  BY <1>3, FixedSame DEF quiet, ReturnOut
<1>5. TypeOK'
  <2>1. UNCHANGED <<err, bound, broken, aborted, writes, log>>
    BY DEF quiet
  <2>2. /\ out' \in Response
        /\ \A i \in DOMAIN chain : out'.rec[i].wrote \/ out'.rec[i].status = 200
        /\ out'.committed => ~Informational(out'.status) /\ ~Invalid(out'.status)
    BY DEF Moves, Odd
  <2> QED BY <1>1, <1>2, <1>3, <1>4, <2>1, <2>2 DEF TypeOK
<1>6. Placed'
  BY <1>2, <1>3, <1>4 DEF Placed
<1>7. \A j \in 1..Len(ctx') : Passed(j)'
  BY <1>1, <1>4, FixedSame DEF Passed, At
<1>8. Headed'
  <2>1. Granted <=> Allowed /\ \E i \in At("cors", DOMAIN chain) : i < depth
    BY <1>3 DEF Granted
  <2>2. Granted' <=> Allowed /\ \E i \in At("cors", DOMAIN chain) : i <= depth
    BY <1>2, <1>3, <1>4 DEF Granted, At
  <2>3. Granted' <=> Granted \/ (Allowed /\ chain[depth] = "cors")
    <3>1. /\ depth \in At("cors", DOMAIN chain) <=> chain[depth] = "cors"
          /\ \A i \in At("cors", DOMAIN chain) : i \in Nat
      BY <1>2, <1>3
    <3> QED BY <1>3, <2>1, <2>2, <3>1
  <2>4. /\ out.header.id = ctx[Len(ctx)].id
        /\ out.header.origin = IF ~Granted THEN "none"
                               ELSE IF cfg.wildcard /\ ~cfg.credentials THEN "*" ELSE req.origin
        /\ out.header.credentials <=> Granted /\ cfg.credentials
    BY <1>1 DEF Headed
  <2>5. Traced(out'.header, o.header) /\ out'.sent = out'.header
    BY DEF Moves
  <2> QED BY <1>4, <2>3, <2>4, <2>5 DEF Headed, Traced
<1>9. Clean'
  <2>1. Recorders(depth) = Around
    BY <1>1, <1>2, <1>3, AroundHere
  <2>2. Around' \subseteq Around
    BY <1>2, <1>3, <1>4 DEF Around
  <2>3. Consistent(out', Around)
    BY <2>1
  <2> QED BY <1>4, <2>2, <2>3 DEF Clean, Consistent
<1>10. Turned'
  BY <1>3, <1>4, FixedSame DEF Turned
<1>11. Lined' /\ Reported'
  BY <1>4 DEF Lined, Reported
<1>12. Unwound'
  BY <1>2, <1>3, <1>4 DEF Unwound, Descending
<1> QED BY <1>5, <1>6, <1>7, <1>8, <1>9, <1>10, <1>11, <1>12 DEF HTTPInv

\* The application uses its ResponseWriter or returns.
LEMMA HandlerStep ==
    ASSUME HTTPInv, pc \in {"handler", "returned"}, pc' \in {"handler", "returned"},
           UNCHANGED <<fixed, depth, ctx, log, faults, aborted>>,
           Moves(out, out', depth), Consistent(out', Recorders(depth)),
           err' \in [kind : {"none", "other", "http", "nil"}, status : Int],
           bound' \in BOOLEAN, broken' \in BOOLEAN, writes' \in 0..MaxWrites
    PROVE  HTTPInv'
<1>1. TypeOK /\ Placed /\ Clean /\ Unwound
  BY DEF HTTPInv
<1>2. /\ DOMAIN chain = 1..Len(chain) /\ Len(chain) \in Nat /\ Inner = Len(chain) + 1
      /\ \A i : i \in Loggers <=> i \in 1..Len(chain) /\ chain[i] = "logger"
  BY <1>1, ChainFacts
<1>3. depth = Inner /\ Len(ctx) = Inner /\ faults = {} /\ log = <<>> /\ ~aborted
  BY <1>1 DEF Placed, Unwound, Descending
<1>4. /\ chain' = chain /\ Inner' = Inner /\ Loggers' = Loggers
      /\ ctx' = ctx /\ faults' = {} /\ log' = <<>> /\ ~aborted' /\ depth' = depth
  BY <1>3, FixedSame
<1>5. TypeOK'
  <2>1. depth' \in 0..Inner /\ log' \in Seq([layer : DOMAIN chain, status : Int, id : Int])
        /\ faults' \subseteq [at : 1..Inner, status : Int, panics : BOOLEAN, early : BOOLEAN]
        /\ aborted' \in BOOLEAN /\ UNCHANGED <<fixed, ctx>>
    BY <1>1 DEF TypeOK
  <2> QED BY <1>1, <2>1, TypeKept
<1>6. Placed'
  BY <1>3, <1>4 DEF Placed
<1>7. (\A j \in 1..Len(ctx') : Passed(j)') /\ Headed'
  <2>1. UNCHANGED <<fixed, ctx>> /\ pc # "down" /\ pc' # "down"
    OBVIOUS
  <2> QED BY <2>1, ContextKept
<1>8. Clean'
  <2>1. Recorders(depth) = Around
    BY <1>1, <1>2, <1>3, AroundHere
  <2>2. Around' = Around
    BY <1>4 DEF Around
  <2> QED BY <1>4, <2>1, <2>2 DEF Clean, Consistent
<1>9. Turned' /\ Lined' /\ Reported'
  BY <1>4 DEF Turned, Lined, Reported, Descending
<1>10. Unwound'
  BY <1>2, <1>3, <1>4 DEF Unwound, Descending
<1> QED BY <1>5, <1>6, <1>7, <1>8, <1>9, <1>10 DEF HTTPInv

\* A panic starts at the layer that control is in, a RequestLogger on the way out,
\* a callback on the way in, or the handler.
LEMMA ThrowStep ==
    ASSUME HTTPInv, pc \in {"down", "handler", "returned", "up"}, depth > 0, Throw,
           pc = "down" => chain[depth] # "cors",
           UNCHANGED <<fixed, ctx, quiet>>,
           \/ out' = out
           \/ /\ depth = Inner /\ Moves(out, out', depth) /\ Consistent(out', Recorders(depth))
              /\ ~out.committed /\ ~out'.committed /\ pc = "returned"
    PROVE  HTTPInv'
<1> DEFINE f0 == [at |-> depth, status |-> 500, panics |-> TRUE, early |-> ~out.committed]
<1>1. TypeOK /\ Placed /\ Clean /\ Turned /\ Lined /\ Unwound /\ Reported
  BY DEF HTTPInv
<1>2. /\ DOMAIN chain = 1..Len(chain) /\ Len(chain) \in Nat /\ Inner = Len(chain) + 1
      /\ \A kind, i : i \in At(kind, DOMAIN chain) <=> i \in 1..Len(chain) /\ chain[i] = kind
      /\ \A i : i \in Loggers <=> i \in 1..Len(chain) /\ chain[i] = "logger"
      /\ depth \in 1..Inner /\ Len(ctx) \in 1..Inner /\ Sound(out)
  BY <1>1, ChainFacts
<1>3. /\ pc' = "panic" /\ depth' = (IF depth = Inner THEN depth - 1 ELSE depth)
      /\ faults' = faults \cup {f0}
  BY DEF Throw, Fault
<1>4. /\ chain' = chain /\ cfg' = cfg /\ Inner' = Inner /\ Loggers' = Loggers
      /\ ctx' = ctx /\ log' = log /\ aborted' = aborted
  BY FixedSame DEF quiet
<1>5. /\ pc = "up" => depth < Len(ctx) /\ depth' = depth /\ out' = out
      /\ pc = "down" => Len(ctx) = depth /\ depth' = depth /\ out' = out /\ ~out.committed
      /\ pc \in {"handler", "returned"} => depth = Inner /\ Len(ctx) = Inner /\ depth' = Len(chain)
      /\ pc # "up" => faults = {} /\ log = <<>>
      /\ ~aborted
  <2>1. CASE pc = "down"
    BY <1>1, <1>2, <1>3, <2>1 DEF Placed, Unwound, Clean, Descending
  <2>2. CASE pc = "up"
    <3>1. depth < Len(ctx) /\ ~aborted
      BY <1>1, <2>2 DEF Placed
    <3> QED BY <1>2, <1>3, <2>2, <3>1
  <2>3. CASE pc \in {"handler", "returned"}
    <3>1. depth = Inner /\ Len(ctx) = Inner /\ ~aborted
      BY <1>1, <2>3 DEF Placed
    <3>2. faults = {} /\ log = <<>>
      BY <1>1, <2>3 DEF Unwound, Descending
    <3>3. depth' = Len(chain)
      BY <1>2, <1>3, <3>1
    <3> QED BY <2>3, <3>1, <3>2, <3>3
  <2> QED BY <2>1, <2>2, <2>3
<1>6. Moves(out, out', depth) /\ Consistent(out', Around)
  <2>1. CASE out' = out
    BY <1>1, <1>2, <2>1, NoMove DEF Clean
  <2>2. CASE depth = Inner /\ Moves(out, out', depth) /\ Consistent(out', Recorders(depth))
    BY <1>1, <1>2, <2>2, AroundHere
  <2> QED BY <2>1, <2>2
<1>7. f0 \in [at : 1..Inner, status : Int, panics : BOOLEAN, early : BOOLEAN]
      /\ f0.at = depth /\ f0.status = 500 /\ f0.panics = TRUE /\ f0.early = ~out.committed
  BY <1>2
<1> HIDE DEF f0
<1>8. TypeOK'
  <2>1. UNCHANGED <<err, bound, broken, aborted, writes, log>>
    BY DEF quiet
  <2>2. depth' \in 0..Inner /\ log' \in Seq([layer : DOMAIN chain, status : Int, id : Int])
        /\ faults' \subseteq [at : 1..Inner, status : Int, panics : BOOLEAN, early : BOOLEAN]
    BY <1>1, <1>2, <1>3, <1>7, <2>1 DEF TypeOK
  <2>3. err' \in [kind : {"none", "other", "http", "nil"}, status : Int]
        /\ bound' \in BOOLEAN /\ broken' \in BOOLEAN /\ aborted' \in BOOLEAN /\ writes' \in 0..MaxWrites
    BY <1>1, <2>1 DEF TypeOK
  <2> QED BY <1>1, <1>3, <1>6, <2>2, <2>3, TypeKept
<1>9. Placed'
  <2>1. depth' <= Len(ctx) /\ depth' <= Len(chain)
    <3>1. CASE pc \in {"handler", "returned"}
      BY <1>2, <1>5, <3>1
    <3>2. CASE pc = "down" \/ pc = "up"
      <4>1. depth' = depth /\ depth <= Len(ctx)
        BY <1>2, <1>5, <3>2
      <4>2. depth # Inner
        BY <1>2, <1>3, <4>1
      <4> QED BY <1>2, <4>1, <4>2
    <3> QED BY <3>1, <3>2
  <2> QED BY <1>3, <1>4, <1>5, <2>1 DEF Placed
<1>10. (\A j \in 1..Len(ctx') : Passed(j)') /\ Headed'
  BY <1>3, <1>6, ContextKept
<1>11. Clean'
  <2>1. Around' \subseteq Around
    BY <1>2, <1>3, <1>4 DEF Around
  <2> QED BY <1>3, <1>4, <1>6, <2>1 DEF Clean, Consistent
<1>12. Turned'
  <2>1. CASE pc = "down"
    BY <1>3, <1>5, <1>7, <2>1 DEF Turned
  <2>2. CASE pc = "up"
    BY <1>1, <1>3, <1>4, <1>5, <2>2, FixedSame DEF Turned, Descending
  <2>3. CASE pc \in {"handler", "returned"}
    BY <1>2, <1>4, <1>5, <2>3 DEF Turned
  <2> QED BY <2>1, <2>2, <2>3
<1>13. Lined'
  <2>1. ASSUME NEW k \in DOMAIN log PROVE Logged(log[k])'
    <3>1. pc = "up" /\ Logged(log[k])
      BY <1>1, <1>5 DEF Lined
    <3>2. depth < log[k].layer /\ f0.at = depth /\ f0 \in faults' /\ log[k].layer \in 1..Len(chain)
      BY <1>1, <1>3, <1>7, <3>1, HistoryFacts DEF Logged
    <3>3. ~(\A f \in faults' : f.at >= log[k].layer)
      BY <1>2, <3>2
    <3> QED BY <1>4, <1>5, <3>1, <3>3 DEF Logged
  <2> QED BY <1>1, <1>4, <2>1 DEF Lined
<1>14. Unwound'
  <2>1. \A f \in faults' : depth' <= f.at
    <3>1. \A f \in faults : depth <= f.at /\ f.at \in Nat
      BY <1>1, HistoryFacts DEF Unwound
    <3>2. depth' \in Nat /\ depth' <= depth
      BY <1>2, <1>3
    <3> QED BY <1>2, <1>3, <1>7, <3>1, <3>2
  <2>2. Passes(f0, depth')
    BY <1>2, <1>3, <1>7 DEF Passes
  <2>3. \A k \in DOMAIN log : log[k].layer > f0.at
    <3> TAKE k \in DOMAIN log
    <3>1. Logged(log[k]) /\ log[k].layer \in 1..Len(chain)
      BY <1>1, HistoryFacts DEF Lined
    <3> QED BY <1>2, <1>7, <3>1 DEF Logged
  <2>4. ASSUME NEW i \in Loggers, depth' < i, i <= Len(ctx)
        PROVE  HasLine(i)' <=> ~\E f \in faults' : Passes(f, i)
    <3>1. pc = "up" /\ depth < i
      <4>1. i \in 1..Len(chain)
        BY <1>2
      <4> QED BY <1>2, <1>5, <2>4, <4>1
    <3>2. ~Passes(f0, i)
      BY <1>2, <1>7, <3>1 DEF Passes
    <3>3. HasLine(i) <=> ~\E f \in faults : Passes(f, i)
      BY <1>1, <2>4, <3>1 DEF Unwound
    <3> QED BY <1>3, <1>4, <3>2, <3>3 DEF HasLine
  <2> QED BY <1>3, <1>4, <2>1, <2>2, <2>3, <2>4, FixedSame DEF Unwound, Descending
<1>15. Reported'
  <2>1. SUFFICES ASSUME \A i \in Loggers : ~Misled(i)',
                        NEW f \in faults', f.early, ~Informational(f.status)
                 PROVE  Told(f)' \/ (~out'.committed /\ f.status = 500 /\ pc' = "panic")
    BY <1>4 DEF Reported
  <2>2. CASE f = f0
    BY <1>3, <1>5, <1>7, <2>1, <2>2
  <2>3. CASE f \in faults
    <3>1. pc = "up" /\ out' = out
      BY <1>5, <2>3
    <3>2. \A i \in Loggers : ~Misled(i)
      BY <2>1, <3>1 DEF Misled
    <3>3. Told(f)
      BY <1>1, <1>5, <2>1, <2>3, <3>1, <3>2 DEF Reported
    <3> QED BY <1>4, <3>1, <3>3 DEF Told
  <2> QED BY <1>3, <2>2, <2>3
<1> QED BY <1>8, <1>9, <1>10, <1>11, <1>12, <1>13, <1>14, <1>15 DEF HTTPInv

\* A layer that does nothing on the way out, or a handler without an error, returns.
LEMMA ReturnStep ==
    ASSUME HTTPInv, pc \in {"returned", "up"}, depth > 0, depth = Inner \/ chain[depth] # "logger",
           ReturnOut, UNCHANGED <<fixed, ctx, out, faults, quiet>>
    PROVE  HTTPInv'
<1>1. TypeOK /\ Placed /\ Clean /\ Turned /\ Lined /\ Unwound /\ Reported
  BY DEF HTTPInv
<1>2. /\ DOMAIN chain = 1..Len(chain) /\ Len(chain) \in Nat /\ Inner = Len(chain) + 1
      /\ \A kind, i : i \in At(kind, DOMAIN chain) <=> i \in 1..Len(chain) /\ chain[i] = kind
      /\ \A i : i \in Loggers <=> i \in 1..Len(chain) /\ chain[i] = "logger"
      /\ depth \in 1..Inner /\ Len(ctx) \in 1..Inner /\ Sound(out)
  BY <1>1, ChainFacts
<1>3. /\ chain' = chain /\ cfg' = cfg /\ Inner' = Inner /\ Loggers' = Loggers
      /\ ctx' = ctx /\ log' = log /\ aborted' = aborted /\ faults' = faults /\ out' = out
      /\ pc' = "up" /\ depth' = depth - 1
  BY FixedSame DEF quiet, ReturnOut
<1>4. /\ depth - 1 < Len(ctx) /\ ~aborted
      /\ pc = "returned" => faults = {} /\ log = <<>> /\ depth = Inner /\ Len(ctx) = Inner
  BY <1>1, <1>2 DEF Placed, Unwound, Descending
<1>5. Moves(out, out', depth)
  BY <1>2, <1>3, NoMove
<1>6. TypeOK'
  <2>1. UNCHANGED <<err, bound, broken, aborted, writes, log>>
    BY DEF quiet
  <2>2. depth' \in 0..Inner /\ log' \in Seq([layer : DOMAIN chain, status : Int, id : Int])
        /\ faults' \subseteq [at : 1..Inner, status : Int, panics : BOOLEAN, early : BOOLEAN]
    BY <1>1, <1>2, <1>3 DEF TypeOK
  <2>3. err' \in [kind : {"none", "other", "http", "nil"}, status : Int]
        /\ bound' \in BOOLEAN /\ broken' \in BOOLEAN /\ aborted' \in BOOLEAN /\ writes' \in 0..MaxWrites
    BY <1>1, <2>1 DEF TypeOK
  <2> QED BY <1>1, <1>3, <1>5, <2>2, <2>3, TypeKept
<1>7. Placed'
  BY <1>3, <1>4 DEF Placed
<1>8. (\A j \in 1..Len(ctx') : Passed(j)') /\ Headed'
  BY <1>3, <1>5, ContextKept
<1>9. Clean'
  <2>1. Around' \subseteq Around
    BY <1>2, <1>3 DEF Around
  <2> QED BY <1>1, <1>3, <2>1 DEF Clean, Consistent
<1>10. Turned'
  <2>1. CASE pc = "returned"
    BY <1>2, <1>3, <1>4, <2>1 DEF Turned
  <2>2. CASE pc = "up"
    BY <1>1, <1>3, <2>2, FixedSame DEF Turned, Descending
  <2> QED BY <2>1, <2>2
<1>11. Lined'
  <2>1. ASSUME NEW k \in DOMAIN log PROVE Logged(log[k])'
    <3>1. pc = "up" /\ Logged(log[k]) /\ log[k].layer \in Nat
      BY <1>1, <1>4, HistoryFacts DEF Lined
    <3>2. depth - 1 < log[k].layer
      BY <1>2, <3>1 DEF Logged
    <3> QED BY <1>3, <3>1, <3>2 DEF Logged
  <2> QED BY <1>1, <1>3, <2>1 DEF Lined
<1>12. Unwound'
  <2>1. \A f \in faults : depth - 1 <= f.at
    BY <1>1, <1>2, HistoryFacts DEF Unwound
  <2>2. ASSUME NEW f \in faults, f.panics
        PROVE  \E j \in At("recovery", DOMAIN chain) : depth - 1 < j /\ j <= f.at
    <3>1. PICK j \in At("recovery", DOMAIN chain) : depth < j /\ j <= f.at
      BY <1>1, <1>4, <2>2 DEF Unwound
    <3> QED BY <1>2, <3>1
  <2>3. ASSUME NEW i \in Loggers, depth - 1 < i, i <= Len(ctx)
        PROVE  HasLine(i) <=> ~\E f \in faults : Passes(f, i)
    <3>1. i \in 1..Len(chain) /\ chain[i] = "logger"
      BY <1>2
    <3>2. i # depth
      BY <1>2, <3>1
    <3>3. depth < i
      BY <1>2, <2>3, <3>1, <3>2
    <3> QED BY <1>1, <2>3, <3>3 DEF Unwound
  <2>4. At("recovery", DOMAIN chain)' = At("recovery", DOMAIN chain)
    BY <1>3 DEF At
  <2>5. \A i \in Loggers : depth' < i /\ i <= Len(ctx') => (HasLine(i)' <=> ~\E f \in faults' : Passes(f, i)')
    BY <1>3, <2>3, FixedSame DEF HasLine
  <2> QED BY <1>3, <2>1, <2>2, <2>4, <2>5 DEF Unwound, Descending
<1>13. Reported'
  <2>1. ASSUME \A i \in Loggers : ~Misled(i), NEW f \in faults, f.early, ~Informational(f.status)
        PROVE  Told(f)
    BY <1>1, <1>4, <2>1 DEF Reported
  <2> QED BY <1>3, <2>1 DEF Reported, Told, Misled
<1> QED BY <1>6, <1>7, <1>8, <1>9, <1>10, <1>11, <1>12, <1>13 DEF HTTPInv

\* The error of a handler is answered.
LEMMA ErrorStep ==
    ASSUME HTTPInv, pc = "returned", NEW code \in Int,
           out' = Respond(out, depth, "json", code, "error"), ~Panics(out, depth, code),
           Fault(code, FALSE), ReturnOut, UNCHANGED <<fixed, ctx, quiet>>
    PROVE  HTTPInv'
<1> DEFINE f0 == [at |-> depth, status |-> code, panics |-> FALSE, early |-> ~out.committed]
<1>1. TypeOK /\ Placed /\ Clean /\ Unwound
  BY DEF HTTPInv
<1>2. /\ DOMAIN chain = 1..Len(chain) /\ Len(chain) \in Nat /\ Inner = Len(chain) + 1
      /\ \A i : i \in Loggers <=> i \in 1..Len(chain) /\ chain[i] = "logger"
      /\ Sound(out)
  BY <1>1, ChainFacts
<1>3. depth = Inner /\ Len(ctx) = Inner /\ faults = {} /\ log = <<>> /\ ~aborted
  BY <1>1 DEF Placed, Unwound, Descending
<1>4. /\ chain' = chain /\ cfg' = cfg /\ Inner' = Inner /\ Loggers' = Loggers
      /\ ctx' = ctx /\ log' = <<>> /\ ~aborted' /\ faults' = {f0}
      /\ pc' = "up" /\ depth' = Len(chain)
  BY <1>2, <1>3, FixedSame DEF quiet, ReturnOut, Fault
<1>5. Recorders(depth) = Around /\ Consistent(out, Around)
  BY <1>1, <1>2, <1>3, AroundHere DEF Clean
<1>6. broken \in BOOLEAN /\ depth \in 1..Inner
  BY <1>1, <1>2, <1>3 DEF TypeOK
<1>7. /\ Moves(out, out', depth) /\ Consistent(out', Around) /\ out'.committed
      /\ Untouched(out, depth) /\ ~Odd(code) =>
            out'.status = code /\ out'.sent.contentType = "json"
      /\ Invalid(code) => ~Untouched(out, depth)
      /\ (\A k \in DOMAIN out.body : out.body[k] = "error") =>
            \A k \in DOMAIN out'.body : out'.body[k] = "error"
  <2> DEFINE w == Respond(out, depth, "json", code, "error")
  <2>1. /\ Moves(out, w, depth) /\ Consistent(w, Recorders(depth))
        /\ ~Panics(out, depth, code) => w.committed
        /\ Untouched(out, depth) /\ ~Odd(code) => w.status = code /\ w.sent.contentType = "json"
        /\ ~Panics(out, depth, code) /\ Invalid(code) => ~Untouched(out, depth)
        /\ (\A k \in DOMAIN out.body : out.body[k] = "error") =>
              \A k \in DOMAIN w.body : w.body[k] = "error"
    <3>1. Consistent(out, Recorders(depth)) /\ Sound(out) /\ depth \in 1..Inner /\ broken \in BOOLEAN
      BY <1>2, <1>5, <1>6
    <3>2. /\ Moves(out, w, depth) /\ Consistent(w, Recorders(depth))
          /\ ~Panics(out, depth, code) => w.committed
          /\ Untouched(out, depth) /\ ~Odd(code) =>
                w.committed /\ w.status = code /\ w.sent.contentType = "json"
          /\ Panics(out, depth, code) => ~w.committed /\ ~out.committed /\ Invalid(code)
          /\ ~Panics(out, depth, code) /\ Invalid(code) => ~Untouched(out, depth)
          /\ (\A k \in DOMAIN out.body : out.body[k] = "error") => \A k \in DOMAIN w.body : w.body[k] = "error"
      BY <3>1, RespondWorks
    <3> QED BY <3>2
  <2>2. out' = w
    OBVIOUS
  <2> HIDE DEF w
  <2> QED BY <1>5, <2>1, <2>2
<1>8. f0 \in [at : 1..Inner, status : Int, panics : BOOLEAN, early : BOOLEAN]
      /\ f0.at = depth /\ f0.status = code /\ f0.panics = FALSE /\ f0.early = ~out.committed
  BY <1>6
<1> HIDE DEF f0
<1>9. TypeOK'
  <2>1. UNCHANGED <<err, bound, broken, aborted, writes, log>>
    BY DEF quiet
  <2>2. depth' \in 0..Inner
    BY <1>2, <1>4
  <2> QED BY <1>1, <1>4, <1>7, <1>8, <2>1, <2>2, TypeKept DEF TypeOK
<1>10. Placed'
  BY <1>2, <1>3, <1>4 DEF Placed
<1>11. (\A j \in 1..Len(ctx') : Passed(j)') /\ Headed'
  BY <1>4, <1>7, ContextKept
<1>12. Clean'
  <2>1. Around' \subseteq Around
    BY <1>2, <1>3, <1>4 DEF Around
  <2> QED BY <1>4, <1>7, <2>1 DEF Clean, Consistent
<1>13. Turned' /\ Lined'
  BY <1>2, <1>3, <1>4 DEF Turned, Lined
<1>14. Unwound'
  BY <1>2, <1>3, <1>4, <1>8 DEF Unwound, Descending
<1>15. Reported'
  <2> SUFFICES ASSUME \A i \in Loggers : ~Misled(i)',
                      NEW f \in faults', f.early, ~Informational(f.status)
               PROVE  Told(f)'
    BY <1>4 DEF Reported
  <2>1. f.status = code /\ ~out.committed /\ ~Informational(code)
    BY <1>4, <1>8
  <2>2. Untouched(out, depth)
    <3>1. SUFFICES ASSUME NEW i \in Around, out.rec[i].wrote PROVE FALSE
      BY <1>5, <2>1 DEF Untouched
    <3>2. i \in Loggers /\ Odd(out.rec[i].status)
      BY <1>5, <2>1, <3>1 DEF Consistent, Around
    <3>3. out'.rec[i] = out.rec[i]
      BY <1>2, <1>7, <3>1, <3>2 DEF Moves
    <3> QED BY <3>1, <3>2, <3>3 DEF Misled, Odd
  <2>3. out.body = <<>>
    BY <1>5, <2>1 DEF Consistent
  <2>4. out'.status = code /\ out'.sent.contentType = "json"
    BY <1>7, <2>1, <2>2 DEF Odd
  <2>5. \A k \in DOMAIN out'.body : out'.body[k] = "error"
    BY <1>7, <2>3
  <2> QED BY <1>7, <2>1, <2>4, <2>5 DEF Told
<1> QED BY <1>9, <1>10, <1>11, <1>12, <1>13, <1>14, <1>15 DEF HTTPInv

\* A RequestLogger logs its line.
LEMMA LogStep ==
    ASSUME HTTPInv, LogRequest
    PROVE  HTTPInv'
<1> DEFINE e0 == [layer |-> depth, status |-> out.rec[depth].status, id |-> ctx[depth].id]
<1>1. TypeOK /\ Placed /\ Clean /\ Turned /\ Lined /\ Unwound /\ Reported
  BY DEF HTTPInv
<1>2. /\ pc = "up" /\ depth > 0 /\ chain[depth] = "logger" /\ log' = Append(log, e0)
      /\ ReturnOut /\ UNCHANGED <<fixed, ctx, out, err, bound, writes, broken, faults, aborted>>
  BY DEF LogRequest
<1>3. /\ DOMAIN chain = 1..Len(chain) /\ Len(chain) \in Nat /\ Inner = Len(chain) + 1
      /\ \A kind, i : i \in At(kind, DOMAIN chain) <=> i \in 1..Len(chain) /\ chain[i] = kind
      /\ \A i : i \in Loggers <=> i \in 1..Len(chain) /\ chain[i] = "logger"
      /\ depth \in 1..Inner /\ Len(ctx) \in 1..Inner /\ Sound(out)
  BY <1>1, <1>2, ChainFacts
<1>4. /\ chain' = chain /\ cfg' = cfg /\ Inner' = Inner /\ Loggers' = Loggers
      /\ ctx' = ctx /\ aborted' = aborted /\ faults' = faults /\ out' = out
      /\ pc' = "up" /\ depth' = depth - 1
  BY <1>2, FixedSame DEF ReturnOut
<1>5. depth < Len(ctx) /\ depth \in 1..Len(chain) /\ depth \in Loggers /\ ~aborted
  <2>1. depth < Len(ctx) /\ ~aborted
    BY <1>1, <1>2 DEF Placed
  <2> QED BY <1>2, <1>3, <2>1
<1>6. Moves(out, out', depth)
  BY <1>3, <1>4, NoMove
<1>7. e0 \in [layer : DOMAIN chain, status : Int, id : Int]
      /\ e0.layer = depth /\ e0.status = out.rec[depth].status /\ e0.id = ctx[depth].id
  <2>1. out.rec[depth].status \in Int
    BY <1>3, <1>5 DEF Sound, Response
  <2>2. ctx[depth] \in Context
    <3>1. ctx \in Seq(Context) /\ depth \in 1..Len(ctx)
      BY <1>1, <1>3, <1>5 DEF TypeOK
    <3> QED BY <3>1, ElementOfSeq
  <2> QED BY <1>3, <1>5, <2>1, <2>2 DEF Context
<1>8. /\ log \in Seq([layer : DOMAIN chain, status : Int, id : Int])
      /\ log' \in Seq([layer : DOMAIN chain, status : Int, id : Int])
      /\ DOMAIN log = 1..Len(log) /\ Len(log) \in Nat /\ Len(log') = Len(log) + 1
      /\ DOMAIN log' = DOMAIN log \cup {Len(log) + 1} /\ log'[Len(log) + 1] = e0
      /\ \A k \in DOMAIN log : log'[k] = log[k]
  <2> HIDE DEF e0
  <2>1. log \in Seq([layer : DOMAIN chain, status : Int, id : Int])
    BY <1>1 DEF TypeOK
  <2> QED BY <1>2, <1>7, <2>1
<1> HIDE DEF e0
<1>9. TypeOK'
  <2>1. depth' \in 0..Inner /\ UNCHANGED <<fixed, ctx>>
    BY <1>2, <1>3, <1>4
  <2>2. /\ err' \in [kind : {"none", "other", "http", "nil"}, status : Int]
        /\ bound' \in BOOLEAN /\ broken' \in BOOLEAN /\ aborted' \in BOOLEAN /\ writes' \in 0..MaxWrites
        /\ faults' \subseteq [at : 1..Inner, status : Int, panics : BOOLEAN, early : BOOLEAN]
    BY <1>1, <1>2 DEF TypeOK
  <2> QED BY <1>1, <1>4, <1>6, <1>8, <2>1, <2>2, TypeKept
<1>10. Placed'
  BY <1>3, <1>4, <1>5 DEF Placed
<1>11. (\A j \in 1..Len(ctx') : Passed(j)') /\ Headed'
  BY <1>2, <1>4, <1>6, ContextKept
<1>12. Clean'
  <2>1. Around' \subseteq Around
    BY <1>3, <1>4 DEF Around
  <2> QED BY <1>1, <1>4, <2>1 DEF Clean, Consistent
<1>13. Turned'
  BY <1>1, <1>2, <1>4, FixedSame DEF Turned, Descending
<1>14. \A k \in DOMAIN log : Logged(log[k]) /\ log[k].layer \in Nat /\ log[k].layer > depth
  BY <1>1, <1>3, HistoryFacts DEF Lined, Logged
<1>15. Lined'
  <2>1. ASSUME NEW k \in DOMAIN log' PROVE Logged(log[k])'
    <3>1. CASE k \in DOMAIN log
      <4>1. depth - 1 < log[k].layer
        BY <1>3, <1>14, <3>1
      <4> QED BY <1>2, <1>4, <1>8, <1>14, <3>1, <4>1 DEF Logged
    <3>2. CASE k = Len(log) + 1
      <4>1. ~out.rec[depth].wrote => ~out.committed
        BY <1>1, <1>5, <1>3 DEF Clean, Consistent, Around
      <4>2. log'[k].layer = depth /\ log'[k].status = out.rec[depth].status /\ log'[k].id = ctx[depth].id
        BY <1>7, <1>8, <3>2
      <4>3. depth - 1 < depth
        BY <1>3
      <4> QED BY <1>2, <1>4, <1>5, <4>1, <4>2, <4>3 DEF Logged
    <3> QED BY <1>8, <3>1, <3>2
  <2>2. ASSUME NEW k \in DOMAIN log', NEW l \in DOMAIN log', log'[k].layer = log'[l].layer PROVE k = l
    <3>1. \A m \in DOMAIN log : log'[m].layer # depth
      <4> TAKE m \in DOMAIN log
      <4>1. log'[m] = log[m] /\ log[m].layer \in Nat /\ log[m].layer > depth
        BY <1>8, <1>14
      <4> QED BY <1>3, <4>1
    <3>2. log'[Len(log) + 1].layer = depth
      BY <1>7, <1>8
    <3>3. \A m, n \in DOMAIN log : log[m].layer = log[n].layer => m = n
      BY <1>1 DEF Lined
    <3> QED BY <1>8, <2>2, <3>1, <3>2, <3>3
  <2> QED BY <2>1, <2>2 DEF Lined
<1>16. Unwound'
  <2>1. \A f \in faults : depth - 1 <= f.at
    BY <1>1, <1>3, HistoryFacts DEF Unwound
  <2>2. ASSUME NEW f \in faults, f.panics
        PROVE  \E j \in At("recovery", DOMAIN chain) : depth - 1 < j /\ depth < j /\ j <= f.at
    <3>1. PICK j \in At("recovery", DOMAIN chain) : depth < j /\ j <= f.at
      BY <1>1, <1>2, <2>2 DEF Unwound
    <3> QED BY <1>3, <3>1
  <2>3. ASSUME NEW i \in Loggers, depth - 1 < i, i <= Len(ctx)
        PROVE  HasLine(i)' <=> ~\E f \in faults : Passes(f, i)
    <3>1. CASE i = depth
      <4>1. ~\E f \in faults : Passes(f, i)
        <5> SUFFICES ASSUME NEW f \in faults, Passes(f, i) PROVE FALSE
          OBVIOUS
        <5>1. PICK j \in At("recovery", DOMAIN chain) : depth < j /\ j <= f.at
          BY <2>2 DEF Passes
        <5>2. f.at \in Nat /\ j \in Nat
          BY <1>1, <1>3, HistoryFacts
        <5> QED BY <1>3, <3>1, <5>1, <5>2 DEF Passes
      <4>2. HasLine(i)'
        BY <1>7, <1>8, <3>1 DEF HasLine
      <4> QED BY <4>1, <4>2
    <3>2. CASE i # depth
      <4>1. depth < i
        BY <1>3, <2>3, <3>2
      <4>2. HasLine(i)' <=> HasLine(i)
        BY <1>7, <1>8, <3>2 DEF HasLine
      <4> QED BY <1>1, <2>3, <4>1, <4>2 DEF Unwound
    <3> QED BY <3>1, <3>2
  <2>4. At("recovery", DOMAIN chain)' = At("recovery", DOMAIN chain)
    BY <1>4 DEF At
  <2>5. \A i \in Loggers : depth' < i /\ i <= Len(ctx') => (HasLine(i)' <=> ~\E f \in faults' : Passes(f, i)')
    BY <1>2, <1>4, <2>3, FixedSame
  <2> QED BY <1>4, <2>1, <2>2, <2>4, <2>5 DEF Unwound, Descending
<1>17. Reported'
  <2>1. ASSUME \A i \in Loggers : ~Misled(i), NEW f \in faults, f.early, ~Informational(f.status)
        PROVE  Told(f)
    BY <1>1, <1>2, <1>5, <2>1 DEF Reported
  <2> QED BY <1>4, <2>1 DEF Reported, Told, Misled
<1> QED BY <1>9, <1>10, <1>11, <1>12, <1>13, <1>15, <1>16, <1>17 DEF HTTPInv

\* Recovery answers a panic that got to it, which ends there.
LEMMA RecoverStep ==
    ASSUME HTTPInv, Recover
    PROVE  HTTPInv'
<1>1. TypeOK /\ Placed /\ Clean /\ Turned /\ Lined /\ Unwound /\ Reported
  BY DEF HTTPInv
<1>2. /\ pc = "panic" /\ depth > 0 /\ chain[depth] = "recovery"
      /\ out' = Respond(out, depth, cfg.recovery, 500, "error")
      /\ ReturnOut /\ UNCHANGED <<fixed, ctx, faults, quiet>>
  BY DEF Recover
<1>3. /\ DOMAIN chain = 1..Len(chain) /\ Len(chain) \in Nat /\ Inner = Len(chain) + 1
      /\ \A kind, i : i \in At(kind, DOMAIN chain) <=> i \in 1..Len(chain) /\ chain[i] = kind
      /\ \A i : i \in Loggers <=> i \in 1..Len(chain) /\ chain[i] = "logger"
      /\ depth \in 1..Inner /\ Len(ctx) \in 1..Inner /\ Sound(out)
  BY <1>1, <1>2, ChainFacts
<1>4. /\ chain' = chain /\ cfg' = cfg /\ Inner' = Inner /\ Loggers' = Loggers
      /\ ctx' = ctx /\ aborted' = aborted /\ faults' = faults /\ log' = log
      /\ pc' = "up" /\ depth' = depth - 1
  BY <1>2, FixedSame DEF ReturnOut, quiet
<1>5. depth <= Len(ctx) /\ depth \in 1..Len(chain) /\ depth \notin Loggers /\ ~aborted
  <2>1. depth <= Len(ctx) /\ depth <= Len(chain) /\ ~aborted
    BY <1>1, <1>2 DEF Placed
  <2> QED BY <1>2, <1>3, <2>1
<1>6. Recorders(depth) = Around /\ Consistent(out, Around)
  BY <1>1, <1>2, <1>3, AroundHere DEF Clean
<1>7. broken \in BOOLEAN /\ cfg.recovery \in {"json", "text"}
  <2>1. broken \in BOOLEAN /\ cfg \in Configs
    BY <1>1 DEF TypeOK
  <2>2. cfg.recovery \in {"json", "text"}
    BY <2>1, LayerAssumption
  <2> QED BY <2>1, <2>2
<1>8. /\ Moves(out, out', depth) /\ Consistent(out', Around) /\ out'.committed
      /\ Untouched(out, depth) => out'.status = 500 /\ out'.sent.contentType = cfg.recovery
      /\ (\A k \in DOMAIN out.body : out.body[k] = "error") =>
            \A k \in DOMAIN out'.body : out'.body[k] = "error"
  <2> DEFINE w == Respond(out, depth, cfg.recovery, 500, "error")
  <2>1. /\ Moves(out, w, depth) /\ Consistent(w, Recorders(depth))
        /\ ~Panics(out, depth, 500) => w.committed
        /\ Untouched(out, depth) /\ ~Odd(500) => w.status = 500 /\ w.sent.contentType = cfg.recovery
        /\ (\A k \in DOMAIN out.body : out.body[k] = "error") =>
              \A k \in DOMAIN w.body : w.body[k] = "error"
    <3>1. Consistent(out, Recorders(depth)) /\ Sound(out) /\ depth \in 1..Inner
          /\ cfg.recovery \in {"json", "text"} /\ 500 \in Int /\ broken \in BOOLEAN
      BY <1>3, <1>6, <1>7
    <3>2. /\ Moves(out, w, depth) /\ Consistent(w, Recorders(depth))
          /\ ~Panics(out, depth, 500) => w.committed
          /\ Untouched(out, depth) /\ ~Odd(500) =>
                w.committed /\ w.status = 500 /\ w.sent.contentType = cfg.recovery
          /\ Panics(out, depth, 500) => ~w.committed /\ ~out.committed /\ Invalid(500)
          /\ ~Panics(out, depth, 500) /\ Invalid(500) => ~Untouched(out, depth)
          /\ (\A k \in DOMAIN out.body : out.body[k] = "error") => \A k \in DOMAIN w.body : w.body[k] = "error"
      BY <3>1, RespondWorks
    <3> QED BY <3>2
  <2>2. out' = w
    BY <1>2
  <2>3. ~Odd(500) /\ ~Panics(out, depth, 500)
    BY DEF Odd, Informational, Invalid, Panics
  <2> HIDE DEF w
  <2> QED BY <1>6, <2>1, <2>2, <2>3
<1>9. TypeOK'
  <2>1. UNCHANGED <<err, bound, broken, aborted, writes, log>>
    BY <1>2 DEF quiet
  <2>2. depth' \in 0..Inner /\ log' \in Seq([layer : DOMAIN chain, status : Int, id : Int])
        /\ faults' \subseteq [at : 1..Inner, status : Int, panics : BOOLEAN, early : BOOLEAN]
    BY <1>1, <1>3, <1>4 DEF TypeOK
  <2>3. err' \in [kind : {"none", "other", "http", "nil"}, status : Int]
        /\ bound' \in BOOLEAN /\ broken' \in BOOLEAN /\ aborted' \in BOOLEAN /\ writes' \in 0..MaxWrites
    BY <1>1, <2>1 DEF TypeOK
  <2>4. UNCHANGED <<fixed, ctx>>
    BY <1>2
  <2> QED BY <1>1, <1>4, <1>8, <2>2, <2>3, <2>4, TypeKept
<1>10. Placed'
  BY <1>3, <1>4, <1>5 DEF Placed
<1>11. (\A j \in 1..Len(ctx') : Passed(j)') /\ Headed'
  BY <1>2, <1>4, <1>8, ContextKept
<1>12. Clean'
  <2>1. Around' \subseteq Around
    BY <1>3, <1>4 DEF Around
  <2> QED BY <1>4, <1>8, <2>1 DEF Clean, Consistent
<1>13. Turned'
  <2>1. out.committed => out'.committed /\ out'.status = out.status
    BY <1>8 DEF Moves
  <2> QED BY <1>1, <1>2, <1>4, <2>1, FixedSame DEF Turned, Descending
<1>14. Lined'
  <2>1. ASSUME NEW k \in DOMAIN log PROVE Logged(log[k])'
    <3>1. Logged(log[k]) /\ log[k].layer \in Nat /\ log[k].layer \in 1..Len(chain)
      BY <1>1, HistoryFacts DEF Lined
    <3>2. depth < log[k].layer /\ depth - 1 < log[k].layer
      BY <1>3, <3>1 DEF Logged
    <3>3. log[k].layer \notin Around
      BY <1>3, <3>1, <3>2 DEF Around
    <3>4. out'.rec[log[k].layer] = out.rec[log[k].layer]
      BY <1>3, <1>6, <1>8, <3>1, <3>3 DEF Moves
    <3> QED BY <1>2, <1>4, <3>1, <3>2, <3>4 DEF Logged
  <2> QED BY <1>1, <1>4, <2>1 DEF Lined
<1>15. Unwound'
  <2>1. \A f \in faults : depth - 1 <= f.at
    BY <1>1, <1>3, HistoryFacts DEF Unwound
  <2>2. \A f \in faults : \E j \in At("recovery", DOMAIN chain) : depth - 1 < j /\ j <= f.at
    <3>1. depth \in At("recovery", DOMAIN chain) /\ depth - 1 < depth
      BY <1>2, <1>3, <1>5
    <3> QED BY <1>1, <3>1 DEF Unwound
  <2>3. ASSUME NEW i \in Loggers, depth - 1 < i, i <= Len(ctx)
        PROVE  HasLine(i) <=> ~\E f \in faults : Passes(f, i)
    <3>1. i \in 1..Len(chain) /\ i # depth
      BY <1>3, <1>5
    <3>2. depth < i
      BY <1>3, <2>3, <3>1
    <3> QED BY <1>1, <2>3, <3>2 DEF Unwound
  <2>4. At("recovery", DOMAIN chain)' = At("recovery", DOMAIN chain)
    BY <1>4 DEF At
  <2>5. \A i \in Loggers : depth' < i /\ i <= Len(ctx') => (HasLine(i)' <=> ~\E f \in faults' : Passes(f, i)')
    BY <1>2, <1>4, <2>3, FixedSame DEF HasLine
  <2> QED BY <1>4, <2>1, <2>2, <2>4, <2>5 DEF Unwound, Descending
<1>16. Reported'
  <2> SUFFICES ASSUME \A i \in Loggers : ~Misled(i)',
                      NEW f \in faults, f.early, ~Informational(f.status)
               PROVE  Told(f)'
    BY <1>4 DEF Reported
  <2>1. ASSUME NEW i \in Loggers, out.rec[i].wrote PROVE ~Odd(out.rec[i].status)
    <3>1. out'.rec[i] = out.rec[i]
      BY <1>3, <1>8, <2>1 DEF Moves
    <3> QED BY <2>1, <3>1 DEF Misled, Odd
  <2>2. \A i \in Loggers : ~Misled(i)
    BY <2>1 DEF Misled, Odd
  <2>3. CASE Told(f)
    <3>1. out'.status = out.status /\ out'.sent = out.sent
      BY <1>8, <2>3 DEF Moves, Told
    <3> QED BY <1>4, <1>8, <2>3, <3>1 DEF Told
  <2>4. CASE ~out.committed /\ f.status = 500
    <3>1. Untouched(out, depth)
      BY <1>6, <2>1, <2>4 DEF Untouched, Consistent, Around
    <3>2. out.body = <<>>
      BY <1>6, <2>4 DEF Consistent
    <3>3. \A k \in DOMAIN out'.body : out'.body[k] = "error"
      BY <1>8, <3>2
    <3> QED BY <1>4, <1>8, <2>4, <3>1, <3>3 DEF Told
  <2> QED BY <1>1, <2>2, <2>3, <2>4 DEF Reported
<1> QED BY <1>9, <1>10, <1>11, <1>12, <1>13, <1>14, <1>15, <1>16 DEF HTTPInv

\* A panic passes a layer.
LEMMA PassPanicStep ==
    ASSUME HTTPInv, PassPanic
    PROVE  HTTPInv'
<1>1. TypeOK /\ Placed /\ Clean /\ Turned /\ Lined /\ Unwound /\ Reported
  BY DEF HTTPInv
<1>2. /\ pc = "panic" /\ depth > 0 /\ chain[depth] # "recovery" /\ depth' = depth - 1 /\ pc' = "panic"
      /\ UNCHANGED <<fixed, ctx, out, faults, quiet>>
  BY DEF PassPanic
<1>3. /\ DOMAIN chain = 1..Len(chain) /\ Len(chain) \in Nat /\ Inner = Len(chain) + 1
      /\ \A kind, i : i \in At(kind, DOMAIN chain) <=> i \in 1..Len(chain) /\ chain[i] = kind
      /\ \A i : i \in Loggers <=> i \in 1..Len(chain) /\ chain[i] = "logger"
      /\ depth \in 1..Inner /\ Len(ctx) \in 1..Inner /\ Sound(out)
  BY <1>1, <1>2, ChainFacts
<1>4. /\ chain' = chain /\ cfg' = cfg /\ Inner' = Inner /\ Loggers' = Loggers
      /\ ctx' = ctx /\ aborted' = aborted /\ faults' = faults /\ log' = log /\ out' = out
  BY <1>2, FixedSame DEF quiet
<1>5. depth <= Len(ctx) /\ depth <= Len(chain) /\ ~aborted
  BY <1>1, <1>2 DEF Placed
<1>6. Moves(out, out', depth)
  BY <1>3, <1>4, NoMove
<1>7. TypeOK'
  <2>1. UNCHANGED <<err, bound, broken, aborted, writes, log>>
    BY <1>2 DEF quiet
  <2>2. depth' \in 0..Inner /\ log' \in Seq([layer : DOMAIN chain, status : Int, id : Int])
        /\ faults' \subseteq [at : 1..Inner, status : Int, panics : BOOLEAN, early : BOOLEAN]
    BY <1>1, <1>2, <1>3, <1>4 DEF TypeOK
  <2>3. err' \in [kind : {"none", "other", "http", "nil"}, status : Int]
        /\ bound' \in BOOLEAN /\ broken' \in BOOLEAN /\ aborted' \in BOOLEAN /\ writes' \in 0..MaxWrites
    BY <1>1, <2>1 DEF TypeOK
  <2>4. UNCHANGED <<fixed, ctx>>
    BY <1>2
  <2> QED BY <1>1, <1>2, <1>6, <2>2, <2>3, <2>4, TypeKept
<1>8. Placed'
  BY <1>2, <1>3, <1>4, <1>5 DEF Placed
<1>9. (\A j \in 1..Len(ctx') : Passed(j)') /\ Headed'
  BY <1>2, <1>6, ContextKept
<1>10. Clean'
  <2>1. Around' \subseteq Around
    BY <1>2, <1>3, <1>4 DEF Around
  <2> QED BY <1>1, <1>2, <1>4, <2>1 DEF Clean, Consistent
<1>11. Turned'
  BY <1>1, <1>2, <1>4, FixedSame DEF Turned, Descending
<1>12. \A k \in DOMAIN log : Logged(log[k]) /\ log[k].layer \in Nat /\ log[k].layer > depth
  BY <1>1, <1>3, HistoryFacts DEF Lined, Logged
<1>13. Lined'
  <2>1. ASSUME NEW k \in DOMAIN log PROVE Logged(log[k])'
    <3>1. depth - 1 < log[k].layer
      BY <1>3, <1>12
    <3> QED BY <1>2, <1>4, <1>12, <3>1 DEF Logged
  <2> QED BY <1>1, <1>4, <2>1 DEF Lined
<1>14. Unwound'
  <2>1. \A f \in faults : depth - 1 <= f.at
    BY <1>1, <1>3, HistoryFacts DEF Unwound
  <2>2. PICK g \in faults : Passes(g, depth) /\ \A k \in DOMAIN log : log[k].layer > g.at
    BY <1>1, <1>2 DEF Unwound
  <2>3. Passes(g, depth - 1)
    <3>1. g.at \in Nat
      BY <1>1, HistoryFacts
    <3>2. ASSUME NEW j \in At("recovery", DOMAIN chain) PROVE j <= depth - 1 \/ j > g.at
      <4>1. j \in 1..Len(chain) /\ j # depth
        BY <1>2, <1>3
      <4> QED BY <1>3, <2>2, <4>1 DEF Passes
    <3> QED BY <1>3, <2>2, <3>1, <3>2 DEF Passes
  <2>4. ASSUME NEW i \in Loggers, depth - 1 < i, i <= Len(ctx)
        PROVE  HasLine(i) <=> ~\E f \in faults : Passes(f, i)
    <3>1. CASE i = depth
      <4>1. ~HasLine(i)
        BY <1>3, <1>12, <3>1 DEF HasLine
      <4> QED BY <2>2, <3>1, <4>1
    <3>2. CASE i # depth
      <4>1. depth < i
        BY <1>3, <2>4, <3>2
      <4> QED BY <1>1, <2>4, <4>1 DEF Unwound
    <3> QED BY <3>1, <3>2
  <2>5. \A i \in Loggers : depth' < i /\ i <= Len(ctx') => (HasLine(i)' <=> ~\E f \in faults' : Passes(f, i)')
    BY <1>2, <1>4, <2>4, FixedSame DEF HasLine
  <2>6. \E f \in faults' : Passes(f, depth)' /\ \A k \in DOMAIN log' : log'[k].layer > f.at
    BY <1>2, <1>4, <2>2, <2>3 DEF Passes, At
  <2> QED BY <1>2, <1>4, <2>1, <2>5, <2>6 DEF Unwound, Descending
<1>15. Reported'
  <2>1. ASSUME \A i \in Loggers : ~Misled(i), NEW f \in faults, f.early, ~Informational(f.status)
        PROVE  Told(f) \/ (~out.committed /\ f.status = 500)
    BY <1>1, <2>1 DEF Reported
  <2> QED BY <1>2, <1>4, <2>1 DEF Reported, Told, Misled
<1> QED BY <1>7, <1>8, <1>9, <1>10, <1>11, <1>13, <1>14, <1>15 DEF HTTPInv

\* The server ends the response or drops the connection.
LEMMA FinishStep ==
    ASSUME HTTPInv, ServerFinishes
    PROVE  HTTPInv'
<1>1. TypeOK /\ Placed /\ Clean /\ Turned /\ Lined /\ Unwound /\ Reported
  BY DEF HTTPInv
<1>2. /\ pc \in {"up", "panic"} /\ depth = 0 /\ out' = (IF pc = "up" THEN ServerHeader(out, 200) ELSE out)
      /\ (aborted' <=> pc = "panic") /\ aborted' \in BOOLEAN /\ pc' = "done"
      /\ UNCHANGED <<fixed, depth, ctx, err, bound, writes, broken, log, faults>>
  BY DEF ServerFinishes
<1>3. /\ DOMAIN chain = 1..Len(chain) /\ Len(chain) \in Nat /\ Inner = Len(chain) + 1
      /\ \A kind, i : i \in At(kind, DOMAIN chain) <=> i \in 1..Len(chain) /\ chain[i] = kind
      /\ \A i : i \in Loggers <=> i \in 1..Len(chain) /\ chain[i] = "logger"
      /\ Sound(out)
  BY <1>1, ChainFacts
<1>4. /\ chain' = chain /\ cfg' = cfg /\ Inner' = Inner /\ Loggers' = Loggers
      /\ ctx' = ctx /\ faults' = faults /\ log' = log /\ depth' = 0
  BY <1>2, FixedSame
<1>5. /\ out' \in Response /\ out'.rec = out.rec /\ out'.header = out.header /\ out'.body = out.body
      /\ out'.committed => ~Odd(out'.status)
      /\ out.committed => out'.committed /\ out'.status = out.status /\ out'.sent = out.sent
      /\ ~out.committed /\ pc = "up" => out'.committed /\ out'.status = 200 /\ out'.sent = out.header
      /\ pc # "up" => out' = out
  <2>1. CASE pc = "up"
    <3>1. out' = ServerHeader(out, 200)
      BY <1>2, <2>1
    <3>2. ~Odd(200)
      BY DEF Odd, Informational, Invalid
    <3> QED BY <1>3, <2>1, <3>1, <3>2, ServerHeaderWorks
  <2>2. CASE pc # "up"
    BY <1>2, <1>3, <2>2 DEF Sound
  <2> QED BY <2>1, <2>2
<1>6. Moves(out, out', 1)
  <2>1. \A i \in DOMAIN chain : out'.rec[i].wrote \/ out'.rec[i].status = 200
    BY <1>3, <1>5 DEF Sound
  <2>2. ~out.committed /\ out'.committed => out'.sent = out'.header
    BY <1>5
  <2> QED BY <1>5, <2>1, <2>2 DEF Moves, Traced
<1>7. TypeOK'
  <2>1. /\ err' \in [kind : {"none", "other", "http", "nil"}, status : Int]
        /\ bound' \in BOOLEAN /\ broken' \in BOOLEAN /\ writes' \in 0..MaxWrites
        /\ log' \in Seq([layer : DOMAIN chain, status : Int, id : Int])
        /\ faults' \subseteq [at : 1..Inner, status : Int, panics : BOOLEAN, early : BOOLEAN]
    BY <1>1, <1>2 DEF TypeOK
  <2>2. depth' \in 0..Inner /\ UNCHANGED <<fixed, ctx>>
    BY <1>2, <1>3, <1>4
  <2> QED BY <1>1, <1>2, <1>6, <2>1, <2>2, TypeKept
<1>8. Placed'
  BY <1>2, <1>4, <1>5 DEF Placed
<1>9. (\A j \in 1..Len(ctx') : Passed(j)') /\ Headed'
  <2>1. UNCHANGED <<fixed, ctx>> /\ pc # "down" /\ pc' # "down"
    BY <1>2
  <2> QED BY <1>6, <2>1, ContextKept
<1>10. Clean'
  <2>1. Around' = {}
    BY <1>3, <1>4 DEF Around
  <2>2. \A i \in Loggers : out.rec[i].wrote =>
           Odd(out.rec[i].status) \/ (out.committed /\ out.status = out.rec[i].status)
    BY <1>1 DEF Clean, Consistent
  <2>3. ~out'.committed => out'.body = <<>>
    BY <1>1, <1>5 DEF Clean, Consistent
  <2> QED BY <1>2, <1>4, <1>5, <2>1, <2>2, <2>3 DEF Clean, Consistent
<1>11. Turned'
  BY <1>1, <1>2, <1>4, <1>5, FixedSame DEF Turned, Descending
<1>12. Lined'
  <2>1. ASSUME NEW k \in DOMAIN log PROVE Logged(log[k])'
    <3>1. Logged(log[k])
      BY <1>1 DEF Lined
    <3>2. CASE ~out.rec[log[k].layer].wrote /\ \A f \in faults : f.at >= log[k].layer
      <4>1. pc = "up" /\ ~out.committed
        BY <1>2, <3>1, <3>2 DEF Logged
      <4> QED BY <1>2, <1>4, <1>5, <3>1, <4>1 DEF Logged
    <3>3. CASE ~(~out.rec[log[k].layer].wrote /\ \A f \in faults : f.at >= log[k].layer)
      BY <1>2, <1>4, <1>5, <3>1, <3>3 DEF Logged
    <3> QED BY <3>2, <3>3
  <2> QED BY <1>1, <1>4, <2>1 DEF Lined
<1>13. Unwound'
  <2>1. \A f \in faults : 0 <= f.at
    BY <1>1, <1>2 DEF Unwound
  <2>2. pc = "panic" <=> \E f \in faults : Passes(f, 0)
    <3>1. CASE pc = "panic"
      BY <1>1, <1>2, <3>1 DEF Unwound
    <3>2. CASE pc = "up"
      <4> SUFFICES ASSUME NEW f \in faults, Passes(f, 0) PROVE FALSE
        BY <3>2
      <4>1. PICK j \in At("recovery", DOMAIN chain) : 0 < j /\ j <= f.at
        BY <1>1, <1>2, <3>2 DEF Unwound, Passes
      <4>2. f.at \in Nat /\ j \in Nat
        BY <1>1, <1>3, HistoryFacts
      <4> QED BY <4>1, <4>2 DEF Passes
    <3> QED BY <1>2, <3>1, <3>2
  <2>3. \A i \in Loggers : depth' < i /\ i <= Len(ctx') => (HasLine(i)' <=> ~\E f \in faults' : Passes(f, i)')
    <3>1. \A i \in Loggers : 0 < i /\ i <= Len(ctx) => (HasLine(i) <=> ~\E f \in faults : Passes(f, i))
      BY <1>1, <1>2 DEF Unwound
    <3> QED BY <1>2, <1>4, <3>1, FixedSame DEF HasLine
  <2>4. aborted' <=> \E f \in faults' : Passes(f, 0)'
    BY <1>2, <1>4, <2>2, FixedSame
  <2> QED BY <1>2, <1>4, <2>1, <2>3, <2>4 DEF Unwound, Descending
<1>14. Reported'
  <2> SUFFICES ASSUME \A i \in Loggers : ~Misled(i)',
                      NEW f \in faults, f.early, ~Informational(f.status)
               PROVE  Told(f)' \/ (~out'.committed /\ f.status = 500 /\ aborted')
    BY <1>4 DEF Reported
  <2>1. \A i \in Loggers : ~Misled(i)
    BY <1>5 DEF Misled
  <2>2. CASE Told(f)
    BY <1>4, <1>5, <2>2 DEF Told
  <2>3. CASE ~out.committed /\ f.status = 500 /\ pc = "panic"
    BY <1>2, <1>5, <2>3
  <2>4. ~aborted
    BY <1>1, <1>2 DEF Placed
  <2> QED BY <1>1, <2>1, <2>2, <2>3, <2>4 DEF Reported
<1> QED BY <1>7, <1>8, <1>9, <1>10, <1>11, <1>12, <1>13, <1>14 DEF HTTPInv

\* Nothing happens.
LEMMA IdleStep ==
    ASSUME HTTPInv, UNCHANGED vars
    PROVE  HTTPInv'
<1>1. UNCHANGED fixed /\ ctx' = ctx /\ out' = out /\ pc' = pc /\ depth' = depth /\ log' = log
      /\ faults' = faults /\ aborted' = aborted /\ chain' = chain /\ cfg' = cfg /\ req' = req
      /\ UNCHANGED <<err, bound, writes, broken>>
  BY DEF vars, fixed
<1>2. TypeOK' /\ Placed'
  BY <1>1, FixedSame DEF HTTPInv, TypeOK, Placed
<1>3. \A j \in 1..Len(ctx') : Passed(j)'
  BY <1>1, FixedSame DEF HTTPInv, Passed, At
<1>4. Headed' /\ Clean'
  BY <1>1, FixedSame DEF HTTPInv, Headed, Granted, Clean, Around, At
<1>5. Turned' /\ Lined' /\ Reported'
  BY <1>1, FixedSame DEF HTTPInv, Turned, Lined, Logged, Descending, Reported, Told, Misled
<1>6. Unwound'
  BY <1>1, FixedSame DEF HTTPInv, Unwound, Descending, HasLine, At
<1> QED BY <1>2, <1>3, <1>4, <1>5, <1>6 DEF HTTPInv

\* A request starts at the outermost layer with an untouched response.
LEMMA InitWorks == Init => HTTPInv
<1> SUFFICES ASSUME Init PROVE HTTPInv
  OBVIOUS
<1>1. chain \in Seq(Layers) /\ Len(chain) \in Nat /\ DOMAIN chain = 1..Len(chain)
  <2>1. chain \in Seq(Layers)
    BY LayerAssumption DEF Init
  <2> QED BY <2>1
<1>2. /\ pc \in {"handler", "down"} /\ depth = 1 /\ depth \in Nat /\ Len(ctx) = 1
      /\ faults = {} /\ log = <<>> /\ ~aborted
      /\ pc = "handler" <=> Len(chain) = 0
  <2>1. Len(ctx) = 1 /\ ctx[1] = [id |-> NoID, user |-> "", roles |-> {}]
    BY DEF Init
  <2>2. chain = <<>> <=> Len(chain) = 0
    BY <1>1, EmptySeq
  <2> QED BY <2>1, <2>2 DEF Init
<1>12. ctx[1].id = NoID /\ ctx[1].roles = {}
  BY DEF Init
<1>3. /\ out.rec = [i \in 1..Len(chain) |-> [status |-> 200, wrote |-> FALSE]]
      /\ out.header = NoHeader /\ out.committed = FALSE /\ out.body = <<>> /\ out.sent = NoHeader
      /\ out \in Response
  <2>1. NoHeader \in Header
    BY DEF NoHeader, Header, NoID
  <2>2. [i \in 1..Len(chain) |-> [status |-> 200, wrote |-> FALSE]]
           \in [DOMAIN chain -> [status : Int, wrote : BOOLEAN]]
    BY <1>1
  <2>3. out = Fresh(Len(chain))
    BY DEF Init
  <2> QED BY <2>1, <2>2, <2>3 DEF Fresh, Response
<1>4. \A i \in DOMAIN chain : out.rec[i] = [status |-> 200, wrote |-> FALSE]
  BY <1>1, <1>3
<1>5. TypeOK
  <2>1. ctx \in Seq(Context)
    <3>1. [id |-> NoID, user |-> "", roles |-> {}] \in Context
      BY DEF Context, NoID
    <3> DEFINE c == [id |-> NoID, user |-> "", roles |-> {}]
    <3>2. ctx = <<c>>
      BY DEF Init
    <3>3. c \in Context
      BY <3>1
    <3> HIDE DEF c
    <3> QED BY <3>2, <3>3
  <2>2. writes \in 0..MaxWrites
    <3>1. writes = 0
      BY DEF Init
    <3> QED BY <3>1, StatusAssumption
  <2>3. cfg \in Configs /\ req \in Requests /\ broken = FALSE /\ bound = FALSE
        /\ err = [kind |-> "none", status |-> 0]
    BY DEF Init
  <2>4. depth \in 0..Inner /\ Len(ctx) \in 1..Inner
    BY <1>1, <1>2 DEF Inner
  <2>5. /\ log \in Seq([layer : DOMAIN chain, status : Int, id : Int])
        /\ faults \subseteq [at : 1..Inner, status : Int, panics : BOOLEAN, early : BOOLEAN]
        /\ err \in [kind : {"none", "other", "http", "nil"}, status : Int]
    BY <1>2, <2>3
  <2>6. \A i \in DOMAIN chain : out.rec[i].wrote \/ out.rec[i].status = 200
    BY <1>4
  <2>7. aborted = FALSE
    BY DEF Init
  <2> QED BY <1>1, <1>2, <1>3, <2>1, <2>2, <2>3, <2>4, <2>5, <2>6, <2>7 DEF TypeOK
<1>6. Placed
  BY <1>1, <1>2 DEF Placed, Inner
<1>7. \A j \in 1..Len(ctx) : Passed(j)
  <2> SUFFICES Passed(1)
    BY <1>2
  <2> QED BY <1>2, <1>12 DEF Passed, At
<1>8. Headed
  <2>1. ~Granted
    BY <1>1, <1>2 DEF Granted, At
  <2> QED BY <1>2, <1>3, <1>12, <2>1 DEF Headed, NoHeader
<1>9. Clean
  <2>1. Loggers \subseteq DOMAIN chain
    BY DEF Loggers, At
  <2> QED BY <1>3, <1>4, <2>1 DEF Clean, Consistent, Around
<1>10. Turned /\ Lined /\ Reported
  BY <1>2 DEF Turned, Lined, Reported, Descending
<1>11. Unwound
  <2>1. \A i \in Loggers : ~(depth < i /\ i <= Len(ctx))
    BY <1>1, <1>2 DEF Loggers, At
  <2> QED BY <1>2, <2>1 DEF Unwound, Descending
<1> QED BY <1>5, <1>6, <1>7, <1>8, <1>9, <1>10, <1>11 DEF HTTPInv

\* Where a layer is on the way in, and what it can respond.
LEMMA WayIn ==
    ASSUME HTTPInv, pc = "down"
    PROVE  /\ depth \in 1..Len(chain) /\ depth \in 1..Inner /\ Len(ctx) = depth
           /\ ctx[depth] \in Context /\ out.header.id = ctx[depth].id
           /\ Sound(out) /\ ~out.committed /\ broken \in BOOLEAN
           /\ chain[depth] # "logger" => Consistent(out, Recorders(depth)) /\ Untouched(out, depth)
           /\ ctx[depth].roles = IF At("auth", 1..depth - 1) = {} THEN {} ELSE req.roles
           /\ req \in Requests /\ cfg \in Configs
<1>1. TypeOK /\ Placed /\ Clean /\ Headed /\ \A j \in 1..Len(ctx) : Passed(j)
  BY DEF HTTPInv
<1>2. /\ chain \in Seq(Layers) /\ DOMAIN chain = 1..Len(chain) /\ Len(chain) \in Nat
      /\ Inner = Len(chain) + 1 /\ Sound(out)
  BY <1>1, ChainFacts
<1>3. depth \in 1..Len(chain) /\ depth \in 1..Inner /\ Len(ctx) = depth
  BY <1>1, <1>2 DEF Placed
<1>4. ctx[depth] \in Context
  <2>1. ctx \in Seq(Context) /\ depth \in 1..Len(ctx)
    BY <1>1, <1>3 DEF TypeOK
  <2> QED BY <2>1, ElementOfSeq
<1>5. ASSUME chain[depth] # "logger"
      PROVE  Consistent(out, Recorders(depth)) /\ Untouched(out, depth)
  <2>1. Recorders(depth) = Around
    BY <1>1, <1>3, <1>5, AroundHere
  <2>2. Recorders(depth) \subseteq DOMAIN chain
    BY <1>2, <1>3, RecordersAreLoggers
  <2> QED BY <1>1, <2>1, <2>2 DEF Clean, Untouched
<1>6. ctx[depth].roles = IF At("auth", 1..depth - 1) = {} THEN {} ELSE req.roles
  BY <1>1, <1>3 DEF Passed
<1>7. ~out.committed /\ out.header.id = ctx[depth].id
  BY <1>1, <1>3 DEF Clean, Headed
<1>8. broken \in BOOLEAN /\ req \in Requests /\ cfg \in Configs
  BY <1>1 DEF TypeOK
<1> QED BY <1>2, <1>3, <1>4, <1>5, <1>6, <1>7, <1>8

\* The grant is set in the header map and changes nothing else.
LEMMA GrantWorks ==
    ASSUME Sound(out), req \in Requests, cfg \in Configs
    PROVE  LET o == Grant(out) IN
           /\ o \in Response /\ Sound(o) /\ o.rec = out.rec /\ o.committed = out.committed
           /\ o.body = out.body /\ o.status = out.status /\ o.header.id = out.header.id
           /\ o.header.origin = IF cfg.wildcard /\ ~cfg.credentials THEN "*" ELSE req.origin
           /\ o.header.credentials <=> out.header.credentials \/ cfg.credentials
<1> DEFINE origin == IF cfg.wildcard /\ ~cfg.credentials THEN "*" ELSE req.origin
           h == [[out.header EXCEPT !.origin = origin]
                    EXCEPT !.credentials = out.header.credentials \/ cfg.credentials]
           o == Grant(out)
<1>1. out \in Response /\ out.header \in Header
  BY DEF Sound, Response
<1>2. origin \in {"none", "*"} \cup {r.origin : r \in Requests}
  OBVIOUS
<1>3. (out.header.credentials \/ cfg.credentials) \in BOOLEAN
  OBVIOUS
<1>4. /\ h \in Header /\ h.id = out.header.id /\ h.origin = origin
      /\ h.credentials = (out.header.credentials \/ cfg.credentials)
  <2> HIDE DEF origin
  <2> QED BY <1>1, <1>2, <1>3 DEF Header
<1>5. o = [out EXCEPT !.header = h]
  BY <1>1 DEF Grant, Response, Header
<1> HIDE DEF h, o
<1>6. /\ o \in Response /\ o.header = h /\ o.rec = out.rec /\ o.committed = out.committed
      /\ o.body = out.body /\ o.status = out.status
  BY <1>1, <1>4, <1>5 DEF Response
<1>7. Sound(o)
  BY <1>6 DEF Sound
<1> QED BY <1>4, <1>6, <1>7 DEF o

\* RequireAuth and RequireRole answer a request that they refuse.
LEMMA GuardRefuses ==
    ASSUME HTTPInv, pc = "down", Refuses(depth), chain[depth] \notin {"logger", "cors"},
           NEW code \in {401, 403}, Refusal(depth) = code,
           out' = Respond(out, depth, "json", code, "error"),
           ReturnOut, UNCHANGED <<fixed, ctx, faults, quiet>>
    PROVE  HTTPInv'
<1> DEFINE w == Respond(out, depth, "json", code, "error")
<1>1. /\ Sound(out) /\ depth \in 1..Inner /\ broken \in BOOLEAN /\ ~out.committed
      /\ Consistent(out, Recorders(depth)) /\ Untouched(out, depth)
  BY WayIn
<1>2. ~Odd(code) /\ code \in Int
  BY DEF Odd, Informational, Invalid
<1>3. /\ Moves(out, w, depth) /\ Consistent(w, Recorders(depth))
      /\ ~Panics(out, depth, code) => w.committed
      /\ Untouched(out, depth) /\ ~Odd(code) =>
            w.committed /\ w.status = code /\ w.sent.contentType = "json"
      /\ Panics(out, depth, code) => ~w.committed /\ ~out.committed /\ Invalid(code)
      /\ ~Panics(out, depth, code) /\ Invalid(code) => ~Untouched(out, depth)
      /\ (\A k \in DOMAIN out.body : out.body[k] = "error") => \A k \in DOMAIN w.body : w.body[k] = "error"
  BY <1>1, <1>2, RespondWorks
<1>4. out' = w
  OBVIOUS
<1> HIDE DEF w
<1>5. Moves(out, out', depth) /\ Consistent(out', Recorders(depth)) /\ out'.committed /\ out'.status = code
  BY <1>1, <1>2, <1>3, <1>4
<1> QED BY <1>1, <1>5, RefuseStep

\* The layers on the way in.
LEMMA WayInKeeps ==
    ASSUME HTTPInv,
           EnterWrapper \/ RequestID \/ CORS \/ RequireAuth \/ CallbackPanics \/ RequireRole
    PROVE  HTTPInv'
<1>1. pc = "down"
  BY DEF EnterWrapper, RequestID, CORS, RequireAuth, CallbackPanics, RequireRole, Layer
<1>2. /\ depth \in 1..Len(chain) /\ depth \in 1..Inner /\ Len(ctx) = depth
      /\ ctx[depth] \in Context /\ out.header.id = ctx[depth].id
      /\ Sound(out) /\ ~out.committed /\ broken \in BOOLEAN
      /\ chain[depth] # "logger" => Consistent(out, Recorders(depth)) /\ Untouched(out, depth)
      /\ ctx[depth].roles = IF At("auth", 1..depth - 1) = {} THEN {} ELSE req.roles
      /\ req \in Requests /\ cfg \in Configs
  BY <1>1, WayIn
<1>3. out \in Response /\ out.header \in Header
  BY <1>2 DEF Sound, Response
<1>4. CASE EnterWrapper
  <2>1. /\ chain[depth] \in {"recovery", "logger"} /\ CallNext(ctx[depth]) /\ out' = out
        /\ UNCHANGED <<fixed, faults, quiet>>
    BY <1>4 DEF EnterWrapper, Layer
  <2>2. ~Refuses(depth)
    BY <2>1 DEF Refuses
  <2> QED BY <1>1, <1>2, <1>3, <2>1, <2>2, DescendStep
<1>5. CASE RequestID
  <2> DEFINE id == IF req.id # NoID THEN req.id ELSE depth
             c == [ctx[depth] EXCEPT !.id = id]
             h == [out.header EXCEPT !.id = id]
  <2>1. /\ chain[depth] = "requestID" /\ CallNext(c) /\ out' = [out EXCEPT !.header.id = id]
        /\ UNCHANGED <<fixed, faults, quiet>>
    BY <1>5 DEF RequestID, Layer
  <2>2. id \in Int /\ id # NoID
    <3>1. req.id \in {NoID, ClientID}
      BY <1>2, LayerAssumption
    <3> QED BY <1>2, <3>1 DEF NoID, ClientID
  <2> HIDE DEF id
  <2>3. c \in Context /\ c.id = id /\ c.roles = ctx[depth].roles
    BY <1>2, <2>2 DEF Context
  <2>4. h \in Header /\ h.id = id /\ h.origin = out.header.origin /\ h.credentials = out.header.credentials
    BY <1>3, <2>2 DEF Header
  <2>5. out' = [out EXCEPT !.header = h]
    BY <1>3, <2>1 DEF Response, Header
  <2> HIDE DEF h, c
  <2>6. /\ out' \in Response /\ out'.rec = out.rec /\ out'.committed = out.committed
        /\ out'.body = out.body /\ out'.header = h
    BY <1>3, <2>4, <2>5 DEF Response
  <2>7. ~Refuses(depth)
    BY <2>1 DEF Refuses
  <2> QED BY <1>1, <2>1, <2>2, <2>3, <2>4, <2>6, <2>7, DescendStep
<1>6. CASE CORS
  <2>1. chain[depth] = "cors" /\ UNCHANGED <<fixed, faults, quiet>>
    BY <1>6 DEF CORS, Layer
  <2> DEFINE o == Grant(out)
  <2>2. /\ o \in Response /\ Sound(o) /\ o.rec = out.rec /\ o.committed = out.committed
        /\ o.body = out.body /\ o.status = out.status /\ o.header.id = out.header.id
        /\ o.header.origin = IF cfg.wildcard /\ ~cfg.credentials THEN "*" ELSE req.origin
        /\ o.header.credentials <=> out.header.credentials \/ cfg.credentials
    BY <1>2, GrantWorks
  <2>3. CASE Allowed /\ req.preflight
    <3> DEFINE w == WriteHeader(o, depth, 204)
    <3>1. out' = w /\ ReturnOut /\ UNCHANGED ctx
      BY <1>6, <2>3 DEF CORS
    <3> HIDE DEF o
    <3>2. Consistent(o, Recorders(depth)) /\ Untouched(o, depth)
      BY <1>2, <2>1, <2>2 DEF Consistent, Untouched
    <3>3. ~Odd(204) /\ 204 \in Int
      BY DEF Odd, Informational, Invalid
    <3>4. /\ Moves(o, w, depth) /\ Consistent(w, Recorders(depth)) /\ Sound(w)
          /\ Untouched(o, depth) /\ ~Odd(204) => w.committed /\ w.status = 204 /\ w.sent = o.header
      BY <1>2, <2>2, <3>2, <3>3, WriteHeaderWorks
    <3>5. Refuses(depth) /\ Refusal(depth) = 204
      BY <2>1, <2>3 DEF Refuses, Refusal
    <3> HIDE DEF w
    <3>6. /\ Moves(o, out', depth) /\ Consistent(out', Recorders(depth))
          /\ out'.committed /\ out'.status = Refusal(depth) /\ ~o.committed
      BY <1>2, <2>2, <3>1, <3>2, <3>3, <3>4, <3>5
    <3> QED BY <1>1, <2>1, <2>2, <2>3, <3>1, <3>5, <3>6, RefuseStep
  <2>4. CASE ~(Allowed /\ req.preflight)
    <3>1. out' = (IF Allowed THEN o ELSE out) /\ CallNext(ctx[depth])
      BY <1>6, <2>4 DEF CORS
    <3>2. ~Refuses(depth)
      BY <2>1, <2>4 DEF Refuses
    <3> HIDE DEF o
    <3>3. CASE Allowed
      BY <1>1, <1>2, <2>1, <2>2, <3>1, <3>2, <3>3, DescendStep
    <3>4. CASE ~Allowed
      BY <1>1, <1>2, <1>3, <2>1, <3>1, <3>2, <3>4, DescendStep
    <3> QED BY <3>3, <3>4
  <2> QED BY <2>3, <2>4
<1>7. CASE RequireAuth
  <2>1. chain[depth] = "auth" /\ UNCHANGED <<fixed, faults, quiet>>
    BY <1>7 DEF RequireAuth, Layer
  <2>2. CASE Identified
    <3> DEFINE c == [ctx[depth] EXCEPT !.user = req.user, !.roles = req.roles]
    <3>1. CallNext(c) /\ out' = out
      BY <1>7, <2>2 DEF RequireAuth
    <3>2. c \in Context /\ c.id = ctx[depth].id /\ c.roles = req.roles
      BY <1>2 DEF Context
    <3>3. ~Refuses(depth)
      BY <2>1, <2>2 DEF Refuses
    <3> HIDE DEF c
    <3> QED BY <1>1, <1>2, <1>3, <2>1, <3>1, <3>2, <3>3, DescendStep
  <2>3. CASE ~Identified
    <3>1. out' = Respond(out, depth, "json", 401, "error") /\ ReturnOut /\ UNCHANGED ctx
      BY <1>7, <2>3 DEF RequireAuth
    <3>2. Refuses(depth) /\ Refusal(depth) = 401
      BY <2>1, <2>3 DEF Refuses, Refusal
    <3> QED BY <1>1, <2>1, <3>1, <3>2, GuardRefuses
  <2> QED BY <2>2, <2>3
<1>8. CASE RequireRole
  <2>1. chain[depth] = "role" /\ UNCHANGED <<fixed, faults, quiet>>
    BY <1>8 DEF RequireRole, Layer
  <2>2. CASE Role \in ctx[depth].roles
    <3>1. CallNext(ctx[depth]) /\ out' = out
      BY <1>8, <2>2 DEF RequireRole
    <3>2. ~Refuses(depth)
      BY <1>2, <2>1, <2>2 DEF Refuses
    <3> QED BY <1>1, <1>2, <1>3, <2>1, <3>1, <3>2, DescendStep
  <2>3. CASE Role \notin ctx[depth].roles
    <3>1. out' = Respond(out, depth, "json", 403, "error") /\ ReturnOut /\ UNCHANGED ctx
      BY <1>8, <2>3 DEF RequireRole
    <3>2. Refuses(depth) /\ Refusal(depth) = 403
      BY <1>2, <2>1, <2>3 DEF Refuses, Refusal
    <3> QED BY <1>1, <2>1, <3>1, <3>2, GuardRefuses
  <2> QED BY <2>2, <2>3
<1>9. CASE CallbackPanics
  <2>1. chain[depth] \in {"auth", "requestID"} /\ Throw /\ UNCHANGED <<fixed, ctx, out, quiet>>
    BY <1>9 DEF CallbackPanics, Layer
  <2>2. depth > 0
    BY <1>2
  <2> QED BY <1>1, <2>1, <2>2, ThrowStep
<1> QED BY <1>4, <1>5, <1>6, <1>7, <1>8, <1>9

\* The application handler and its adapter.
LEMMA HandlerKeeps ==
    ASSUME HTTPInv,
           \/ AppWriteHeader \/ AppWrite \/ Bind \/ WriteJSON \/ WriteNoContent
           \/ AppReturn \/ AppPanic \/ HandlerReturns \/ Disconnect
    PROVE  HTTPInv'
<1> DEFINE Errors == [kind : {"none", "other", "http", "nil"}, status : Int]
<1>1. pc \in {"handler", "returned"}
  BY DEF AppWriteHeader, AppWrite, Bind, WriteJSON, WriteNoContent, AppReturn, AppPanic,
         HandlerReturns, Disconnect, InHandler
<1>2. TypeOK /\ Placed /\ Clean
  BY DEF HTTPInv
<1>3. /\ depth = Inner /\ depth \in 1..Inner /\ depth > 0 /\ Sound(out)
      /\ Consistent(out, Recorders(depth))
  <2>1. depth = Inner /\ Inner \in Nat /\ Inner > 0 /\ Sound(out)
    BY <1>1, <1>2, ChainFacts DEF Placed
  <2>2. depth \in 1..Inner /\ depth > 0
    BY <2>1
  <2>3. Recorders(depth) = Around
    BY <1>2, <2>1, <2>2, AroundHere
  <2> QED BY <1>2, <2>1, <2>2, <2>3 DEF Clean
<1>4. err \in Errors /\ bound \in BOOLEAN /\ broken \in BOOLEAN /\ writes \in 0..MaxWrites
  BY <1>2 DEF TypeOK
<1>5. Moves(out, out, depth)
  BY <1>3 DEF Moves, Sound, Traced
<1>6. Nil \in Errors /\ Other \in Errors /\ NilHTTPError \in Errors
      /\ \A status \in Int : HTTPError(status) \in Errors
  BY DEF Nil, Other, NilHTTPError, HTTPError
<1>7. \A code \in Int : LET w == WriteHeader(out, depth, code) IN
         Moves(out, w, depth) /\ Consistent(w, Recorders(depth))
  BY <1>3, WriteHeaderWorks
<1> HIDE DEF Errors
<1>8. ASSUME AppWriteHeader PROVE HTTPInv'
  <2>1. PICK code \in Statuses : out' = WriteHeader(out, depth, code)
    BY <1>8 DEF AppWriteHeader
  <2>2. /\ UNCHANGED <<fixed, depth, ctx, log, faults, aborted>> /\ pc' = pc
        /\ err' = err /\ bound' = bound /\ broken' = broken
        /\ writes' = writes + 1 /\ writes < MaxWrites
    BY <1>8 DEF AppWriteHeader
  <2>3. code \in Int /\ writes' \in 0..MaxWrites
    BY <1>4, <2>2, StatusAssumption
  <2> QED BY <1>1, <1>4, <1>7, <2>1, <2>2, <2>3, HandlerStep DEF Errors
<1>9. ASSUME AppWrite PROVE HTTPInv'
  <2> DEFINE w == Write(out, depth, "app")
  <2>1. /\ UNCHANGED <<fixed, depth, ctx, log, faults, aborted>> /\ pc' = pc /\ out' = w
        /\ err' = err /\ bound' = bound /\ broken' = broken
        /\ writes' = writes + 1 /\ writes < MaxWrites
    BY <1>9 DEF AppWrite
  <2>2. writes' \in 0..MaxWrites
    BY <1>4, <2>1, StatusAssumption
  <2>3. Moves(out, w, depth) /\ Consistent(w, Recorders(depth))
    BY <1>3, <1>4, WriteWorks
  <2> HIDE DEF w
  <2> QED BY <1>1, <1>4, <2>1, <2>2, <2>3, HandlerStep DEF Errors
<1>10. ASSUME Bind PROVE HTTPInv'
  <2>1. /\ UNCHANGED <<fixed, depth, ctx, log, faults, aborted>> /\ out' = out
        /\ broken' = broken /\ writes' = writes /\ bound' = TRUE
        /\ (pc' = "returned" /\ err' = HTTPError(400)) \/ (pc' = pc /\ err' = err)
    BY <1>10 DEF Bind, Return
  <2>2. err' \in Errors /\ pc' \in {"handler", "returned"}
    BY <1>1, <1>4, <1>6, <2>1
  <2> QED BY <1>1, <1>3, <1>4, <1>5, <2>1, <2>2, HandlerStep DEF Errors
<1>11. ASSUME WriteJSON PROVE HTTPInv'
  <2>1. /\ UNCHANGED <<fixed, depth, ctx, log, faults, aborted>>
        /\ broken' = broken /\ writes' = writes /\ bound' = bound
        /\ pc' = "returned" /\ err' \in {Other, Nil}
    BY <1>11 DEF WriteJSON, Return
  <2>2. Moves(out, out', depth) /\ Consistent(out', Recorders(depth))
    <3>1. CASE out' = out
      BY <1>3, <1>5, <3>1
    <3>2. CASE \E code \in Statuses : out' = Respond(out, depth, "json", code, "app")
      <4>1. PICK code \in Statuses : out' = Respond(out, depth, "json", code, "app")
        BY <3>2
      <4>2. code \in Int
        BY StatusAssumption
      <4> DEFINE w == Respond(out, depth, "json", code, "app")
      <4>3. Moves(out, w, depth) /\ Consistent(w, Recorders(depth))
        BY <1>3, <1>4, <4>2, RespondWorks
      <4> QED BY <4>1, <4>3
    <3> QED BY <1>11, <3>1, <3>2 DEF WriteJSON
  <2>3. err' \in Errors
    BY <1>6, <2>1
  <2> QED BY <1>1, <1>4, <2>1, <2>2, <2>3, HandlerStep DEF Errors
<1>12. ASSUME WriteNoContent PROVE HTTPInv'
  <2>1. /\ UNCHANGED <<fixed, depth, ctx, log, faults, aborted>> /\ out' = WriteHeader(out, depth, 204)
        /\ broken' = broken /\ writes' = writes /\ bound' = bound
        /\ pc' = "returned" /\ err' = Nil
    BY <1>12 DEF WriteNoContent, Return
  <2> QED BY <1>1, <1>4, <1>6, <1>7, <2>1, HandlerStep DEF Errors
<1>13. ASSUME AppReturn PROVE HTTPInv'
  <2>1. /\ UNCHANGED <<fixed, depth, ctx, log, faults, aborted>> /\ out' = out
        /\ broken' = broken /\ writes' = writes /\ bound' = bound /\ pc' = "returned"
        /\ err' \in {Nil, Other, NilHTTPError} \/ \E status \in ErrorStatuses : err' = HTTPError(status)
    BY <1>13 DEF AppReturn, Return
  <2>2. err' \in Errors
    BY <1>6, <2>1, StatusAssumption
  <2> QED BY <1>1, <1>3, <1>4, <1>5, <2>1, <2>2, HandlerStep DEF Errors
<1>14. ASSUME Disconnect PROVE HTTPInv'
  <2>1. /\ UNCHANGED <<fixed, depth, ctx, log, faults, aborted>> /\ out' = out
        /\ broken' = TRUE /\ writes' = writes /\ bound' = bound /\ pc' = pc /\ err' = err
    BY <1>14 DEF Disconnect
  <2> QED BY <1>1, <1>3, <1>4, <1>5, <2>1, HandlerStep DEF Errors
<1>15. ASSUME AppPanic PROVE HTTPInv'
  <2>1. Throw /\ UNCHANGED <<fixed, ctx, out, quiet>>
    BY <1>15 DEF AppPanic
  <2> QED BY <1>1, <1>3, <2>1, ThrowStep
<1>16. ASSUME HandlerReturns PROVE HTTPInv'
  <2>1. pc = "returned" /\ UNCHANGED <<fixed, ctx, quiet>>
    BY <1>16 DEF HandlerReturns
  <2>2. CASE err.kind = "none"
    BY <1>3, <1>16, <2>1, <2>2, ReturnStep DEF HandlerReturns
  <2>3. CASE err.kind = "nil"
    BY <1>3, <1>16, <2>1, <2>3, ThrowStep DEF HandlerReturns
  <2>4. CASE err.kind \notin {"none", "nil"}
    <3> DEFINE code == ErrorStatus(err)
               w == Respond(out, depth, "json", code, "error")
    <3>1. code \in Int
      BY <1>4 DEF ErrorStatus, Errors
    <3>2. out' = w
      BY <1>16, <2>4 DEF HandlerReturns
    <3>3. CASE Panics(out, depth, code)
      <4>1. Throw
        BY <1>16, <2>4, <3>3 DEF HandlerReturns
      <4> HIDE DEF code
      <4>2. /\ Moves(out, w, depth) /\ Consistent(w, Recorders(depth))
            /\ Panics(out, depth, code) => ~w.committed /\ ~out.committed /\ Invalid(code)
        BY <1>3, <1>4, <3>1, RespondWorks
      <4> HIDE DEF w
      <4> QED BY <1>3, <2>1, <3>2, <3>3, <4>1, <4>2, ThrowStep
    <3>4. CASE ~Panics(out, depth, code)
      <4>1. Fault(code, FALSE) /\ ReturnOut
        BY <1>16, <2>4, <3>4 DEF HandlerReturns
      <4> HIDE DEF code
      <4> QED BY <2>1, <3>1, <3>2, <3>4, <4>1, ErrorStep
    <3> QED BY <3>3, <3>4
  <2> QED BY <2>2, <2>3, <2>4
<1> QED BY <1>8, <1>9, <1>10, <1>11, <1>12, <1>13, <1>14, <1>15, <1>16

\* Every step keeps the invariant.
LEMMA NextWorks ==
    ASSUME HTTPInv, [Next]_vars
    PROVE  HTTPInv'
<1>1. CASE EnterWrapper \/ RequestID \/ CORS \/ RequireAuth \/ CallbackPanics \/ RequireRole
  BY <1>1, WayInKeeps
<1>2. CASE \/ AppWriteHeader \/ AppWrite \/ Bind \/ WriteJSON \/ WriteNoContent
           \/ AppReturn \/ AppPanic \/ HandlerReturns \/ Disconnect
  BY <1>2, HandlerKeeps
<1>3. CASE LogRequest
  BY <1>3, LogStep
<1>4. CASE EnrichPanics
  <2>1. pc = "up" /\ depth > 0 /\ Throw /\ UNCHANGED <<fixed, ctx, out, quiet>>
    BY <1>4 DEF EnrichPanics
  <2> QED BY <2>1, ThrowStep
<1>5. CASE PassReturn
  <2>1. /\ pc = "up" /\ depth > 0 /\ chain[depth] # "logger" /\ ReturnOut
        /\ UNCHANGED <<fixed, ctx, out, faults, quiet>>
    BY <1>5 DEF PassReturn
  <2> QED BY <2>1, ReturnStep
<1>6. CASE Recover
  BY <1>6, RecoverStep
<1>7. CASE PassPanic
  BY <1>7, PassPanicStep
<1>8. CASE ServerFinishes
  BY <1>8, FinishStep
<1>9. CASE Terminated \/ UNCHANGED vars
  BY <1>9, IdleStep DEF Terminated
<1> QED BY <1>1, <1>2, <1>3, <1>4, <1>5, <1>6, <1>7, <1>8, <1>9 DEF Next

-----------------------------------------------------------------------------
(* The theorems.                                                           *)

\* HTTPInv holds throughout the request, however the layers are nested.
THEOREM HTTPInvariant == Spec => []HTTPInv
<1>1. Init => HTTPInv
  BY InitWorks
<1>2. HTTPInv /\ [Next]_vars => HTTPInv'
  BY NextWorks
<1> QED BY <1>1, <1>2, PTL DEF Spec

\* Every variable keeps a value of its kind, and no status is sent that cannot be.
THEOREM PipelineTypeCorrect == Spec => []TypeOK
<1>1. HTTPInv => TypeOK
  BY DEF HTTPInv
<1> QED BY <1>1, HTTPInvariant, PTL

\* An answered request has a status line with the headers of the header map.
LEMMA AnswerFacts ==
    ASSUME HTTPInv, Answered
    PROVE  /\ pc = "done" /\ ~aborted /\ depth = 0 /\ out.committed /\ Traced(out.sent, out.header)
BY DEF HTTPInv, Answered, Placed, Headed

\* No layer inside the outermost one that refuses a request runs, and that layer's
\* status is the answer unless something failed before it (RequireAuth,
\* RequireRole, CORS).
THEOREM OutermostGuardDecides == Spec => []GuardsDecide
<1>1. HTTPInv => GuardsDecide
  <2> SUFFICES ASSUME HTTPInv PROVE GuardsDecide
    OBVIOUS
  <2>1. TypeOK /\ Turned /\ \A j \in 1..Len(ctx) : Passed(j)
    BY DEF HTTPInv
  <2>2. DOMAIN chain = 1..Len(chain) /\ Len(chain) \in Nat /\ Len(ctx) \in Nat /\ Len(ctx) >= 1
    BY <2>1, ChainFacts
  <2>3. ASSUME NEW i \in DOMAIN chain, Refuses(i) PROVE Len(ctx) <= i
    BY <2>1, <2>2, <2>3 DEF Passed
  <2>4. ASSUME Answered, \A f \in faults : ~f.early, NEW i \in DOMAIN chain, Refuses(i),
               \A j \in {k \in DOMAIN chain : Refuses(k)} : i <= j
        PROVE  Len(ctx) = i /\ out.status = Refusal(i)
    <3>1. Len(ctx) <= i /\ Len(ctx) \in DOMAIN chain
      BY <2>2, <2>3, <2>4
    <3>2. Refuses(Len(ctx)) /\ out.status = Refusal(Len(ctx))
      BY <2>1, <2>2, <2>4, <3>1 DEF Turned, Descending, Answered
    <3>3. i <= Len(ctx)
      BY <2>4, <3>1, <3>2
    <3>4. Len(ctx) = i
      BY <2>2, <3>1, <3>3
    <3> QED BY <3>2, <3>4
  <2> QED BY <2>3, <2>4 DEF GuardsDecide
<1> QED BY <1>1, HTTPInvariant, PTL

\* The handler, the response and the loggers that no later RequestID lies inside of
\* have one request ID (RequestID).
THEOREM OneRequestID == Spec => []TraceAgrees
<1>1. HTTPInv => TraceAgrees
  <2> SUFFICES ASSUME HTTPInv, Answered PROVE TraceAgrees
    BY DEF TraceAgrees
  <2>1. TypeOK /\ Headed /\ Lined /\ \A j \in 1..Len(ctx) : Passed(j)
    BY DEF HTTPInv
  <2>2. DOMAIN chain = 1..Len(chain) /\ Len(chain) \in Nat /\ Len(ctx) \in Nat /\ Len(ctx) >= 1
    BY <2>1, ChainFacts
  <2>3. out.sent.id = ctx[Len(ctx)].id
    BY <2>1, AnswerFacts DEF Headed, Traced
  <2>4. Entered => ctx[Inner].id = out.sent.id
    BY <2>3 DEF Entered
  <2>5. ASSUME NEW e \in Lines
        PROVE  LET ids == {i \in At("requestID", DOMAIN chain) : i <= Len(ctx)}
               IN  /\ (\E i \in ids : i < e.layer) => e.id # NoID
                   /\ (\A i \in ids : i < e.layer) => e.id = out.sent.id
    <3>1. PICK k \in DOMAIN log : e = log[k]
      BY DEF Lines
    <3>2. Logged(e) /\ e.layer \in Nat /\ e.layer \in 1..Len(chain)
      BY <2>1, <3>1, HistoryFacts DEF Lined
    <3>3. e.id = ctx[e.layer].id /\ e.layer < Len(ctx) /\ Passed(e.layer)
      BY <2>1, <2>2, <3>2 DEF Logged
    <3>4. ASSUME NEW i \in At("requestID", DOMAIN chain), i < e.layer PROVE e.id # NoID
      <4>1. i \in At("requestID", 1..e.layer - 1)
        BY <2>2, <3>2, <3>4 DEF At
      <4> QED BY <3>3, <4>1 DEF Passed
    <3>5. ASSUME \A i \in At("requestID", DOMAIN chain) : i <= Len(ctx) => i < e.layer
          PROVE  e.id = out.sent.id
      <4>1. e.layer..Len(ctx) - 1 \subseteq DOMAIN chain
        BY <2>1, <2>2, <3>2, <3>3, ChainFacts
      <4>2. At("requestID", e.layer..Len(ctx) - 1) = {}
        BY <2>2, <3>2, <3>5, <4>1 DEF At
      <4> QED BY <2>3, <3>3, <4>2 DEF Passed
    <3> QED BY <3>4, <3>5
  <2> QED BY <2>4, <2>5 DEF TraceAgrees
<1> QED BY <1>1, HTTPInvariant, PTL

\* A grant of CORS is in every answer to a request that got to it, no other answer
\* has one, and the wildcard never goes with credentials (CORS).
THEOREM GrantsSurvive == Spec => []GrantSurvives
<1>1. HTTPInv => GrantSurvives
  <2> SUFFICES ASSUME HTTPInv, Answered PROVE GrantSurvives
    BY DEF GrantSurvives
  <2>1. TypeOK /\ Headed
    BY DEF HTTPInv
  <2>2. /\ out.sent.origin = IF ~Granted THEN "none"
                             ELSE IF cfg.wildcard /\ ~cfg.credentials THEN "*" ELSE req.origin
        /\ out.sent.credentials <=> Granted /\ cfg.credentials
    BY <2>1, AnswerFacts DEF Headed, Traced
  <2>3. Granted <=> Allowed /\ \E i \in At("cors", DOMAIN chain) : i <= Len(ctx)
    <3>1. /\ DOMAIN chain = 1..Len(chain) /\ Len(chain) \in Nat /\ Len(ctx) \in Nat
      BY <2>1, ChainFacts
    <3>2. \A i \in At("cors", DOMAIN chain) : i <= Len(ctx) <=> i < Len(ctx) \/ i = Len(ctx)
      BY <3>1 DEF At
    <3> QED BY <3>2, AnswerFacts DEF Granted
  <2>4. req.origin # "none"
    <3>1. req \in Requests
      BY <2>1 DEF TypeOK
    <3> QED BY <3>1, LayerAssumption
  <2> QED BY <2>2, <2>3, <2>4 DEF GrantSurvives
<1> QED BY <1>1, HTTPInvariant, PTL

\* What a RequestLogger logs is the status that the client gets (statusWriter).
THEOREM LogsTellTheTruth == Spec => []LoggedStatusSent
<1>1. HTTPInv => LoggedStatusSent
  <2> SUFFICES ASSUME HTTPInv, Answered, NEW e \in Lines, ~Misled(e.layer),
                      \A f \in faults : f.at >= e.layer
               PROVE  e.status = out.status
    BY DEF LoggedStatusSent
  <2>1. TypeOK /\ Lined /\ Clean
    BY DEF HTTPInv
  <2>2. PICK k \in DOMAIN log : e = log[k]
    BY DEF Lines
  <2>3. Logged(e) /\ e.layer \in 1..Len(chain)
    BY <2>1, <2>2, HistoryFacts DEF Lined
  <2>4. e.layer \in Loggers /\ e.layer \in DOMAIN chain
    BY <2>1, <2>3, ChainFacts DEF Logged
  <2>5. CASE out.rec[e.layer].wrote
    BY <2>1, <2>3, <2>4, <2>5 DEF Clean, Consistent, Misled, Odd, Logged
  <2>6. CASE ~out.rec[e.layer].wrote
    <3>1. out.rec[e.layer].status = 200
      BY <2>1, <2>4, <2>6 DEF TypeOK
    <3> QED BY <2>3, <2>6, <3>1, AnswerFacts DEF Logged
  <2> QED BY <2>5, <2>6
<1> QED BY <1>1, HTTPInvariant, PTL

\* A panic ends at the nearest Recovery outside it: only the loggers in between lose
\* their line, every other one has exactly one (Recovery, RequestLogger).
THEOREM PanicsEndAtRecovery == Spec => []PanicStops
<1>1. HTTPInv => PanicStops
  <2> SUFFICES ASSUME HTTPInv, pc = "done" PROVE PanicStops
    BY DEF PanicStops
  <2>1. TypeOK /\ Placed /\ Unwound /\ Lined
    BY DEF HTTPInv
  <2>2. depth = 0 /\ (aborted <=> \E f \in faults : Passes(f, 0))
    BY <2>1 DEF Placed, Unwound
  <2>3. ASSUME NEW i \in At("logger", DOMAIN chain), i <= Len(ctx)
        PROVE  Cardinality({k \in DOMAIN log : log[k].layer = i})
                  = IF \E f \in faults : Passes(f, i) THEN 0 ELSE 1
    <3>1. HasLine(i) <=> ~\E f \in faults : Passes(f, i)
      <4>1. i \in Loggers /\ 0 < i
        BY <2>1, ChainFacts DEF Loggers
      <4> QED BY <2>1, <2>2, <2>3, <4>1 DEF Unwound
    <3>2. CASE \E f \in faults : Passes(f, i)
      <4>1. {k \in DOMAIN log : log[k].layer = i} = {}
        BY <3>1, <3>2 DEF HasLine
      <4> QED BY <3>2, <4>1, FS_EmptySet
    <3>3. CASE ~\E f \in faults : Passes(f, i)
      <4>1. PICK k \in DOMAIN log : log[k].layer = i
        BY <3>1, <3>3 DEF HasLine
      <4>2. {l \in DOMAIN log : log[l].layer = i} = {k}
        BY <2>1, <4>1 DEF Lined
      <4> QED BY <3>3, <4>2, FS_Singleton
    <3> QED BY <3>2, <3>3
  <2> QED BY <2>2, <2>3 DEF PanicStops
<1> QED BY <1>1, HTTPInvariant, PTL

\* An early failure is what the client is told, through any loggers that took no
\* unsendable status for the final one (DefaultErrorWriter, Recovery).
THEOREM ClientsAreTold == Spec => []FailuresReported
<1>1. HTTPInv => FailuresReported
  <2> SUFFICES ASSUME HTTPInv, Answered, \A i \in Loggers : ~Misled(i),
                      NEW f \in faults, f.early, ~Informational(f.status)
               PROVE  Told(f)
    BY DEF FailuresReported, Told, Loggers
  <2>1. Reported /\ out.committed
    BY AnswerFacts DEF HTTPInv
  <2> QED BY <2>1 DEF Reported
<1> QED BY <1>1, HTTPInvariant, PTL
=============================================================================
