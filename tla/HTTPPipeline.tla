---------------------------- MODULE HTTPPipeline ----------------------------
(***************************************************************************)
(* One request through a chain of the handlers that httpx/middleware and   *)
(* authx build around an application handler adapted by httpx.Handler.     *)
(* Requests share no state, so one request is enough.                      *)
(*                                                                         *)
(* The layers are numbered from the outside, 1..Len(chain), and the        *)
(* application handler is at Len(chain) + 1.  A layer writes to the        *)
(* ResponseWriter it was given, so its calls pass the statusWriters of the *)
(* RequestLoggers outside it, innermost first, before the server's writer  *)
(* (net/http, external).                                                   *)
(***************************************************************************)
EXTENDS Integers, Sequences, FiniteSets

CONSTANTS
    Chains,       \* the orders in which an application nests the layers
    Configs,      \* [wildcard, listed, credentials : BOOLEAN, recovery]
    Requests,     \* what the layers read of a request
    Role,         \* the role that RequireRole is asked for
    Statuses,     \* the codes that the application passes to WriteHeader
    ErrorStatuses,\* the Status fields of the *httpx.Error values it returns
    MaxWrites     \* the bound on its direct calls of the ResponseWriter

\* An application that passes a status which cannot be sent to WriteHeader
\* itself is left out; one that puts it into an *httpx.Error is not.
ASSUME StatusAssumption ==
    Statuses \subseteq 100..999 /\ ErrorStatuses \subseteq Int /\ MaxWrites \in Nat

VARIABLES
    chain,        \* the layers
    cfg,          \* their configuration
    req,          \* the request
    pc,           \* down, handler, returned, up, panic or done
    depth,        \* the layer that pc is about
    ctx,          \* ctx[i] is the context of the request that layer i received
    out,          \* the response writers, see Fresh
    err,          \* what the application handler returned
    bound,        \* the request's body has been read
    writes,       \* direct calls of the ResponseWriter so far
    broken,       \* the client has gone and writes fail
    log,          \* the lines of the RequestLoggers
    faults,       \* history: what failed where, and whether it came early
    aborted       \* the server has dropped the connection

vars == <<chain, cfg, req, pc, depth, ctx, out, err, bound, writes, broken, log,
          faults, aborted>>
fixed == <<chain, cfg, req>>

Layers == {"recovery", "logger", "requestID", "cors", "auth", "role"}
Inner == Len(chain) + 1                  \* where the application handler is
At(kind, span) == {i \in span : chain[i] = kind}
Entered == Len(ctx) = Inner              \* the application handler was called

\* IDs: none, the one that the request carries, and the one made at layer i.
NoID == 0
ClientID == -1

\* The codes that net/http sends ahead of the response, and the ones it refuses.
Informational(code) == code \in 100..199 \ {101}
Invalid(code) == code \notin 100..999
NoBody(code) == code \in {204, 304}

\* "none" stands for a header that is not set.
ASSUME LayerAssumption ==
    /\ Chains \subseteq Seq(Layers)
    /\ Configs \subseteq [wildcard : BOOLEAN, listed : BOOLEAN, credentials : BOOLEAN,
                          recovery : {"json", "text"}]
    /\ Requests \subseteq [origin : STRING \ {"none"}, preflight : BOOLEAN,
                           id : {NoID, ClientID}, parsed : BOOLEAN, user : STRING,
                           roles : SUBSET STRING]

-----------------------------------------------------------------------------
(* The response writers. *)

NoHeader == [id |-> NoID, origin |-> "none", credentials |-> FALSE,
             contentType |-> "none"]

\* rec[i] is the statusWriter of layer i, the rest is the server's writer.
Fresh(n) ==
    [rec       |-> [i \in 1..n |-> [status |-> 200, wrote |-> FALSE]],
     header    |-> NoHeader,         \* the header map that all layers share
     committed |-> FALSE,            \* the status line has been sent
     status    |-> 0,                \* with this status
     sent      |-> NoHeader,         \* and these headers
     body      |-> <<>>]

\* The writers that a call from layer d passes, and whether it gets to layer i.
Recorders(d) == At("logger", 1..d - 1)
Reaches(o, d, i) == \A j \in Recorders(d) : j > i => ~o.rec[j].wrote

\* net/http: the first final status counts, and takes the headers with it.
ServerHeader(o, code) ==
    IF o.committed \/ Informational(code) \/ Invalid(code)
    THEN o
    ELSE [o EXCEPT !.committed = TRUE, !.status = code, !.sent = o.header]

\* Mutant: a recorder notes every call, also after the first.
WriteHeaderLast(o, d, code) ==
    [ServerHeader(o, code) EXCEPT
        !.rec = [i \in DOMAIN o.rec |->
                    IF i \in Recorders(d) THEN [status |-> code, wrote |-> TRUE]
                    ELSE o.rec[i]]]

\* statusWriter.WriteHeader, up to the first writer that has written.
WriteHeader(o, d, code) ==
    LET rec == [i \in DOMAIN o.rec |->
                   IF i \in Recorders(d) /\ Reaches(o, d, i) /\ ~o.rec[i].wrote
                   THEN [status |-> code, wrote |-> TRUE]
                   ELSE o.rec[i]]
    IN  [(IF Reaches(o, d, 0) THEN ServerHeader(o, code) ELSE o) EXCEPT !.rec = rec]

\* net/http panics on a code it cannot send, after the recorders have noted it.
Panics(o, d, code) == Invalid(code) /\ Reaches(o, d, 0) /\ ~o.committed

\* statusWriter.Write: every writer on the way has a status afterwards.
Write(o, d, chunk) ==
    LET rec == [i \in DOMAIN o.rec |->
                   IF i \in Recorders(d) /\ ~o.rec[i].wrote
                   THEN [status |-> 200, wrote |-> TRUE]
                   ELSE o.rec[i]]
        w == ServerHeader([o EXCEPT !.rec = rec], 200)
    IN  IF broken \/ NoBody(w.status) THEN w ELSE [w EXCEPT !.body = Append(@, chunk)]

\* An error of Write: the client has gone or the status has no body.
WriteFails(o) == broken \/ NoBody(o.status)

\* Content-Type, status and body, as WriteJSON, writeAuthError and http.Error do.
Respond(o, d, contentType, code, chunk) ==
    LET w == WriteHeader([o EXCEPT !.header.contentType = contentType], d, code)
    IN  IF Panics(o, d, code) THEN w ELSE Write(w, d, chunk)

-----------------------------------------------------------------------------
(* How control moves. *)

Init ==
    /\ chain \in Chains
    /\ cfg \in Configs
    /\ req \in Requests
    /\ pc = IF chain = <<>> THEN "handler" ELSE "down"
    /\ depth = 1
    /\ ctx = <<[id |-> NoID, user |-> "", roles |-> {}]>>
    /\ out = Fresh(Len(chain))
    /\ err = [kind |-> "none", status |-> 0]
    /\ bound = FALSE
    /\ writes = 0
    /\ broken = FALSE
    /\ log = <<>>
    /\ faults = {}
    /\ aborted = FALSE

\* next.ServeHTTP with the context c.
CallNext(c) ==
    /\ ctx' = Append(ctx, c)
    /\ depth' = depth + 1
    /\ pc' = IF depth' = Inner THEN "handler" ELSE "down"

ReturnOut ==
    /\ pc' = "up"
    /\ depth' = depth - 1

\* A failure at the current depth, whose response would have this status.
Fault(status, panics) ==
    faults' = faults \cup {[at |-> depth, status |-> status, panics |-> panics,
                            early |-> ~out.committed]}

Throw ==
    /\ Fault(500, TRUE)
    /\ pc' = "panic"
    /\ depth' = IF depth = Inner THEN depth - 1 ELSE depth

-----------------------------------------------------------------------------
(* The layers on the way in. *)

Layer(kind) == pc = "down" /\ chain[depth] = kind
quiet == <<err, bound, writes, broken, log, aborted>>

\* Recovery installs its deferred function, RequestLogger its statusWriter.
EnterWrapper ==
    /\ Layer("recovery") \/ Layer("logger")
    /\ CallNext(ctx[depth])
    /\ UNCHANGED <<fixed, out, faults, quiet>>

\* Mutant: the context gets a new ID although the request carries one.
RequestIDAnew ==
    /\ Layer("requestID")
    /\ out' = [out EXCEPT !.header.id = IF req.id # NoID THEN req.id ELSE depth]
    /\ CallNext([ctx[depth] EXCEPT !.id = depth])
    /\ UNCHANGED <<fixed, faults, quiet>>

\* RequestID: the header is set for the response before the next layer runs.
RequestID ==
    /\ Layer("requestID")
    /\ LET id == IF req.id # NoID THEN req.id ELSE depth
       IN  /\ out' = [out EXCEPT !.header.id = id]
           /\ CallNext([ctx[depth] EXCEPT !.id = id])
    /\ UNCHANGED <<fixed, faults, quiet>>

\* CORS: origins["*"] || origins[origin], and what is answered then.
Allowed == req.origin # "" /\ (cfg.wildcard \/ (cfg.listed /\ req.origin = "known"))

\* Mutant: the wildcard is answered as it is configured.
GrantWildcard(o) ==
    [o EXCEPT !.header.origin = IF cfg.wildcard THEN "*" ELSE req.origin,
              !.header.credentials = @ \/ cfg.credentials]

\* The response headers; the lists of methods and headers are left out.
Grant(o) ==
    [o EXCEPT !.header.origin = IF cfg.wildcard /\ ~cfg.credentials THEN "*" ELSE req.origin,
              !.header.credentials = @ \/ cfg.credentials]

CORS ==
    /\ Layer("cors")
    /\ IF Allowed /\ req.preflight
       THEN out' = WriteHeader(Grant(out), depth, 204) /\ ReturnOut /\ UNCHANGED ctx
       ELSE out' = (IF Allowed THEN Grant(out) ELSE out) /\ CallNext(ctx[depth])
    /\ UNCHANGED <<fixed, faults, quiet>>

\* RequireAuth: parse fails, gives no user, or gives an identity.
Identified == req.parsed /\ req.user # ""

\* Mutant: the return after the refusal is missing.
RequireAuthGoesOn ==
    /\ Layer("auth")
    /\ out' = IF Identified THEN out ELSE Respond(out, depth, "json", 401, "error")
    /\ CallNext([ctx[depth] EXCEPT !.user = req.user, !.roles = req.roles])
    /\ UNCHANGED <<fixed, faults, quiet>>

RequireAuth ==
    /\ Layer("auth")
    /\ IF Identified
       THEN /\ CallNext([ctx[depth] EXCEPT !.user = req.user, !.roles = req.roles])
            /\ UNCHANGED out
       ELSE /\ out' = Respond(out, depth, "json", 401, "error")
            /\ ReturnOut
            /\ UNCHANGED ctx
    /\ UNCHANGED <<fixed, faults, quiet>>

\* The application's parse or Generate function panics.
CallbackPanics ==
    /\ Layer("auth") \/ (Layer("requestID") /\ req.id = NoID)
    /\ Throw
    /\ UNCHANGED <<fixed, ctx, out, quiet>>

RequireRole ==
    /\ Layer("role")
    /\ IF Role \in ctx[depth].roles
       THEN CallNext(ctx[depth]) /\ UNCHANGED out
       ELSE /\ out' = Respond(out, depth, "json", 403, "error")
            /\ ReturnOut
            /\ UNCHANGED ctx
    /\ UNCHANGED <<fixed, faults, quiet>>

-----------------------------------------------------------------------------
(* The application handler, which uses the ResponseWriter and httpx as it  *)
(* likes, and the adapter httpx.Handler around it.                         *)

InHandler == pc = "handler"
Return(e) == pc' = "returned" /\ err' = e
Nil == [kind |-> "none", status |-> 0]
Other == [kind |-> "other", status |-> 0]
HTTPError(status) == [kind |-> "http", status |-> status]
NilHTTPError == [kind |-> "nil", status |-> 0]     \* a nil *Error in an error

\* w.WriteHeader(code)
AppWriteHeader ==
    /\ InHandler
    /\ writes < MaxWrites
    /\ writes' = writes + 1
    /\ \E code \in Statuses : out' = WriteHeader(out, depth, code)
    /\ UNCHANGED <<fixed, pc, depth, ctx, err, bound, broken, log, faults, aborted>>

\* w.Write(data)
AppWrite ==
    /\ InHandler
    /\ writes < MaxWrites
    /\ writes' = writes + 1
    /\ out' = Write(out, depth, "app")
    /\ UNCHANGED <<fixed, pc, depth, ctx, err, bound, broken, log, faults, aborted>>

\* Bind: the second call finds the body consumed and reports invalid JSON.
Bind ==
    /\ InHandler
    /\ bound' = TRUE
    /\ \/ Return(HTTPError(400))        \* malformed, or refused by Validate
       \/ ~bound /\ UNCHANGED <<pc, err>>
    /\ UNCHANGED <<fixed, depth, ctx, out, writes, broken, log, faults, aborted>>

\* return WriteJSON(w, status, value): nothing is written when Marshal fails.
WriteJSON ==
    /\ InHandler
    /\ \/ Return(Other) /\ UNCHANGED out
       \/ \E code \in {c \in Statuses : ~Informational(c)} :
             /\ out' = Respond(out, depth, "json", code, "app")
             /\ Return(IF WriteFails(out') THEN Other ELSE Nil)
    /\ UNCHANGED <<fixed, depth, ctx, bound, writes, broken, log, faults, aborted>>

\* return WriteNoContent(w)
WriteNoContent ==
    /\ InHandler
    /\ out' = WriteHeader(out, depth, 204)
    /\ Return(Nil)
    /\ UNCHANGED <<fixed, depth, ctx, bound, writes, broken, log, faults, aborted>>

\* The handler returns without writing more.
AppReturn ==
    /\ InHandler
    /\ \/ \E e \in {Nil, Other, NilHTTPError} : Return(e)
       \/ \E status \in ErrorStatuses : Return(HTTPError(status))
    /\ UNCHANGED <<fixed, depth, ctx, out, bound, writes, broken, log, faults, aborted>>

AppPanic ==
    /\ InHandler
    /\ Throw
    /\ UNCHANGED <<fixed, ctx, out, quiet>>

\* DefaultErrorWriter: what is not an *Error is answered as internal.
ErrorStatus(e) == IF e.kind = "http" THEN e.status ELSE 500

\* HandlerWithErrorWriter, once fn has returned.  A nil *Error is dereferenced,
\* and a status that cannot be sent panics in the ResponseWriter.
HandlerReturns ==
    /\ pc = "returned"
    /\ IF err.kind = "none"
       THEN ReturnOut /\ UNCHANGED <<out, faults>>
       ELSE IF err.kind = "nil"
       THEN Throw /\ UNCHANGED out
       ELSE /\ out' = Respond(out, depth, "json", ErrorStatus(err), "error")
            /\ IF Panics(out, depth, ErrorStatus(err))
               THEN Throw
               ELSE Fault(ErrorStatus(err), FALSE) /\ ReturnOut
    /\ UNCHANGED <<fixed, ctx, quiet>>

-----------------------------------------------------------------------------
(* The layers on the way out, and the server. *)

\* RequestLogger logs what its statusWriter noted and the ID of its request.
LogRequest ==
    /\ pc = "up"
    /\ depth > 0
    /\ chain[depth] = "logger"
    /\ log' = Append(log, [layer |-> depth, status |-> out.rec[depth].status,
                           id |-> ctx[depth].id])
    /\ ReturnOut
    /\ UNCHANGED <<fixed, ctx, out, err, bound, writes, broken, faults, aborted>>

\* cfg.Enrich panics before the line is logged.
EnrichPanics ==
    /\ pc = "up"
    /\ depth > 0
    /\ chain[depth] = "logger"
    /\ Throw
    /\ UNCHANGED <<fixed, ctx, out, quiet>>

\* The other layers do nothing once the next one has returned.
PassReturn ==
    /\ pc = "up"
    /\ depth > 0
    /\ chain[depth] # "logger"
    /\ ReturnOut
    /\ UNCHANGED <<fixed, ctx, out, faults, quiet>>

\* Mutant: the panic is caught and nothing is written.
RecoverSilently ==
    /\ pc = "panic"
    /\ depth > 0
    /\ chain[depth] = "recovery"
    /\ ReturnOut
    /\ UNCHANGED <<fixed, ctx, out, faults, quiet>>

\* Recovery's deferred function: WriteError is http.Error or the application's
\* call of DefaultErrorWriter, which cannot see an *Error through "%v".
Recover ==
    /\ pc = "panic"
    /\ depth > 0
    /\ chain[depth] = "recovery"
    /\ out' = Respond(out, depth, cfg.recovery, 500, "error")
    /\ ReturnOut
    /\ UNCHANGED <<fixed, ctx, faults, quiet>>

\* Mutant: the line is logged by a deferred function.
PassPanicLogged ==
    /\ pc = "panic"
    /\ depth > 0
    /\ chain[depth] # "recovery"
    /\ depth' = depth - 1
    /\ log' = IF chain[depth] # "logger" THEN log
              ELSE Append(log, [layer |-> depth, status |-> out.rec[depth].status,
                                id |-> ctx[depth].id])
    /\ UNCHANGED <<fixed, pc, ctx, out, err, bound, writes, broken, faults, aborted>>

\* No other layer has a deferred function.
PassPanic ==
    /\ pc = "panic"
    /\ depth > 0
    /\ chain[depth] # "recovery"
    /\ depth' = depth - 1
    /\ UNCHANGED <<fixed, pc, ctx, out, faults, quiet>>

\* net/http: a response without a status is a 200, a panic drops the connection.
ServerFinishes ==
    /\ pc \in {"up", "panic"}
    /\ depth = 0
    /\ out' = IF pc = "up" THEN ServerHeader(out, 200) ELSE out
    /\ aborted' = (pc = "panic")
    /\ pc' = "done"
    /\ UNCHANGED <<fixed, depth, ctx, err, bound, writes, broken, log, faults>>

\* The client goes away; the body writes of the handlers fail from now on.
Disconnect ==
    /\ pc \in {"handler", "returned"}
    /\ ~broken
    /\ broken' = TRUE
    /\ UNCHANGED <<fixed, pc, depth, ctx, out, err, bound, writes, log, faults, aborted>>

\* Nothing is left to do.
Terminated == pc = "done" /\ UNCHANGED vars

Next ==
    \/ EnterWrapper \/ RequestID \/ CORS \/ RequireAuth \/ CallbackPanics \/ RequireRole
    \/ AppWriteHeader \/ AppWrite \/ Bind \/ WriteJSON \/ WriteNoContent
    \/ AppReturn \/ AppPanic \/ HandlerReturns
    \/ LogRequest \/ EnrichPanics \/ PassReturn \/ Recover \/ PassPanic
    \/ ServerFinishes \/ Disconnect \/ Terminated

Spec == Init /\ [][Next]_vars

-----------------------------------------------------------------------------
(* Properties. *)

Context == [id : Int, user : {""} \cup {r.user : r \in Requests},
            roles : {{}} \cup {r.roles : r \in Requests}]
Header == [id : Int, origin : {"none", "*"} \cup {r.origin : r \in Requests},
           credentials : BOOLEAN, contentType : {"none", "json", "text"}]
Response == [rec : [DOMAIN chain -> [status : Int, wrote : BOOLEAN]], header : Header,
             committed : BOOLEAN, status : Int, sent : Header, body : Seq({"app", "error"})]

\* Every variable has a value of its kind: there is at most one context per layer,
\* a statusWriter that nobody has written to stands for net/http's default
\* status, and a status that was sent is one that can be (middleware.go, statusWriter).
TypeOK ==
    /\ chain \in Seq(Layers) /\ cfg \in Configs /\ req \in Requests
    /\ pc \in {"down", "handler", "returned", "up", "panic", "done"}
    /\ depth \in 0..Inner
    /\ ctx \in Seq(Context) /\ Len(ctx) \in 1..Inner
    /\ out \in Response
    /\ \A i \in DOMAIN chain : out.rec[i].wrote \/ out.rec[i].status = 200
    /\ out.committed => ~Informational(out.status) /\ ~Invalid(out.status)
    /\ err \in [kind : {"none", "other", "http", "nil"}, status : Int]
    /\ bound \in BOOLEAN /\ broken \in BOOLEAN /\ aborted \in BOOLEAN
    /\ writes \in 0..MaxWrites
    /\ log \in Seq([layer : DOMAIN chain, status : Int, id : Int])
    /\ faults \subseteq [at : 1..Inner, status : Int, panics : BOOLEAN, early : BOOLEAN]

Answered == pc = "done" /\ ~aborted
Lines == {log[k] : k \in DOMAIN log}

\* A recorder that took a code for the final status that net/http did not.
Misled(i) ==
    /\ out.rec[i].wrote
    /\ Informational(out.rec[i].status) \/ Invalid(out.rec[i].status)

\* An error that the handler returns, or a panic that Recovery catches, before
\* the response has started is what the client gets: the error's status (500 for
\* a panic and for what is not an *Error), a body of the error alone and the
\* content type of who wrote it, whatever loggers are in between (httpx.go,
\* DefaultErrorWriter; middleware.go, Recovery).  Only a statusWriter that took
\* an informational or an unsendable status for the final one spoils it, and an
\* *Error with an informational status, which net/http sends ahead of a 200.
FailuresReported ==
    Answered /\ (\A i \in At("logger", DOMAIN chain) : ~Misled(i)) =>
        \A f \in faults : f.early /\ ~Informational(f.status) =>
            /\ out.status = f.status
            /\ \A k \in DOMAIN out.body : out.body[k] = "error"
            /\ out.sent.contentType \in {"json", cfg.recovery}

\* The status in a line of RequestLogger is the one the client got, also when a
\* Recovery or a guard further in has answered, and when nobody has written a
\* status (middleware.go, RequestLogger and statusWriter).  Exempt are a misled
\* recorder and a line logged before a panic further out.
LoggedStatusSent ==
    Answered =>
        \A e \in Lines :
            ~Misled(e.layer) /\ (\A f \in faults : f.at >= e.layer) =>
                e.status = out.status

\* A panic unwinds to the nearest Recovery outside it and no further: it takes
\* the line of each RequestLogger that it passes and of no other, and it drops
\* the connection only when there is no Recovery (middleware.go, Recovery).
Passes(f, i) ==
    /\ f.panics
    /\ f.at >= i
    /\ \A j \in At("recovery", DOMAIN chain) : j <= i \/ j > f.at

PanicStops ==
    pc = "done" =>
        /\ aborted <=> \E f \in faults : Passes(f, 0)
        /\ \A i \in At("logger", DOMAIN chain) : i <= Len(ctx) =>
              Cardinality({k \in DOMAIN log : log[k].layer = i})
                 = IF \E f \in faults : Passes(f, i) THEN 0 ELSE 1

\* The outermost layer that refuses the request decides: nothing inside it runs
\* and its status is the answer.  RequireRole refuses unless a RequireAuth
\* outside it has put the role into the context, and a preflight of an allowed
\* origin ends at CORS (authx.go, RequireAuth and RequireRole; middleware.go, CORS).
Refuses(i) ==
    \/ chain[i] = "cors" /\ Allowed /\ req.preflight
    \/ chain[i] = "auth" /\ ~Identified
    \/ chain[i] = "role" /\ (At("auth", 1..i - 1) = {} \/ Role \notin req.roles)
Refusal(i) == [cors |-> 204, auth |-> 401, role |-> 403][chain[i]]

GuardsDecide ==
    LET refusing == {i \in DOMAIN chain : Refuses(i)}
    IN  /\ \A i \in refusing : Len(ctx) <= i
        /\ Answered /\ (\A f \in faults : ~f.early) =>
              \A i \in refusing :
                 (\A j \in refusing : i <= j) => Len(ctx) = i /\ out.status = Refusal(i)

\* The request ID is one and the same everywhere: the handler finds the ID in
\* its context that the client finds in the response, and so does a RequestLogger
\* that no later RequestID layer lies inside of (middleware.go, RequestID).
TraceAgrees ==
    Answered =>
        /\ Entered => ctx[Inner].id = out.sent.id
        /\ \A e \in Lines :
              LET ids == {i \in At("requestID", DOMAIN chain) : i <= Len(ctx)}
              IN  /\ (\E i \in ids : i < e.layer) => e.id # NoID
                  /\ (\A i \in ids : i < e.layer) => e.id = out.sent.id

\* The grant of a CORS layer that the request got to is in the response whoever
\* wrote it, an error or a panic included; no origin gets one otherwise, and the
\* wildcard is never granted together with credentials (middleware.go, CORS).
GrantSurvives ==
    Answered =>
        LET granted == Allowed /\ \E i \in At("cors", DOMAIN chain) : i <= Len(ctx)
        IN  /\ (out.sent.origin # "none") <=> granted
            /\ granted => out.sent.origin = req.origin
                          \/ (out.sent.origin = "*" /\ ~out.sent.credentials)

-----------------------------------------------------------------------------
=============================================================================
