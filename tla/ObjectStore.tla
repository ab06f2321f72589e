---------------------------- MODULE ObjectStore ----------------------------
(***************************************************************************)
(* What blobx.Store promises of object bodies (blobx/blob.go), whatever    *)
(* the provider: a map from keys to whole objects.  A Put or Delete takes  *)
(* effect at one instant of its call; it may also fail, before or after    *)
(* that instant, but it never succeeds without it.  A Get or Stat answers  *)
(* from objects that were stored at instants of the call.  An attempt that *)
(* is given up, by a failing call or for another attempt, may still arrive *)
(* (late is always empty in a provider that has nothing in flight).        *)
(* Nothing is promised here of content types.                              *)
(***************************************************************************)
CONSTANTS
    Callers,    \* goroutines that use the store
    Keys,       \* valid keys
    BadKey,     \* a key that NormalizeKey rejects
    Versions,   \* whole objects
    CallsOf,    \* the calls each caller makes
    Nothing,    \* no object
    NoCall      \* the caller is outside the store

VARIABLES
    objects,    \* the stored object of each key
    call,       \* the pending call of each caller
    applied,    \* whether the pending call has taken effect
    seen,       \* the objects under its key at the instants of the call
    late,       \* attempts given up that may still take effect
    answer      \* what the last call returned; none while pending

vars == <<objects, call, applied, seen, late, answer>>

Reply(kind, size, body) == [kind |-> kind, size |-> size, body |-> body]

Init ==
    /\ objects = [k \in Keys |-> Nothing]
    /\ call = [c \in Callers |-> NoCall]
    /\ applied = [c \in Callers |-> FALSE]
    /\ seen = [c \in Callers |-> {}]
    /\ late = {}
    /\ answer = [c \in Callers |-> Reply("none", Nothing, Nothing)]

Begin(c) ==
    /\ call[c] = NoCall
    /\ \E a \in CallsOf[c] : call' = [call EXCEPT ![c] = a]
    /\ answer' = [answer EXCEPT ![c] = Reply("none", Nothing, Nothing)]
    /\ UNCHANGED <<objects, applied, late>>

Return(c, r) ==
    /\ call[c] # NoCall
    /\ call' = [call EXCEPT ![c] = NoCall]
    /\ applied' = [applied EXCEPT ![c] = FALSE]
    /\ answer' = [answer EXCEPT ![c] = r]
    /\ UNCHANGED objects

\* The call is a Put (of a body) or a Delete (of Nothing) that is not refused.
Writes(c) ==
    /\ call[c] # NoCall
    /\ call[c].op \in {"put", "delete"}
    /\ call[c].key \in Keys
    /\ call[c].op = "put" => call[c].version # Nothing

Attempt(c) == [key |-> call[c].key, version |-> call[c].version]

\* An attempt of the call may be left behind.
LeftBehind(c) ==
    \/ UNCHANGED late
    \/ Writes(c) /\ late' = late \cup {Attempt(c)}

\* The instant of a Put or a Delete.
Apply(c) ==
    /\ Writes(c)
    /\ ~applied[c]
    /\ objects' = [objects EXCEPT ![call[c].key] = call[c].version]
    /\ applied' = [applied EXCEPT ![c] = TRUE]
    /\ UNCHANGED <<call, late, answer>>

\* Another attempt is made of which the instant is still to come.
TryAgain(c) ==
    /\ Writes(c)
    /\ LeftBehind(c)
    /\ applied' = [applied EXCEPT ![c] = FALSE]
    /\ UNCHANGED <<objects, call, answer>>

\* Equal attempts count as one, which may then arrive again.
Arrive ==
    \E w \in late :
       /\ objects' = [objects EXCEPT ![w.key] = w.version]
       /\ late' \in {late, late \ {w}}
       /\ UNCHANGED <<call, applied, answer>>

Succeed(c) ==
    /\ applied[c]
    /\ Return(c, Reply("ok", call[c].version, Nothing))
    /\ UNCHANGED late

Found(c) ==
    /\ \E size \in seen[c] \ {Nothing} :
          \/ /\ call[c].op = "stat"
             /\ Return(c, Reply("ok", size, Nothing))
          \/ /\ call[c].op = "get"
             /\ \E body \in seen[c] \ {Nothing} : Return(c, Reply("ok", size, body))
    /\ UNCHANGED late

\* The key was absent; for a Put, absent again.
NotFound(c) ==
    /\ call[c].op \in {"get", "stat"} \/ (call[c].op = "put" /\ applied[c])
    /\ Nothing \in seen[c]
    /\ Return(c, Reply("notfound", Nothing, Nothing))
    /\ UNCHANGED late

Fail(c) ==
    /\ \E kind \in {"error", "canceled"} : Return(c, Reply(kind, Nothing, Nothing))
    /\ LeftBehind(c)

Refuse(c) ==
    /\ \/ call[c].key = BadKey
       \/ call[c].op \in {"put", "presign"} /\ call[c].version = Nothing
    /\ Return(c, Reply("refused", Nothing, Nothing))
    /\ UNCHANGED late

\* The optional Presigner: a URL is made without a look at the objects.
Sign(c) ==
    /\ call[c].op = "presign"
    /\ Return(c, Reply("ok", Nothing, Nothing))
    /\ UNCHANGED late

\* The process dies; what was stored stays.
Crash ==
    /\ call' = [c \in Callers |-> NoCall]
    /\ applied' = [c \in Callers |-> FALSE]
    /\ answer' = [c \in Callers |-> Reply("none", Nothing, Nothing)]
    /\ UNCHANGED <<objects, late>>

Observe ==
    seen' = [c \in Callers |->
                IF call'[c] = NoCall \/ call'[c].key = BadKey THEN {}
                ELSE seen[c] \cup {objects'[call'[c].key]}]

CallStep(c) ==
    \/ Begin(c) \/ Apply(c) \/ TryAgain(c)
    \/ /\ call[c] # NoCall
       /\ Succeed(c) \/ Found(c) \/ NotFound(c) \/ Sign(c) \/ Fail(c) \/ Refuse(c)

Next == (Crash \/ Arrive \/ \E c \in Callers : CallStep(c)) /\ Observe

Spec == Init /\ [][Next]_vars
============================================================================
