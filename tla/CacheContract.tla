--------------------------- MODULE CacheContract ---------------------------
(***************************************************************************)
(* What cachex.Cache promises its callers (cachex/cache.go), whatever the  *)
(* implementation: a map whose entries vanish at their deadline, used by   *)
(* concurrent callers.  A call is answered from what the map showed at an  *)
(* instant of the call (seen).  The map is the view: it never holds an     *)
(* entry whose deadline has passed, so a lazy cache implements it only if  *)
(* its late clean-up is invisible.                                         *)
(***************************************************************************)
EXTENDS Integers

CONSTANTS
    Callers,   \* goroutines that use the cache
    Keys,      \* key strings, the empty one included
    EmptyKey,  \* the key ""
    Values,    \* byte slices
    TTLs,      \* the time.Duration arguments of Set
    Nothing,   \* no entry
    NoCall     \* the caller is outside the cache

VARIABLES
    view,      \* the live entry of each key, or Nothing
    now,       \* the clock
    call,      \* the pending call of each caller
    since,     \* when the pending call began, 0 outside a call
    seen,      \* every view of its key that the pending call overlapped
    answer     \* what the last call of each caller returned; none while pending

vars == <<view, now, call, since, seen, answer>>

Entry == [value : Values, expiresAt : Nat]
Call == [op : {"get", "set", "delete"}, key : Keys,
         value : Values \cup {Nothing}, ttl : TTLs \cup {0}]

\* The calls a program can make.
GetCall(k) == [op |-> "get", key |-> k, value |-> Nothing, ttl |-> 0]
SetCall(k, v, d) == [op |-> "set", key |-> k, value |-> v, ttl |-> d]
DeleteCall(k) == [op |-> "delete", key |-> k, value |-> Nothing, ttl |-> 0]
Calls == {GetCall(k) : k \in Keys}
         \cup {SetCall(k, v, d) : k \in Keys, v \in Values, d \in TTLs}
         \cup {DeleteCall(k) : k \in Keys}

Answer == [kind : {"none", "hit", "miss", "ok", "canceled", "badkey"},
           value : Values \cup {Nothing}]
Plain(kind) == [kind |-> kind, value |-> Nothing]
Hit(v) == [kind |-> "hit", value |-> v]

\* Deadline 0 is Go's zero time: the entry does not expire.
Expired(e, t) == e.expiresAt # 0 /\ t >= e.expiresAt

\* What an observer at time t sees of a stored entry.
Visible(e, t) == IF e = Nothing THEN Nothing
                 ELSE IF Expired(e, t) THEN Nothing ELSE e

Init ==
    /\ view = [k \in Keys |-> Nothing]
    /\ now = 1
    /\ call = [c \in Callers |-> NoCall]
    /\ since = [c \in Callers |-> 0]
    /\ seen = [c \in Callers |-> {}]
    /\ answer = [c \in Callers |-> Plain("none")]

Begin(c) ==
    /\ call[c] = NoCall
    /\ \E a \in Calls : call' = [call EXCEPT ![c] = a]
    /\ since' = [since EXCEPT ![c] = now]
    /\ answer' = [answer EXCEPT ![c] = Plain("none")]
    /\ UNCHANGED <<view, now>>

Return(c, r) ==
    /\ call[c] # NoCall
    /\ call' = [call EXCEPT ![c] = NoCall]
    /\ answer' = [answer EXCEPT ![c] = r]
    /\ since' = [since EXCEPT ![c] = 0]
    /\ UNCHANGED now

\* A hit is a value that was cached during the call and whose deadline has
\* not passed when it is handed out.
AnswerHit(c) ==
    /\ call[c].op = "get"
    /\ \E e \in seen[c] :
          /\ e # Nothing
          /\ ~Expired(e, now)
          /\ Return(c, Hit(e.value))
    /\ UNCHANGED view

\* A miss: the key was absent at some instant of the call, or an entry seen
\* during the call has expired by now.
AnswerMiss(c) ==
    /\ call[c].op = "get"
    /\ \E e \in seen[c] : e = Nothing \/ Expired(e, now)
    /\ Return(c, Plain("miss"))
    /\ UNCHANGED view

\* The deadlines a Set may give its entry: the clock was read during the call.
Deadlines(c) ==
    IF call[c].ttl = 0 THEN {0}
    ELSE (since[c] + call[c].ttl) .. (now + call[c].ttl)

Store(c) ==
    /\ call[c].op = "set"
    /\ call[c].ttl >= 0
    /\ call[c].key # EmptyKey
    /\ \E d \in Deadlines(c) :
          view' = [view EXCEPT ![call[c].key] =
                     Visible([value |-> call[c].value, expiresAt |-> d], now)]
    /\ Return(c, Plain("ok"))

Remove(c) ==
    /\ \/ call[c].op = "delete"
       \/ call[c].op = "set" /\ call[c].ttl < 0
    /\ call[c].key # EmptyKey
    /\ view' = [view EXCEPT ![call[c].key] = Nothing]
    /\ Return(c, Plain("ok"))

Refuse(c) ==
    /\ call[c].op \in {"set", "delete"}
    /\ call[c].key = EmptyKey
    /\ Return(c, Plain("badkey"))
    /\ UNCHANGED view

Cancel(c) ==
    /\ Return(c, Plain("canceled"))
    /\ UNCHANGED view

Tick ==
    /\ now' = now + 1
    /\ view' = [k \in Keys |-> Visible(view[k], now')]
    /\ UNCHANGED <<call, since, answer>>

\* Every pending call observes the view that each step leaves behind.
Observe ==
    seen' = [c \in Callers |->
                IF call'[c] = NoCall THEN {}
                ELSE seen[c] \cup {view'[call'[c].key]}]

CallStep(c) ==
    \/ Begin(c)
    \/ /\ call[c] # NoCall
       /\ \/ AnswerHit(c) \/ AnswerMiss(c) \/ Store(c) \/ Remove(c)
          \/ Refuse(c) \/ Cancel(c)

Next == (Tick \/ \E c \in Callers : CallStep(c)) /\ Observe

Spec == Init /\ [][Next]_vars
=============================================================================
