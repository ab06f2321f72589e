----------------------------- MODULE Validator -----------------------------
(***************************************************************************)
(* validx.Validator (validx/validx.go) shared by goroutines.  Struct holds *)
(* the mutex while it registers the fieldx.Field types that it finds,      *)
(* decides which fields to skip and runs the rules; a custom rule is a     *)
(* callback that may call Struct of a validator again.  What the validator *)
(* library does with a field is external.                                  *)
(*                                                                         *)
(* A value is the sequence of the fieldx fields in it that the tags let    *)
(* the library reach: the containers on the way from the struct that is    *)
(* validated to the field, its type, its state and its rule.  The path is  *)
(* empty for a field of that struct itself, <<"pointer">> for a *Field in  *)
(* it, and has "field" where the way leads into the value of another Field.*)
(***************************************************************************)
EXTENDS Naturals, Sequences, Relation

CONSTANTS
    Goroutines, Validators,
    UseChoices,  \* which validators the custom rules of which validator call
    CallsOf,     \* CallsOf[g]: the calls that goroutine g makes
    Nested,      \* the value that a custom rule validates
    Unlocked     \* nobody holds the mutex

VARIABLES
    uses,        \* the relation chosen from UseChoices
    owner,       \* who holds v.mu
    types,       \* fieldxFieldTypes, and so the types with a custom type function
    tagged,      \* the custom rule has been registered
    stack,       \* the calls that each goroutine is in, the innermost last
    answer       \* of the last call that each goroutine made from outside

validatorVars == <<uses, owner, types, tagged, stack, answer>>

Containers == {"struct", "pointer", "slice", "interface", "map", "field"}
Field == [path : Seq(Containers), type : STRING,
          state : {"unset", "null", "good", "bad"}, rule : {"min", "required", "custom"}]
Call == [op : {"struct", "register"}, on : Validators, value : Seq(Field)]

ASSUME CallAssumption ==
    /\ \A g \in Goroutines : \A a \in CallsOf[g] : a \in Call
    /\ Nested \in Seq(Field) /\ Unlocked \notin Goroutines
    /\ UseChoices \subseteq [Validators \X Validators -> BOOLEAN]

Frames == [op : {"struct", "register"}, on : Validators, value : Seq(Field),
           locked : BOOLEAN, skip : SUBSET Nat, at : Nat, bad : BOOLEAN]
Answer == [verdict : {"none", "ok", "invalid", "panic"}, value : Seq(Field)]

TypeOK ==
    /\ uses \in UseChoices
    /\ owner \in [Validators -> Goroutines \cup {Unlocked}]
    /\ types \in [Validators -> SUBSET STRING]
    /\ tagged \in [Validators -> BOOLEAN]
    /\ stack \in [Goroutines -> Seq(Frames)]
    /\ answer \in [Goroutines -> Answer]

NoAnswer == [verdict |-> "none", value |-> <<>>]

ValidatorInit ==
    /\ uses \in UseChoices
    /\ owner = [v \in Validators |-> Unlocked]
    /\ types = [v \in Validators |-> {}]
    /\ tagged = [v \in Validators |-> FALSE]
    /\ stack = [g \in Goroutines |-> <<>>]
    /\ answer = [g \in Goroutines |-> NoAnswer]

----------------------------------------------------------------------------
Top(g) == stack[g][Len(stack[g])]
Outer(g) == SubSeq(stack[g], 1, Len(stack[g]) - 1)
WithTop(g, frame) == [stack EXCEPT ![g] = Append(Outer(g), frame)]

Frame(a) == [op |-> a.op, on |-> a.on, value |-> a.value, locked |-> FALSE,
             skip |-> {}, at |-> 0, bad |-> FALSE]

\* prepareFieldxFields and prepareNestedFieldxFields go through structs, pointers,
\* slices and arrays, but not into interfaces, maps and the values of Fields, and
\* know a Field only as the member of a struct: not as the target of a pointer or as
\* the element of a slice.
Visited(f) ==
    /\ \A i \in DOMAIN f.path : f.path[i] \in {"struct", "pointer", "slice"}
    /\ f.path # <<>> => f.path[Len(f.path)] = "struct"

\* The library comes to a Field within a Field only by unwrapping the outer one.
Inside(f) == \E i \in DOMAIN f.path : f.path[i] = "field"

\* Mutant: an unset field is skipped whatever its rule.
SkippedAlways(f) == f.state = "unset"

\* fieldxIsSet and requiresPresence.
Skipped(f) == f.state = "unset" /\ f.rule # "required"

\* The library unwraps a Field whose type is registered: the inner value must
\* satisfy the rule, and a field without one fails every rule.  A Field that is
\* just a struct to the library is passed over, or its rule panics.
Outcomes(f, registered) ==
    IF f.type \notin registered THEN {"pass", "panic"}
    ELSE IF f.state = "good" THEN {"pass"} ELSE {"fail"}

----------------------------------------------------------------------------
CallFrom(g) ==
    /\ stack[g] = <<>>
    /\ \E a \in CallsOf[g] : stack' = [stack EXCEPT ![g] = <<Frame(a)>>]
    /\ answer' = [answer EXCEPT ![g] = NoAnswer]
    /\ UNCHANGED <<uses, owner, types, tagged>>

\* Struct: the lock, the registration of types and the set of fields to skip.
StructStarts(g) ==
    LET f == Top(g)
        found == {i \in DOMAIN f.value : Visited(f.value[i])} IN
    /\ stack[g] # <<>> /\ f.op = "struct" /\ ~f.locked
    /\ owner[f.on] = Unlocked
    /\ owner' = [owner EXCEPT ![f.on] = g]
    /\ types' = [types EXCEPT ![f.on] = @ \cup {f.value[i].type : i \in found}]
    /\ stack' = WithTop(g, [f EXCEPT !.locked = TRUE,
                                     !.skip = {i \in found : Skipped(f.value[i])}])
    /\ UNCHANGED <<uses, tagged, answer>>

Register(g) ==
    LET f == Top(g) IN
    /\ stack[g] # <<>> /\ f.op = "register"
    /\ owner[f.on] = Unlocked
    /\ tagged' = [tagged EXCEPT ![f.on] = TRUE]
    /\ stack' = [stack EXCEPT ![g] = <<>>]
    /\ answer' = [answer EXCEPT ![g] = [verdict |-> "ok", value |-> <<>>]]
    /\ UNCHANGED <<uses, owner, types>>

Validating(g) ==
    stack[g] # <<>> /\ Top(g).op = "struct" /\ Top(g).locked
Current(g) == Top(g).value[Top(g).at + 1]
Custom(g) == Current(g).rule = "custom" /\ Top(g).at + 1 \notin Top(g).skip

\* The next field of the struct; all failures are collected.
Onward(f, failed) == [f EXCEPT !.at = @ + 1, !.bad = @ \/ failed]

\* The filter leaves the field out, or the library does not come to it.
SkipField(g) ==
    /\ Validating(g) /\ Top(g).at < Len(Top(g).value)
    /\ Top(g).at + 1 \in Top(g).skip \/ Inside(Current(g))
    /\ stack' = WithTop(g, Onward(Top(g), FALSE))
    /\ UNCHANGED <<uses, owner, types, tagged, answer>>

CheckField(g) ==
    /\ Validating(g) /\ Top(g).at < Len(Top(g).value)
    /\ Top(g).at + 1 \notin Top(g).skip /\ ~Custom(g)
    /\ \E o \in Outcomes(Current(g), types[Top(g).on]) \ {"panic"} :
          stack' = WithTop(g, Onward(Top(g), o = "fail"))
    /\ UNCHANGED <<uses, owner, types, tagged, answer>>

\* A custom rule runs under the lock and may validate something itself.
RunCustom(g) ==
    LET f == Top(g) IN
    /\ Validating(g) /\ f.at < Len(f.value)
    /\ Custom(g) /\ tagged[f.on]
    /\ \/ stack' = WithTop(g, Onward(f, FALSE))
       \/ \E v \in Validators :
             /\ uses[f.on, v]
             /\ stack' = [stack EXCEPT ![g] = Append(@,
                            Frame([op |-> "struct", on |-> v, value |-> Nested]))]
    /\ UNCHANGED <<uses, owner, types, tagged, answer>>

\* Mutant: a panic leaves the mutex locked.
PanicsLocked(g) ==
    /\ Validating(g) /\ Top(g).at < Len(Top(g).value)
    /\ \/ Custom(g) /\ ~tagged[Top(g).on]
       \/ /\ Top(g).at + 1 \notin Top(g).skip /\ ~Custom(g)
          /\ "panic" \in Outcomes(Current(g), types[Top(g).on])
    /\ stack' = [stack EXCEPT ![g] = <<>>]
    /\ answer' = [answer EXCEPT ![g] = [verdict |-> "panic", value |-> stack[g][1].value]]
    /\ UNCHANGED <<uses, owner, types, tagged>>

\* A rule that nobody registered, or one that cannot handle its field, panics;
\* the deferred calls unlock every validator on the way out.
Panics(g) ==
    /\ Validating(g) /\ Top(g).at < Len(Top(g).value)
    /\ \/ Custom(g) /\ ~tagged[Top(g).on]
       \/ /\ Top(g).at + 1 \notin Top(g).skip /\ ~Custom(g)
          /\ "panic" \in Outcomes(Current(g), types[Top(g).on])
    /\ owner' = [v \in Validators |-> IF owner[v] = g THEN Unlocked ELSE owner[v]]
    /\ stack' = [stack EXCEPT ![g] = <<>>]
    /\ answer' = [answer EXCEPT ![g] = [verdict |-> "panic", value |-> stack[g][1].value]]
    /\ UNCHANGED <<uses, types, tagged>>

\* Struct returns, to a custom rule or to the caller.
StructReturns(g) ==
    LET f == Top(g) IN
    /\ Validating(g) /\ f.at = Len(f.value)
    /\ owner' = [owner EXCEPT ![f.on] = Unlocked]
    /\ IF Len(stack[g]) = 1
       THEN /\ stack' = [stack EXCEPT ![g] = <<>>]
            /\ answer' = [answer EXCEPT ![g] =
                  [verdict |-> IF f.bad THEN "invalid" ELSE "ok", value |-> f.value]]
       ELSE /\ stack' = [stack EXCEPT ![g] =
                  Append(SubSeq(@, 1, Len(@) - 2), Onward(@[Len(@) - 1], f.bad))]
            /\ UNCHANGED answer
    /\ UNCHANGED <<uses, types, tagged>>

Starts(g) == StructStarts(g) \/ Register(g)
Runs(g) == SkipField(g) \/ CheckField(g) \/ RunCustom(g) \/ Panics(g) \/ StructReturns(g)

ValidatorNext == \E g \in Goroutines : CallFrom(g) \/ Starts(g) \/ Runs(g)

\* sync.RWMutex hands the lock to a waiting writer in the end; callbacks return.
Fairness == \A g \in Goroutines : SF_validatorVars(Starts(g)) /\ WF_validatorVars(Runs(g))

ValidatorSpec == ValidatorInit /\ [][ValidatorNext]_validatorVars /\ Fairness

----------------------------------------------------------------------------
\* What Struct is documented to reject: null fields, set fields whose value breaks
\* the rule, and unset fields that must be present.
Rejects(f) == f.state # "good" /\ (f.state = "unset" => f.rule = "required")

\* Struct finds the field itself, and no custom rule is involved.
Decided(f) == Visited(f) /\ f.rule # "custom"
Rejected(value) == \E i \in DOMAIN value : Decided(value[i]) /\ Rejects(value[i])
Ordinary(value) == \A i \in DOMAIN value : Decided(value[i])

ByValue(a) ==
    /\ a.verdict = "ok" => ~Rejected(a.value)
    /\ a.verdict # "none" /\ Ordinary(a.value) =>
          a.verdict = IF Rejected(a.value) THEN "invalid" ELSE "ok"

\* A value with a field that Struct finds and must reject is never accepted, and the
\* verdict on a value of such fields only depends on the value alone, whatever was
\* validated and registered before and by whom (validx.go:50-68, 77-147).
VerdictByValue == \A g \in Goroutines : ByValue(answer[g])

\* The reason: a call under the lock finds its types known and the fields to skip
\* chosen, and has collected the failures of the fields behind it; a call that waits
\* for an inner one is at a custom rule.
Failing(f) == \E i \in 1 .. f.at : Decided(f.value[i]) /\ Rejects(f.value[i])
Collected(f, known) ==
    /\ f.at <= Len(f.value)
    /\ ~f.locked => f.at = 0 /\ ~f.bad
    /\ f.locked =>
          /\ f.skip = {i \in DOMAIN f.value : Visited(f.value[i]) /\ Skipped(f.value[i])}
          /\ \A i \in DOMAIN f.value : Visited(f.value[i]) => f.value[i].type \in known
    /\ Failing(f) => f.bad
    /\ Ordinary(f.value) /\ f.bad => Failing(f)
AtCustom(f) == f.at < Len(f.value) /\ f.locked /\ f.value[f.at + 1].rule = "custom"

CallsNest(calls, known) ==
    \A i \in DOMAIN calls :
       Collected(calls[i], known[calls[i].on]) /\ (i < Len(calls) => AtCustom(calls[i]))

VerdictInv ==
    TypeOK /\ VerdictByValue /\ \A g \in Goroutines : CallsNest(stack[g], types)

\* Every call returns, panics included, unless custom rules call validators in a
\* circle, a validator that calls itself included (validx.go:51-52).
CallsReturn ==
    \A g \in Goroutines :
       (stack[g] # <<>> /\ IsIrreflexive(TransitiveClosure(uses, Validators), Validators))
          ~> stack[g] = <<>>
============================================================================
