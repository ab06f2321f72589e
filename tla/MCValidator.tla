---------------------------- MODULE MCValidator ----------------------------
(* validx.Validator for TLC: two goroutines, two validators whose custom rules
   call nobody, each other or themselves. *)
EXTENDS Validator

CONSTANTS g1, g2, v, w

Uses(pairs) == [p \in Validators \X Validators |-> p \in pairs]
MCUses == {Uses({}), Uses({<<v, w>>}), Uses({<<v, v>>}), Uses({<<v, w>>, <<w, v>>})}

F(path, type, state, rule) == [path |-> path, type |-> type, state |-> state, rule |-> rule]
Values ==
    {<<F(<<>>, "Field[int]", s, r)>> : s \in {"unset", "bad"}, r \in {"min", "required"}}
    \cup {<<F(<<"slice", "pointer", "struct">>, "Field[text]", "good", "required"),
            F(path, "Field[int]", "unset", "min")>> :
             path \in {<<"pointer">>, <<"slice">>, <<"interface", "struct">>, <<"field", "struct">>}}
    \cup {<<F(<<"pointer">>, "Field[int]", "bad", "min"),
            F(<<"struct">>, "Field[text]", "null", "required")>>}

MCNested == <<F(<<>>, "Field[int]", "good", "custom")>>
MCCalls == [g \in {g1, g2} |->
    {[op |-> "struct", on |-> v, value |-> x] : x \in Values \cup {MCNested}}
    \cup {[op |-> "struct", on |-> w, value |-> MCNested]}
    \cup [op : {"register"}, on : Validators, value : {<<>>}]]
============================================================================
