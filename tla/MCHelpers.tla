----------------------------- MODULE MCHelpers -----------------------------
(* The small packages for TLC, with arguments around every limit. *)
EXTENDS Helpers

MCDelayConfigs ==
    [base : {-1, 0, 1, 100, 511}, factor : {<<0, 1>>, <<1, 2>>, <<1, 1>>, <<2, 1>>, <<3, 1>>},
     max : {-1, 0, 7, 300, 511}, jitter : {-1, 0, 1, 4, 5}]
MCAttempts == {-1, 0, 1, 2, 3, 6, 9}
MCSamples == {-1, 0, 2, 4, 5}

Off == [m |-> 0, t |-> 0, p |-> 0, salt |-> 0, key |-> 0]
MCOptions ==
    [m : {0, 7, 8, 127, 128, 262144, 262145}, t : {0, 1, 10, 11}, p : {0, 1, 16, 17},
     salt : {0, 7, 8, 64, 65}, key : {0, 15, 16, 64, 65}]

Good == Hash(WithDefaults(Off), "pw", "salt")
MCHashes ==
    {[Good EXCEPT !.form = f, !.v = v] : f \in {"phc", "bcrypt"}, v \in {18, 19, Junk}}
    \cup {[Good EXCEPT !.m = m, !.t = t, !.p = p] :
            m \in {15, 16, 65536, 262145, Word + 16, Junk}, t \in {0, 3, 11, Word + 3, Junk},
            p \in {0, 2, 17, 258, Junk}}
    \cup {[Good EXCEPT !.salt.len = s, !.key.len = k] : s \in {7, 16, 65, Junk}, k \in {15, 32, 65, Junk}}

MCKeys == UNION {[1 .. n -> Segments] : n \in 1 .. 4}
MCPageConfigs == [default : {-1, 0, 1, 20, 50, 101}, max : {-1, 0, 1, 19, 20, 100}]
MCNumbers == {Absent, NoInteger, -1, 0, 1, 19, 20, 21, 100, 101}
============================================================================
