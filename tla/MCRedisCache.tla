---------------------------- MODULE MCRedisCache ----------------------------
(* cachex.RedisCache for TLC: the prefixes "a" and "ab" make two keys meet on
   the path "abc", a third cache has a prefix of its own. *)
EXTENDS RedisCache, TLC

CONSTANTS c1, c2, x, y, z

MCPrefix == x :> <<"a">> @@ y :> <<"a", "b">> @@ z :> <<"d">>

Of(op, cache, key, type, ttl) ==
    [op |-> op, cache |-> cache, key |-> key, type |-> type, ttl |-> ttl]
Short == <<"c">>
Long == <<"b", "c">>

MCCalls ==
    c1 :> {Of("setjson", x, Long, "int", 3), Of("setjson", x, Long, Opaque, 0),
           Of("get", x, <<>>, "int", 0)} @@
    c2 :> {Of("getjson", x, Long, "int", 0), Of("set", x, Long, "text", 0),
           Of("set", y, Short, "text", 1), Of("set", y, Short, "text", -1),
           Of("delete", z, Long, "text", 0)}
=============================================================================
