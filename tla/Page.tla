-------------------------------- MODULE Page --------------------------------
(***************************************************************************)
(* httpx/page.Parse (httpx/page/page.go).  A query parameter is a number,  *)
(* or one of Absent and NoInteger; the latter includes numbers that do not *)
(* fit an int.                                                             *)
(***************************************************************************)
EXTENDS Integers

CONSTANTS Absent, NoInteger

ASSUME ParameterAssumption == Absent \notin Int /\ NoInteger \notin Int /\ Absent # NoInteger

\* Zero and negative limits take the defaults.
DefaultLimit(cfg) == IF cfg.default <= 0 THEN 20 ELSE cfg.default
MaxLimit(cfg) == IF cfg.max <= 0 THEN 100 ELSE cfg.max

BadNumber(raw) == raw = NoInteger \/ (raw # Absent /\ raw < 0)
OrElse(raw, fallback) == IF raw = Absent THEN fallback ELSE raw

Failed(error) == [error |-> error, offset |-> 0, limit |-> 0]

\* Mutant: the default limit escapes the check against the maximum.
ParsePageDefaulted(cfg, offset, limit) ==
    IF BadNumber(offset) THEN Failed("offset")
    ELSE IF BadNumber(limit) THEN Failed("limit")
    ELSE IF limit # Absent /\ limit \notin 1 .. MaxLimit(cfg) THEN Failed("limit")
    ELSE [error |-> "none", offset |-> OrElse(offset, 0), limit |-> OrElse(limit, DefaultLimit(cfg))]

ParsePage(cfg, offset, limit) ==
    IF DefaultLimit(cfg) > MaxLimit(cfg) THEN Failed("config")
    ELSE IF BadNumber(offset) THEN Failed("offset")
    ELSE IF BadNumber(limit) THEN Failed("limit")
    ELSE IF OrElse(limit, DefaultLimit(cfg)) \notin 1 .. MaxLimit(cfg) THEN Failed("limit")
    ELSE [error |-> "none", offset |-> OrElse(offset, 0), limit |-> OrElse(limit, DefaultLimit(cfg))]

\* Whatever the query, a page never exceeds the maximum; a query without parameters
\* is served, unless the configuration contradicts itself after defaulting (a
\* MaxLimit below 20 alone does), and then no query is (page.go:42-86).
PageWithinLimits(cfg, result) ==
    LET plain == ParsePage(cfg, Absent, Absent) IN
    /\ result.error = "none" => result.limit \in 1 .. MaxLimit(cfg) /\ result.offset >= 0
    /\ plain.error = "none" <=> DefaultLimit(cfg) <= MaxLimit(cfg)
    /\ plain.error # "none" => result.error = "config"
=============================================================================
