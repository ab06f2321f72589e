--------------------------- MODULE MCHTTPPipeline ---------------------------
(***************************************************************************)
(* HTTPPipeline on every chain of up to three layers and on some of the    *)
(* orders of all of them, the README's among them.                         *)
(***************************************************************************)
EXTENDS HTTPPipeline

MCChains ==
    UNION {[1..n -> Layers] : n \in 0..3} \cup
    {<<"recovery", "requestID", "logger", "cors", "auth", "role">>,
     <<"logger", "recovery", "cors", "requestID", "auth", "role">>}

MCConfigs ==
    {[wildcard |-> FALSE, listed |-> TRUE, credentials |-> TRUE, recovery |-> "json"],
     [wildcard |-> TRUE, listed |-> FALSE, credentials |-> FALSE, recovery |-> "text"],
     [wildcard |-> TRUE, listed |-> TRUE, credentials |-> TRUE, recovery |-> "text"]}

Plain == [origin |-> "", preflight |-> FALSE, id |-> NoID,
          parsed |-> TRUE, user |-> "u", roles |-> {Role}]
MCRequests ==
    {Plain,
     [Plain EXCEPT !.id = ClientID, !.origin = "known"],
     [Plain EXCEPT !.origin = "known", !.preflight = TRUE],
     [Plain EXCEPT !.origin = "other", !.preflight = TRUE, !.roles = {}],
     [Plain EXCEPT !.origin = "other", !.user = "", !.roles = {}],
     [Plain EXCEPT !.origin = "known", !.parsed = FALSE, !.user = "", !.roles = {}]}

=============================================================================
