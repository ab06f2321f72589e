------------------------------ MODULE Helpers ------------------------------
(***************************************************************************)
(* The small packages together: a program that calls the pure functions    *)
(* with arguments from given sets, or uses one Field, or one Recorder and  *)
(* one TemplateRenderer.  They share nothing, so a behaviour is about one  *)
(* of the three subjects.                                                  *)
(***************************************************************************)
EXTENDS RetryDelay, Argon2id, ObjectKeys, Page, FieldValue, MailRecorder

CONSTANTS
    DelayConfigs, Attempts, Samples,   \* the arguments of Delay
    OptionSets, HashStrings,           \* options of hashers, strings to verify
    KeyLists,                          \* the keys for NormalizeKey
    PageConfigs, Numbers               \* limits, and query parameters

ASSUME ArgumentAssumption ==
    /\ OptionSets \subseteq Options
    /\ KeyLists \subseteq Seq(Segments) \ {<<>>}
    /\ PageConfigs \subseteq [default : Int, max : Int]
    /\ Numbers \subseteq Int \cup {Absent, NoInteger}

VARIABLES subject, job

vars == <<subject, job, fieldVars, mailVars>>

Idle == [helper |-> "none"]

Init ==
    /\ subject \in {"call", "field", "mail"}
    /\ job = Idle
    /\ FieldInit
    /\ MailInit
    /\ subject # "mail" => \A m \in held : Cells(m) = DOMAIN heap

Ready == subject = "call" /\ job = Idle

Return(call) ==
    /\ job' = call
    /\ UNCHANGED <<subject, fieldVars, mailVars>>

CallDelay ==
    Ready /\ \E cfg \in DelayConfigs, n \in Attempts, r \in Samples :
       Return([helper |-> "delay", cfg |-> cfg, attempt |-> n, sample |-> r,
               result |-> Delay(cfg, n, r)])

CallHash == Ready /\ \E o \in OptionSets : Return([helper |-> "hash", options |-> o])

CallVerify ==
    Ready /\ \E h \in HashStrings : Return([helper |-> "verify", hash |-> h, result |-> Verify("pw", h)])

CallNormalizeKey == Ready /\ \E k \in KeyLists : Return([helper |-> "key", key |-> k])

CallParse ==
    Ready /\ \E cfg \in PageConfigs, offset, limit \in Numbers :
       Return([helper |-> "page", cfg |-> cfg, result |-> ParsePage(cfg, offset, limit)])

CallConverters ==
    Ready /\ \E p \in Pointers, c \in Columns : Return([helper |-> "null", pointer |-> p, column |-> c])

NextCall ==
    /\ job # Idle /\ job' = Idle
    /\ UNCHANGED <<subject, fieldVars, mailVars>>

Only(what) == subject = what /\ UNCHANGED <<subject, job>>

Next ==
    \/ CallDelay \/ CallHash \/ CallVerify \/ CallNormalizeKey \/ CallParse
    \/ CallConverters \/ NextCall
    \/ Only("field") /\ Decode /\ UNCHANGED mailVars
    \/ Only("field") /\ Assign /\ UNCHANGED mailVars
    \/ Only("field") /\ Reset /\ UNCHANGED mailVars
    \/ Only("mail") /\ RecorderSend /\ UNCHANGED fieldVars
    \/ Only("mail") /\ RecorderMessages /\ UNCHANGED fieldVars
    \/ Only("mail") /\ RecorderSetError /\ UNCHANGED fieldVars
    \/ Only("mail") /\ RecorderReset /\ UNCHANGED fieldVars
    \/ Only("mail") /\ CompileTemplate /\ UNCHANGED fieldVars
    \/ Only("mail") /\ Render /\ UNCHANGED fieldVars
    \/ Only("mail") /\ CallerWrites /\ UNCHANGED fieldVars

Spec == Init /\ [][Next]_vars

----------------------------------------------------------------------------
\* retryx.Delay returns base * factor^attempt within the jitter, never negative and
\* never above MaxDelay, up to the rounding of floats; NaN and 2^63 are the only
\* floats that slip through its comparisons (retryx.go:37-54).
DelaysAsDocumented ==
    job.helper = "delay" => DelayAsDocumented(job.cfg, job.attempt, job.sample, job.result)

\* authx.Argon2idHasher: whatever options NewArgon2idHasher accepts, the hash of a
\* password verifies with it and mismatches another; a foreign string is verified
\* only with the parameters written in it, within the limits (argon2id.go:44-222).
HashesVerify ==
    /\ job.helper = "hash" => HashVerifies(job.options, "pw", "other", "salt")
    /\ job.helper = "verify" => VerifiedAsWritten(job.hash, job.result)

\* blobx.NormalizeKey: an accepted key is a path inside the store, the same path as
\* no other accepted key (blob.go:50-74).
KeysStayInside == job.helper = "key" => KeyStaysInside(<<"root">>, job.key)

\* httpx/page.Parse: no page above the maximum, and an incoherent configuration
\* refuses every query alike (page.go:42-86).
PagesWithinLimits == job.helper = "page" => PageWithinLimits(job.cfg, job.result)

\* What a Field or a nullable column holds is what its document or pointer said,
\* null, unset and zero kept apart: a Field is its last document, also after a failed
\* decoding, and pgxutil's converters lose nothing either way (field.go:73-101,
\* pgxutil.go:59-169).
NullsKeptApart ==
    /\ FieldIsItsDocument
    /\ job.helper = "null" => NullsSurvive(job.pointer, job.column)
============================================================================
