------------------------------ MODULE Argon2id ------------------------------
(***************************************************************************)
(* authx.Argon2idHasher (authx/argon2id.go): options and their defaults,   *)
(* the PHC string and its parser.  A string is the record of its parts,    *)
(* each a number, or Junk where the text is no number.  The key is what it *)
(* was derived from: argon2.IDKey is external.  Word and Octet are the     *)
(* numbers of values of uint32 and uint8.                                  *)
(***************************************************************************)
EXTENDS Integers

CONSTANTS Word, Octet, Junk

ASSUME WidthAssumption == Word \in Nat /\ Word > 256 * 1024 /\ Octet = 256 /\ Junk \notin Int

Version == 19
Options == [m : Nat, t : Nat, p : Nat, salt : Nat, key : Nat]

\* argon2idDefaults: zero fields take the defaults.
Default == [m |-> 64 * 1024, t |-> 3, p |-> 2, salt |-> 16, key |-> 32]
WithDefaults(o) == [f \in DOMAIN o |-> IF o[f] = 0 THEN Default[f] ELSE o[f]]

\* validateArgon2idOptions
Allowed(o) ==
    /\ o.m >= 8 * o.p /\ o.m <= 256 * 1024
    /\ o.t \in 1 .. 10 /\ o.p \in 1 .. 16
    /\ o.salt \in 8 .. 64 /\ o.key \in 16 .. 64

IDKey(password, salt, o) == [password |-> password, salt |-> salt, m |-> o.m, t |-> o.t, p |-> o.p]

\* Hash: o are the options of a hasher, and salt the random bytes.
Hash(o, password, salt) ==
    [form |-> "phc", v |-> Version, m |-> o.m, t |-> o.t, p |-> o.p,
     salt |-> [bytes |-> salt, len |-> o.salt],
     key |-> [of |-> IDKey(password, salt, o), len |-> o.key]]

\* Mutant: the parameters are converted without a look at their size.
ParsedWrapped(h) ==
    [m |-> h.m % Word, t |-> h.t % Word, p |-> h.p % Octet, salt |-> h.salt.len, key |-> h.key.len]

\* The options in a string whose parameters are numbers.
Parsed(h) == [m |-> h.m, t |-> h.t, p |-> h.p, salt |-> h.salt.len, key |-> h.key.len]

\* Mutant: as ParsedWrapped, without the check for overflow.
ParsesWrapped(h) ==
    /\ h.form = "phc" /\ h.v = Version
    /\ h.m # Junk /\ h.t # Junk /\ h.p # Junk
    /\ h.salt.len # Junk /\ h.key.len # Junk
    /\ Allowed(ParsedWrapped(h))

\* parseArgon2idHash, parseArgon2idParameters and parsePHCValue accept the string.
Parses(h) ==
    /\ h.form = "phc" /\ h.v = Version
    /\ h.m # Junk /\ h.t # Junk /\ h.p # Junk
    /\ h.m < Word /\ h.t < Word /\ h.p < Octet
    /\ h.salt.len # Junk /\ h.key.len # Junk
    /\ Allowed(Parsed(h))

\* Verify derives the key anew, with the parameters of the string as they are
\* after their conversion to uint32 and uint8.
Verify(password, h) ==
    IF ~Parses(h) THEN "error"
    ELSE LET o == [m |-> h.m % Word, t |-> h.t % Word, p |-> h.p % Octet] IN
         IF IDKey(password, h.salt.bytes, o) = h.key.of THEN "match" ELSE "mismatch"

----------------------------------------------------------------------------
\* What a hasher with these options produces verifies with its password and is an
\* ordinary mismatch for another one: what NewArgon2idHasher allows, Verify must
\* not refuse.
HashVerifies(o, password, other, salt) ==
    Allowed(WithDefaults(o)) =>
       LET h == Hash(WithDefaults(o), password, salt) IN
       Verify(password, h) = "match" /\ Verify(other, h) = "mismatch"

\* A string is either refused or verified with the parameters written in it, none
\* of them wrapped around, and within the limits on work and memory.
VerifiedAsWritten(h, verdict) ==
    verdict # "error" =>
       /\ h.m <= 256 * 1024 /\ h.t <= 10 /\ h.p <= 16
       /\ h.salt.len <= 64 /\ h.key.len <= 64
=============================================================================
