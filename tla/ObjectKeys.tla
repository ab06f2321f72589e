----------------------------- MODULE ObjectKeys -----------------------------
(***************************************************************************)
(* blobx.NormalizeKey (blobx/blob.go).  A key is the sequence of its       *)
(* segments between slashes: "" is << "" >>, "/a" begins and "a/" ends     *)
(* with an empty segment.  A segment is "", ".", "..", a name, or Foreign: *)
(* one with a NUL or a backslash.                                          *)
(***************************************************************************)
EXTENDS Naturals, Sequences, SequencesExt

CONSTANTS Names, Foreign

ASSUME NameAssumption ==
    Names \cap {Foreign, "", ".", ".."} = {} /\ Foreign \notin {"", ".", ".."}

Segments == Names \cup {Foreign, "", ".", ".."}

\* path.Clean of a relative path, segment by segment; the empty path is ".".
CleanNext(done, s) ==
    IF s \in {"", "."} THEN done
    ELSE IF s = ".." /\ done # <<>> /\ Last(done) # ".." THEN Front(done)
    ELSE Append(done, s)

CleanPrefixes(key) ==
    LET done[n \in 0 .. Len(key)] == IF n = 0 THEN <<>> ELSE CleanNext(done[n - 1], key[n])
    IN  done

Clean(key) ==
    LET cleaned == CleanPrefixes(key)[Len(key)]
    IN  IF cleaned = <<>> THEN <<".">> ELSE cleaned

\* Mutant: the check of path.Clean is thought to cover "..".
AcceptsDotDot(key) ==
    /\ \A i \in DOMAIN key : key[i] \notin {Foreign, "", "."}
    /\ Clean(key) = key

\* NormalizeKey returns the key as it is, or an error.
Accepts(key) ==
    /\ key # <<"">>
    /\ \A i \in DOMAIN key : key[i] # Foreign
    /\ Head(key) # "" /\ Last(key) # ""
    /\ \A i \in DOMAIN key : key[i] \notin {"", ".", ".."}
    /\ Clean(key) # <<".">> /\ Clean(key) = key

\* An accepted key is a path below any directory it is joined to, and equal to no
\* other accepted key as a path; exactly the keys made of names are accepted, so
\* that the check of path.Clean never decides (blob.go:50-74).
KeyStaysInside(root, key) ==
    /\ Accepts(key) <=> \A i \in DOMAIN key : key[i] \in Names
    /\ Accepts(key) => Clean(root \o key) = root \o key
=============================================================================
