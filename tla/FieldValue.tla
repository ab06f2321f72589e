----------------------------- MODULE FieldValue -----------------------------
(***************************************************************************)
(* fieldx.Field (fieldx/field.go) in a DTO that is used again and again:   *)
(* assigned, reset and decoded into, with documents that lack the field,   *)
(* are null, or fail to decode.  The inner type is a struct, so that old   *)
(* members could show through.  pgxutil's nullable converters              *)
(* (pgxutil/pgxutil.go) follow at the end.                                 *)
(***************************************************************************)
EXTENDS Naturals

CONSTANTS
    Members,   \* members of the inner struct
    Contents,  \* values of a member other than its zero value
    Zero,      \* the zero value of a member; in a document, an absent member
    Mismatch   \* in a document, a member of the wrong type

VARIABLES
    field,     \* value, set and null
    cause      \* history: what gave the field its present state

fieldVars == <<field, cause>>

ASSUME MemberAssumption == Zero \notin Contents /\ Mismatch \notin Contents \cup {Zero}

Inner == [Members -> Contents \cup {Zero}]
ZeroInner == [m \in Members |-> Zero]

Unset == [value |-> ZeroInner, set |-> FALSE, null |-> FALSE]
Value(v) == [value |-> v, set |-> TRUE, null |-> FALSE]
Null == [value |-> ZeroInner, set |-> TRUE, null |-> TRUE]

\* A JSON document; "syntax" is not even JSON.
NullDoc == [kind |-> "null", body |-> ZeroInner]
Docs == {NullDoc, [kind |-> "syntax", body |-> ZeroInner]}
        \cup [kind : {"object"}, body : [Members -> Contents \cup {Zero, Mismatch}]]

\* json.Unmarshal into v: members in the document replace those of v; one of the
\* wrong type is an error, but the others are stored all the same.
Unmarshal(doc, v) ==
    IF doc.kind = "syntax" THEN v
    ELSE [m \in Members |-> IF doc.body[m] \in Contents THEN doc.body[m] ELSE v[m]]

\* Mutant: the old value is decoded over.
UnmarshalJSONOver(f, doc) ==
    IF doc.kind = "null" THEN Null ELSE Value(Unmarshal(doc, f.value))

\* UnmarshalJSON resets the field, and marks it as set before it decodes.
UnmarshalJSON(f, doc) ==
    IF doc.kind = "null" THEN Null ELSE Value(Unmarshal(doc, ZeroInner))

\* A set value or null; an unset field becomes null too.
MarshalJSON(f) ==
    IF ~f.set \/ f.null THEN NullDoc ELSE [kind |-> "object", body |-> f.value]

FieldInit == field = Unset /\ cause = [op |-> "unset", doc |-> NullDoc]

Decode ==
    \E doc \in Docs :
       /\ field' = UnmarshalJSON(field, doc)
       /\ cause' = [op |-> "decode", doc |-> doc]

Assign ==
    /\ \/ \E v \in Inner : field' = Value(v)
       \/ field' = Null
    /\ cause' = [op |-> "assign", doc |-> NullDoc]

Reset ==
    /\ field' = Unset
    /\ cause' = [op |-> "unset", doc |-> NullDoc]

\* The field holds what its last document says and nothing of what it held before,
\* also when the decoding failed after the field was marked as set, and a set field
\* survives an encoding and decoding (field.go:73-101).
FieldIsItsDocument ==
    /\ cause.op = "decode" =>
          /\ field.set /\ (field.null <=> cause.doc.kind = "null")
          /\ \A m \in Members :
                field.value[m] = IF cause.doc.body[m] \in Contents THEN cause.doc.body[m] ELSE Zero
    /\ field.set => UnmarshalJSON(Unset, MarshalJSON(field)) = field

----------------------------------------------------------------------------
\* pgxutil: a nullable column of any of the types as a pointer and as a pgtype
\* value.  inf is the InfinityModifier that pgtype.Date and Timestamptz carry.
NilPointer == [valid |-> FALSE, value |-> Zero]
Pointers == {NilPointer} \cup [valid : {TRUE}, value : Contents \cup {Zero}]
Columns == [valid : BOOLEAN, value : Contents \cup {Zero}, inf : BOOLEAN]

\* Text, Int4, Int8, Bool, Timestamptz, Date and UUID.
ToColumn(p) == [valid |-> p.valid, value |-> p.value, inf |-> FALSE]

\* TextPtr and the others.
ToPointer(c) == IF c.valid THEN [valid |-> TRUE, value |-> c.value] ELSE NilPointer

\* A pointer survives the way to the database and back, nil and zero values kept
\* apart, and so does a column as the database sees it, unless it is an infinite
\* date (pgxutil.go:59-169).
NullsSurvive(p, c) ==
    /\ ToPointer(ToColumn(p)) = p
    /\ ~c.inf => ToColumn(ToPointer(c)) = [c EXCEPT !.value = IF c.valid THEN @ ELSE Zero]
=============================================================================
