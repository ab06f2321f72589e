--------------------------- MODULE HelpersProofs ---------------------------
(***************************************************************************)
(* Proofs about the small packages.  Page.Parse, NormalizeKey, the hasher  *)
(* and the nullable converters are functions: their properties hold for    *)
(* each argument.  Field, the keepers of messages and the validator have   *)
(* state, and an inductive invariant each.                                 *)
(***************************************************************************)
EXTENDS Helpers, Validator, FiniteSetTheorems, SequenceTheorems, TLAPS

----------------------------------------------------------------------------
\* The pure functions.

\* A query is answered by an error or by a page within the limits, and a query
\* without parameters is refused only by a configuration that refuses all of them.
LEMMA PagesStayWithinLimits ==
    ASSUME NEW cfg \in [default : Int, max : Int],
           NEW offset \in Int \cup {Absent, NoInteger}, NEW limit \in Int \cup {Absent, NoInteger}
    PROVE  PageWithinLimits(cfg, ParsePage(cfg, offset, limit))
  BY ParameterAssumption DEF PageWithinLimits, ParsePage, DefaultLimit, MaxLimit, BadNumber, OrElse, Failed

\* A number below the number of values of its type is not changed by a conversion.
LEMMA ConversionKeeps ==
    ASSUME NEW n \in Nat, NEW w \in Nat, n < w
    PROVE  n % w = n
  OBVIOUS

\* Options that a hasher accepts are accepted again when they are read from its hash.
LEMMA HashParses ==
    ASSUME NEW o \in Options, Allowed(o), NEW password, NEW salt
    PROVE  Parses(Hash(o, password, salt))
  BY WidthAssumption DEF Options, Allowed, Parses, Parsed, Hash, Version

\* Defaults are options.
LEMMA DefaultsAreOptions ==
    ASSUME NEW o \in Options
    PROVE  WithDefaults(o) \in Options
  BY DEF Options, WithDefaults, Default

\* The key is derived anew from exactly what it was derived from.
LEMMA HashIsVerified ==
    ASSUME NEW o \in Options, NEW password, NEW other, NEW salt, password # other
    PROVE  HashVerifies(o, password, other, salt)
  <1> DEFINE d == WithDefaults(o)
             h == Hash(d, password, salt)
  <1> SUFFICES ASSUME Allowed(d)
               PROVE  Verify(password, h) = "match" /\ Verify(other, h) = "mismatch"
    BY DEF HashVerifies
  <1>1. d \in Options
    BY DefaultsAreOptions
  <1>2. Parses(h)
    BY <1>1, HashParses
  <1>3. h.m % Word = d.m /\ h.t % Word = d.t /\ h.p % Octet = d.p
    BY <1>1, ConversionKeeps, WidthAssumption DEF Options, Allowed, Hash
  <1>4. /\ IDKey(password, h.salt.bytes, [m |-> h.m % Word, t |-> h.t % Word, p |-> h.p % Octet]) = h.key.of
        /\ IDKey(other, h.salt.bytes, [m |-> h.m % Word, t |-> h.t % Word, p |-> h.p % Octet]) # h.key.of
    BY <1>3 DEF Hash, IDKey
  <1> QED
    BY <1>2, <1>4 DEF Verify

\* Nothing is verified with parameters beyond the limits, or wrapped around.
LEMMA StringIsVerified ==
    ASSUME NEW h, NEW password
    PROVE  VerifiedAsWritten(h, Verify(password, h))
  BY DEF VerifiedAsWritten, Verify, Parses, Parsed, Allowed

\* The converters lose nothing but infinity.
LEMMA ConvertersKeep ==
    ASSUME NEW p \in Pointers, NEW c \in Columns
    PROVE  NullsSurvive(p, c)
  <1>1. ToPointer(ToColumn(p)) = p
    <2>1. CASE p = NilPointer
      BY <2>1 DEF NilPointer, ToPointer, ToColumn
    <2>2. CASE p \in [valid : {TRUE}, value : Contents \cup {Zero}]
      <3>1. PICK v \in Contents \cup {Zero} : p = [valid |-> TRUE, value |-> v]
        BY <2>2
      <3> QED
        BY <3>1 DEF ToPointer, ToColumn
    <2> QED
      BY <2>1, <2>2 DEF Pointers
  <1>2. ASSUME ~c.inf
        PROVE  ToColumn(ToPointer(c)) = [c EXCEPT !.value = IF c.valid THEN @ ELSE Zero]
    <2>1. PICK b \in BOOLEAN, v \in Contents \cup {Zero} : c = [valid |-> b, value |-> v, inf |-> FALSE]
      BY <1>2 DEF Columns
    <2>2. CASE b = TRUE
      BY <2>1, <2>2 DEF ToPointer, ToColumn
    <2>3. CASE b = FALSE
      <3>1. c = [valid |-> FALSE, value |-> v, inf |-> FALSE]
        BY <2>1, <2>3
      <3>2. ToColumn(ToPointer(c)) = [valid |-> FALSE, value |-> Zero, inf |-> FALSE]
        BY <3>1 DEF ToPointer, ToColumn, NilPointer
      <3>3. [c EXCEPT !.value = Zero] = [valid |-> c.valid, value |-> Zero, inf |-> c.inf]
        BY DEF Columns
      <3> QED
        BY <3>1, <3>2, <3>3
    <2> QED
      BY <2>2, <2>3
  <1> QED
    BY <1>1, <1>2 DEF NullsSurvive

----------------------------------------------------------------------------
\* Keys.

\* The least-number principle, for sets of numbers.
LEMMA LeastNumber ==
    ASSUME NEW T, T \subseteq Nat, T # {}
    PROVE  \E x \in T : \A y \in T : ~(y < x)
<1> DEFINE R == OpToRel(<, Nat)
<1>1. IsWellFoundedOn(R, Nat)
  BY NatLessThanWellFounded, Zenon
<1>2. \A x \in Nat, y \in Nat : <<y, x>> \in R <=> y < x
  BY DEF OpToRel
<1> HIDE DEF R
<1>3. PICK x \in T : \A y \in T : ~(<<y, x>> \in R)
  BY <1>1, WFMin
<1>4. ASSUME NEW y \in T, y < x PROVE FALSE
  <2>1. x \in Nat /\ y \in Nat
    OBVIOUS
  <2>2. <<y, x>> \in R
    BY <1>2, <1>4, <2>1
  <2> QED BY <1>3, <2>2
<1> QED BY <1>4

\* A proper name is appended as it is.
LEMMA NameAppended ==
    ASSUME NEW done, NEW s, s \notin {"", ".", ".."}
    PROVE  CleanNext(done, s) = Append(done, s)
BY DEF CleanNext

\* A prefix of a sequence grows by one element.
LEMMA PrefixGrows ==
    ASSUME NEW S, NEW key \in Seq(S), NEW n \in 1 .. Len(key)
    PROVE  SubSeq(key, 1, n) = Append(SubSeq(key, 1, n - 1), key[n])
<1> DEFINE p == SubSeq(key, 1, n)
           q == SubSeq(key, 1, n - 1)
<1>1. Len(key) \in Nat /\ n \in Nat /\ n >= 1 /\ n - 1 \in Nat /\ n <= Len(key) /\ key[n] \in S
  OBVIOUS
<1>2. p \in Seq(S) /\ Len(p) = n /\ \A i \in 1 .. n : p[i] = key[i]
  BY <1>1
<1>3. q \in Seq(S) /\ Len(q) = n - 1 /\ \A i \in 1 .. n - 1 : q[i] = key[i]
  BY <1>1
<1> HIDE DEF p, q
<1>4. /\ Append(q, key[n]) \in Seq(S) /\ Len(Append(q, key[n])) = n
      /\ \A i \in 1 .. n - 1 : Append(q, key[n])[i] = key[i]
      /\ Append(q, key[n])[n] = key[n]
  <2>1. /\ Append(q, key[n]) \in Seq(S) /\ Len(Append(q, key[n])) = Len(q) + 1
        /\ \A i \in 1 .. Len(q) : Append(q, key[n])[i] = q[i]
        /\ Append(q, key[n])[Len(q) + 1] = key[n]
    BY <1>1, <1>3
  <2> QED BY <1>1, <1>3, <2>1
<1> DEFINE r == Append(q, key[n])
<1> HIDE DEF r
<1>5. Len(p) = Len(r) /\ \A i \in 1 .. Len(p) : p[i] = r[i]
  BY <1>1, <1>2, <1>4 DEF r
<1>6. p = r
  BY <1>2, <1>4, <1>5, SeqEqual DEF r
<1> QED BY <1>6 DEF p, q, r

\* No segment of the path is empty, "." or "..".
Plain(key) == \A i \in DOMAIN key : key[i] \notin {"", ".", ".."}

\* Every prefix of a path of names is clean, by induction over its length.
LEMMA NamesAreClean ==
    ASSUME NEW S, NEW key \in Seq(S), key # <<>>, Plain(key)
    PROVE  Clean(key) = key
<1> DEFINE N == 0 .. Len(key)
           P(c) == c = [n \in N |-> IF n = 0 THEN <<>> ELSE CleanNext(c[n - 1], key[n])]
           w == [n \in N |-> SubSeq(key, 1, n)]
           c == CleanPrefixes(key)
<1>1. Len(key) \in Nat /\ Len(key) # 0 /\ DOMAIN key = 1 .. Len(key)
  OBVIOUS
<1>2. w[0] = <<>> /\ w[Len(key)] = key
  <2>1. SubSeq(key, 1, 0) = <<>>
    BY <1>1
  <2>2. SubSeq(key, 1, Len(key)) = key
    <3>1. /\ SubSeq(key, 1, Len(key)) \in Seq(S) /\ Len(SubSeq(key, 1, Len(key))) = Len(key)
          /\ \A i \in 1 .. Len(key) : SubSeq(key, 1, Len(key))[i] = key[i]
      BY <1>1
    <3> QED BY <3>1, SeqEqual
  <2> QED BY <1>1, <2>1, <2>2
<1>3. \A n \in 1 .. Len(key) : w[n] = CleanNext(w[n - 1], key[n])
  <2> SUFFICES ASSUME NEW n \in 1 .. Len(key) PROVE w[n] = CleanNext(w[n - 1], key[n])
    OBVIOUS
  <2>1. n \in N /\ n - 1 \in N /\ n \in DOMAIN key
    BY <1>1
  <2>2. w[n] = SubSeq(key, 1, n) /\ w[n - 1] = SubSeq(key, 1, n - 1)
    BY <2>1
  <2>3. SubSeq(key, 1, n) = Append(SubSeq(key, 1, n - 1), key[n])
    BY PrefixGrows
  <2> HIDE DEF w
  <2>4. CleanNext(w[n - 1], key[n]) = Append(w[n - 1], key[n])
    BY <2>1, NameAppended DEF Plain
  <2> QED BY <2>2, <2>3, <2>4
<1>4. P(w)
  <2>1. ASSUME NEW n \in N PROVE w[n] = IF n = 0 THEN <<>> ELSE CleanNext(w[n - 1], key[n])
    <3>1. n = 0 \/ n \in 1 .. Len(key)
      BY <1>1
    <3> HIDE DEF w
    <3> QED BY <1>1, <1>2, <1>3, <3>1
  <2>2. w = [n \in N |-> w[n]]
    BY Zenon
  <2> HIDE DEF w, N
  <2> QED BY <2>1, <2>2
<1>5. P(c)
  <2>1. c = CHOOSE d : P(d)
    BY Zenon DEF CleanPrefixes
  <2> HIDE DEF P, c
  <2> QED BY <1>4, <2>1, Zenon
<1>6. \A n \in N : c[n] = IF n = 0 THEN <<>> ELSE CleanNext(c[n - 1], key[n])
  <2> HIDE DEF c
  <2> QED BY <1>5
<1>7. \A n \in N : c[n] = w[n]
  <2> HIDE DEF c, w
  <2> DEFINE T == {n \in N : c[n] # w[n]}
  <2> SUFFICES ASSUME T # {} PROVE FALSE
    OBVIOUS
  <2>1. T \subseteq Nat
    BY <1>1
  <2>2. PICK x \in T : \A y \in T : ~(y < x)
    BY <2>1, LeastNumber
  <2>3. x # 0
    BY <1>1, <1>2, <1>6, <2>2
  <2>4. x \in 1 .. Len(key) /\ x - 1 \in N /\ x - 1 < x
    BY <1>1, <2>3
  <2>5. x - 1 \notin T
    BY <2>2, <2>4
  <2>6. c[x - 1] = w[x - 1]
    BY <2>4, <2>5
  <2>7. c[x] = CleanNext(c[x - 1], key[x]) /\ w[x] = CleanNext(w[x - 1], key[x])
    BY <1>3, <1>6, <2>3, <2>4
  <2> QED BY <2>2, <2>6, <2>7
<1>8. c[Len(key)] = key
  <2> HIDE DEF c, w
  <2> QED BY <1>1, <1>2, <1>7
<1> HIDE DEF c
<1> QED BY <1>8 DEF Clean, c
\* A key of names stays as it is below a directory.
LEMMA JoinedStaysPlain ==
    ASSUME NEW key \in Seq(Segments), Plain(key)
    PROVE  LET path == <<"root">> \o key
           IN  path \in Seq(Segments \cup {"root"}) /\ path # <<>> /\ Plain(path)
<1> DEFINE S == Segments \cup {"root"}
           path == <<"root">> \o key
<1>1. Len(key) \in Nat /\ key \in Seq(S) /\ DOMAIN key = 1 .. Len(key) /\ <<"root">> \in Seq(S)
  OBVIOUS
<1> HIDE DEF S
<1>2. /\ path \in Seq(S) /\ Len(path) = 1 + Len(key) /\ DOMAIN path = 1 .. Len(path) /\ path[1] = "root"
      /\ \A i \in 2 .. Len(path) : path[i] = key[i - 1]
  BY <1>1
<1> HIDE DEF path
<1>3. path # <<>>
  BY <1>1, <1>2
<1>4. ASSUME NEW i \in DOMAIN path PROVE path[i] \notin {"", ".", ".."}
  <2>1. CASE i = 1
    BY <1>2, <2>1
  <2>2. CASE i # 1
    <3>1. i \in 2 .. Len(path) /\ i - 1 \in DOMAIN key
      BY <1>1, <1>2, <2>2
    <3> QED BY <1>2, <3>1 DEF Plain
  <2> QED BY <2>1, <2>2
<1>5. Plain(path)
  BY <1>4 DEF Plain
<1> QED BY <1>2, <1>3, <1>5 DEF path, S

\* Whatever its length, a key is accepted exactly when it is made of names, and is then
\* the same path below the root.
LEMMA KeyIsInside ==
    ASSUME NEW key \in Seq(Segments), key # <<>>
    PROVE  KeyStaysInside(<<"root">>, key)
<1> DEFINE named == \A i \in DOMAIN key : key[i] \in Names
<1>1. 1 \in DOMAIN key /\ Len(key) \in DOMAIN key /\ Head(key) = key[1] /\ Last(key) = key[Len(key)]
  BY DEF Last
<1>2. \A i \in DOMAIN key : key[i] \in Segments
  OBVIOUS
<1>3. Accepts(key) => named
  BY <1>2 DEF Accepts, Segments
<1>4. ASSUME named PROVE Accepts(key)
  <2>1. \A i \in DOMAIN key : key[i] \notin {Foreign, "", ".", ".."}
    BY <1>4, NameAssumption
  <2>2. Plain(key)
    BY <2>1 DEF Plain
  <2>3. Clean(key) = key
    BY <2>2, NamesAreClean
  <2>4. key[1] \notin {"", "."} /\ key[Len(key)] # ""
    BY <1>1, <2>1
  <2>5. key # <<"">> /\ key # <<".">>
    <3>1. <<"">>[1] = "" /\ <<".">>[1] = "."
      OBVIOUS
    <3> QED BY <2>4, <3>1, Zenon
  <2> QED BY <1>1, <2>1, <2>3, <2>4, <2>5 DEF Accepts
<1>5. ASSUME Accepts(key) PROVE Clean(<<"root">> \o key) = <<"root">> \o key
  <2>1. Plain(key)
    BY <1>5 DEF Accepts, Plain
  <2> QED BY <2>1, JoinedStaysPlain, NamesAreClean
<1> QED BY <1>3, <1>4, <1>5 DEF KeyStaysInside

----------------------------------------------------------------------------
\* Field.

\* What the field is in terms of its history: the reading of its last document, or
\* a value, or null, or unset.
FieldInv ==
    /\ field \in {Unset, Null} \cup {Value(v) : v \in Inner}
    /\ cause.op = "decode" => cause.doc \in Docs /\ field = UnmarshalJSON(Unset, cause.doc)

\* A document becomes null or a value of the inner type, whatever the field was.
LEMMA DocumentDecides ==
    ASSUME NEW f, NEW doc \in Docs
    PROVE  /\ UnmarshalJSON(f, doc) = UnmarshalJSON(Unset, doc)
           /\ UnmarshalJSON(f, doc) \in {Null} \cup {Value(v) : v \in Inner}
  <1>1. Unmarshal(doc, ZeroInner) \in Inner
    BY DEF Unmarshal, Inner, ZeroInner
  <1> QED
    BY <1>1 DEF UnmarshalJSON

\* A new Field is unset.
LEMMA FieldStarts ==
    FieldInit => FieldInv
  BY DEF FieldInit, FieldInv

\* Decoding, assigning and resetting keep the field and its history in step.
LEMMA FieldStep ==
    ASSUME FieldInv, Decode \/ Assign \/ Reset \/ UNCHANGED fieldVars
    PROVE  FieldInv'
  <1>1. CASE Decode
    <2>1. PICK doc \in Docs : field' = UnmarshalJSON(field, doc) /\ cause' = [op |-> "decode", doc |-> doc]
      BY <1>1 DEF Decode
    <2> QED
      BY <2>1, DocumentDecides DEF FieldInv
  <1>2. CASE Assign
    BY <1>2 DEF Assign, FieldInv
  <1>3. CASE Reset
    BY <1>3 DEF Reset, FieldInv
  <1>4. CASE UNCHANGED fieldVars
    BY <1>4 DEF fieldVars, FieldInv
  <1> QED
    BY <1>1, <1>2, <1>3, <1>4

\* A value survives an encoding and decoding.
LEMMA ValueSurvives ==
    ASSUME NEW v \in Inner
    PROVE  UnmarshalJSON(Unset, MarshalJSON(Value(v))) = Value(v)
  <1> DEFINE doc == [kind |-> "object", body |-> v]
  <1>1. MarshalJSON(Value(v)) = doc
    BY DEF MarshalJSON, Value
  <1>2. Unmarshal(doc, ZeroInner) = v
    BY DEF Unmarshal, Inner, ZeroInner
  <1> QED
    BY <1>1, <1>2 DEF UnmarshalJSON

\* A field in step with its history is its document.
LEMMA FieldHolds ==
    FieldInv => FieldIsItsDocument
  <1> SUFFICES ASSUME FieldInv PROVE FieldIsItsDocument
    OBVIOUS
  <1>1. ASSUME cause.op = "decode"
        PROVE  /\ field.set /\ (field.null <=> cause.doc.kind = "null")
               /\ \A m \in Members :
                     field.value[m] = IF cause.doc.body[m] \in Contents THEN cause.doc.body[m] ELSE Zero
    <2> DEFINE doc == cause.doc
    <2>1. doc \in Docs /\ field = UnmarshalJSON(Unset, doc)
      BY <1>1 DEF FieldInv
    <2>2. CASE doc.kind = "null"
      BY <2>1, <2>2, MemberAssumption DEF Docs, UnmarshalJSON, Null, ZeroInner, NullDoc
    <2>3. CASE doc.kind = "syntax"
      BY <2>1, <2>3, MemberAssumption DEF Docs, UnmarshalJSON, Unmarshal, Value, ZeroInner, NullDoc
    <2>4. CASE doc.kind = "object"
      BY <2>1, <2>4 DEF UnmarshalJSON, Unmarshal, Value, ZeroInner
    <2> QED
      BY <2>1, <2>2, <2>3, <2>4 DEF Docs, NullDoc
  <1>2. ASSUME field.set
        PROVE  UnmarshalJSON(Unset, MarshalJSON(field)) = field
    <2>1. CASE field = Unset
      BY <1>2, <2>1 DEF Unset
    <2>2. CASE field = Null
      BY <2>2 DEF MarshalJSON, UnmarshalJSON, Null, NullDoc
    <2>3. CASE \E v \in Inner : field = Value(v)
      BY <2>3, ValueSurvives
    <2> QED
      BY <2>1, <2>2, <2>3 DEF FieldInv
  <1> QED
    BY <1>1, <1>2 DEF FieldIsItsDocument

----------------------------------------------------------------------------
\* Recorder and TemplateRenderer.

Marks == {"first", "other", "unused"}

\* A message whose references lead into the heap.
Sound(m, n) == m \in [Parts -> 1 .. n \cup {Nil}]

\* The messages that nobody outside may reach.
Private == {messages[i] : i \in DOMAIN messages} \cup ({template} \ {<<>>})

\* What callers hold and what the keepers keep have no cell in common, and all of it
\* lies within the heap, so that a copy made later is apart from everything.
MailInv ==
    /\ heap \in Seq(Marks)
    /\ messages \in Seq([Parts -> Nat \cup {Nil}])
    /\ kept \in [messages : Seq([Parts -> Marks \cup {Nil}]), template : {<<>>} \cup [Parts -> Marks \cup {Nil}]]
    /\ \A m \in held \cup Private : Sound(m, Len(heap))
    /\ \A m \in held, k \in Private : Cells(m) \cap Cells(k) = {}
    /\ MessagesKept

\* PartSeq lists each part once.
LEMMA PartsInOrder ==
    /\ PartSeq \in Seq(Parts)
    /\ \A p \in Parts : Index(p) \in 1 .. Len(PartSeq) /\ PartSeq[Index(p)] = p
  <1> DEFINE n == Cardinality(Parts)
  <1>1. n \in Nat /\ ExistsBijection(1 .. n, Parts)
    BY FS_CardinalityType, PartAssumption
  <1>2. \E f \in [1 .. n -> Parts] : IsInjective(f)
    BY <1>1 DEF ExistsBijection, Bijection, Injection
  <1>3. PartSeq \in Injection(1 .. n, Parts)
    BY <1>2 DEF PartSeq, SetToSeq, Injection
  <1>4. PartSeq \in Seq(Parts) /\ Len(PartSeq) = n
    BY <1>1, <1>3 DEF Injection
  <1>5. PartSeq \in Surjection(1 .. n, Parts)
    <2>1. IsFiniteSet(1 .. n) /\ Cardinality(1 .. n) = n
      BY <1>1, FS_Interval
    <2> QED
      BY <1>3, <2>1, FS_Injection, PartAssumption
  <1> QED
    BY <1>4, <1>5 DEF Surjection, Index

\* A copy consists of fresh cells, has the contents of its original, and leaves the
\* contents of all other messages alone.
LEMMA CopyIsApart ==
    ASSUME heap \in Seq(Marks), NEW m, Sound(m, Len(heap))
    PROVE  /\ Grown(m) \in Seq(Marks)
           /\ Len(Grown(m)) = Len(heap) + Len(PartSeq)
           /\ Sound(Cloned(m, Len(heap)), Len(Grown(m)))
           /\ Content(Grown(m), Cloned(m, Len(heap))) = Content(heap, m)
           /\ \A k : Sound(k, Len(heap)) =>
                 /\ Sound(k, Len(Grown(m)))
                 /\ Content(Grown(m), k) = Content(heap, k)
                 /\ Cells(Cloned(m, Len(heap))) \cap Cells(k) = {}
  <1> DEFINE n == Len(heap)
             l == Len(PartSeq)
             copy == Cloned(m, n)
             more == [i \in 1 .. l |-> IF m[PartSeq[i]] = Nil THEN "unused" ELSE heap[m[PartSeq[i]]]]
  <1>1. n \in Nat /\ l \in Nat /\ heap \in [1 .. n -> Marks]
    BY PartsInOrder
  <1>2. \A p \in Parts : Index(p) \in 1 .. l /\ PartSeq[Index(p)] = p
    BY PartsInOrder
  <1>3. \A i \in 1 .. l : PartSeq[i] \in Parts
    BY PartsInOrder
  <1>4. more \in [1 .. l -> Marks]
    BY <1>1, <1>3 DEF Marks, Sound
  <1>5. more \in Seq(Marks) /\ Len(more) = l
    BY <1>1, <1>4
  <1>6. Grown(m) = heap \o more
    BY DEF Grown
  <1>7. /\ Grown(m) \in Seq(Marks) /\ Len(Grown(m)) = n + l
        /\ \A c \in 1 .. n : Grown(m)[c] = heap[c]
        /\ \A i \in 1 .. l : Grown(m)[n + i] = more[i]
    BY <1>1, <1>5, <1>6
  <1> HIDE DEF more
  <1>8. \A p \in Parts : copy[p] = IF m[p] = Nil THEN Nil ELSE n + Index(p)
    BY DEF Cloned
  <1>9. copy \in [Parts -> (n + 1) .. (n + l) \cup {Nil}]
    BY <1>1, <1>2 DEF Cloned
  <1>10. Sound(copy, Len(Grown(m)))
    BY <1>1, <1>7, <1>9 DEF Sound
  <1>11. Content(Grown(m), copy) = Content(heap, m)
    <2>1. ASSUME NEW p \in Parts
          PROVE  (IF copy[p] = Nil THEN Nil ELSE Grown(m)[copy[p]]) = (IF m[p] = Nil THEN Nil ELSE heap[m[p]])
      <3>1. CASE m[p] = Nil
        BY <1>8, <3>1
      <3>2. CASE m[p] # Nil
        <4>1. copy[p] = n + Index(p) /\ copy[p] # Nil
          BY <1>1, <1>2, <1>8, <3>2, PartAssumption
        <4>2. Grown(m)[copy[p]] = more[Index(p)]
          BY <1>2, <1>7, <4>1
        <4>3. more[Index(p)] = heap[m[p]]
          BY <1>2, <3>2 DEF more
        <4> QED
          BY <3>2, <4>1, <4>2, <4>3
      <3> QED
        BY <3>1, <3>2
    <2> QED
      BY <2>1 DEF Content
  <1>12. ASSUME NEW k, Sound(k, n)
         PROVE  /\ Sound(k, Len(Grown(m)))
                /\ Content(Grown(m), k) = Content(heap, k)
                /\ Cells(copy) \cap Cells(k) = {}
    <2>1. Sound(k, Len(Grown(m)))
      BY <1>1, <1>7, <1>12 DEF Sound
    <2>2. \A p \in Parts : k[p] = Nil \/ k[p] \in 1 .. n
      BY <1>12 DEF Sound
    <2>3. Content(Grown(m), k) = Content(heap, k)
      BY <1>7, <2>2 DEF Content
    <2>4. \A p \in Parts : copy[p] = Nil \/ copy[p] \in (n + 1) .. (n + l)
      BY <1>9
    <2>5. Cells(copy) \cap Cells(k) = {}
      BY <1>1, <2>2, <2>4 DEF Cells
    <2> QED
      BY <2>1, <2>3, <2>5
  <1> QED
    BY <1>7, <1>10, <1>11, <1>12

\* At first callers hold one message and nothing is kept.
LEMMA MailStarts ==
    MailInit => MailInv
  <1> SUFFICES ASSUME MailInit PROVE MailInv
    OBVIOUS
  <1> DEFINE l == Len(PartSeq)
  <1>1. l \in Nat
    BY PartsInOrder
  <1>2. heap \in Seq(Marks) /\ Len(heap) = l
    BY <1>1 DEF MailInit, Marks
  <1>3. \A m \in held : Sound(m, Len(heap))
    BY <1>2, PartsInOrder DEF MailInit, Sound
  <1>4. Private = {}
    BY DEF MailInit, Private
  <1>5. MessagesKept
    BY DEF MailInit, MessagesKept
  <1>6. /\ messages \in Seq([Parts -> Nat \cup {Nil}])
        /\ kept \in [messages : Seq([Parts -> Marks \cup {Nil}]), template : {<<>>} \cup [Parts -> Marks \cup {Nil}]]
    BY DEF MailInit
  <1> QED
    BY <1>2, <1>3, <1>4, <1>5, <1>6 DEF MailInv

\* The contents of a message within the heap.
LEMMA ContentType ==
    ASSUME heap \in Seq(Marks), NEW m, Sound(m, Len(heap))
    PROVE  Content(heap, m) \in [Parts -> Marks \cup {Nil}]
  BY DEF Content, Sound

\* A copy taken into the keepers' hands.
LEMMA TakenIn ==
    ASSUME MailInv, NEW m \in held,
           heap' = Grown(m), held' = held,
           Private' \subseteq Private \cup {Cloned(m, Len(heap))}
    PROVE  /\ heap' \in Seq(Marks)
           /\ \A k \in held' \cup Private' : Sound(k, Len(heap'))
           /\ \A x \in held', k \in Private' : Cells(x) \cap Cells(k) = {}
  <1>1. heap \in Seq(Marks) /\ Sound(m, Len(heap))
    BY DEF MailInv
  <1> QED
    BY <1>1, CopyIsApart DEF MailInv

\* A copy handed out.
LEMMA HandedOut ==
    ASSUME MailInv, NEW m \in Private,
           heap' = Grown(m), held' = held \cup {Cloned(m, Len(heap))}, Private' = Private
    PROVE  /\ heap' \in Seq(Marks)
           /\ \A k \in held' \cup Private' : Sound(k, Len(heap'))
           /\ \A x \in held', k \in Private' : Cells(x) \cap Cells(k) = {}
  <1>1. heap \in Seq(Marks) /\ Sound(m, Len(heap))
    BY DEF MailInv
  <1>2. \A k \in Private : Cells(Cloned(m, Len(heap))) \cap Cells(k) = {}
    BY <1>1, CopyIsApart DEF MailInv
  <1>3. \A x \in held, k \in Private : Cells(x) \cap Cells(k) = {}
    BY DEF MailInv
  <1>4. Grown(m) \in Seq(Marks) /\ \A k \in held \cup Private : Sound(k, Len(Grown(m)))
    BY <1>1, CopyIsApart DEF MailInv
  <1>5. Sound(Cloned(m, Len(heap)), Len(Grown(m)))
    BY <1>1, CopyIsApart
  <1> QED
    BY <1>2, <1>3, <1>4, <1>5

\* Recorder.Send keeps a copy with the contents of the moment.
LEMMA SendStep ==
    ASSUME MailInv, RecorderSend
    PROVE  MailInv'
  <1>1. PICK m \in held :
           /\ messages' = Append(messages, Cloned(m, Len(heap)))
           /\ heap' = Grown(m)
           /\ kept' = [kept EXCEPT !.messages = Append(@, Content(heap, m))]
    BY DEF RecorderSend
  <1> DEFINE copy == Cloned(m, Len(heap))
             n == Len(messages)
  <1>2. held' = held /\ template' = template
    BY DEF RecorderSend
  <1>3. heap \in Seq(Marks) /\ Sound(m, Len(heap))
    BY DEF MailInv
  <1>4. /\ messages \in Seq([Parts -> Nat \cup {Nil}])
        /\ kept.messages \in Seq([Parts -> Marks \cup {Nil}])
        /\ Len(kept.messages) = n /\ n \in Nat
    BY DEF MailInv, MessagesKept
  <1>5. copy \in [Parts -> Nat \cup {Nil}]
    BY <1>3, PartsInOrder DEF Cloned
  <1>6. /\ messages' \in Seq([Parts -> Nat \cup {Nil}]) /\ Len(messages') = n + 1
        /\ DOMAIN messages' = 1 .. n + 1 /\ messages'[n + 1] = copy
        /\ \A i \in 1 .. n : i \in DOMAIN messages /\ messages'[i] = messages[i]
    BY <1>1, <1>4, <1>5
  <1>7. Private' \subseteq Private \cup {copy}
    BY <1>2, <1>4, <1>6 DEF Private
  <1>8. /\ heap' \in Seq(Marks)
        /\ \A k \in held' \cup Private' : Sound(k, Len(heap'))
        /\ \A x \in held', k \in Private' : Cells(x) \cap Cells(k) = {}
    BY <1>1, <1>2, <1>7, TakenIn
  <1>9. /\ kept'.messages = Append(kept.messages, Content(heap, m)) /\ kept'.template = kept.template
        /\ kept' \in [messages : Seq([Parts -> Marks \cup {Nil}]), template : {<<>>} \cup [Parts -> Marks \cup {Nil}]]
    <2>1. /\ kept = [messages |-> kept.messages, template |-> kept.template]
          /\ kept.template \in {<<>>} \cup [Parts -> Marks \cup {Nil}]
      BY DEF MailInv
    <2>2. Append(kept.messages, Content(heap, m)) \in Seq([Parts -> Marks \cup {Nil}])
      BY <1>3, <1>4, ContentType
    <2>3. kept' = [messages |-> Append(kept.messages, Content(heap, m)), template |-> kept.template]
      BY <1>1, <2>1
    <2> QED
      BY <2>1, <2>2, <2>3
  <1>10. /\ Len(kept'.messages) = n + 1 /\ kept'.messages[n + 1] = Content(heap, m)
         /\ \A i \in 1 .. n : kept'.messages[i] = kept.messages[i]
    BY <1>3, <1>4, <1>9, ContentType
  <1>11. Content(heap', copy) = Content(heap, m)
    BY <1>1, <1>3, CopyIsApart
  <1>12. \A k \in Private : Content(heap', k) = Content(heap, k)
    BY <1>1, <1>3, CopyIsApart DEF MailInv
  <1>13. \A i \in 1 .. n : Content(heap', messages'[i]) = kept'.messages[i]
    <2> TAKE i \in 1 .. n
    <2>1. messages[i] \in Private
      BY <1>6 DEF Private
    <2> QED
      BY <1>6, <1>10, <1>12, <2>1 DEF MailInv, MessagesKept
  <1>14. template' # <<>> => Content(heap', template') = kept'.template
    BY <1>2, <1>9, <1>12 DEF MailInv, MessagesKept, Private
  <1>15. MessagesKept'
    <2>1. Len(kept'.messages) = Len(messages')
      BY <1>6, <1>10
    <2>2. \A i \in DOMAIN messages' : Content(heap', messages'[i]) = kept'.messages[i]
      <3>1. \A i \in DOMAIN messages' : i \in 1 .. n \/ i = n + 1
        BY <1>4, <1>6
      <3> QED
        BY <1>6, <1>10, <1>11, <1>13, <3>1
    <2> QED
      BY <1>14, <2>1, <2>2 DEF MessagesKept
  <1> QED
    BY <1>6, <1>8, <1>9, <1>15 DEF MailInv

\* Handing out a copy changes nothing of what is kept.
LEMMA HandingOutStep ==
    ASSUME MailInv, NEW m \in Private,
           heap' = Grown(m), held' = held \cup {Cloned(m, Len(heap))},
           UNCHANGED <<messages, template, kept>>
    PROVE  MailInv'
  <1>1. Private' = Private
    BY DEF Private
  <1>2. heap \in Seq(Marks) /\ Sound(m, Len(heap))
    BY DEF MailInv
  <1>3. \A k \in Private : Content(heap', k) = Content(heap, k)
    BY <1>2, CopyIsApart DEF MailInv
  <1>4. MessagesKept'
    <2>1. Len(kept'.messages) = Len(messages')
      BY DEF MailInv, MessagesKept
    <2>2. \A i \in DOMAIN messages' : Content(heap', messages'[i]) = kept'.messages[i]
      BY <1>3 DEF MailInv, MessagesKept, Private
    <2>3. template' # <<>> => Content(heap', template') = kept'.template
      BY <1>3 DEF MailInv, MessagesKept, Private
    <2> QED
      BY <2>1, <2>2, <2>3 DEF MessagesKept
  <1>5. /\ heap' \in Seq(Marks)
        /\ \A k \in held' \cup Private' : Sound(k, Len(heap'))
        /\ \A x \in held', k \in Private' : Cells(x) \cap Cells(k) = {}
    BY <1>1, HandedOut
  <1> QED
    BY <1>4, <1>5 DEF MailInv

\* NewTemplateRenderer keeps a copy likewise.
LEMMA CompileStep ==
    ASSUME MailInv, CompileTemplate
    PROVE  MailInv'
  <1>1. PICK m \in held :
           /\ template' = Cloned(m, Len(heap))
           /\ heap' = Grown(m)
           /\ kept' = [kept EXCEPT !.template = Content(heap, m)]
    BY DEF CompileTemplate
  <1>2. held' = held /\ messages' = messages
    BY DEF CompileTemplate
  <1>3. heap \in Seq(Marks) /\ Sound(m, Len(heap))
    BY DEF MailInv
  <1>4. Private' \subseteq Private \cup {Cloned(m, Len(heap))}
    BY <1>1, <1>2 DEF Private
  <1>5. /\ heap' \in Seq(Marks)
        /\ \A k \in held' \cup Private' : Sound(k, Len(heap'))
        /\ \A x \in held', k \in Private' : Cells(x) \cap Cells(k) = {}
    BY <1>1, <1>2, <1>4, TakenIn
  <1>6. /\ kept' = [messages |-> kept.messages, template |-> Content(heap, m)]
        /\ kept.messages \in Seq([Parts -> Marks \cup {Nil}])
    BY <1>1 DEF MailInv
  <1>7. kept' \in [messages : Seq([Parts -> Marks \cup {Nil}]), template : {<<>>} \cup [Parts -> Marks \cup {Nil}]]
    BY <1>3, <1>6, ContentType
  <1>8. Content(heap', template') = kept'.template
    BY <1>1, <1>3, <1>6, CopyIsApart
  <1>9. \A i \in DOMAIN messages : Content(heap', messages[i]) = kept.messages[i]
    <2> TAKE i \in DOMAIN messages
    <2>1. messages[i] \in Private
      BY DEF Private
    <2>2. Content(heap', messages[i]) = Content(heap, messages[i])
      BY <1>1, <1>3, <2>1, CopyIsApart DEF MailInv
    <2> QED
      BY <2>2 DEF MailInv, MessagesKept
  <1>10. MessagesKept'
    BY <1>2, <1>6, <1>8, <1>9 DEF MailInv, MessagesKept
  <1> QED
    BY <1>2, <1>5, <1>7, <1>10 DEF MailInv

\* A caller writes through its own references only, and no kept message has one of
\* their cells.
LEMMA WriteStep ==
    ASSUME MailInv, CallerWrites
    PROVE  MailInv'
  <1>1. PICK m \in held : \E c \in Cells(m) : heap' = [heap EXCEPT ![c] = "other"]
    BY DEF CallerWrites
  <1>2. PICK c \in Cells(m) : heap' = [heap EXCEPT ![c] = "other"]
    BY <1>1
  <1>3. UNCHANGED <<held, messages, template, kept>>
    BY DEF CallerWrites
  <1>4. heap' \in Seq(Marks) /\ Len(heap') = Len(heap)
    <2>1. Len(heap) \in Nat /\ heap \in [1 .. Len(heap) -> Marks]
      BY DEF MailInv
    <2>2. heap' \in [1 .. Len(heap) -> Marks]
      BY <1>2, <2>1 DEF Marks
    <2> QED
      BY <2>1, <2>2
  <1>5. Private' = Private
    BY <1>3 DEF Private
  <1>6. ASSUME NEW k \in Private
        PROVE  Content(heap', k) = Content(heap, k)
    <2>1. c \notin Cells(k)
      BY <1>1, <1>2 DEF MailInv
    <2>2. \A p \in Parts : k[p] # Nil => k[p] # c
      BY <2>1 DEF Cells
    <2>3. \A p \in Parts : k[p] # Nil => k[p] \in DOMAIN heap
      BY DEF MailInv, Sound
    <2> QED
      BY <1>2, <2>2, <2>3 DEF Content
  <1>7. MessagesKept'
    <2>1. Len(kept'.messages) = Len(messages')
      BY <1>3 DEF MailInv, MessagesKept
    <2>2. \A i \in DOMAIN messages' : Content(heap', messages'[i]) = kept'.messages[i]
      BY <1>3, <1>6 DEF MailInv, MessagesKept, Private
    <2>3. template' # <<>> => Content(heap', template') = kept'.template
      BY <1>3, <1>6 DEF MailInv, MessagesKept, Private
    <2> QED
      BY <2>1, <2>2, <2>3 DEF MessagesKept
  <1> QED
    BY <1>3, <1>4, <1>5, <1>7 DEF MailInv

\* Each method of the two keepers, and each write of a caller, preserves the invariant.
LEMMA MailStep ==
    ASSUME MailInv, MailNext \/ UNCHANGED mailVars
    PROVE  MailInv'
  <1>1. CASE RecorderSend
    BY <1>1, SendStep
  <1>2. CASE RecorderMessages
    <2>1. PICK i \in DOMAIN messages :
             held' = held \cup {Cloned(messages[i], Len(heap))} /\ heap' = Grown(messages[i])
      BY <1>2 DEF RecorderMessages
    <2>2. messages[i] \in Private
      BY DEF Private
    <2>3. UNCHANGED <<messages, template, kept>>
      BY <1>2 DEF RecorderMessages
    <2> QED
      BY <2>1, <2>2, <2>3, HandingOutStep
  <1>3. CASE RecorderSetError
    BY <1>3 DEF RecorderSetError, MailInv, Private, MessagesKept
  <1>4. CASE RecorderReset
    <2>1. /\ messages' = <<>> /\ heap' = heap /\ held' = held /\ template' = template
          /\ kept' = [messages |-> <<>>, template |-> kept.template]
      BY <1>4 DEF RecorderReset, MailInv
    <2>2. Private' \subseteq Private
      BY <2>1 DEF Private
    <2>3. MessagesKept'
      BY <2>1 DEF MailInv, MessagesKept
    <2>4. /\ messages' \in Seq([Parts -> Nat \cup {Nil}])
          /\ kept' \in [messages : Seq([Parts -> Marks \cup {Nil}]), template : {<<>>} \cup [Parts -> Marks \cup {Nil}]]
      BY <2>1 DEF MailInv
    <2> QED
      BY <2>1, <2>2, <2>3, <2>4 DEF MailInv
  <1>5. CASE CompileTemplate
    BY <1>5, CompileStep
  <1>6. CASE Render
    <2>1. /\ held' = held \cup {Cloned(template, Len(heap))} /\ heap' = Grown(template)
          /\ UNCHANGED <<messages, template, kept>>
      BY <1>6 DEF Render
    <2>2. template \in Private
      BY <1>6 DEF Render, Private
    <2> QED
      BY <2>1, <2>2, HandingOutStep
  <1>7. CASE CallerWrites
    BY <1>7, WriteStep
  <1>8. CASE UNCHANGED mailVars
    BY <1>8 DEF mailVars, MailInv, Private, MessagesKept
  <1> QED
    BY <1>1, <1>2, <1>3, <1>4, <1>5, <1>6, <1>7, <1>8 DEF MailNext

----------------------------------------------------------------------------
\* The program that uses them.

\* A finished call has the arguments that the program passes, and their result.
CallInv ==
    /\ job.helper = "hash" => job.options \in OptionSets
    /\ job.helper = "verify" => job.result = Verify("pw", job.hash)
    /\ job.helper = "key" => job.key \in KeyLists
    /\ job.helper = "page" =>
          /\ job.cfg \in PageConfigs
          /\ \E offset, limit \in Numbers : job.result = ParsePage(job.cfg, offset, limit)
    /\ job.helper = "null" => job.pointer \in Pointers /\ job.column \in Columns

HelpersInv == CallInv /\ FieldInv /\ MailInv

\* A call puts its own arguments and result into the job.
LEMMA CallStep ==
    ASSUME CallInv,
           \/ CallDelay \/ CallHash \/ CallVerify \/ CallNormalizeKey \/ CallParse
           \/ CallConverters \/ NextCall \/ UNCHANGED job
    PROVE  CallInv'
  <1>1. CASE CallDelay
    BY <1>1 DEF CallDelay, Return, CallInv
  <1>2. CASE CallHash
    BY <1>2 DEF CallHash, Return, CallInv
  <1>3. CASE CallVerify
    BY <1>3 DEF CallVerify, Return, CallInv
  <1>4. CASE CallNormalizeKey
    BY <1>4 DEF CallNormalizeKey, Return, CallInv
  <1>5. CASE CallParse
    <2>1. PICK cfg \in PageConfigs, offset \in Numbers, limit \in Numbers :
             job' = [helper |-> "page", cfg |-> cfg, result |-> ParsePage(cfg, offset, limit)]
      BY <1>5 DEF CallParse, Return
    <2> QED
      BY <2>1 DEF CallInv
  <1>6. CASE CallConverters
    BY <1>6 DEF CallConverters, Return, CallInv
  <1>7. CASE NextCall
    BY <1>7 DEF NextCall, Idle, CallInv
  <1>8. CASE UNCHANGED job
    BY <1>8 DEF CallInv
  <1> QED
    BY <1>1, <1>2, <1>3, <1>4, <1>5, <1>6, <1>7, <1>8

\* The invariant holds at first.
LEMMA HelpersStart ==
    Init => HelpersInv
  <1> SUFFICES ASSUME Init PROVE HelpersInv
    OBVIOUS
  <1>1. CallInv
    BY DEF Init, Idle, CallInv
  <1> QED
    BY <1>1, FieldStarts, MailStarts DEF Init, HelpersInv

\* A step belongs to one of the three parts and leaves the others alone.
LEMMA HelpersStep ==
    ASSUME HelpersInv, [Next]_vars
    PROVE  HelpersInv'
  <1>1. CASE \/ CallDelay \/ CallHash \/ CallVerify \/ CallNormalizeKey \/ CallParse
             \/ CallConverters \/ NextCall
    <2>1. UNCHANGED fieldVars /\ UNCHANGED mailVars
      BY <1>1 DEF CallDelay, CallHash, CallVerify, CallNormalizeKey, CallParse, CallConverters,
                  NextCall, Return
    <2> QED
      BY <1>1, <2>1, CallStep, FieldStep, MailStep DEF HelpersInv
  <1>2. CASE UNCHANGED job /\ (Decode \/ Assign \/ Reset) /\ UNCHANGED mailVars
    BY <1>2, CallStep, FieldStep, MailStep DEF HelpersInv
  <1>3. CASE UNCHANGED job /\ MailNext /\ UNCHANGED fieldVars
    BY <1>3, CallStep, FieldStep, MailStep DEF HelpersInv
  <1>4. CASE UNCHANGED vars
    <2>1. UNCHANGED job /\ UNCHANGED fieldVars /\ UNCHANGED mailVars
      BY <1>4 DEF vars
    <2> QED
      BY <2>1, CallStep, FieldStep, MailStep DEF HelpersInv
  <1> QED
    BY <1>1, <1>2, <1>3, <1>4 DEF Next, Only, MailNext

\* In every behaviour of the program the calls, the Field and the keepers of messages
\* are as their invariants say.
THEOREM HelpersInvariant ==
    Spec => []HelpersInv
  <1>1. Init => HelpersInv
    BY HelpersStart
  <1>2. HelpersInv /\ [Next]_vars => HelpersInv'
    BY HelpersStep
  <1> QED
    BY <1>1, <1>2, PTL DEF Spec

\* Argon2idHasher: for all options, the hash that a hasher makes is verified by its
\* password and by no other, and no string is verified with parameters beyond the
\* limits or other than the written ones (argon2id.go:44-222).
THEOREM HashesAreVerified ==
    Spec => []HashesVerify
  <1>1. HelpersInv => HashesVerify
    <2> SUFFICES ASSUME HelpersInv PROVE HashesVerify
      OBVIOUS
    <2>1. job.helper = "hash" => HashVerifies(job.options, "pw", "other", "salt")
      BY HashIsVerified, ArgumentAssumption DEF HelpersInv, CallInv
    <2>2. job.helper = "verify" => VerifiedAsWritten(job.hash, job.result)
      BY StringIsVerified DEF HelpersInv, CallInv
    <2> QED
      BY <2>1, <2>2 DEF HashesVerify
  <1> QED
    BY <1>1, HelpersInvariant, PTL

\* blobx.NormalizeKey: for keys of any length, exactly those made of names are accepted,
\* and an accepted key is the path that it names below the root (blob.go:50-74).
THEOREM KeysAreInside ==
    Spec => []KeysStayInside
  <1>1. HelpersInv => KeysStayInside
    <2> SUFFICES ASSUME HelpersInv, job.helper = "key" PROVE KeyStaysInside(<<"root">>, job.key)
      BY DEF KeysStayInside
    <2>1. job.key \in Seq(Segments) /\ job.key # <<>>
      BY ArgumentAssumption DEF HelpersInv, CallInv
    <2> QED
      BY <2>1, KeyIsInside
  <1> QED
    BY <1>1, HelpersInvariant, PTL

\* httpx/page.Parse: for all limits and parameters, a page stays within the maximum,
\* and only an incoherent configuration refuses a plain query (page.go:42-86).
THEOREM PagesStayInside ==
    Spec => []PagesWithinLimits
  <1>1. HelpersInv => PagesWithinLimits
    <2> SUFFICES ASSUME HelpersInv, job.helper = "page" PROVE PageWithinLimits(job.cfg, job.result)
      BY DEF PagesWithinLimits
    <2>1. PICK offset \in Numbers, limit \in Numbers : job.result = ParsePage(job.cfg, offset, limit)
      BY DEF HelpersInv, CallInv
    <2>2. job.cfg \in [default : Int, max : Int]
      BY ArgumentAssumption DEF HelpersInv, CallInv
    <2>3. offset \in Int \cup {Absent, NoInteger} /\ limit \in Int \cup {Absent, NoInteger}
      BY ArgumentAssumption
    <2> QED
      BY <2>1, <2>2, <2>3, PagesStayWithinLimits
  <1> QED
    BY <1>1, HelpersInvariant, PTL

\* Field and the converters: for all struct-like inner types, a field holds what its
\* last document says, and null, unset and zero stay apart (field.go:73-101,
\* pgxutil.go:59-169).
THEOREM NullsStayApart ==
    Spec => []NullsKeptApart
  <1>1. HelpersInv => NullsKeptApart
    BY FieldHolds, ConvertersKeep DEF HelpersInv, CallInv, NullsKeptApart
  <1> QED
    BY <1>1, HelpersInvariant, PTL

\* Recorder and TemplateRenderer: for all numbers of messages and of their parts, what
\* is kept stays as it was handed over (testing.go:21-78, template.go:52, 90).
THEOREM KeptMessagesStay ==
    Spec => []MessagesKept
  <1>1. HelpersInv => MessagesKept
    BY DEF HelpersInv, MailInv
  <1> QED
    BY <1>1, HelpersInvariant, PTL

----------------------------------------------------------------------------
\* The validator, which is a specification of its own.

\* A sequence that is not empty.
LEMMA SomeLength ==
    ASSUME NEW S, NEW s \in Seq(S), s # <<>>
    PROVE  /\ Len(s) \in Nat /\ 1 \in DOMAIN s
           /\ Len(s) # 1 => Len(s) >= 2 /\ Len(s) - 1 \in DOMAIN s /\ Len(s) - 1 < Len(s) /\ 1 < Len(s)
<1>1. Len(s) \in Nat /\ DOMAIN s = 1 .. Len(s) /\ Len(s) # 0
  OBVIOUS
<1>2. PICK n \in Nat : n = Len(s)
  BY <1>1
<1>3. n # 0 /\ 1 \in 1 .. n /\ (n # 1 => n >= 2 /\ n - 1 \in 1 .. n /\ n - 1 < n /\ 1 < n)
  BY <1>1, <1>2
<1> QED BY <1>1, <1>2, <1>3

\* The last element of a sequence replaced.
LEMMA LastReplaced ==
    ASSUME NEW S, NEW s \in Seq(S), s # <<>>, NEW f \in S
    PROVE  LET r == Append(SubSeq(s, 1, Len(s) - 1), f)
           IN  r \in Seq(S) /\ Len(r) = Len(s) /\ r[Len(s)] = f /\ \A i \in 1 .. Len(s) - 1 : r[i] = s[i]
<1>1. Len(s) \in Nat /\ Len(s) >= 1 /\ DOMAIN s = 1 .. Len(s)
  OBVIOUS
<1> DEFINE q == SubSeq(s, 1, Len(s) - 1)
<1>2. q \in Seq(S) /\ Len(q) = Len(s) - 1 /\ \A i \in 1 .. Len(s) - 1 : q[i] = s[i]
  BY <1>1
<1> HIDE DEF q
<1>3. /\ Append(q, f) \in Seq(S) /\ Len(Append(q, f)) = Len(s) /\ Append(q, f)[Len(s)] = f
      /\ \A i \in 1 .. Len(s) - 1 : Append(q, f)[i] = s[i]
  <2>1. /\ Append(q, f) \in Seq(S) /\ Len(Append(q, f)) = Len(q) + 1 /\ Append(q, f)[Len(q) + 1] = f
        /\ \A i \in 1 .. Len(q) : Append(q, f)[i] = q[i]
    BY <1>2
  <2> HIDE DEF q
  <2> QED BY <1>1, <1>2, <2>1
<1> QED BY <1>3 DEF q

\* The last two elements replaced by one.
LEMMA LastTwoReplaced ==
    ASSUME NEW S, NEW s \in Seq(S), Len(s) >= 2, NEW f \in S
    PROVE  LET r == Append(SubSeq(s, 1, Len(s) - 2), f)
           IN  r \in Seq(S) /\ Len(r) = Len(s) - 1 /\ r[Len(s) - 1] = f /\ \A i \in 1 .. Len(s) - 2 : r[i] = s[i]
<1>1. Len(s) \in Nat /\ DOMAIN s = 1 .. Len(s)
  OBVIOUS
<1> DEFINE q == SubSeq(s, 1, Len(s) - 2)
<1>2. q \in Seq(S) /\ Len(q) = Len(s) - 2 /\ \A i \in 1 .. Len(s) - 2 : q[i] = s[i]
  BY <1>1
<1> HIDE DEF q
<1>3. /\ Append(q, f) \in Seq(S) /\ Len(Append(q, f)) = Len(s) - 1 /\ Append(q, f)[Len(s) - 1] = f
      /\ \A i \in 1 .. Len(s) - 2 : Append(q, f)[i] = s[i]
  <2>1. /\ Append(q, f) \in Seq(S) /\ Len(Append(q, f)) = Len(q) + 1 /\ Append(q, f)[Len(q) + 1] = f
        /\ \A i \in 1 .. Len(q) : Append(q, f)[i] = q[i]
    BY <1>2
  <2> HIDE DEF q
  <2> QED BY <1>1, <1>2, <2>1
<1> QED BY <1>3 DEF q

\* A new call has collected nothing.
LEMMA FrameStarts ==
    ASSUME NEW c \in Call, NEW known
    PROVE  Frame(c) \in Frames /\ Collected(Frame(c), known) /\ ~Frame(c).locked
<1> DEFINE f == Frame(c)
<1>1. f \in Frames
  BY DEF Frame, Frames, Call
<1>2. f.value \in Seq(Field) /\ f.at = 0 /\ f.bad = FALSE /\ f.locked = FALSE
  BY DEF Frame, Call
<1> HIDE DEF f
<1>3. Collected(f, known)
  BY <1>2 DEF Collected, Failing
<1> QED BY <1>1, <1>2, <1>3 DEF f

\* Under the lock, the types that the value needs are known.
LEMMA FrameLocks ==
    ASSUME NEW f \in Frames, NEW known, Collected(f, known), ~f.locked, NEW more,
           \A i \in DOMAIN f.value : Visited(f.value[i]) => f.value[i].type \in more
    PROVE  LET n == [f EXCEPT !.locked = TRUE,
                              !.skip = {i \in {j \in DOMAIN f.value : Visited(f.value[j])} : Skipped(f.value[i])}]
           IN  n \in Frames /\ n.on = f.on /\ Collected(n, more)
<1> DEFINE sk == {i \in {j \in DOMAIN f.value : Visited(f.value[j])} : Skipped(f.value[i])}
           n == [f EXCEPT !.locked = TRUE, !.skip = sk]
<1>1. sk \subseteq Nat /\ sk = {i \in DOMAIN f.value : Visited(f.value[i]) /\ Skipped(f.value[i])}
  BY DEF Frames
<1> HIDE DEF sk
<1>2. n \in Frames /\ n.on = f.on /\ n.value = f.value /\ n.at = f.at /\ n.bad = f.bad /\ n.locked = TRUE /\ n.skip = sk
  BY <1>1 DEF Frames
<1> HIDE DEF n
<1>3. Collected(n, more)
  BY <1>1, <1>2 DEF Collected, Failing
<1> QED BY <1>2, <1>3 DEF n, sk

\* What a call keeps when it moves on.
Moved(f, n, at, bad) ==
    /\ n \in Frames /\ n.at = at /\ n.bad = bad
    /\ n.value = f.value /\ n.locked = f.locked /\ n.skip = f.skip /\ n.on = f.on /\ n.op = f.op

\* The members that a call does not name stay.
LEMMA FrameChanges ==
    ASSUME NEW f \in Frames, NEW a \in Nat, NEW b \in BOOLEAN,
           NEW n, n = [f EXCEPT !.at = a, !.bad = b]
    PROVE  Moved(f, n, a, b)
<1> DEFINE m == [f EXCEPT !.at = a]
<1>1. /\ m \in Frames
      /\ m = [op |-> f.op, on |-> f.on, value |-> f.value, locked |-> f.locked, skip |-> f.skip,
              at |-> a, bad |-> f.bad]
  BY DEF Frames
<1>2. n = [m EXCEPT !.bad = b]
  OBVIOUS
<1> HIDE DEF m
<1>3. [m EXCEPT !.bad = b]
        = [op |-> m.op, on |-> m.on, value |-> m.value, locked |-> m.locked, skip |-> m.skip,
           at |-> m.at, bad |-> b]
  BY <1>1 DEF Frames
<1>4. n = [op |-> f.op, on |-> f.on, value |-> f.value, locked |-> f.locked, skip |-> f.skip,
           at |-> a, bad |-> b]
  BY <1>1, <1>2, <1>3
<1> QED BY <1>4 DEF Frames, Moved

\* Onward changes the position and the verdict so far.
LEMMA FrameOnward ==
    ASSUME NEW f \in Frames, NEW failed \in BOOLEAN, NEW n, n = Onward(f, failed)
    PROVE  Moved(f, n, f.at + 1, f.bad \/ failed)
<1>1. f.at \in Nat /\ f.bad \in BOOLEAN
  BY DEF Frames
<1>2. PICK a \in Nat : a = f.at + 1
  BY <1>1
<1>3. PICK b \in BOOLEAN : b = (f.bad \/ failed)
  BY <1>1
<1>4. n = [f EXCEPT !.at = f.at + 1, !.bad = f.bad \/ failed]
  BY Zenon DEF Onward
<1>5. n = [f EXCEPT !.at = a, !.bad = b]
  BY <1>2, <1>3, <1>4, Zenon
<1>6. Moved(f, n, a, b)
  BY <1>5, FrameChanges, Zenon
<1> QED BY <1>2, <1>3, <1>6, Zenon

\* The next field: its failure joins those of the fields before it.
LEMMA FrameMovesOn ==
    ASSUME NEW f \in Frames, NEW known, Collected(f, known), f.locked, f.at < Len(f.value),
           NEW failed \in BOOLEAN,
           Decided(f.value[f.at + 1]) /\ Rejects(f.value[f.at + 1]) => failed,
           Ordinary(f.value) /\ failed => Rejects(f.value[f.at + 1])
    PROVE  /\ Onward(f, failed) \in Frames /\ Collected(Onward(f, failed), known)
           /\ Onward(f, failed).on = f.on
<1> DEFINE n == Onward(f, failed)
<1>1. f.at \in Nat /\ f.bad \in BOOLEAN /\ Len(f.value) \in Nat
  BY DEF Frames
<1> HIDE DEF n
<1>2. Moved(f, n, f.at + 1, f.bad \/ failed)
  BY FrameOnward, Zenon DEF n
<1> USE DEF Moved
<1>3. Failing(n) <=> Failing(f) \/ (Decided(f.value[f.at + 1]) /\ Rejects(f.value[f.at + 1]))
  <2>1. 1 .. n.at = (1 .. f.at) \cup {f.at + 1}
    BY <1>1, <1>2
  <2> QED BY <1>2, <2>1 DEF Failing
<1>4. f.at + 1 \in DOMAIN f.value
  BY <1>1 DEF Frames
<1>5. Ordinary(f.value) => Decided(f.value[f.at + 1])
  BY <1>4 DEF Ordinary
<1>6. (Failing(n) => n.bad) /\ (Ordinary(n.value) /\ n.bad => Failing(n))
  BY <1>2, <1>3, <1>5 DEF Collected
<1>7. Collected(n, known)
  BY <1>1, <1>2, <1>6 DEF Collected
<1> QED BY <1>2, <1>7 DEF n

\* Types that become known do no harm.
LEMMA FrameKeeps ==
    ASSUME NEW f, NEW known, Collected(f, known), NEW more, known \subseteq more
    PROVE  Collected(f, more)
BY DEF Collected
----------------------------------------------------------------------------
\* The calls of one goroutine.

\* More known types do no harm to the calls that wait.
LEMMA NestKeeps ==
    ASSUME NEW calls \in Seq(Frames), NEW known, NEW more, CallsNest(calls, known),
           \A v \in Validators : known[v] \subseteq more[v]
    PROVE  CallsNest(calls, more)
<1> SUFFICES ASSUME NEW i \in DOMAIN calls
             PROVE  Collected(calls[i], more[calls[i].on]) /\ (i < Len(calls) => AtCustom(calls[i]))
  BY Zenon DEF CallsNest
<1>1. Collected(calls[i], known[calls[i].on]) /\ (i < Len(calls) => AtCustom(calls[i]))
  BY Zenon DEF CallsNest
<1>2. calls[i] \in Frames
  OBVIOUS
<1>3. calls[i].on \in Validators
  BY <1>2 DEF Frames
<1>4. Collected(calls[i], more[calls[i].on])
  BY <1>1, <1>3, FrameKeeps, Zenon
<1> QED BY <1>1, <1>4

\* No call, and one.
LEMMA NestEmpty ==
    ASSUME NEW known
    PROVE  CallsNest(<<>>, known)
BY DEF CallsNest

\* A goroutine's first call waits for nobody.
LEMMA NestOne ==
    ASSUME NEW n \in Frames, NEW known, Collected(n, known[n.on])
    PROVE  <<n>> \in Seq(Frames) /\ CallsNest(<<n>>, known)
<1>1. <<n>> \in Seq(Frames) /\ DOMAIN <<n>> = {1} /\ Len(<<n>>) = 1 /\ <<n>>[1] = n
  OBVIOUS
<1> QED BY <1>1 DEF CallsNest

\* The innermost call moves on.
LEMMA NestTop ==
    ASSUME NEW calls \in Seq(Frames), calls # <<>>, NEW known, CallsNest(calls, known),
           NEW n \in Frames, Collected(n, known[n.on])
    PROVE  LET r == Append(SubSeq(calls, 1, Len(calls) - 1), n)
           IN  r \in Seq(Frames) /\ CallsNest(r, known)
<1> DEFINE r == Append(SubSeq(calls, 1, Len(calls) - 1), n)
<1>1. r \in Seq(Frames) /\ Len(r) = Len(calls) /\ r[Len(calls)] = n /\ \A i \in 1 .. Len(calls) - 1 : r[i] = calls[i]
  BY LastReplaced
<1>2. Len(calls) \in Nat /\ DOMAIN calls = 1 .. Len(calls)
  OBVIOUS
<1> HIDE DEF r
<1>3. DOMAIN r = 1 .. Len(calls)
  BY <1>1
<1>4. ASSUME NEW i \in DOMAIN r
      PROVE  Collected(r[i], known[r[i].on]) /\ (i < Len(r) => AtCustom(r[i]))
  <2>1. CASE i = Len(calls)
    BY <1>1, <2>1
  <2>2. CASE i # Len(calls)
    <3>1. i \in 1 .. Len(calls) - 1 /\ i \in DOMAIN calls /\ i < Len(calls)
      BY <1>2, <1>3, <2>2
    <3>2. Collected(calls[i], known[calls[i].on]) /\ AtCustom(calls[i])
      BY <3>1, Zenon DEF CallsNest
    <3> QED BY <1>1, <3>1, <3>2
  <2> QED BY <2>1, <2>2
<1> QED BY <1>1, <1>4, Zenon DEF CallsNest, r

\* The innermost call returns to the one that waits for it.
LEMMA NestReturn ==
    ASSUME NEW calls \in Seq(Frames), Len(calls) >= 2, NEW known, CallsNest(calls, known),
           NEW n \in Frames, Collected(n, known[n.on])
    PROVE  LET r == Append(SubSeq(calls, 1, Len(calls) - 2), n)
           IN  r \in Seq(Frames) /\ CallsNest(r, known)
<1> DEFINE r == Append(SubSeq(calls, 1, Len(calls) - 2), n)
<1>1. r \in Seq(Frames) /\ Len(r) = Len(calls) - 1 /\ r[Len(calls) - 1] = n /\ \A i \in 1 .. Len(calls) - 2 : r[i] = calls[i]
  BY LastTwoReplaced
<1>2. Len(calls) \in Nat /\ DOMAIN calls = 1 .. Len(calls)
  OBVIOUS
<1> HIDE DEF r
<1>3. DOMAIN r = 1 .. Len(calls) - 1
  BY <1>1
<1>4. ASSUME NEW i \in DOMAIN r
      PROVE  Collected(r[i], known[r[i].on]) /\ (i < Len(r) => AtCustom(r[i]))
  <2>1. CASE i = Len(calls) - 1
    BY <1>1, <1>2, <2>1
  <2>2. CASE i # Len(calls) - 1
    <3>1. i \in 1 .. Len(calls) - 2 /\ i \in DOMAIN calls /\ i < Len(calls)
      BY <1>2, <1>3, <2>2
    <3>2. Collected(calls[i], known[calls[i].on]) /\ AtCustom(calls[i])
      BY <3>1, Zenon DEF CallsNest
    <3> QED BY <1>1, <3>1, <3>2
  <2> QED BY <2>1, <2>2
<1> QED BY <1>1, <1>4, Zenon DEF CallsNest, r

\* A custom rule calls a validator.
LEMMA NestCall ==
    ASSUME NEW calls \in Seq(Frames), calls # <<>>, NEW known, CallsNest(calls, known),
           AtCustom(calls[Len(calls)]), NEW n \in Frames, Collected(n, known[n.on])
    PROVE  Append(calls, n) \in Seq(Frames) /\ CallsNest(Append(calls, n), known)
<1> DEFINE r == Append(calls, n)
<1>1. /\ r \in Seq(Frames) /\ Len(r) = Len(calls) + 1 /\ r[Len(calls) + 1] = n
      /\ \A i \in 1 .. Len(calls) : r[i] = calls[i]
  OBVIOUS
<1>2. Len(calls) \in Nat /\ DOMAIN calls = 1 .. Len(calls)
  OBVIOUS
<1> HIDE DEF r
<1>3. DOMAIN r = 1 .. Len(calls) + 1
  BY <1>1
<1>4. ASSUME NEW i \in DOMAIN r
      PROVE  Collected(r[i], known[r[i].on]) /\ (i < Len(r) => AtCustom(r[i]))
  <2>1. CASE i = Len(calls) + 1
    BY <1>1, <1>2, <2>1
  <2>2. CASE i # Len(calls) + 1
    <3>1. i \in 1 .. Len(calls) /\ i \in DOMAIN calls
      BY <1>2, <1>3, <2>2
    <3>2. Collected(calls[i], known[calls[i].on]) /\ (i < Len(calls) => AtCustom(calls[i]))
      BY <3>1, Zenon DEF CallsNest
    <3>3. i < Len(calls) \/ i = Len(calls)
      BY <1>2, <3>1
    <3>4. AtCustom(calls[i])
      BY <3>2, <3>3
    <3> QED BY <1>1, <3>1, <3>2, <3>4
  <2> QED BY <2>1, <2>2
<1> QED BY <1>1, <1>4, Zenon DEF CallsNest, r
----------------------------------------------------------------------------
\* The steps of a goroutine.

\* One goroutine changes its calls, and types become known.
LEMMA StackChanges ==
    ASSUME VerdictInv, NEW g \in Goroutines, NEW c \in Seq(Frames), CallsNest(c, types'),
           \A v \in Validators : types[v] \subseteq types'[v], stack' = [stack EXCEPT ![g] = c]
    PROVE  /\ stack' \in [Goroutines -> Seq(Frames)]
           /\ \A u \in Goroutines : CallsNest(stack'[u], types')
<1>1. stack \in [Goroutines -> Seq(Frames)]
  BY DEF VerdictInv, TypeOK
<1>2. stack' \in [Goroutines -> Seq(Frames)] /\ \A u \in Goroutines : stack'[u] = IF u = g THEN c ELSE stack[u]
  BY <1>1
<1>3. ASSUME NEW u \in Goroutines PROVE CallsNest(stack'[u], types')
  <2>1. CASE u = g
    BY <1>2, <2>1
  <2>2. CASE u # g
    <3>1. stack[u] \in Seq(Frames) /\ CallsNest(stack[u], types)
      BY <1>1 DEF VerdictInv
    <3>2. CallsNest(stack[u], types')
      BY <3>1, NestKeeps, Zenon
    <3> QED BY <1>2, <2>2, <3>2
  <2> QED BY <2>1, <2>2
<1> QED BY <1>2, <1>3

\* An answer that the value decides joins the others.
LEMMA AnswerChanges ==
    ASSUME VerdictInv, NEW g \in Goroutines, NEW a \in Answer, answer' = [answer EXCEPT ![g] = a],
           ByValue(a)
    PROVE  answer' \in [Goroutines -> Answer] /\ VerdictByValue'
<1>1. answer \in [Goroutines -> Answer] /\ VerdictByValue
  BY DEF VerdictInv, TypeOK
<1>2. answer' \in [Goroutines -> Answer] /\ \A u \in Goroutines : answer'[u] = IF u = g THEN a ELSE answer[u]
  BY <1>1
<1>3. \A u \in Goroutines : ByValue(answer'[u])
  BY <1>1, <1>2 DEF VerdictByValue
<1> QED BY <1>2, <1>3 DEF VerdictByValue, ByValue

\* The innermost call of a goroutine.
LEMMA TopCall ==
    ASSUME VerdictInv, NEW g \in Goroutines, stack[g] # <<>>
    PROVE  /\ stack[g] \in Seq(Frames) /\ CallsNest(stack[g], types)
           /\ Top(g) \in Frames /\ Top(g).on \in Validators
           /\ Collected(Top(g), types[Top(g).on])
<1>1. stack[g] \in Seq(Frames) /\ CallsNest(stack[g], types)
  BY DEF VerdictInv, TypeOK
<1>2. Len(stack[g]) \in DOMAIN stack[g]
  BY <1>1
<1>3. Top(g) \in Frames
  BY <1>1, <1>2 DEF Top
<1>4. Top(g).on \in Validators
  BY <1>3 DEF Frames
<1>5. Collected(Top(g), types[Top(g).on])
  BY <1>1, <1>2, Zenon DEF CallsNest, Top
<1> QED BY <1>1, <1>3, <1>4, <1>5

\* A step that leaves the types and the answers alone and replaces the innermost call.
LEMMA TopMoves ==
    ASSUME VerdictInv, NEW g \in Goroutines, stack[g] # <<>>,
           NEW n \in Frames, Collected(n, types[n.on]), stack' = WithTop(g, n),
           UNCHANGED <<uses, owner, types, tagged, answer>>
    PROVE  VerdictInv'
<1> DEFINE c == Append(SubSeq(stack[g], 1, Len(stack[g]) - 1), n)
<1>1. stack[g] \in Seq(Frames) /\ CallsNest(stack[g], types)
  BY TopCall
<1>2. c \in Seq(Frames) /\ CallsNest(c, types)
  BY <1>1, NestTop, Zenon
<1>3. stack' = [stack EXCEPT ![g] = c]
  BY DEF WithTop, Outer
<1> HIDE DEF c
<1>4. types' = types
  OBVIOUS
<1>5. /\ stack' \in [Goroutines -> Seq(Frames)]
      /\ \A u \in Goroutines : CallsNest(stack'[u], types')
  BY <1>2, <1>3, <1>4, StackChanges
<1>6. VerdictByValue'
  BY DEF VerdictInv, VerdictByValue, ByValue
<1>7. TypeOK'
  BY <1>5 DEF VerdictInv, TypeOK
<1> QED BY <1>5, <1>6, <1>7 DEF VerdictInv
\* The field that an innermost call under the lock has come to.
LEMMA FieldReached ==
    ASSUME NEW f \in Frames, NEW known, Collected(f, known), f.locked, f.at < Len(f.value)
    PROVE  /\ f.at + 1 \in DOMAIN f.value /\ f.value[f.at + 1] \in Field
           /\ f.at + 1 \in f.skip <=> Visited(f.value[f.at + 1]) /\ Skipped(f.value[f.at + 1])
           /\ Visited(f.value[f.at + 1]) => f.value[f.at + 1].type \in known
<1>1. f.value \in Seq(Field) /\ f.at \in Nat
  BY DEF Frames
<1>2. f.at + 1 \in DOMAIN f.value /\ f.value[f.at + 1] \in Field
  BY <1>1
<1>3. /\ f.skip = {i \in DOMAIN f.value : Visited(f.value[i]) /\ Skipped(f.value[i])}
      /\ \A i \in DOMAIN f.value : Visited(f.value[i]) => f.value[i].type \in known
  BY DEF Collected
<1> QED BY <1>2, <1>3

\* A field within a Field is none that Struct finds.
LEMMA InsideUnvisited == ASSUME NEW e, Inside(e) PROVE ~Visited(e)
BY DEF Inside, Visited

\* A skipped field is one that Struct is not documented to reject, or does not find.
LEMMA SkipFieldStep ==
    ASSUME VerdictInv, NEW g \in Goroutines, SkipField(g)
    PROVE  VerdictInv'
<1> DEFINE f == Top(g)
           e == f.value[f.at + 1]
           n == Onward(f, FALSE)
<1>1. /\ stack[g] # <<>> /\ f.locked /\ f.at < Len(f.value) /\ (f.at + 1 \in f.skip \/ Inside(e))
      /\ stack' = WithTop(g, n) /\ UNCHANGED <<uses, owner, types, tagged, answer>>
  BY DEF SkipField, Validating, Current
<1>2. f \in Frames /\ Collected(f, types[f.on])
  BY <1>1, TopCall
<1> HIDE DEF f, n
<1>3. f.at + 1 \in f.skip <=> Visited(e) /\ Skipped(e)
  BY <1>1, <1>2, FieldReached
<1>4. Skipped(e) \/ ~Visited(e)
  BY <1>1, <1>3, InsideUnvisited
<1>5. ~(Decided(e) /\ Rejects(e))
  BY <1>4 DEF Skipped, Rejects, Decided
<1>6. n \in Frames /\ Collected(n, types[f.on]) /\ n.on = f.on
  BY <1>1, <1>2, <1>5, FrameMovesOn DEF n
<1> QED BY <1>1, <1>6, TopMoves DEF n

\* The library fails exactly the fields found that are to be rejected:
\* it knows their types, and those that may be absent are skipped.
LEMMA CheckFieldStep ==
    ASSUME VerdictInv, NEW g \in Goroutines, CheckField(g)
    PROVE  VerdictInv'
<1> DEFINE f == Top(g)
           e == f.value[f.at + 1]
<1>1. /\ stack[g] # <<>> /\ f.locked /\ f.at < Len(f.value) /\ f.at + 1 \notin f.skip
      /\ UNCHANGED <<uses, owner, types, tagged, answer>>
  BY DEF CheckField, Validating
<1>2. PICK o \in Outcomes(e, types[f.on]) \ {"panic"} : stack' = WithTop(g, Onward(f, o = "fail"))
  BY DEF CheckField, Current
<1>3. f \in Frames /\ Collected(f, types[f.on])
  BY <1>1, TopCall
<1> HIDE DEF f
<1>4. Visited(e) => ((o = "fail") <=> Rejects(e))
  <2>1. /\ f.at + 1 \in DOMAIN f.value /\ e \in Field
        /\ f.at + 1 \in f.skip <=> Visited(e) /\ Skipped(e)
        /\ Visited(e) => e.type \in types[f.on]
    BY <1>1, <1>3, FieldReached
  <2>2. SUFFICES ASSUME Visited(e) PROVE (o = "fail") <=> Rejects(e)
    OBVIOUS
  <2> HIDE DEF e
  <2>3. e.type \in types[f.on] /\ ~Skipped(e)
    BY <1>1, <2>1, <2>2
  <2>4. o = IF e.state = "good" THEN "pass" ELSE "fail"
    BY <1>2, <2>3 DEF Outcomes
  <2> QED BY <2>3, <2>4 DEF Rejects, Skipped
<1>5. PICK b \in BOOLEAN : b = (o = "fail")
  OBVIOUS
<1> DEFINE n == Onward(f, b)
<1>6. n \in Frames /\ Collected(n, types[f.on]) /\ n.on = f.on
  <2>1. f.at + 1 \in DOMAIN f.value
    BY <1>1, <1>3, FieldReached
  <2>2. Ordinary(f.value) => Visited(e)
    BY <2>1 DEF Ordinary, Decided
  <2>3. /\ Decided(e) /\ Rejects(e) => b
        /\ Ordinary(f.value) /\ b => Rejects(e)
    BY <1>4, <1>5, <2>2 DEF Decided
  <2> QED BY <1>1, <1>3, <2>3, FrameMovesOn
<1>7. stack' = WithTop(g, n)
  BY <1>2, <1>5
<1> HIDE DEF n
<1> QED BY <1>1, <1>6, <1>7, TopMoves
\* A call from outside begins with nothing collected.
LEMMA CallFromStep ==
    ASSUME VerdictInv, NEW g \in Goroutines, CallFrom(g)
    PROVE  VerdictInv'
<1>1. PICK a \in CallsOf[g] : stack' = [stack EXCEPT ![g] = <<Frame(a)>>]
  BY DEF CallFrom
<1>2. a \in Call
  BY CallAssumption
<1>3. answer' = [answer EXCEPT ![g] = NoAnswer] /\ UNCHANGED <<uses, owner, types, tagged>>
  BY DEF CallFrom
<1> DEFINE n == Frame(a)
<1>4. n \in Frames /\ Collected(n, types[n.on])
  BY <1>2, FrameStarts
<1> HIDE DEF n
<1>5. <<n>> \in Seq(Frames) /\ CallsNest(<<n>>, types)
  BY <1>4, NestOne
<1>6. /\ stack' \in [Goroutines -> Seq(Frames)]
      /\ \A u \in Goroutines : CallsNest(stack'[u], types')
  BY <1>1, <1>3, <1>5, StackChanges DEF n
<1>7. NoAnswer \in Answer /\ ByValue(NoAnswer)
  BY DEF NoAnswer, Answer, ByValue
<1>8. answer' \in [Goroutines -> Answer] /\ VerdictByValue'
  BY <1>3, <1>7, AnswerChanges
<1>9. TypeOK'
  BY <1>3, <1>6, <1>8 DEF VerdictInv, TypeOK
<1> QED BY <1>6, <1>8, <1>9 DEF VerdictInv

\* Struct registers the types that it will need, and nobody's types are lost.
LEMMA StructStartsStep ==
    ASSUME VerdictInv, NEW g \in Goroutines, StructStarts(g)
    PROVE  VerdictInv'
<1> DEFINE f == Top(g)
           found == {i \in DOMAIN f.value : Visited(f.value[i])}
           n == [f EXCEPT !.locked = TRUE, !.skip = {i \in found : Skipped(f.value[i])}]
           new == {f.value[i].type : i \in found}
<1>1. /\ stack[g] # <<>> /\ ~f.locked /\ owner' = [owner EXCEPT ![f.on] = g]
      /\ types' = [types EXCEPT ![f.on] = @ \cup new] /\ stack' = WithTop(g, n)
      /\ UNCHANGED <<uses, tagged, answer>>
  BY DEF StructStarts
<1>2. /\ stack[g] \in Seq(Frames) /\ CallsNest(stack[g], types)
      /\ f \in Frames /\ f.on \in Validators /\ Collected(f, types[f.on])
  BY <1>1, TopCall
<1> HIDE DEF f
<1>3. new \subseteq STRING /\ \A i \in DOMAIN f.value : Visited(f.value[i]) => f.value[i].type \in new
  <2>1. \A i \in DOMAIN f.value : f.value[i] \in Field
    BY <1>2 DEF Frames
  <2>2. \A i \in DOMAIN f.value : f.value[i].type \in STRING
    BY <2>1 DEF Field
  <2> QED BY <2>2
<1> HIDE DEF new
<1>4. /\ types' \in [Validators -> SUBSET STRING] /\ types'[f.on] = types[f.on] \cup new
      /\ \A v \in Validators : types[v] \subseteq types'[v]
  BY <1>1, <1>2, <1>3 DEF VerdictInv, TypeOK
<1>5. n \in Frames /\ n.on = f.on /\ Collected(n, types'[f.on])
  <2> DEFINE more == types'[f.on]
  <2>1. \A i \in DOMAIN f.value : Visited(f.value[i]) => f.value[i].type \in more
    BY <1>3, <1>4
  <2> HIDE DEF more
  <2>2. n \in Frames /\ n.on = f.on /\ Collected(n, more)
    BY <1>1, <1>2, <2>1, FrameLocks
  <2> QED BY <2>2 DEF more
<1> DEFINE c == Append(SubSeq(stack[g], 1, Len(stack[g]) - 1), n)
<1>6. stack' = [stack EXCEPT ![g] = c]
  BY <1>1 DEF WithTop, Outer
<1> HIDE DEF n
<1>7. CallsNest(stack[g], types')
  BY <1>2, <1>4, NestKeeps
<1>8. c \in Seq(Frames) /\ CallsNest(c, types')
  BY <1>1, <1>2, <1>5, <1>7, NestTop
<1> HIDE DEF c
<1>9. /\ stack' \in [Goroutines -> Seq(Frames)]
      /\ \A u \in Goroutines : CallsNest(stack'[u], types')
  BY <1>4, <1>6, <1>8, StackChanges
<1>10. VerdictByValue'
  BY <1>1 DEF VerdictInv, VerdictByValue, ByValue
<1>11. owner' \in [Validators -> Goroutines \cup {Unlocked}]
  BY <1>1 DEF VerdictInv, TypeOK
<1>12. TypeOK'
  BY <1>1, <1>4, <1>9, <1>11 DEF VerdictInv, TypeOK
<1> QED BY <1>9, <1>10, <1>12 DEF VerdictInv

\* A goroutine that leaves its last call, with an answer that the value decides.
LEMMA CallReturns ==
    ASSUME VerdictInv, NEW g \in Goroutines, stack' = [stack EXCEPT ![g] = <<>>],
           NEW a \in Answer, answer' = [answer EXCEPT ![g] = a],
           ByValue(a),
           owner' \in [Validators -> Goroutines \cup {Unlocked}],
           tagged' \in [Validators -> BOOLEAN], UNCHANGED <<uses, types>>
    PROVE  VerdictInv'
<1>1. <<>> \in Seq(Frames) /\ CallsNest(<<>>, types')
  BY NestEmpty
<1>2. /\ stack' \in [Goroutines -> Seq(Frames)]
      /\ \A u \in Goroutines : CallsNest(stack'[u], types')
  BY <1>1, StackChanges
<1>3. answer' \in [Goroutines -> Answer] /\ VerdictByValue'
  BY AnswerChanges
<1>4. TypeOK'
  BY <1>2, <1>3 DEF VerdictInv, TypeOK
<1> QED BY <1>2, <1>3, <1>4 DEF VerdictInv

\* RegisterValidation returns without a value.
LEMMA RegisterStep ==
    ASSUME VerdictInv, NEW g \in Goroutines, Register(g)
    PROVE  VerdictInv'
<1> DEFINE a == [verdict |-> "ok", value |-> <<>>]
<1>1. a \in Answer /\ a.verdict = "ok" /\ a.value = <<>>
  BY DEF Answer
<1>2. /\ stack' = [stack EXCEPT ![g] = <<>>] /\ answer' = [answer EXCEPT ![g] = a]
      /\ tagged' = [tagged EXCEPT ![Top(g).on] = TRUE] /\ UNCHANGED <<uses, owner, types>>
  BY DEF Register
<1> HIDE DEF a
<1>3. ~Rejected(a.value)
  BY <1>1 DEF Rejected
<1>4. owner' \in [Validators -> Goroutines \cup {Unlocked}] /\ tagged' \in [Validators -> BOOLEAN]
  BY <1>2 DEF VerdictInv, TypeOK
<1>5. ByValue(a)
  BY <1>1, <1>3 DEF ByValue
<1> QED BY <1>1, <1>2, <1>4, <1>5, CallReturns
\* A value with a custom rule is not an ordinary one.
LEMMA CustomIsApart ==
    ASSUME NEW f \in Frames, f.at < Len(f.value), f.value[f.at + 1].rule = "custom"
    PROVE  ~Ordinary(f.value) /\ ~Decided(f.value[f.at + 1])
<1>1. f.value \in Seq(Field) /\ f.at \in Nat
  BY DEF Frames
<1>2. f.at + 1 \in DOMAIN f.value
  BY <1>1
<1> QED BY <1>2 DEF Ordinary, Decided

\* A custom rule is not about an ordinary value, and the calls below it start anew.
LEMMA RunCustomStep ==
    ASSUME VerdictInv, NEW g \in Goroutines, RunCustom(g)
    PROVE  VerdictInv'
<1> DEFINE f == Top(g)
<1>1. /\ stack[g] # <<>> /\ f.locked /\ f.at < Len(f.value) /\ f.value[f.at + 1].rule = "custom"
      /\ UNCHANGED <<uses, owner, types, tagged, answer>>
  BY Zenon DEF RunCustom, Validating, Custom, Current
<1>2. /\ stack[g] \in Seq(Frames) /\ CallsNest(stack[g], types)
      /\ f \in Frames /\ Collected(f, types[f.on])
  BY <1>1, TopCall
<1>3. \/ stack' = WithTop(g, Onward(f, FALSE))
      \/ \E v \in Validators :
            stack' = [stack EXCEPT ![g] = Append(@, Frame([op |-> "struct", on |-> v, value |-> Nested]))]
  BY Zenon DEF RunCustom
<1>4. CASE stack' = WithTop(g, Onward(f, FALSE))
  <2> DEFINE n == Onward(f, FALSE)
  <2> HIDE DEF f
  <2>1. ~Ordinary(f.value) /\ ~Decided(f.value[f.at + 1])
    BY <1>1, <1>2, CustomIsApart
  <2>2. n \in Frames /\ Collected(n, types[f.on]) /\ n.on = f.on
    BY <1>1, <1>2, <2>1, FrameMovesOn
  <2>3. stack' = WithTop(g, n)
    BY <1>4
  <2> HIDE DEF n
  <2> QED BY <1>1, <2>2, <2>3, TopMoves
<1>5. ASSUME NEW v \in Validators,
             stack' = [stack EXCEPT ![g] = Append(@, Frame([op |-> "struct", on |-> v, value |-> Nested]))]
      PROVE  VerdictInv'
  <2> DEFINE a == [op |-> "struct", on |-> v, value |-> Nested]
             n == Frame(a)
             c == Append(stack[g], n)
  <2>1. a \in Call
    BY CallAssumption DEF Call
  <2>2. stack' = [stack EXCEPT ![g] = c]
    BY <1>5
  <2> HIDE DEF a
  <2>3. n \in Frames /\ Collected(n, types[n.on])
    BY <2>1, FrameStarts
  <2> HIDE DEF n
  <2>4. AtCustom(stack[g][Len(stack[g])])
    BY <1>1 DEF AtCustom, Top
  <2>5. c \in Seq(Frames) /\ CallsNest(c, types)
    BY <1>1, <1>2, <2>3, <2>4, NestCall
  <2> HIDE DEF c
  <2>6. types' = types
    BY <1>1
  <2>7. /\ stack' \in [Goroutines -> Seq(Frames)]
        /\ \A u \in Goroutines : CallsNest(stack'[u], types')
    BY <2>2, <2>5, <2>6, StackChanges
  <2>8. VerdictByValue'
    BY <1>1 DEF VerdictInv, VerdictByValue, ByValue
  <2>9. TypeOK'
    BY <1>1, <2>7 DEF VerdictInv, TypeOK
  <2> QED BY <2>7, <2>8, <2>9 DEF VerdictInv
<1> QED BY <1>3, <1>4, <1>5, Zenon

\* A panic comes from a custom rule, from a field that was not visited, or from
\* below a custom rule.
LEMMA PanicsStep ==
    ASSUME VerdictInv, NEW g \in Goroutines, Panics(g)
    PROVE  VerdictInv'
<1> DEFINE f == Top(g)
           e == f.value[f.at + 1]
           a == [verdict |-> "panic", value |-> stack[g][1].value]
<1>1. /\ stack[g] # <<>> /\ f.locked /\ f.at < Len(f.value)
      /\ stack' = [stack EXCEPT ![g] = <<>>] /\ answer' = [answer EXCEPT ![g] = a]
      /\ owner' = [v \in Validators |-> IF owner[v] = g THEN Unlocked ELSE owner[v]]
      /\ UNCHANGED <<uses, types, tagged>>
  BY DEF Panics, Validating
<1>2. e.rule = "custom" \/ "panic" \in Outcomes(e, types[f.on])
  BY DEF Panics, Custom, Current
<1>3. /\ stack[g] \in Seq(Frames) /\ CallsNest(stack[g], types)
      /\ f \in Frames /\ Collected(f, types[f.on])
  BY <1>1, TopCall
<1>4. 1 \in DOMAIN stack[g] /\ stack[g][1] \in Frames
  BY <1>1, <1>3, SomeLength
<1>5. ~Ordinary(stack[g][1].value)
  <2>1. CASE 1 = Len(stack[g])
    <3>1. f = stack[g][1]
      BY <2>1 DEF Top
    <3> HIDE DEF f
    <3>2. CASE e.rule = "custom"
      BY <1>1, <1>3, <3>1, <3>2, CustomIsApart
    <3>3. CASE "panic" \in Outcomes(e, types[f.on])
      <4>1. e.type \notin types[f.on]
        BY <3>3 DEF Outcomes
      <4>2. f.at + 1 \in DOMAIN f.value /\ ~Visited(e)
        BY <1>1, <1>3, <4>1, FieldReached
      <4> QED BY <3>1, <4>2 DEF Ordinary, Decided
    <3> QED BY <1>2, <3>2, <3>3
  <2>2. CASE 1 # Len(stack[g])
    <3>1. 1 < Len(stack[g])
      BY <1>1, <1>3, <2>2, SomeLength
    <3>2. AtCustom(stack[g][1])
      BY <1>3, <1>4, <3>1, Zenon DEF CallsNest
    <3> QED BY <1>4, <3>2, CustomIsApart DEF AtCustom
  <2> QED BY <2>1, <2>2
<1>6. stack[g][1].value \in Seq(Field)
  BY <1>4 DEF Frames
<1>7. a \in Answer /\ a.verdict = "panic" /\ a.value = stack[g][1].value
  BY <1>6 DEF Answer
<1>8. owner' \in [Validators -> Goroutines \cup {Unlocked}] /\ tagged' \in [Validators -> BOOLEAN]
  BY <1>1 DEF VerdictInv, TypeOK
<1>9. ByValue(a)
  BY <1>5, <1>7 DEF ByValue
<1> HIDE DEF a, f
<1> QED BY <1>1, <1>7, <1>8, <1>9, CallReturns

\* Struct returns all failures to its caller, or one more to the custom rule that called.
LEMMA StructReturnsStep ==
    ASSUME VerdictInv, NEW g \in Goroutines, StructReturns(g)
    PROVE  VerdictInv'
<1> DEFINE f == Top(g)
<1>1. /\ stack[g] # <<>> /\ f.locked /\ f.at = Len(f.value)
      /\ owner' = [owner EXCEPT ![f.on] = Unlocked] /\ UNCHANGED <<uses, types, tagged>>
  BY DEF StructReturns, Validating
<1>2. /\ stack[g] \in Seq(Frames) /\ CallsNest(stack[g], types)
      /\ f \in Frames /\ Collected(f, types[f.on])
  BY <1>1, TopCall
<1>3. owner' \in [Validators -> Goroutines \cup {Unlocked}] /\ tagged' \in [Validators -> BOOLEAN]
  BY <1>1 DEF VerdictInv, TypeOK
<1>4. CASE Len(stack[g]) = 1
  <2> DEFINE a == [verdict |-> IF f.bad THEN "invalid" ELSE "ok", value |-> f.value]
  <2>1. stack' = [stack EXCEPT ![g] = <<>>] /\ answer' = [answer EXCEPT ![g] = a]
    BY <1>4 DEF StructReturns
  <2> HIDE DEF f
  <2>2. f.value \in Seq(Field) /\ f.bad \in BOOLEAN
    BY <1>2 DEF Frames
  <2>3. a \in Answer /\ a.value = f.value /\ a.verdict = IF f.bad THEN "invalid" ELSE "ok"
    BY <2>2 DEF Answer
  <2>4. (Rejected(f.value) => f.bad) /\ (Ordinary(f.value) /\ f.bad => Rejected(f.value))
    <3>1. DOMAIN f.value = 1 .. f.at
      BY <1>1, <2>2
    <3>2. Failing(f) <=> Rejected(f.value)
      BY <3>1 DEF Failing, Rejected
    <3> QED BY <1>2, <3>2 DEF Collected
  <2> HIDE DEF a
  <2>5. ByValue(a)
    BY <2>3, <2>4 DEF ByValue
  <2> QED BY <1>1, <1>3, <2>1, <2>3, <2>5, CallReturns
<1>5. CASE Len(stack[g]) # 1
  <2> DEFINE k == stack[g][Len(stack[g]) - 1]
             b == f.bad
             n == Onward(k, b)
             c == Append(SubSeq(stack[g], 1, Len(stack[g]) - 2), n)
  <2>1. stack' = [stack EXCEPT ![g] = c] /\ answer' = answer
    BY <1>5 DEF StructReturns
  <2>2. b \in BOOLEAN
    BY <1>2 DEF Frames
  <2>3. Len(stack[g]) >= 2 /\ Len(stack[g]) - 1 \in DOMAIN stack[g] /\ Len(stack[g]) - 1 < Len(stack[g])
    BY <1>1, <1>2, <1>5, SomeLength
  <2>4. k \in Frames /\ Collected(k, types[k.on]) /\ AtCustom(k)
    <3>1. k \in Frames
      BY <1>2, <2>3
    <3> QED BY <1>2, <2>3, <3>1, Zenon DEF CallsNest
  <2> HIDE DEF k, b
  <2>5. k.locked /\ k.at < Len(k.value) /\ ~Ordinary(k.value) /\ ~Decided(k.value[k.at + 1])
    BY <2>4, CustomIsApart DEF AtCustom
  <2>6. n \in Frames /\ Collected(n, types[k.on]) /\ n.on = k.on
    BY <2>2, <2>4, <2>5, FrameMovesOn
  <2> HIDE DEF n
  <2>7. c \in Seq(Frames) /\ CallsNest(c, types)
    BY <1>2, <2>3, <2>6, NestReturn
  <2> HIDE DEF c
  <2>8. types' = types
    BY <1>1
  <2>9. /\ stack' \in [Goroutines -> Seq(Frames)]
        /\ \A u \in Goroutines : CallsNest(stack'[u], types')
    BY <2>1, <2>7, <2>8, StackChanges
  <2>10. VerdictByValue'
    BY <2>1 DEF VerdictInv, VerdictByValue, ByValue
  <2>11. TypeOK'
    BY <1>1, <1>3, <2>1, <2>9 DEF VerdictInv, TypeOK
  <2> QED BY <2>9, <2>10, <2>11 DEF VerdictInv
<1> QED BY <1>4, <1>5

----------------------------------------------------------------------------
\* New validators know no types, and nobody has an answer.
LEMMA ValidatorStarts ==
    ASSUME ValidatorInit
    PROVE  VerdictInv
<1>1. NoAnswer \in Answer /\ NoAnswer.verdict = "none"
  BY DEF NoAnswer, Answer
<1>2. TypeOK
  BY <1>1 DEF ValidatorInit, TypeOK
<1>3. VerdictByValue
  BY <1>1 DEF ValidatorInit, VerdictByValue, ByValue
<1>4. \A g \in Goroutines : stack[g] = <<>>
  BY DEF ValidatorInit
<1>5. \A g \in Goroutines : CallsNest(stack[g], types)
  BY <1>4, NestEmpty
<1> QED BY <1>2, <1>3, <1>5 DEF VerdictInv

\* Every step of every goroutine preserves VerdictInv.
LEMMA ValidatorStep ==
    ASSUME VerdictInv, [ValidatorNext]_validatorVars
    PROVE  VerdictInv'
<1>1. CASE UNCHANGED validatorVars
  BY <1>1 DEF validatorVars, VerdictInv, TypeOK, VerdictByValue, ByValue
<1>2. ASSUME NEW g \in Goroutines, CallFrom(g) \/ Starts(g) \/ Runs(g)
      PROVE  VerdictInv'
  BY <1>2, CallFromStep, StructStartsStep, RegisterStep, SkipFieldStep, CheckFieldStep, RunCustomStep,
     PanicsStep, StructReturnsStep DEF Starts, Runs
<1> QED BY <1>1, <1>2 DEF ValidatorNext

\* A value with a field that Struct finds and must reject is never accepted, and the
\* verdict on a value of such fields only depends on the value alone
\* (validx.go:50-68, 77-147): whichever goroutines share whichever validators, whatever
\* they validate or register before, and whatever their custom rules call.
THEOREM VerdictsByValue == ValidatorSpec => []VerdictByValue
<1>1. ValidatorInit => VerdictInv
  BY ValidatorStarts
<1>2. VerdictInv /\ [ValidatorNext]_validatorVars => VerdictInv'
  BY ValidatorStep
<1>3. VerdictInv => VerdictByValue
  BY DEF VerdictInv
<1> QED BY <1>1, <1>2, <1>3, PTL DEF ValidatorSpec
============================================================================
