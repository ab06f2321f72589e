------------------------- MODULE MemoryCacheProofs -------------------------
(***************************************************************************)
(* Proofs about cachex.Memory for any number of goroutines, keys, values   *)
(* and TTLs: type correctness, the inductive invariant WindowInv, that     *)
(* lazy eviction drops no live entry, and that the cache implements the    *)
(* contract of cachex.Cache.                                               *)
(***************************************************************************)
EXTENDS MemoryCacheContract, TLAPS

USE KeyAssumption, TTLAssumption, TimeAssumption

\* The calls a program makes are well formed, and none of them is NoCall.
LEMMA CallsAreCalls == \A a \in Calls : a \in Call /\ a # NoCall
BY NoCallAssumption DEF Calls, Call, GetCall, SetCall, DeleteCall

\* The fields of a call.
LEMMA CallFields == \A a \in Call : a.ttl \in Int /\ a.key \in Keys
<1> SUFFICES ASSUME NEW a \in Call PROVE a.ttl \in Int /\ a.key \in Keys
  OBVIOUS
<1>1. a.ttl \in TTLs \cup {0} /\ a.key \in Keys
  BY DEF Call
<1>2. \A d \in TTLs : d \in Int
  BY TTLAssumption
<1>3. CASE a.ttl \in TTLs
  BY <1>1, <1>2, <1>3
<1>4. CASE a.ttl = 0
  BY <1>1, <1>4
<1> QED BY <1>1, <1>3, <1>4

\* An entry and Nothing are told apart.
LEMMA EntryIsSomething == Nothing \notin Entry /\ Nothing \notin Values
BY NothingAssumption

\* A Return keeps the types when the answer is one.
LEMMA ReturnType ==
    ASSUME TypeOK, NEW t \in Threads, NEW r \in Answer, Return(t, r)
    PROVE  /\ pc' \in [Threads -> PC]
           /\ call' \in [Threads -> Call \cup {NoCall}]
           /\ item' \in [Threads -> Entry \cup {Nothing}]
           /\ answer' \in [Threads -> Answer]
BY DEF TypeOK, Return, PC

\* Every step of MemoryCache keeps TypeOK, given what the goroutines carry
\* between their steps (the map is indexed with the key of a pending call).
LEMMA TypeStep ==
    ASSUME TypeOK, WindowInv, [Next]_vars
    PROVE  TypeOK'
<1>plain. \A k \in {"none", "miss", "ok", "canceled", "badkey"} : Plain(k) \in Answer
  BY DEF Plain, Answer
<1>hit. \A e \in Entry : Hit(e.value) \in Answer
  BY DEF Hit, Answer, Entry
<1>call. \A t \in Threads : pc[t] # "idle" => call[t] \in Call
  BY DEF TypeOK, WindowInv, PcMatchesCall
<1>1. CASE Tick
  BY <1>1 DEF Tick, TypeOK
<1>2. ASSUME NEW t \in Threads, Invoke(t) PROVE TypeOK'
  <2>1. PICK a \in Calls : /\ call' = [call EXCEPT ![t] = a]
                           /\ pc' = [pc EXCEPT ![t] = a.op]
    BY <1>2 DEF Invoke
  <2>2. a \in Call /\ a.op \in PC
    BY CallsAreCalls DEF Call, PC
  <2> QED BY <1>2, <1>plain, <2>1, <2>2 DEF Invoke, TypeOK
<1>3. ASSUME NEW t \in Threads, Canceled(t) PROVE TypeOK'
  BY <1>3, <1>plain, ReturnType DEF Canceled, TypeOK
<1>4. ASSUME NEW t \in Threads, EmptyKeyError(t) PROVE TypeOK'
  BY <1>4, <1>plain, ReturnType DEF EmptyKeyError, TypeOK
<1>5. ASSUME NEW t \in Threads, GetRead(t) PROVE TypeOK'
  <2> DEFINE e == entries[call[t].key]
  <2>1. e \in Entry \cup {Nothing}
    BY <1>5, <1>call DEF GetRead, TypeOK, Call
  <2>2. CASE e = Nothing
    BY <1>5, <2>2, <1>plain, ReturnType DEF GetRead, TypeOK
  <2>3. CASE e # Nothing /\ e.expiresAt = 0
    BY <1>5, <2>1, <2>3, <1>hit, ReturnType DEF GetRead, TypeOK
  <2>4. CASE e # Nothing /\ e.expiresAt # 0
    BY <1>5, <2>1, <2>4 DEF GetRead, TypeOK, PC
  <2> QED BY <2>2, <2>3, <2>4
<1>6. ASSUME NEW t \in Threads, GetCheck(t) PROVE TypeOK'
  <2>1. item[t] \in Entry
    BY <1>6 DEF GetCheck, TypeOK, WindowInv, CopyOverlaps
  <2> QED BY <1>6, <2>1, <1>hit, ReturnType DEF GetCheck, TypeOK, PC
<1>7. ASSUME NEW t \in Threads, GetEvict(t) PROVE TypeOK'
  BY <1>7, <1>plain, ReturnType DEF GetEvict, TypeOK
<1>8. ASSUME NEW t \in Threads, SetBuild(t) PROVE TypeOK'
  <2>1. call[t] \in Call /\ call[t].value \in Values /\ call[t].ttl \in Int
    BY <1>8, <1>call, CallFields DEF SetBuild, WindowInv, PcMatchesCall
  <2>2. CASE call[t].ttl < 0
    BY <1>8, <2>2 DEF SetBuild, TypeOK, PC
  <2>3. CASE ~(call[t].ttl < 0)
    <3>1. [value |-> call[t].value,
           expiresAt |-> IF call[t].ttl > 0 THEN now + call[t].ttl ELSE 0] \in Entry
      BY <2>1, <2>3 DEF TypeOK, Entry
    <3> QED BY <1>8, <2>3, <3>1 DEF SetBuild, TypeOK, PC
  <2> QED BY <2>2, <2>3
<1>9. ASSUME NEW t \in Threads, SetStore(t) PROVE TypeOK'
  BY <1>9, <1>plain, ReturnType DEF SetStore, TypeOK
<1>10. ASSUME NEW t \in Threads, DeleteRemove(t) PROVE TypeOK'
  BY <1>10, <1>plain, ReturnType DEF DeleteRemove, TypeOK
<1>11. CASE UNCHANGED vars
  BY <1>11 DEF vars, TypeOK
<1> QED
  BY <1>1, <1>2, <1>3, <1>4, <1>5, <1>6, <1>7, <1>8, <1>9, <1>10, <1>11
     DEF Next, Step

----------------------------------------------------------------------------
\* The steps with their history: a step of one goroutine, or of the clock,
\* leaves the others' registers alone, and the clock does not go back.
LEMMA SeesPresentStep ==
    ASSUME TypeOKH, Observe, NEW t \in Threads
    PROVE  SeesPresent(t)'
BY DEF TypeOKH, Observe, SeesPresent

\* What a goroutine carries survives the steps of the others.
LEMMA Frame ==
    ASSUME TypeOKH, TypeOK', WindowInv, Observe, now' >= now, NEW u \in Threads,
           pc'[u] = pc[u], call'[u] = call[u], item'[u] = item[u],
           since'[u] = since[u]
    PROVE  /\ PcMatchesCall(u)'
           /\ CopyOverlaps(u)'
           /\ BuiltFromCall(u)'
<1>1. PcMatchesCall(u)'
  BY DEF WindowInv, PcMatchesCall
<1>2. pc[u] # "idle" => seen[u] \subseteq seen'[u]
  BY DEF TypeOKH, Observe, WindowInv, PcMatchesCall
<1>3. item[u] \in Entry /\ Expired(item[u], now) => Expired(item[u], now')
  BY DEF TypeOKH, TypeOK, Expired, Entry
<1>4. CopyOverlaps(u)'
  BY <1>2, <1>3 DEF WindowInv, CopyOverlaps, TypeOKH, TypeOK
<1>5. BuiltFromCall(u)'
  <2>1. since[u] <= now'
    BY DEF WindowInv, BuiltFromCall, TypeOKH, TypeOK
  <2>2. ASSUME pc[u] = "store" PROVE
          item[u].expiresAt \in
                IF call[u].ttl = 0 THEN {0}
                ELSE (since[u] + call[u].ttl) .. (now' + call[u].ttl)
    <3>1. call[u].ttl \in Int
      BY <2>2, CallFields DEF WindowInv, PcMatchesCall, TypeOKH, TypeOK
    <3> QED BY <2>2, <3>1 DEF WindowInv, BuiltFromCall, TypeOKH, TypeOK
  <2> QED BY <2>1, <2>2 DEF WindowInv, BuiltFromCall
<1> QED BY <1>1, <1>4, <1>5

\* A goroutine that has returned carries nothing.
LEMMA ReturnWindow ==
    ASSUME TypeOKH, TypeOK', NEW t \in Threads, NEW r, Return(t, r),
           since'[t] <= now'
    PROVE  PcMatchesCall(t)' /\ CopyOverlaps(t)' /\ BuiltFromCall(t)'
<1>1. pc'[t] = "idle" /\ call'[t] = NoCall
  BY DEF TypeOKH, TypeOK, Return
<1> QED BY <1>1 DEF PcMatchesCall, CopyOverlaps, BuiltFromCall

\* The actions of goroutine t leave the registers of the others alone.
LEMMA OthersUnchanged ==
    ASSUME TypeOKH, NEW t \in Threads, StepH(t), NEW u \in Threads, u # t
    PROVE  /\ pc'[u] = pc[u] /\ call'[u] = call[u] /\ item'[u] = item[u]
           /\ since'[u] = since[u]
BY DEF TypeOKH, TypeOK, StepH, Step, Invoke, Canceled, EmptyKeyError, GetRead,
       GetCheck, GetEvict, SetBuild, SetStore, DeleteRemove, Return

\* The step of goroutine t keeps what it carries itself.
LEMMA OwnWindow ==
    ASSUME TypeOKH, TypeOK', WindowInv, NEW t \in Threads, StepH(t)
    PROVE  PcMatchesCall(t)' /\ CopyOverlaps(t)' /\ BuiltFromCall(t)'
<1>now. now' = now /\ since[t] <= now /\ since'[t] <= now'
  BY DEF StepH, Step, Invoke, Canceled, EmptyKeyError, GetRead, GetCheck,
         GetEvict, SetBuild, SetStore, DeleteRemove, TypeOKH, TypeOK,
         WindowInv, BuiltFromCall
<1>ret. ASSUME NEW r, Return(t, r)
        PROVE  PcMatchesCall(t)' /\ CopyOverlaps(t)' /\ BuiltFromCall(t)'
  BY <1>ret, <1>now, ReturnWindow
<1>1. CASE Invoke(t)
  <2>1. PICK a \in Calls : /\ call' = [call EXCEPT ![t] = a]
                           /\ pc' = [pc EXCEPT ![t] = a.op]
    BY <1>1 DEF Invoke
  <2>2. /\ a # NoCall /\ a.op \in {"get", "set", "delete"}
        /\ a.op = "set" => a.value \in Values
    <3>1. a # NoCall
      BY CallsAreCalls
    <3>2. CASE a \in {GetCall(k) : k \in Keys}
      BY <3>1, <3>2 DEF GetCall
    <3>3. CASE a \in {SetCall(k, v, d) : k \in Keys, v \in Values, d \in TTLs}
      BY <3>1, <3>3 DEF SetCall
    <3>4. CASE a \in {DeleteCall(k) : k \in Keys}
      BY <3>1, <3>4 DEF DeleteCall
    <3> QED BY <3>2, <3>3, <3>4 DEF Calls
  <2>3. pc'[t] = a.op /\ call'[t] = a
    BY <2>1 DEF TypeOKH, TypeOK
  <2> QED BY <2>2, <2>3, <1>now DEF PcMatchesCall, CopyOverlaps, BuiltFromCall
<1>2. CASE Canceled(t) \/ EmptyKeyError(t) \/ GetEvict(t) \/ SetStore(t) \/ DeleteRemove(t)
  BY <1>2, <1>ret DEF Canceled, EmptyKeyError, GetEvict, SetStore, DeleteRemove
<1>3. CASE GetRead(t)
  <2> DEFINE e == entries[call[t].key]
  <2>1. CASE e = Nothing \/ e.expiresAt = 0
    BY <1>3, <1>ret, <2>1 DEF GetRead
  <2>2. CASE e # Nothing /\ e.expiresAt # 0
    <3>1. /\ pc'[t] = "check" /\ item'[t] = e /\ call'[t] = call[t]
          /\ seen[t] \subseteq seen'[t]
      BY <1>3, <2>2 DEF GetRead, TypeOKH, TypeOK, WindowInv, PcMatchesCall,
                        StepH, Observe
    <3>2. Visible(e, now) \in seen[t]
      BY <1>3 DEF GetRead, WindowInv, PcMatchesCall, SeesPresent
    <3>3. CopyOverlaps(t)'
      BY <2>2, <3>1, <3>2, <1>now DEF CopyOverlaps, Visible
    <3> QED BY <1>3, <1>now, <3>1, <3>3
            DEF GetRead, WindowInv, PcMatchesCall, BuiltFromCall
  <2> QED BY <2>1, <2>2
<1>4. CASE GetCheck(t)
  <2>1. CASE ~Expired(item[t], now)
    BY <1>4, <1>ret, <2>1 DEF GetCheck
  <2>2. CASE Expired(item[t], now)
    <3>1. /\ pc'[t] = "evict" /\ item'[t] = item[t] /\ call'[t] = call[t]
          /\ seen[t] \subseteq seen'[t]
      BY <1>4, <2>2 DEF GetCheck, TypeOKH, TypeOK, WindowInv, PcMatchesCall,
                        StepH, Observe
    <3> QED BY <1>4, <2>2, <3>1, <1>now
            DEF GetCheck, WindowInv, PcMatchesCall, CopyOverlaps, BuiltFromCall
  <2> QED BY <2>1, <2>2
<1>5. CASE SetBuild(t)
  <2>1. call[t] \in Call /\ call'[t] = call[t] /\ call[t].ttl \in Int
    BY <1>5, CallFields DEF SetBuild, TypeOKH, TypeOK, WindowInv, PcMatchesCall
  <2>2. CASE call[t].ttl < 0
    <3>1. pc'[t] = "delete"
      BY <1>5, <2>2 DEF SetBuild, TypeOKH, TypeOK
    <3> QED BY <1>5, <2>1, <2>2, <3>1, <1>now
            DEF SetBuild, WindowInv, PcMatchesCall, CopyOverlaps, BuiltFromCall
  <2>3. CASE ~(call[t].ttl < 0)
    <3>1. /\ pc'[t] = "store"
          /\ item'[t] = [value |-> call[t].value,
               expiresAt |-> IF call[t].ttl > 0 THEN now + call[t].ttl ELSE 0]
      BY <1>5, <2>3 DEF SetBuild, TypeOKH, TypeOK
    <3>2. PcMatchesCall(t)' /\ CopyOverlaps(t)'
      BY <1>5, <2>1, <2>3, <3>1
         DEF SetBuild, WindowInv, PcMatchesCall, CopyOverlaps
    <3>3. item'[t] # Nothing
      <4>1. item'[t] \in Entry
        BY <1>5, <2>1, <2>3, <3>1
           DEF SetBuild, WindowInv, PcMatchesCall, TypeOKH, TypeOK, Entry
      <4> QED BY <4>1, EntryIsSomething
    <3>4. since'[t] = since[t] /\ since[t] \in Int /\ now \in Int
      BY <1>5, <3>1 DEF SetBuild, StepH, TypeOKH, TypeOK
    <3>5. item'[t].expiresAt \in
                IF call'[t].ttl = 0 THEN {0}
                ELSE (since'[t] + call'[t].ttl) .. (now' + call'[t].ttl)
      BY <1>now, <2>1, <2>3, <3>1, <3>4
    <3> QED BY <1>now, <2>1, <3>1, <3>2, <3>3, <3>5 DEF BuiltFromCall
  <2> QED BY <2>2, <2>3
<1> QED BY <1>1, <1>2, <1>3, <1>4, <1>5 DEF StepH, Step

\* The history variables keep their types.
LEMMA HistoryType ==
    ASSUME TypeOKH, TypeOK', WindowInv', [NextH]_varsH,
           \A t \in Threads : call'[t] # NoCall => call'[t] \in Call
    PROVE  TypeOKH'
<1>1. ASSUME Observe PROVE seen' \in [Threads -> SUBSET (Entry \cup {Nothing})]
  <2>1. \A t \in Threads : call'[t] # NoCall =>
          Visible(entries'[call'[t].key], now') \in Entry \cup {Nothing}
    BY CallFields DEF Visible, TypeOK
  <2>2. \A t \in Threads :
          (IF call'[t] = NoCall THEN {}
           ELSE seen[t] \cup {Visible(entries'[call'[t].key], now')})
             \in SUBSET (Entry \cup {Nothing})
    BY <2>1 DEF TypeOKH
  <2> QED BY <1>1, <2>2 DEF Observe
<1>2. CASE TickH
  BY <1>1, <1>2 DEF TickH, TypeOKH
<1>3. ASSUME NEW t \in Threads, StepH(t) PROVE TypeOKH'
  BY <1>1, <1>3 DEF StepH, TypeOKH, TypeOK
<1>4. CASE UNCHANGED varsH
  BY <1>4 DEF varsH, TypeOKH
<1> QED BY <1>2, <1>3, <1>4 DEF NextH

\* Every step keeps the inductive invariant.
LEMMA InvStep == TypeOKH /\ WindowInv /\ [NextH]_varsH => TypeOKH' /\ WindowInv'
<1> SUFFICES ASSUME TypeOKH, WindowInv, [NextH]_varsH PROVE TypeOKH' /\ WindowInv'
  OBVIOUS
<1>1. TypeOK'
  <2>1. [Next]_vars
    BY DEF NextH, TickH, StepH, Next, varsH, vars
  <2> QED BY <2>1, TypeStep DEF TypeOKH
<1>2. WindowInv'
  <2>1. CASE TickH
    <3>1. ASSUME NEW u \in Threads
          PROVE (PcMatchesCall(u) /\ CopyOverlaps(u) /\ SeesPresent(u) /\ BuiltFromCall(u))'
      BY <1>1, <2>1, Frame, SeesPresentStep DEF TickH, Tick, TypeOKH, TypeOK
    <3> QED BY <3>1 DEF WindowInv
  <2>2. ASSUME NEW t \in Threads, StepH(t) PROVE WindowInv'
    <3>1. now' = now /\ now \in Int /\ Observe
      BY <2>2 DEF StepH, Step, Invoke, Canceled, EmptyKeyError, GetRead, GetCheck,
                  GetEvict, SetBuild, SetStore, DeleteRemove, TypeOKH, TypeOK
    <3>2. ASSUME NEW u \in Threads
          PROVE (PcMatchesCall(u) /\ CopyOverlaps(u) /\ SeesPresent(u) /\ BuiltFromCall(u))'
      <4>1. CASE u = t
        BY <1>1, <2>2, <3>1, <4>1, OwnWindow, SeesPresentStep
      <4>2. CASE u # t
        BY <1>1, <2>2, <3>1, <4>2, OthersUnchanged, Frame, SeesPresentStep
      <4> QED BY <4>1, <4>2
    <3> QED BY <3>2 DEF WindowInv
  <2>3. CASE UNCHANGED varsH
    BY <2>3 DEF varsH, WindowInv, PcMatchesCall, CopyOverlaps, SeesPresent,
                BuiltFromCall, Visible, Expired
  <2> QED BY <2>1, <2>2, <2>3 DEF NextH
<1>3. TypeOKH'
  BY <1>1, <1>2, HistoryType DEF TypeOK
<1> QED BY <1>2, <1>3

\* The initial state satisfies the inductive invariant.
LEMMA InvInit == InitH => TypeOKH /\ WindowInv
<1> SUFFICES ASSUME InitH PROVE TypeOKH /\ WindowInv
  OBVIOUS
<1>1. TypeOKH
  BY DEF InitH, Init, TypeOKH, TypeOK, PC, Plain, Answer
<1>2. WindowInv
  <2>1. ASSUME NEW t \in Threads
        PROVE  pc[t] = "idle" /\ call[t] = NoCall /\ since[t] <= now /\ seen[t] = {}
    BY DEF InitH, Init
  <2> QED BY <2>1 DEF WindowInv, PcMatchesCall, CopyOverlaps, SeesPresent, BuiltFromCall
<1> QED BY <1>1, <1>2

\* Type correctness of the cache and of its history (memory.go:12-21): the map
\* only ever holds entries, whatever the goroutines carry into it.
THEOREM TypeCorrect == SpecH => []TypeOKH
<1>1. SpecH => [](TypeOKH /\ WindowInv)
  BY InvInit, InvStep, PTL DEF SpecH
<1> QED BY <1>1, PTL

\* What a goroutine carries between its lock sections stays justified
\* (memory.go:36-49 and 65-71).
THEOREM WindowCorrect == SpecH => []WindowInv
<1>1. SpecH => [](TypeOKH /\ WindowInv)
  BY InvInit, InvStep, PTL DEF SpecH
<1> QED BY <1>1, PTL

\* One step of the action property below.
LEMMA DropStep ==
    ASSUME TypeOKH, WindowInv, [NextH]_varsH, NEW k \in Keys,
           entries[k] # Nothing, ~Expired(entries[k], now), entries'[k] = Nothing
    PROVE  \E t \in Threads : pc[t] = "delete" /\ call[t].key = k
<1>1. PICK t \in Threads : Step(t)
  BY DEF NextH, TickH, Tick, StepH, varsH
<1>2. CASE GetEvict(t)
  <2>1. Expired(item[t], now) /\ item[t] \in Entry
    BY <1>2 DEF GetEvict, WindowInv, CopyOverlaps, TypeOKH, TypeOK
  <2>2. k = call[t].key /\ entries[k].expiresAt = item[t].expiresAt
    BY <1>2 DEF GetEvict, TypeOKH, TypeOK
  <2> QED BY <2>1, <2>2 DEF Expired
<1>3. CASE SetStore(t)
  BY <1>3, EntryIsSomething DEF SetStore, WindowInv, BuiltFromCall, TypeOKH, TypeOK
<1>4. CASE DeleteRemove(t)
  BY <1>4 DEF DeleteRemove, TypeOKH, TypeOK
<1> QED BY <1>1, <1>2, <1>3, <1>4
        DEF Step, Invoke, Canceled, EmptyKeyError, GetRead, GetCheck, SetBuild

\* Lazy eviction never takes a live entry away (memory.go:43-48): only Delete
\* and Set with a negative TTL do.
THEOREM EvictionSafe == SpecH => OnlyDeleteDropsLive
<1>1. SpecH => [](TypeOKH /\ WindowInv)
  BY InvInit, InvStep, PTL DEF SpecH
<1>2. TypeOKH /\ WindowInv /\ [NextH]_varsH =>
        [\A k \in Keys :
          entries[k] # Nothing /\ ~Expired(entries[k], now) /\ entries'[k] = Nothing
            => \E t \in Threads : pc[t] = "delete" /\ call[t].key = k]_varsH
  BY DropStep
<1> QED BY <1>1, <1>2, PTL DEF SpecH, OnlyDeleteDropsLive

----------------------------------------------------------------------------
\* The definitions that MemoryCache shares with the contract agree.
LEMMA SameTerms ==
    /\ Contract!Calls = Calls
    /\ \A k : Contract!Plain(k) = Plain(k)
    /\ \A v : Contract!Hit(v) = Hit(v)
    /\ \A e, t : Contract!Expired(e, t) = Expired(e, t)
    /\ \A e, t : Contract!Visible(e, t) = Visible(e, t)
<1>1. \A e, t : Contract!Expired(e, t) = Expired(e, t)
  BY DEF Contract!Expired, Expired
<1> QED
  BY <1>1 DEF Contract!Calls, Calls, Contract!GetCall, GetCall, Contract!SetCall, SetCall,
         Contract!DeleteCall, DeleteCall, Contract!Plain, Plain, Contract!Hit, Hit,
         Contract!Visible, Visible

\* The history is the contract's record of what each pending call overlapped.
LEMMA ObserveMaps ==
    ASSUME TypeOKH', WindowInv', Observe
    PROVE  Contract!Observe
<1>1. \A t \in Threads : call'[t] # NoCall =>
         View'[call'[t].key] = Visible(entries'[call'[t].key], now')
  BY CallFields DEF View, TypeOKH, TypeOK
<1> QED BY <1>1 DEF Observe, Contract!Observe

\* A step inside a call that does not change what is visible is a stutter.
LEMMA InternalStep ==
    ASSUME TypeOKH, TypeOKH', WindowInv, Observe, View' = View,
           UNCHANGED <<now, call, since, answer>>
    PROVE  UNCHANGED Contract!vars
<1>1. \A t \in Threads : call[t] # NoCall =>
         Visible(entries'[call[t].key], now') = Visible(entries[call[t].key], now)
  BY CallFields DEF View, TypeOKH, TypeOK
<1>2. \A t \in Threads : seen'[t] = seen[t]
  <2> SUFFICES ASSUME NEW t \in Threads PROVE seen'[t] = seen[t]
    OBVIOUS
  <2>1. CASE call[t] = NoCall
    BY <2>1 DEF Observe, WindowInv, SeesPresent
  <2>2. CASE call[t] # NoCall
    BY <1>1, <2>2 DEF Observe, WindowInv, SeesPresent
  <2> QED BY <2>1, <2>2
<1>3. seen' = seen
  BY <1>2 DEF Observe, TypeOKH
<1> QED BY <1>3 DEF Contract!vars

\* Every step is a step of the contract or leaves its variables alone.
LEMMA ContractStep ==
    ASSUME TypeOKH, TypeOKH', WindowInv, WindowInv', [NextH]_varsH
    PROVE  [Contract!Next]_(Contract!vars)
<1>view. ASSUME entries' = entries, now' = now PROVE View' = View
  BY <1>view DEF View, Visible, Expired
<1>1. CASE TickH
  <2>1. \A k \in Keys : Visible(entries[k], now + 1)
                          = Visible(Visible(entries[k], now), now + 1)
    BY DEF Visible, Expired, TypeOKH, TypeOK, Entry
  <2>2. View' = [k \in Keys |-> Contract!Visible(View[k], now')]
    BY <1>1, <2>1, SameTerms DEF TickH, Tick, View
  <2>3. Contract!Tick
    BY <1>1, <2>2 DEF TickH, Tick, Contract!Tick
  <2>4. Contract!Observe
    BY <1>1, ObserveMaps DEF TickH
  <2> QED BY <2>3, <2>4 DEF Contract!Next
<1>2. ASSUME NEW t \in Threads, StepH(t) PROVE [Contract!Next]_(Contract!vars)
  <2>obs. Contract!Observe
    BY <1>2, ObserveMaps DEF StepH
  <2>map. ASSUME Contract!CallStep(t) PROVE [Contract!Next]_(Contract!vars)
    BY <2>obs, <2>map DEF Contract!Next
  <2>busy. pc[t] # "idle" => call[t] # NoCall /\ call[t] \in Call
    BY DEF WindowInv, PcMatchesCall, TypeOKH, TypeOK
  <2>ret. ASSUME NEW r, Return(t, r), pc[t] # "idle", now' = now
          PROVE  Contract!Return(t, r)
    <3>1. since' = [since EXCEPT ![t] = 0]
      BY <1>2, <2>ret DEF StepH, Return, TypeOKH, TypeOK
    <3> QED BY <3>1, <2>ret, <2>busy DEF Return, Contract!Return
  <2>1. CASE Invoke(t)
    <3>1. since' = [since EXCEPT ![t] = now] /\ call[t] = NoCall
      BY <1>2, <2>1 DEF StepH, Invoke, WindowInv, PcMatchesCall
    <3>2. Contract!Begin(t)
      BY <2>1, <3>1, <1>view, SameTerms DEF Invoke, Contract!Begin
    <3> QED BY <3>2, <2>map DEF Contract!CallStep
  <2>2. CASE Canceled(t)
    <3>1. Contract!Cancel(t)
      BY <2>2, <2>ret, <1>view, SameTerms DEF Canceled, Contract!Cancel
    <3> QED BY <2>2, <2>busy, <2>map, <3>1 DEF Canceled, Contract!CallStep
  <2>3. CASE EmptyKeyError(t)
    <3>1. call[t].op \in {"set", "delete"}
      BY <2>3 DEF EmptyKeyError, WindowInv, PcMatchesCall
    <3>2. Contract!Refuse(t)
      BY <2>3, <2>ret, <1>view, <3>1, SameTerms DEF EmptyKeyError, Contract!Refuse
    <3> QED BY <2>3, <2>busy, <2>map, <3>2 DEF EmptyKeyError, Contract!CallStep
  <2>4. CASE GetRead(t)
    <3> DEFINE e == entries[call[t].key]
    <3>1. call[t].op = "get" /\ call[t] # NoCall /\ Visible(e, now) \in seen[t]
      BY <2>4 DEF GetRead, WindowInv, PcMatchesCall, SeesPresent
    <3>2. CASE e = Nothing
      <4>1. Return(t, Plain("miss")) /\ Nothing \in seen[t] /\ View' = View
        BY <2>4, <3>1, <3>2, <1>view DEF GetRead, Visible
      <4>2. Contract!AnswerMiss(t)
        BY <2>4, <3>1, <4>1, <2>ret, SameTerms DEF GetRead, Contract!AnswerMiss
      <4> QED BY <3>1, <4>2, <2>map DEF Contract!CallStep
    <3>3. CASE e # Nothing /\ e.expiresAt = 0
      <4>1. Return(t, Hit(e.value)) /\ e \in seen[t] /\ ~Expired(e, now) /\ View' = View
        BY <2>4, <3>1, <3>3, <1>view DEF GetRead, Visible, Expired
      <4>2. Contract!AnswerHit(t)
        BY <2>4, <3>1, <3>3, <4>1, <2>ret, SameTerms DEF GetRead, Contract!AnswerHit
      <4> QED BY <3>1, <4>2, <2>map DEF Contract!CallStep
    <3>4. CASE e # Nothing /\ e.expiresAt # 0
      <4>1. UNCHANGED <<entries, now, call, since, answer>>
        BY <1>2, <2>4, <3>4 DEF GetRead, StepH, TypeOKH, TypeOK
      <4> QED BY <1>2, <1>view, <4>1, InternalStep DEF StepH
    <3> QED BY <3>2, <3>3, <3>4
  <2>5. CASE GetCheck(t)
    <3>1. call[t].op = "get" /\ call[t] # NoCall /\ item[t] # Nothing
      BY <2>5 DEF GetCheck, WindowInv, PcMatchesCall, CopyOverlaps
    <3>2. CASE Expired(item[t], now)
      <4>1. UNCHANGED <<entries, now, call, since, answer>>
        BY <1>2, <2>5, <3>2 DEF GetCheck, StepH, TypeOKH, TypeOK
      <4> QED BY <1>2, <1>view, <4>1, InternalStep DEF StepH
    <3>3. CASE ~Expired(item[t], now)
      <4>1. Return(t, Hit(item[t].value)) /\ item[t] \in seen[t] /\ View' = View
        BY <2>5, <3>3, <1>view DEF GetCheck, WindowInv, CopyOverlaps
      <4>2. Contract!AnswerHit(t)
        BY <2>5, <3>1, <3>3, <4>1, <2>ret, SameTerms DEF GetCheck, Contract!AnswerHit
      <4> QED BY <3>1, <4>2, <2>map DEF Contract!CallStep
    <3> QED BY <3>2, <3>3
  <2>6. CASE GetEvict(t)
    <3>1. /\ call[t].op = "get" /\ call[t] # NoCall
          /\ Expired(item[t], now) /\ item[t] # Nothing
          /\ item[t] \in seen[t] \/ Nothing \in seen[t]
      BY <2>6 DEF GetEvict, WindowInv, PcMatchesCall, CopyOverlaps
    <3>2. \A k \in Keys : Visible(entries'[k], now') = Visible(entries[k], now)
      BY <2>6, <3>1 DEF GetEvict, Visible, Expired, TypeOKH, TypeOK
    <3>3. View' = View
      BY <3>2 DEF View
    <3>4. Contract!AnswerMiss(t)
      BY <2>6, <3>1, <3>3, <2>ret, SameTerms DEF GetEvict, Contract!AnswerMiss
    <3> QED BY <3>1, <3>4, <2>map DEF Contract!CallStep
  <2>7. CASE SetBuild(t)
    <3>1. UNCHANGED <<entries, now, call, since, answer>>
      BY <1>2, <2>7 DEF SetBuild, StepH, TypeOKH, TypeOK
    <3> QED BY <1>2, <1>view, <3>1, InternalStep DEF StepH
  <2>8. CASE SetStore(t)
    <3>1. /\ call[t].op = "set" /\ call[t] # NoCall /\ call[t] \in Call
          /\ call[t].ttl >= 0 /\ call[t].key # EmptyKey
      BY <2>8, <2>busy DEF SetStore, WindowInv, PcMatchesCall
    <3>2. PICK d \in Contract!Deadlines(t) :
             item[t] = [value |-> call[t].value, expiresAt |-> d]
      <4>1. item[t] \in Entry
        BY <2>8 DEF SetStore, WindowInv, BuiltFromCall, TypeOKH, TypeOK
      <4>2. item[t].value = call[t].value /\ item[t].expiresAt \in Contract!Deadlines(t)
        BY <2>8 DEF SetStore, WindowInv, BuiltFromCall, Contract!Deadlines
      <4> QED BY <4>1, <4>2 DEF Entry
    <3>3. View' = [View EXCEPT ![call[t].key] = Visible(item[t], now)]
      BY <2>8, <3>1, CallFields DEF SetStore, View, TypeOKH, TypeOK
    <3>4. Contract!Store(t)
      BY <2>8, <3>1, <3>2, <3>3, <2>ret, SameTerms DEF SetStore, Contract!Store
    <3> QED BY <3>1, <3>4, <2>map DEF Contract!CallStep
  <2>9. CASE DeleteRemove(t)
    <3>1. /\ call[t] # NoCall /\ call[t] \in Call /\ call[t].key # EmptyKey
          /\ call[t].op = "delete" \/ (call[t].op = "set" /\ call[t].ttl < 0)
      BY <2>9, <2>busy DEF DeleteRemove, WindowInv, PcMatchesCall
    <3>2. View' = [View EXCEPT ![call[t].key] = Nothing]
      BY <2>9, <3>1, CallFields DEF DeleteRemove, View, Visible, TypeOKH, TypeOK
    <3>3. Contract!Remove(t)
      BY <2>9, <3>1, <3>2, <2>ret, SameTerms DEF DeleteRemove, Contract!Remove
    <3> QED BY <3>1, <3>3, <2>map DEF Contract!CallStep
  <2> QED BY <1>2, <2>1, <2>2, <2>3, <2>4, <2>5, <2>6, <2>7, <2>8, <2>9 DEF StepH, Step
<1>3. CASE UNCHANGED varsH
  BY <1>3, <1>view DEF varsH, Contract!vars
<1> QED BY <1>1, <1>2, <1>3 DEF NextH

\* cachex.Memory implements the contract of cachex.Cache (cache.go:13-22), for
\* any number of goroutines, keys, values and TTLs.
THEOREM MemoryImplementsContract == SpecH => ImplementsContract
<1>1. SpecH => [](TypeOKH /\ WindowInv)
  BY InvInit, InvStep, PTL DEF SpecH
<1>2. InitH => Contract!Init
  <2> SUFFICES ASSUME InitH PROVE Contract!Init
    OBVIOUS
  <2>1. View = [k \in Keys |-> Nothing]
    BY DEF InitH, Init, View, Visible
  <2> QED BY <2>1, SameTerms DEF InitH, Init, Contract!Init
<1>3. (TypeOKH /\ WindowInv) /\ (TypeOKH /\ WindowInv)' /\ [NextH]_varsH
        => [Contract!Next]_(Contract!vars)
  BY ContractStep
<1> QED BY <1>1, <1>2, <1>3, PTL DEF SpecH, ImplementsContract, Contract!Spec
============================================================================
