----------------------------- MODULE KeysProofs -----------------------------
(***************************************************************************)
(* Theorems about the keys (ProviderKeys) and the comparison beside them   *)
(* (Comparison), for any providers, keys, processes, environments, models  *)
(* and vendors, and any number of requests and changes.                    *)
(***************************************************************************)
EXTENDS Comparison, FiniteSetTheorems, TLAPS

---------------------------------------------------------------------------
(* Types *)

Source == Process \X Provider \X Key

TestState == {"none", "missing", "verified", "rejected", "blocked", "unreachable"}

TestRecord ==
  [pc : {"idle", "listing", "completing"}, process : Process, provider : Provider \union {Unset},
   key : Key \union {Unset}, since : Nat, after : SUBSET Test, billed : Int, authenticated : BOOLEAN,
   state : TestState]

KeysTypeOK ==
  /\ keychain \in [Provider -> Key \union {Unset}]
  /\ account \in [Provider -> [Key -> Standing]]
  /\ now \in Nat /\ changes \in Nat /\ requests \in 0 .. MaxRequests
  /\ test \in [Test -> TestRecord]
  /\ heard \in [Source -> [works : Int, refused : Int]]
  /\ DOMAIN cache \subseteq Source
  /\ \A e \in DOMAIN cache : cache[e] \in [result : {"verified", "rejected"}, at : Nat]
  /\ locked \subseteq Provider
  /\ shown \subseteq {Mock} \union Provider /\ withdrawn \subseteq Provider

LEMMA NeverType == Never \in Int
BY KeysAssumption DEF Never

LEMMA KeyInType ==
  ASSUME keychain \in [Provider -> Key \union {Unset}], NEW process \in Process, NEW p \in Provider
  PROVE  KeyIn(process, p) \in Key \union {Unset}
BY KeysAssumption DEF KeyIn, NonBlank

\* A comparison leaves the keys, the tests and the panels alone.
LEMMA CompareAside ==
  ASSUME KeysTypeOK, CompareNext
  PROVE  /\ UNCHANGED <<keyVars, now, testVars, panelVars>>
         /\ requests' \in 0 .. MaxRequests
         /\ requests <= requests'
<1>1. MaxRequests \in Nat /\ requests \in 0 .. MaxRequests
  BY KeysAssumption DEF KeysTypeOK
<1>2. /\ UNCHANGED <<keyVars, now, testVars, panelVars>>
      /\ requests' = requests \/ requests' = MaxRequests
  BY DEF CompareNext, BeginCompare, ResolveNext, OpenChannel, SendSkip, Spawn, TaskStarts,
     VendorAnswers, TaskReports, PageReads, PageEnds, PageLeaves, keysVars
<1> QED BY <1>1, <1>2

LEMMA TypeInit == CompareInit => KeysTypeOK
<1> SUFFICES ASSUME CompareInit PROVE KeysTypeOK
  OBVIOUS
<1>1. NoTest \in TestRecord
  BY KeysAssumption, NeverType DEF NoTest, TestRecord, TestState
<1>2. test \in [Test -> TestRecord]
  BY <1>1 DEF CompareInit, Init
<1>3. heard \in [Source -> [works : Int, refused : Int]]
  BY NeverType DEF CompareInit, Init, Source
<1>4. DOMAIN cache = {}
  BY DEF CompareInit, Init
<1> QED
  BY <1>2, <1>3, <1>4, KeysAssumption DEF CompareInit, Init, KeysTypeOK, Usable

---------------------------------------------------------------------------
(* What the vendors said *)

\* The key a test is about.
Tested(t) == <<test[t].process, test[t].provider, test[t].key>>

TestInv(t) ==
  /\ test[t].since <= now
  /\ test[t].pc # "idle" => /\ test[t].provider \in Provider /\ test[t].key \in Key
                            /\ test[t].state = "none"
  /\ test[t].state \in {"verified", "rejected"} => Tested(t) \in Source
  /\ test[t].state = "verified" => heard[Tested(t)].works >= test[t].since - TTL
  /\ test[t].state = "rejected" => heard[Tested(t)].refused >= test[t].since - TTL

\* The cache repeats what was heard.
HeardInv(e) ==
  /\ heard[e].works <= now /\ heard[e].refused <= now
  /\ e \in DOMAIN cache =>
       /\ cache[e].at <= now
       /\ cache[e].result = "verified" => heard[e].works >= cache[e].at
       /\ cache[e].result = "rejected" => heard[e].refused >= cache[e].at

TestsInv == KeysTypeOK /\ (\A t \in Test : TestInv(t)) /\ (\A e \in Source : HeardInv(e))

LEMMA TestsInit == CompareInit => TestsInv
<1> SUFFICES ASSUME CompareInit PROVE TestsInv
  OBVIOUS
<1>1. KeysTypeOK
  BY TypeInit
<1>2. ASSUME NEW t \in Test PROVE TestInv(t)
  BY DEF CompareInit, Init, TestInv, NoTest
<1>3. ASSUME NEW e \in Source PROVE HeardInv(e)
  <2>1. heard[e] = [works |-> Never, refused |-> Never] /\ DOMAIN cache = {} /\ now = 0
    BY DEF CompareInit, Init, Source
  <2> QED BY <2>1, KeysAssumption DEF HeardInv, Never
<1> QED BY <1>1, <1>2, <1>3 DEF TestsInv

\* What leaves the tests alone leaves what is known of them true.
LEMMA TestsStay ==
  ASSUME TestsInv, KeysTypeOK', now' \in Nat, now <= now', UNCHANGED testVars
  PROVE  TestsInv'
<1>1. ASSUME NEW t \in Test PROVE TestInv(t)'
  <2>1. TestInv(t) /\ test[t] \in TestRecord
    BY DEF TestsInv, KeysTypeOK
  <2> QED BY <2>1 DEF TestInv, TestsInv, KeysTypeOK, testVars, TestRecord, Tested
<1>2. ASSUME NEW e \in Source PROVE HeardInv(e)'
  <2>1. HeardInv(e) /\ heard[e] \in [works : Int, refused : Int]
    BY DEF TestsInv, KeysTypeOK
  <2>2. CASE e \in DOMAIN cache
    <3>1. cache[e].at \in Nat
      BY <2>2 DEF TestsInv, KeysTypeOK
    <3> QED BY <2>1, <2>2, <3>1, NeverType DEF HeardInv, TestsInv, KeysTypeOK, testVars, Never
  <2>3. CASE e \notin DOMAIN cache
    BY <2>1, <2>3, NeverType DEF HeardInv, TestsInv, KeysTypeOK, testVars, Never
  <2> QED BY <2>2, <2>3
<1> QED BY <1>1, <1>2 DEF TestsInv

\* The record of a test that has its answer, and what it was billed.
Ended(t, state, billed) ==
  \E record \in TestRecord :
    /\ test' = [test EXCEPT ![t] = record]
    /\ record.pc = "idle" /\ record.state = state
    /\ record.since = test[t].since /\ record.process = test[t].process
    /\ record.provider = test[t].provider /\ record.key = test[t].key
    /\ record.after = test[t].after /\ record.billed = billed

LEMMA Answered ==
  ASSUME KeysTypeOK, NEW t \in Test, NEW state \in TestState
  PROVE  /\ Say(t, state) => Ended(t, state, test[t].billed)
         /\ SayBilled(t, state) => Ended(t, state, now)
<1> DEFINE said == [test[t] EXCEPT !.pc = "idle", !.state = state]
           billed == [said EXCEPT !.billed = now]
<1>1. test[t] \in TestRecord /\ now \in Int
  BY DEF KeysTypeOK
<1>2. /\ said \in TestRecord /\ said.pc = "idle" /\ said.state = state
      /\ said.since = test[t].since /\ said.process = test[t].process
      /\ said.provider = test[t].provider /\ said.key = test[t].key
      /\ said.after = test[t].after /\ said.billed = test[t].billed
  BY <1>1 DEF TestRecord
<1>3. Answer(t, state) = said
  BY DEF Answer
<1> HIDE DEF said
<1>4. /\ billed \in TestRecord /\ billed.pc = said.pc /\ billed.state = said.state
      /\ billed.since = said.since /\ billed.process = said.process
      /\ billed.provider = said.provider /\ billed.key = said.key
      /\ billed.after = said.after /\ billed.billed = now
  BY <1>1, <1>2 DEF TestRecord
<1>5. Say(t, state) => test' = [test EXCEPT ![t] = said]
  BY <1>3 DEF Say
<1>6. SayBilled(t, state) => test' = [test EXCEPT ![t] = billed]
  BY <1>3 DEF SayBilled
<1> HIDE DEF billed
<1>7. ASSUME Say(t, state) PROVE Ended(t, state, test[t].billed)
  BY <1>2, <1>5, <1>7 DEF Ended
<1>8. ASSUME SayBilled(t, state) PROVE Ended(t, state, now)
  BY <1>2, <1>4, <1>6, <1>8 DEF Ended
<1> QED BY <1>7, <1>8

\* The two outcomes of a request a vendor answers with its word on the key, and
\* bills or not.
LEMMA Learned ==
  ASSUME TestsInv, NEW t \in Test, test[t].pc # "idle",
         NEW result \in {"verified", "rejected"}, Learn(t, result),
         Say(t, result) \/ SayBilled(t, result),
         UNCHANGED <<keyVars, now, requests, panelVars>>
  PROVE  TestsInv'
<1> DEFINE e == Tested(t)
<1>1. /\ test \in [Test -> TestRecord] /\ TestInv(t) /\ now \in Nat
      /\ \A x \in DOMAIN cache : cache[x] \in [result : {"verified", "rejected"}, at : Nat]
  BY DEF TestsInv, KeysTypeOK
<1>2. e \in Source
  BY <1>1 DEF TestInv, Tested, Source, TestRecord
<1>3. /\ cache' = Inserted(cache, e, [result |-> result, at |-> now])
      /\ heard' = [heard EXCEPT ![e] = IF result = "verified" THEN [@ EXCEPT !.works = now]
                                       ELSE [@ EXCEPT !.refused = now]]
  BY DEF Learn, Remember, Tested
<1>4. /\ DOMAIN cache' = DOMAIN cache \union {e}
      /\ cache'[e] = [result |-> result, at |-> now]
      /\ \A x \in DOMAIN cache : x # e => cache'[x] = cache[x]
  BY <1>3 DEF Inserted
<1>5. PICK record \in TestRecord :
        /\ test' = [test EXCEPT ![t] = record]
        /\ record.pc = "idle" /\ record.state = result
        /\ record.since = test[t].since /\ record.process = test[t].process
        /\ record.provider = test[t].provider /\ record.key = test[t].key
  BY Answered DEF TestsInv, TestState, Ended
<1>6. KeysTypeOK'
  <2>2. test' \in [Test -> TestRecord]
    BY <1>1, <1>5
  <2>3. heard' \in [Source -> [works : Int, refused : Int]]
    BY <1>1, <1>2, <1>3 DEF TestsInv, KeysTypeOK
  <2>4. DOMAIN cache' \subseteq Source
    BY <1>2, <1>4 DEF TestsInv, KeysTypeOK
  <2>5. \A x \in DOMAIN cache' : cache'[x] \in [result : {"verified", "rejected"}, at : Nat]
    BY <1>1, <1>4
  <2> QED BY <2>2, <2>3, <2>4, <2>5 DEF TestsInv, KeysTypeOK, keyVars, panelVars, screenVars
<1>7. ASSUME NEW x \in Source
      PROVE  /\ heard'[x].works \in Int /\ heard'[x].refused \in Int
             /\ heard[x].works <= heard'[x].works /\ heard[x].refused <= heard'[x].refused
             /\ HeardInv(x)'
  <2>1. HeardInv(x) /\ heard[x] \in [works : Int, refused : Int]
    BY DEF TestsInv, KeysTypeOK
  <2>2. CASE x = e
    <3>1. heard'[x] = IF result = "verified" THEN [heard[x] EXCEPT !.works = now]
                      ELSE [heard[x] EXCEPT !.refused = now]
      BY <1>3, <2>2 DEF TestsInv, KeysTypeOK
    <3> QED BY <1>1, <1>4, <2>1, <2>2, <3>1 DEF HeardInv
  <2>3. CASE x # e
    <3>1. heard'[x] = heard[x]
      BY <1>3, <2>3 DEF TestsInv, KeysTypeOK
    <3> QED BY <1>4, <2>1, <2>3, <3>1 DEF HeardInv, Never
  <2> QED BY <2>2, <2>3
<1>8. ASSUME NEW u \in Test PROVE TestInv(u)'
  <2>1. TestInv(u) /\ test[u] \in TestRecord
    BY <1>1 DEF TestsInv
  <2>2. CASE u = t
    <3>1. /\ Tested(u)' = e /\ test'[u].since = test[t].since /\ test'[u].pc = "idle"
          /\ test'[u].state = result
      BY <1>1, <1>5, <2>2 DEF Tested
    <3>2. /\ result = "verified" => heard'[e].works = now
          /\ result = "rejected" => heard'[e].refused = now
      BY <1>2, <1>3 DEF TestsInv, KeysTypeOK
    <3>3. test[t].since \in Nat /\ TTL \in Nat /\ test[t].since <= now
      BY <1>1, <2>1, <2>2, KeysAssumption DEF TestRecord, TestInv
    <3> HIDE DEF e
    <3> QED BY <1>1, <1>2, <3>1, <3>2, <3>3 DEF TestInv
  <2>3. CASE u # t
    <3>1. test'[u] = test[u]
      BY <1>1, <1>5, <2>3
    <3>2. CASE test[u].state \in {"verified", "rejected"}
      <4>1. Tested(u) \in Source
        BY <2>1, <3>2 DEF TestInv
      <4> DEFINE w == Tested(u)
      <4>2. heard[w].works <= heard'[w].works /\ heard[w].refused <= heard'[w].refused
        BY <1>7, <4>1
      <4>3. /\ heard[w].works \in Int /\ heard[w].refused \in Int
            /\ heard'[w].works \in Int /\ heard'[w].refused \in Int
        BY <1>7, <4>1 DEF TestsInv, KeysTypeOK
      <4>4. Tested(u)' = w
        BY <3>1 DEF Tested
      <4>5. test[u].since \in Nat /\ TTL \in Nat
        BY <2>1, KeysAssumption DEF TestRecord
      <4> HIDE DEF w
      <4>6. test[u].state = "verified" => heard[w].works >= test[u].since - TTL
        BY <2>1 DEF TestInv, w
      <4>7. test[u].state = "rejected" => heard[w].refused >= test[u].since - TTL
        BY <2>1 DEF TestInv, w
      <4>8. test[u].state = "verified" => heard'[w].works >= test[u].since - TTL
        BY <4>2, <4>3, <4>5, <4>6
      <4>9. test[u].state = "rejected" => heard'[w].refused >= test[u].since - TTL
        BY <4>2, <4>3, <4>5, <4>7
      <4> QED BY <2>1, <3>1, <4>1, <4>4, <4>8, <4>9 DEF TestInv, w
    <3>3. CASE test[u].state \notin {"verified", "rejected"}
      BY <2>1, <3>1, <3>3 DEF TestInv
    <3> QED BY <3>2, <3>3
  <2> QED BY <2>2, <2>3
<1> QED BY <1>6, <1>7, <1>8 DEF TestsInv

\* A test begins: its verdict is missing, remembered, or still to be learned.
LEMMA TestBegins ==
  ASSUME TestsInv, NEW process \in Process, NEW p \in Provider, BeginTest(process, p)
  PROVE  TestsInv'
<1> DEFINE t == requests + 1
           k == KeyIn(process, p)
           e == <<process, p, k>>
           known == Remembered(process, p, k)
           As(begun) == IF k = Unset THEN [begun EXCEPT !.state = "missing"]
                        ELSE IF known # "nothing" THEN [begun EXCEPT !.state = known]
                        ELSE [begun EXCEPT !.pc = "listing"]
<1>1. PICK begun :
        /\ begun = Begun(process, p)
        /\ test' = [test EXCEPT ![t] = As(begun)]
        /\ requests < MaxRequests /\ requests' = requests + 1
        /\ UNCHANGED <<keyVars, now, cache, heard, panelVars>>
  BY DEF BeginTest, Request
<1> DEFINE record == As(begun)
<1>2. /\ test' = [test EXCEPT ![t] = record]
      /\ requests < MaxRequests /\ requests' = requests + 1
      /\ UNCHANGED <<keyVars, now, cache, heard, panelVars>>
  BY <1>1
<1>3. k \in Key \union {Unset} /\ Unset \notin Key
  BY KeyInType, KeysAssumption DEF TestsInv, KeysTypeOK
<1>4. t \in Test /\ requests' \in 0 .. MaxRequests
  BY <1>1, KeysAssumption DEF TestsInv, KeysTypeOK, Test
<1>5. now \in Nat /\ TTL \in Nat /\ Never = -1 - TTL
  BY KeysAssumption DEF TestsInv, KeysTypeOK, Never
<1>5a. PICK after \in SUBSET Test : after = BilledFor(process, p, k)
  BY DEF BilledFor
<1>6. begun = [pc |-> "idle", process |-> process, provider |-> p, key |-> k, since |-> now,
               authenticated |-> FALSE, state |-> "none", after |-> after, billed |-> Never]
  <2> HIDE DEF As
  <2> QED BY <1>1, <1>5a DEF NoTest, Begun
<1>7. CASE k = Unset
  <2>1. record = [pc |-> "idle", process |-> process, provider |-> p, key |-> k, since |-> now,
                  authenticated |-> FALSE, state |-> "missing", after |-> after, billed |-> Never]
    BY <1>6, <1>7
  <2> HIDE DEF record, As, known, k, t
  <2>2. record \in TestRecord
    BY <1>3, <1>5, <2>1 DEF TestRecord, TestState
  <2>3. KeysTypeOK'
    BY <1>2, <1>4, <2>2 DEF TestsInv, KeysTypeOK, keyVars, panelVars, screenVars
  <2>4. ASSUME NEW u \in Test PROVE TestInv(u)'
    <3>1. TestInv(u) /\ test'[u] = IF u = t THEN record ELSE test[u]
      BY <1>2 DEF TestsInv, KeysTypeOK
    <3> QED BY <1>2, <1>5, <2>1, <3>1 DEF TestInv, Tested
  <2>5. ASSUME NEW x \in Source PROVE HeardInv(x)'
    BY <1>2 DEF TestsInv, HeardInv
  <2> QED BY <2>3, <2>4, <2>5 DEF TestsInv
<1>8. CASE k # Unset /\ known # "nothing"
  <2>1. record = [pc |-> "idle", process |-> process, provider |-> p, key |-> k, since |-> now,
                  authenticated |-> FALSE, state |-> known, after |-> after, billed |-> Never]
    BY <1>6, <1>8
  <2>2. e \in Source
    BY <1>3, <1>8 DEF Source
  <2>3. e \in DOMAIN cache /\ known = cache[e].result /\ now - cache[e].at <= TTL
    BY <1>8 DEF Remembered, Fresh
  <2>4. known \in {"verified", "rejected"} /\ cache[e].at \in Nat /\ heard[e].works \in Int /\ heard[e].refused \in Int
    BY <2>2, <2>3 DEF TestsInv, KeysTypeOK
  <2>5. /\ known = "verified" => heard[e].works >= now - TTL
        /\ known = "rejected" => heard[e].refused >= now - TTL
    BY <1>5, <2>2, <2>3, <2>4 DEF TestsInv, HeardInv
  <2>6. e = <<process, p, k>>
    OBVIOUS
  <2> HIDE DEF record, As, known, k, t, e
  <2>7. record \in TestRecord
    BY <1>3, <1>5, <2>1, <2>4 DEF TestRecord, TestState
  <2>8. KeysTypeOK'
    BY <1>2, <1>4, <2>7 DEF TestsInv, KeysTypeOK, keyVars, panelVars, screenVars
  <2>9. ASSUME NEW u \in Test PROVE TestInv(u)'
    <3>1. TestInv(u) /\ test'[u] = IF u = t THEN record ELSE test[u]
      BY <1>2 DEF TestsInv, KeysTypeOK
    <3>2. CASE u = t
      <4>1. Tested(u)' = e
        BY <2>1, <2>6, <3>1, <3>2 DEF Tested
      <4> QED BY <1>2, <1>5, <2>1, <2>2, <2>5, <3>1, <3>2, <4>1 DEF TestInv
    <3>3. CASE u # t
      BY <1>2, <3>1, <3>3 DEF TestInv, Tested
    <3> QED BY <3>2, <3>3
  <2>10. ASSUME NEW x \in Source PROVE HeardInv(x)'
    BY <1>2 DEF TestsInv, HeardInv
  <2> QED BY <2>8, <2>9, <2>10 DEF TestsInv
<1>9. CASE k # Unset /\ known = "nothing"
  <2>1. record = [pc |-> "listing", process |-> process, provider |-> p, key |-> k, since |-> now,
                  authenticated |-> FALSE, state |-> "none", after |-> after, billed |-> Never]
    BY <1>6, <1>9
  <2>2. e \in Source /\ k \in Key
    BY <1>3, <1>9 DEF Source
  <2> HIDE DEF record, As, known, k, t, e
  <2>5. record \in TestRecord
    BY <1>3, <1>5, <2>1 DEF TestRecord, TestState
  <2>6. KeysTypeOK'
    BY <1>2, <1>4, <2>5 DEF TestsInv, KeysTypeOK, keyVars, panelVars, screenVars
  <2>7. ASSUME NEW u \in Test PROVE TestInv(u)'
    <3>1. TestInv(u) /\ test'[u] = IF u = t THEN record ELSE test[u]
      BY <1>2 DEF TestsInv, KeysTypeOK
    <3> QED BY <1>2, <1>5, <2>1, <2>2, <3>1 DEF TestInv, Tested
  <2>8. ASSUME NEW x \in Source PROVE HeardInv(x)'
    BY <1>2 DEF TestsInv, HeardInv
  <2> QED BY <2>6, <2>7, <2>8 DEF TestsInv
<1> QED BY <1>7, <1>8, <1>9

\* A test goes on to the completion, or ends without the vendor's word.
LEMMA NothingLearned ==
  ASSUME TestsInv, NEW t \in Test, test[t].pc # "idle", NEW authenticated \in BOOLEAN,
         \/ Say(t, "unreachable") \/ SayBilled(t, "unreachable") \/ Say(t, "blocked")
         \/ test' = [test EXCEPT ![t].pc = "completing", ![t].authenticated = authenticated],
         UNCHANGED <<keyVars, now, cache, heard, requests, panelVars>>
  PROVE  TestsInv'
<1>1. test \in [Test -> TestRecord] /\ test[t] \in TestRecord /\ TestInv(t)
  BY DEF TestsInv, KeysTypeOK
<1>2. \E record \in TestRecord :
         /\ test' = [test EXCEPT ![t] = record]
         /\ record.since = test[t].since
         /\ record.provider = test[t].provider /\ record.key = test[t].key
         /\ record.process = test[t].process
         /\ \/ record.pc = "idle" /\ record.state \in {"unreachable", "blocked"}
            \/ record.pc = "completing" /\ record.state = test[t].state
  <2>1. CASE Say(t, "unreachable") \/ SayBilled(t, "unreachable")
    BY <2>1, Answered DEF TestsInv, TestState, Ended
  <2>2. CASE Say(t, "blocked")
    BY <2>2, Answered DEF TestsInv, TestState, Ended
  <2>3. CASE test' = [test EXCEPT ![t].pc = "completing", ![t].authenticated = authenticated]
    <3> DEFINE record == [test[t] EXCEPT !.pc = "completing", !.authenticated = authenticated]
    <3>1. /\ record \in TestRecord /\ record.since = test[t].since
          /\ record.provider = test[t].provider /\ record.key = test[t].key
          /\ record.process = test[t].process /\ record.state = test[t].state
          /\ record.pc = "completing"
      BY <1>1 DEF TestRecord
    <3>2. test' = [test EXCEPT ![t] = record]
      BY <1>1, <2>3
    <3> HIDE DEF record
    <3> QED BY <3>1, <3>2
  <2> QED BY <2>1, <2>2, <2>3
<1>3. PICK record \in TestRecord :
         /\ test' = [test EXCEPT ![t] = record]
         /\ record.since = test[t].since
         /\ record.provider = test[t].provider /\ record.key = test[t].key
         /\ record.process = test[t].process
         /\ \/ record.pc = "idle" /\ record.state \in {"unreachable", "blocked"}
            \/ record.pc = "completing" /\ record.state = test[t].state
  BY <1>2
<1>4. KeysTypeOK'
  BY <1>1, <1>3 DEF TestsInv, KeysTypeOK, keyVars, panelVars, screenVars
<1>5. ASSUME NEW u \in Test PROVE TestInv(u)'
  <2>1. TestInv(u) /\ test'[u] = IF u = t THEN record ELSE test[u]
    BY <1>1, <1>3 DEF TestsInv
  <2> QED BY <1>1, <1>3, <2>1 DEF TestInv, Tested
<1>6. ASSUME NEW x \in Source PROVE HeardInv(x)'
  BY DEF TestsInv, HeardInv
<1> QED BY <1>4, <1>5, <1>6 DEF TestsInv

LEMMA TestsStep ==
  ASSUME TestsInv, [Next]_vars
  PROVE  TestsInv'
<1> USE DEF keyVars, testVars, panelVars, screenVars
<1>1. KeysTypeOK /\ now \in Nat
  BY DEF TestsInv, KeysTypeOK
<1>2. ASSUME NEW p \in Provider, NEW k \in Key, SetKey(p, k) PROVE TestsInv'
  BY <1>1, <1>2, TestsStay DEF SetKey, KeysTypeOK
<1>3. ASSUME NEW p \in Provider, RemoveKey(p) \/ LockKey(p) \/ UnlockKey(p) PROVE TestsInv'
  BY <1>1, <1>3, TestsStay DEF RemoveKey, LockKey, UnlockKey, KeysTypeOK
<1>4. ASSUME NEW p \in Provider, NEW k \in Key, NEW standing \in Standing,
             AccountChanges(p, k, standing)
      PROVE  TestsInv'
  <2>1. account' \in [Provider -> [Key -> Standing]]
    BY <1>1, <1>4 DEF AccountChanges, KeysTypeOK
  <2> QED BY <1>1, <1>4, <2>1, TestsStay DEF AccountChanges, KeysTypeOK
<1>5. ASSUME Tick PROVE TestsInv'
  BY <1>1, <1>5, TestsStay DEF Tick, KeysTypeOK
<1>6. ASSUME NEW process \in Process, NEW p \in Provider, BeginTest(process, p) PROVE TestsInv'
  BY <1>6, TestBegins
<1>7. ASSUME NEW t \in Test, ListingAnswers(t) PROVE TestsInv'
  <2>1. UNCHANGED <<keyVars, now, requests, panelVars>> /\ test[t].pc # "idle"
    BY <1>7 DEF ListingAnswers
  <2>2. CASE Learn(t, "rejected") /\ Say(t, "rejected")
    BY <2>1, <2>2, Learned
  <2>3. CASE Say(t, "unreachable") /\ UNCHANGED <<cache, heard>>
    BY <2>1, <2>3, NothingLearned
  <2>4. ASSUME NEW status,
               test' = [test EXCEPT ![t].pc = "completing", ![t].authenticated = (status = 200)],
               UNCHANGED <<cache, heard>>
        PROVE  TestsInv'
    <3>1. (status = 200) \in BOOLEAN
      OBVIOUS
    <3> QED BY <2>1, <2>4, <3>1, NothingLearned
  <2> QED BY <1>7, <2>2, <2>3, <2>4 DEF ListingAnswers
<1>8. ASSUME NEW t \in Test, CompletionAnswers(t) PROVE TestsInv'
  <2>1. UNCHANGED <<keyVars, now, requests, panelVars>> /\ test[t].pc # "idle"
    BY <1>8 DEF CompletionAnswers
  <2>2. CASE Learn(t, "verified") /\ SayBilled(t, "verified")
    BY <2>1, <2>2, Learned
  <2>3. CASE Learn(t, "rejected") /\ Say(t, "rejected")
    BY <2>1, <2>3, Learned
  <2>4. CASE (Say(t, "blocked") \/ SayBilled(t, "unreachable")) /\ UNCHANGED <<cache, heard>>
    <3>1. TRUE \in BOOLEAN
      OBVIOUS
    <3> QED BY <2>1, <2>4, <3>1, NothingLearned
  <2> QED BY <1>8, <2>2, <2>3, <2>4 DEF CompletionAnswers
<1>9. ASSUME ShowProviders PROVE TestsInv'
  <2>1. KeysTypeOK'
    BY <1>1, <1>9 DEF ShowProviders, KeysTypeOK, Usable
  <2> QED BY <1>1, <1>9, <2>1, TestsStay DEF ShowProviders
<1>10. ASSUME NEW p \in Provider, NEW ticked, NEW catalogue, PickFree(p, ticked, catalogue)
      PROVE  TestsInv'
  <2>1. /\ requests < MaxRequests /\ requests' = requests + 1
        /\ UNCHANGED <<keyVars, now, testVars, shown, withdrawn, panel>>
    BY <1>10 DEF PickFree, Request
  <2>2. KeysTypeOK'
    BY <1>1, <2>1, KeysAssumption DEF KeysTypeOK
  <2> QED BY <1>1, <2>1, <2>2, TestsStay
<1>11. ASSUME NEW process, NEW asked, NEW screen, BeginPanel(process, asked, screen)
       PROVE  TestsInv'
  <2>1. /\ requests < MaxRequests /\ requests' = requests + 1
        /\ UNCHANGED <<keyVars, now, testVars, screenVars>>
    BY <1>11 DEF BeginPanel, Request
  <2>2. KeysTypeOK'
    BY <1>1, <2>1, KeysAssumption DEF KeysTypeOK
  <2> QED BY <1>1, <2>1, <2>2, TestsStay
<1>12. ASSUME SeatNext \/ EndPanel PROVE TestsInv'
  <2>1. UNCHANGED <<keyVars, now, testVars, requests, screenVars>>
    BY <1>12 DEF SeatNext, EndPanel
  <2>2. KeysTypeOK'
    BY <1>1, <2>1 DEF KeysTypeOK
  <2> QED BY <1>1, <2>1, <2>2, TestsStay
<1>13. ASSUME CompareNext PROVE TestsInv'
  <2>1. UNCHANGED <<keyVars, now, testVars, panelVars>> /\ requests' \in 0 .. MaxRequests
    BY <1>1, <1>13, CompareAside
  <2>2. KeysTypeOK'
    BY <1>1, <2>1 DEF KeysTypeOK
  <2> QED BY <1>1, <2>1, <2>2, TestsStay
<1>14. ASSUME UNCHANGED vars PROVE TestsInv'
  <2>1. KeysTypeOK'
    BY <1>1, <1>14 DEF KeysTypeOK, vars, keysVars
  <2> QED BY <1>1, <1>14, <2>1, TestsStay DEF vars, keysVars
<1> QED
  BY <1>2, <1>3, <1>4, <1>5, <1>6, <1>7, <1>8, <1>9, <1>10, <1>11, <1>12, <1>13, <1>14
     DEF Next, KeysNext, StartFromScreen, StartByHand

LEMMA TestsInvariant == Spec => []TestsInv
BY TestsInit, TestsStep, PTL DEF Spec

(***************************************************************************)
(* No verdict is made up, borrowed from another key or kept too long,      *)
(* however the keychain, the accounts and the tests of several processes   *)
(* interleave (VerificationCache, verify).                                 *)
(***************************************************************************)
THEOREM VerdictsHold == Spec => []VerdictsAreEarned
<1>1. TestsInv => VerdictsAreEarned
  BY DEF TestsInv, TestInv, Tested, VerdictsAreEarned
<1> QED BY <1>1, TestsInvariant, PTL

---------------------------------------------------------------------------
(* What is billed *)

\* A request that was not made has no test; a test that may have been billed is
\* over, and a good word it had is remembered, or a later one.
Kept(t) ==
  /\ t > requests => test[t] = NoTest
  /\ test[t].billed # Never =>
       /\ test[t].pc = "idle" /\ test[t].state \in {"verified", "unreachable"}
       /\ test[t].billed \in Nat /\ test[t].billed <= now
       /\ test[t].state = "verified" =>
            Tested(t) \in DOMAIN cache /\ cache[Tested(t)].at >= test[t].billed

\* A test that asks, or has asked, begins later than TTL after those before it.
Waited(t, u) ==
  /\ test[u].billed # Never /\ Tested(u) = Tested(t)
  /\ (test[t].pc # "idle" \/ test[t].billed # Never) /\ test[u].state # "unreachable" =>
       test[t].since - test[u].billed > TTL

SparedInv == \A t \in Test : Kept(t) /\ \A u \in test[t].after : Waited(t, u)

LEMMA SparedInit == CompareInit => SparedInv
BY KeysAssumption DEF CompareInit, Init, SparedInv, Kept, Waited, NoTest

\* The tests so far, and the clock, are behind what comes.
LEMMA SparedStays ==
  ASSUME SparedInv, KeysTypeOK, now' \in Nat, now <= now', requests' \in Nat,
         requests <= requests', UNCHANGED testVars
  PROVE  SparedInv'
<1>1. ASSUME NEW t \in Test PROVE Kept(t)'
  <2>1. Kept(t) /\ t \in Nat /\ requests \in Nat /\ now \in Nat
    BY DEF SparedInv, KeysTypeOK, Test
  <2> QED BY <2>1 DEF Kept, Tested, testVars
<1>2. ASSUME NEW t \in Test, NEW u \in test[t].after PROVE Waited(t, u)'
  BY DEF SparedInv, Waited, Tested, testVars
<1> QED BY <1>1, <1>2 DEF SparedInv, testVars

\* A test begins after those of its key that were billed.
LEMMA SparedBegins ==
  ASSUME SparedInv, TestsInv, NEW process \in Process, NEW p \in Provider, BeginTest(process, p)
  PROVE  SparedInv'
<1> DEFINE k == KeyIn(process, p)
           e == <<process, p, k>>
           known == Remembered(process, p, k)
           after == BilledFor(process, p, k)
           s == requests + 1
<1>1. /\ requests \in Nat /\ requests < MaxRequests /\ requests' = s /\ s \in Test
      /\ now \in Nat /\ now' = now /\ cache' = cache /\ test \in [Test -> TestRecord]
  BY KeysAssumption DEF BeginTest, Request, TestsInv, KeysTypeOK, Test
<1>3. PICK record :
        /\ test' = [test EXCEPT ![s] = record]
        /\ record.process = process /\ record.provider = p /\ record.key = k
        /\ record.since = now /\ record.billed = Never /\ record.after = after
        /\ record.pc # "idle" => known = "nothing"
  <2>1. PICK begun :
          /\ begun = Begun(process, p)
          /\ test' = [test EXCEPT ![s] = IF k = Unset THEN [begun EXCEPT !.state = "missing"]
                                         ELSE IF known # "nothing" THEN [begun EXCEPT !.state = known]
                                         ELSE [begun EXCEPT !.pc = "listing"]]
    BY DEF BeginTest
  <2>2. begun = [pc |-> "idle", process |-> process, provider |-> p, key |-> k, since |-> now,
                 authenticated |-> FALSE, state |-> "none", after |-> after, billed |-> Never]
    <3> HIDE DEF known, s
    <3> QED BY <2>1 DEF Begun, NoTest
  <2> DEFINE record == IF k = Unset THEN [begun EXCEPT !.state = "missing"]
                       ELSE IF known # "nothing" THEN [begun EXCEPT !.state = known]
                       ELSE [begun EXCEPT !.pc = "listing"]
  <2>3. test' = [test EXCEPT ![s] = record]
    BY <2>1
  <2> HIDE DEF k, known, after, s
  <2>4. /\ record.process = process /\ record.provider = p /\ record.key = k
        /\ record.since = now /\ record.billed = Never /\ record.after = after
        /\ record.pc # "idle" => known = "nothing"
    BY <2>2
  <2> HIDE DEF record
  <2> QED BY <2>3, <2>4
<1>4. \A u \in Test : test'[u] = IF u = s THEN record ELSE test[u]
  BY <1>1, <1>3
<1>5. test[s] = NoTest
  BY <1>1 DEF SparedInv, Kept
<1>6. after \subseteq Test /\ \A u \in after : test[u].billed # Never /\ Tested(u) = e /\ u # s
  BY <1>5 DEF BilledFor, Tested, NoTest
<1>7. ASSUME NEW u \in Test PROVE Kept(u)'
  <2>1. Kept(u) /\ u \in Nat
    BY DEF SparedInv, Test
  <2>2. CASE u = s
    BY <1>1, <1>3, <1>4, <2>2 DEF Kept
  <2>3. CASE u # s
    <3>1. test'[u] = test[u]
      BY <1>4, <2>3
    <3> QED BY <1>1, <2>1, <2>3, <3>1 DEF Kept, Tested
  <2> QED BY <2>2, <2>3
<1>8. ASSUME NEW u \in after, record.pc # "idle", test[u].state # "unreachable"
      PROVE  now - test[u].billed > TTL
  <2>1. u \in Test /\ Tested(u) = e /\ test[u].billed # Never
    BY <1>6
  <2>2. e \in DOMAIN cache /\ cache[e].at >= test[u].billed /\ test[u].billed \in Nat
    BY <1>8, <2>1 DEF SparedInv, Kept
  <2>3. known = "nothing"
    BY <1>3, <1>8
  <2>4. cache[e].result # "nothing" /\ cache[e].at \in Nat
    BY <2>2 DEF TestsInv, KeysTypeOK
  <2>5. ~(now - cache[e].at <= TTL)
    BY <2>2, <2>3, <2>4 DEF Remembered, Fresh
  <2> QED BY <1>1, <2>2, <2>4, <2>5, KeysAssumption
<1>9. ASSUME NEW t \in Test, NEW u \in test'[t].after PROVE Waited(t, u)'
  <2>1. CASE t = s
    <3>1. test'[t] = record /\ u \in after
      BY <1>3, <1>4, <2>1
    <3>2. test'[u] = test[u] /\ Tested(u)' = e /\ test[u].billed # Never
      BY <1>4, <1>6, <3>1 DEF Tested
    <3>3. Tested(t)' = e
      BY <1>3, <3>1 DEF Tested
    <3> HIDE DEF after, e
    <3> QED BY <1>3, <1>8, <3>1, <3>2, <3>3 DEF Waited
  <2>2. CASE t # s
    <3>1. test'[t] = test[t] /\ u \in test[t].after /\ u \in Test
      <4>1. test'[t] = test[t] /\ test[t] \in TestRecord
        BY <1>1, <1>4, <2>2
      <4> QED BY <4>1 DEF TestRecord
    <3>2. Waited(t, u)
      BY <3>1 DEF SparedInv
    <3>3. u # s
      BY <1>5, <3>2 DEF Waited, NoTest
    <3>4. test'[u] = test[u]
      BY <1>4, <3>1, <3>3
    <3> QED BY <3>1, <3>2, <3>4 DEF Waited, Tested
  <2> QED BY <2>1, <2>2
<1> QED BY <1>7, <1>9 DEF SparedInv

\* A test goes on or is answered: none began after it, for it was not billed.
LEMMA SparedGoesOn ==
  ASSUME SparedInv, TestsInv, NEW t \in Test, test[t].pc # "idle", NEW record \in TestRecord,
         test' = [test EXCEPT ![t] = record], UNCHANGED <<now, requests>>,
         record.process = test[t].process, record.provider = test[t].provider,
         record.key = test[t].key, record.since = test[t].since, record.after = test[t].after,
         record.billed # Never => /\ record.pc = "idle" /\ record.billed = now
                                  /\ record.state \in {"verified", "unreachable"},
         record.billed # Never /\ record.state = "verified" =>
           Tested(t) \in DOMAIN cache' /\ cache'[Tested(t)].at = now,
         \A x \in DOMAIN cache : x \in DOMAIN cache' /\ cache'[x].at \in Nat
                                 /\ cache'[x].at >= cache[x].at
  PROVE  SparedInv'
<1>1. /\ test \in [Test -> TestRecord] /\ now \in Nat /\ requests \in Nat
      /\ \A x \in DOMAIN cache : cache[x].at \in Nat
  BY DEF TestsInv, KeysTypeOK
<1>2. \A u \in Test : test'[u] = IF u = t THEN record ELSE test[u]
  BY <1>1
<1>3. test[t].billed = Never
  BY DEF SparedInv, Kept
<1>4. \A u \in Test : Tested(u)' = Tested(u)
  BY <1>2 DEF Tested
<1>5. t \in Nat /\ t <= requests
  BY <1>1 DEF SparedInv, Kept, NoTest, Test
<1>6. ASSUME NEW u \in Test PROVE Kept(u)'
  <2>1. Kept(u) /\ u \in Nat
    BY DEF SparedInv, Test
  <2>2. CASE u = t
    <3>1. test'[u] = record /\ Tested(u)' = Tested(t)
      BY <1>2, <1>4, <2>2
    <3> QED BY <1>1, <1>5, <2>2, <3>1 DEF Kept
  <2>3. CASE u # t
    <3>1. test'[u] = test[u] /\ Tested(u)' = Tested(u)
      BY <1>2, <1>4, <2>3
    <3>2. ASSUME test[u].billed # Never, test[u].state = "verified"
          PROVE  Tested(u) \in DOMAIN cache' /\ cache'[Tested(u)].at >= test[u].billed
      <4>1. /\ Tested(u) \in DOMAIN cache /\ cache[Tested(u)].at >= test[u].billed
            /\ test[u].billed \in Nat
        BY <2>1, <3>2 DEF Kept
      <4> DEFINE w == Tested(u)
      <4>2. w \in DOMAIN cache' /\ cache'[w].at \in Nat /\ cache'[w].at >= cache[w].at /\ cache[w].at \in Nat
        BY <1>1, <4>1
      <4> HIDE DEF w
      <4>3. cache'[w].at >= test[u].billed
        BY <4>1, <4>2 DEF w
      <4> QED BY <4>2, <4>3 DEF w
    <3> QED BY <2>1, <3>1, <3>2 DEF Kept
  <2> QED BY <2>2, <2>3
<1>7. ASSUME NEW v \in Test, NEW u \in test'[v].after PROVE Waited(v, u)'
  <2>1. u \in test[v].after /\ u \in Test
    <3>1. test[v] \in TestRecord /\ test'[v].after = test[v].after
      BY <1>1, <1>2
    <3> QED BY <3>1 DEF TestRecord
  <2>2. Waited(v, u)
    BY <2>1 DEF SparedInv
  <2>3. u # t
    BY <1>3, <2>2 DEF Waited
  <2>4. test'[u] = test[u] /\ Tested(u)' = Tested(u) /\ Tested(v)' = Tested(v)
    BY <1>2, <1>4, <2>1, <2>3
  <2>5. /\ test'[v].since = test[v].since
        /\ test'[v].pc # "idle" \/ test'[v].billed # Never =>
             test[v].pc # "idle" \/ test[v].billed # Never
    BY <1>2
  <2> QED BY <2>2, <2>4, <2>5 DEF Waited
<1> QED BY <1>6, <1>7 DEF SparedInv

\* The vendor has answered, or not.
LEMMA SparedAnswered ==
  ASSUME SparedInv, TestsInv, NEW t \in Test,
         ListingAnswers(t) \/ CompletionAnswers(t)
  PROVE  SparedInv'
<1>1. /\ test[t].pc # "idle" /\ UNCHANGED <<now, requests>> /\ TestInv(t) /\ test[t] \in TestRecord
      /\ now \in Nat /\ \A x \in DOMAIN cache : cache[x].at \in Nat /\ cache[x].at <= now
  BY DEF ListingAnswers, CompletionAnswers, TestsInv, HeardInv, KeysTypeOK
<1>2. test[t].billed = Never
  BY <1>1 DEF SparedInv, Kept
<1>3. ASSUME UNCHANGED cache \/ \E result : Learn(t, result)
      PROVE  \A x \in DOMAIN cache : x \in DOMAIN cache' /\ cache'[x].at \in Nat
                                     /\ cache'[x].at >= cache[x].at
  <2>1. CASE UNCHANGED cache
    BY <1>1, <2>1
  <2>2. CASE \E result : Learn(t, result)
    <3>1. PICK result : cache' = Inserted(cache, Tested(t), [result |-> result, at |-> now])
      BY <2>2 DEF Learn, Remember, Tested
    <3>2. \A x \in DOMAIN cache :
            x \in DOMAIN cache' /\ (cache'[x].at = now \/ cache'[x] = cache[x])
      BY <3>1 DEF Inserted
    <3> QED BY <1>1, <3>2
  <2> QED BY <1>3, <2>1, <2>2
<1>4. ASSUME NEW state \in TestState, Say(t, state), UNCHANGED cache \/ \E result : Learn(t, result)
      PROVE  SparedInv'
  <2>1. PICK record \in TestRecord :
           /\ test' = [test EXCEPT ![t] = record] /\ record.since = test[t].since
           /\ record.process = test[t].process /\ record.provider = test[t].provider
           /\ record.key = test[t].key /\ record.after = test[t].after
           /\ record.billed = test[t].billed
    BY <1>4, Answered DEF TestsInv, Ended
  <2> QED BY <1>1, <1>2, <1>3, <1>4, <2>1, SparedGoesOn
<1>5. ASSUME NEW state \in {"verified", "unreachable"}, SayBilled(t, state),
             \/ state = "verified" /\ Learn(t, "verified")
             \/ state = "unreachable" /\ UNCHANGED cache
      PROVE  SparedInv'
  <2>1. PICK record \in TestRecord :
           /\ test' = [test EXCEPT ![t] = record] /\ record.since = test[t].since
           /\ record.process = test[t].process /\ record.provider = test[t].provider
           /\ record.key = test[t].key /\ record.after = test[t].after
           /\ record.billed = now /\ record.pc = "idle" /\ record.state = state
    BY <1>5, Answered DEF TestsInv, Ended, TestState
  <2>2. state = "verified" => Tested(t) \in DOMAIN cache' /\ cache'[Tested(t)].at = now
    <3>1. ASSUME Learn(t, "verified")
          PROVE  Tested(t) \in DOMAIN cache' /\ cache'[Tested(t)] = [result |-> "verified", at |-> now]
      <4>1. cache' = Inserted(cache, Tested(t), [result |-> "verified", at |-> now])
        BY <3>1 DEF Learn, Remember, Tested
      <4> QED BY <4>1 DEF Inserted
    <3> QED BY <1>5, <3>1
  <2>3. \A x \in DOMAIN cache : x \in DOMAIN cache' /\ cache'[x].at \in Nat
                                 /\ cache'[x].at >= cache[x].at
    BY <1>3, <1>5
  <2> QED BY <1>1, <2>1, <2>2, <2>3, SparedGoesOn
<1>6. ASSUME NEW authenticated,
             test' = [test EXCEPT ![t].pc = "completing", ![t].authenticated = authenticated],
             authenticated \in BOOLEAN, UNCHANGED cache
      PROVE  SparedInv'
  <2> DEFINE record == [test[t] EXCEPT !.pc = "completing", !.authenticated = authenticated]
  <2>1. /\ record \in TestRecord /\ record.since = test[t].since
        /\ record.process = test[t].process /\ record.provider = test[t].provider
        /\ record.key = test[t].key /\ record.after = test[t].after
        /\ record.billed = test[t].billed
    BY <1>1, <1>6 DEF TestRecord
  <2>2. test' = [test EXCEPT ![t] = record]
    BY <1>6 DEF TestsInv, KeysTypeOK
  <2> HIDE DEF record
  <2> QED BY <1>1, <1>2, <1>3, <1>6, <2>1, <2>2, SparedGoesOn
<1>7. CASE ListingAnswers(t)
  <2>1. \E status :
          \/ Learn(t, "rejected") /\ Say(t, "rejected")
          \/ Say(t, "unreachable") /\ UNCHANGED cache
          \/ /\ test' = [test EXCEPT ![t].pc = "completing", ![t].authenticated = (status = 200)]
             /\ UNCHANGED cache
    BY <1>7 DEF ListingAnswers
  <2>2. \A status : (status = 200) \in BOOLEAN
    OBVIOUS
  <2> QED BY <1>4, <1>6, <2>1, <2>2 DEF TestState
<1>8. CASE CompletionAnswers(t)
  <2>1. \/ Learn(t, "verified") /\ SayBilled(t, "verified")
        \/ Learn(t, "rejected") /\ Say(t, "rejected")
        \/ Say(t, "blocked") /\ UNCHANGED cache
        \/ SayBilled(t, "unreachable") /\ UNCHANGED cache
    BY <1>8 DEF CompletionAnswers
  <2> QED BY <1>4, <1>5, <2>1 DEF TestState
<1> QED BY <1>7, <1>8

LEMMA SparedStep ==
  ASSUME SparedInv, TestsInv, [Next]_vars
  PROVE  SparedInv'
<1>1. now \in Nat /\ requests \in Nat /\ KeysTypeOK
  BY DEF TestsInv, KeysTypeOK
<1>2. ASSUME UNCHANGED testVars, now' = now \/ now' = now + 1,
             \/ requests' = requests \/ requests' = requests + 1
             \/ requests' \in Nat /\ requests <= requests'
      PROVE  SparedInv'
  BY <1>1, <1>2, SparedStays
<1>3. ASSUME NEW p \in Provider,
             \/ \E k \in Key : SetKey(p, k)
             \/ RemoveKey(p) \/ LockKey(p) \/ UnlockKey(p)
             \/ \E k \in Key, standing \in Standing : AccountChanges(p, k, standing)
      PROVE  SparedInv'
  BY <1>2, <1>3 DEF SetKey, RemoveKey, LockKey, UnlockKey, AccountChanges
<1>4. CASE Tick \/ ShowProviders \/ SeatNext \/ EndPanel
  BY <1>2, <1>4 DEF Tick, ShowProviders, SeatNext, EndPanel
<1>5. CASE StartFromScreen \/ StartByHand
  BY <1>2, <1>5 DEF StartFromScreen, StartByHand, BeginPanel, Request
<1>6. ASSUME NEW p, NEW ticked, NEW catalogue, PickFree(p, ticked, catalogue) PROVE SparedInv'
  BY <1>2, <1>6 DEF PickFree, Request
<1>7. ASSUME NEW process \in Process, NEW p \in Provider, BeginTest(process, p) PROVE SparedInv'
  BY <1>7, SparedBegins
<1>8. ASSUME NEW t \in Test, ListingAnswers(t) \/ CompletionAnswers(t) PROVE SparedInv'
  BY <1>8, SparedAnswered
<1>9. CASE CompareNext
  <2>1. UNCHANGED <<now, testVars>> /\ requests' \in Nat /\ requests <= requests'
    BY <1>1, <1>9, CompareAside
  <2> QED BY <1>2, <2>1
<1>10. CASE UNCHANGED vars
  BY <1>2, <1>10 DEF vars, keysVars
<1> QED
  BY <1>3, <1>4, <1>5, <1>6, <1>7, <1>8, <1>9, <1>10 DEF Next, KeysNext

(***************************************************************************)
(* A process whose test of a key has been billed is not billed for a later *)
(* test of it within TTL, unless the answer was lost or unreadable: not by *)
(* keys that are replaced and put back, verdicts of other keys, or the     *)
(* tests of other processes (verify, VerificationCache).                   *)
(***************************************************************************)
THEOREM CompletionsAreSpared == Spec => []BilledOnce
<1>1. CompareInit => TestsInv /\ SparedInv
  BY TestsInit, SparedInit
<1>2. TestsInv /\ SparedInv /\ [Next]_vars => (TestsInv /\ SparedInv)'
  BY TestsStep, SparedStep
<1>3. TestsInv /\ SparedInv => BilledOnce
  BY KeysAssumption DEF SparedInv, Kept, Waited, BilledOnce, TestsInv, KeysTypeOK, TestRecord
<1> QED BY <1>1, <1>2, <1>3, PTL DEF Spec

---------------------------------------------------------------------------
(* Folds and sums *)

Joining == INSTANCE FoldLemmas WITH Op <- Joined
Choosing == INSTANCE FoldLemmas WITH Op <- NotChosen
Covering == INSTANCE FoldLemmas WITH Op <- OfNewFamily
Filtering == INSTANCE FoldLemmas WITH Op <- IfEligible

Plus(x, y) == y + x

Adding == INSTANCE FoldLemmas WITH Op <- Plus

\* The folds of the model are those of the lemmas.
LEMMA FoldsAre ==
  ASSUME NEW base, NEW seq
  PROVE  /\ FoldLeft(Joined, base, seq) = Joining!SequenceFold(base, seq)
         /\ FoldLeft(NotChosen, base, seq) = Choosing!SequenceFold(base, seq)
         /\ FoldLeft(OfNewFamily, base, seq) = Covering!SequenceFold(base, seq)
         /\ FoldLeft(IfEligible, base, seq) = Filtering!SequenceFold(base, seq)
<1>1. FoldLeft(Joined, base, seq) = Joining!SequenceFold(base, seq)
  BY DEF FoldLeft, MapThenFoldSet, Max, Joining!SequenceFold, Joining!FoldLeft,
         Joining!MapThenFoldSet, Joining!Max
<1>2. FoldLeft(NotChosen, base, seq) = Choosing!SequenceFold(base, seq)
  BY DEF FoldLeft, MapThenFoldSet, Max, Choosing!SequenceFold, Choosing!FoldLeft,
         Choosing!MapThenFoldSet, Choosing!Max
<1>3. FoldLeft(OfNewFamily, base, seq) = Covering!SequenceFold(base, seq)
  BY DEF FoldLeft, MapThenFoldSet, Max, Covering!SequenceFold, Covering!FoldLeft,
         Covering!MapThenFoldSet, Covering!Max
<1>4. FoldLeft(IfEligible, base, seq) = Filtering!SequenceFold(base, seq)
  BY DEF FoldLeft, MapThenFoldSet, Max, Filtering!SequenceFold, Filtering!FoldLeft,
         Filtering!MapThenFoldSet, Filtering!Max
<1> QED BY <1>1, <1>2, <1>3, <1>4

LEMMA ImageOf ==
  ASSUME NEW S, IsFiniteSet(S), NEW f
  PROVE  /\ IsFiniteSet({f[x] : x \in S}) /\ Cardinality({f[x] : x \in S}) <= Cardinality(S)
         /\ (\A x, y \in S : f[x] = f[y] => x = y)
              => Cardinality({f[x] : x \in S}) = Cardinality(S)
<1> DEFINE T == {f[x] : x \in S}
           g == [x \in S |-> f[x]]
<1>1. g \in Surjection(S, T)
  BY DEF Surjection
<1>2. (\A x, y \in S : f[x] = f[y] => x = y) => g \in Injection(S, T)
  BY DEF Injection, IsInjective
<1> HIDE DEF g, T
<1>3. /\ IsFiniteSet(T) /\ Cardinality(T) <= Cardinality(S)
      /\ Cardinality(T) = Cardinality(S) <=> g \in Injection(S, T)
  BY <1>1, FS_Surjection
<1> QED BY <1>2, <1>3 DEF T

LEMMA SumIsInt ==
  ASSUME NEW S, IsFiniteSet(S), NEW f, \A x \in S : f[x] \in Int
  PROVE  SumFunctionOnSet(f, S) \in Int
<1>1. Adding!Adds
  BY DEF Adding!Adds, Plus
<1>2. SumFunctionOnSet(f, S) = Adding!Total(f, S)
  BY DEF SumFunctionOnSet, FoldFunctionOnSet, MapThenFoldSet, Adding!Total, Adding!SetFold,
         Adding!Step, Adding!FoldFunctionOnSet, Adding!MapThenFoldSet, Plus
<1>3. Adding!IsFiniteSet(S)
  BY DEF IsFiniteSet, Adding!IsFiniteSet
<1> QED BY <1>1, <1>2, <1>3, Adding!TotalInt

---------------------------------------------------------------------------
(* What the screen shows, and what it asks for *)

Listed(seq) == seq \in Seq(Range(seq))

\* A list of panel entries that only names real providers of the screen.
FromShown(left) == \E E : left \in Seq(E) /\ \A e \in E : e.provider \in shown \ {Mock}

ScreenInv ==
  /\ DOMAIN lines = Provider /\ \A p \in Provider : Listed(lines[p])
  /\ \A p \in shown \ {Mock} : KeyIn(serve, p) # Unset \/ p \in withdrawn
  /\ DOMAIN panel = DOMAIN NoPanel
  /\ panel.pc = "resolving" /\ panel.screen => panel.process = serve /\ FromShown(panel.left)

LEMMA EligibleListed ==
  ASSUME NEW catalogue, Listed(catalogue)
  PROVE  Eligible(catalogue) \in Seq(Range(catalogue))
<1> DEFINE G == Seq(Range(catalogue))
<1>1. PICK n \in Nat : DOMAIN catalogue = 1..n
  BY DEF Listed
<1>2. ASSUME NEW acc \in G, NEW i \in 1..n PROVE IfEligible(acc, catalogue[i]) \in G
  <2>1. catalogue[i] \in Range(catalogue)
    BY <1>1 DEF Range
  <2> QED BY <2>1 DEF IfEligible
<1>3. <<>> \in G
  OBVIOUS
<1> HIDE DEF G
<1>4. Filtering!SequenceFold(<<>>, catalogue) \in G
  BY <1>1, <1>2, <1>3, Filtering!SequenceFoldKeeps
<1> QED BY <1>4, FoldsAre DEF Eligible, G

LEMMA FreePanelListed ==
  ASSUME NEW catalogue, Listed(catalogue)
  PROVE  FreePanel(catalogue) \in Seq(Range(catalogue))
<1> DEFINE G == Seq(Range(catalogue))
           models == Eligible(catalogue)
           first == FoldLeft(OfNewFamily, <<>>, models)
<1>1. models \in G
  BY EligibleListed
<1> HIDE DEF models
<1>2. PICK n \in Nat : DOMAIN models = 1..n
  BY <1>1
<1>3. ASSUME NEW acc \in G, NEW i \in 1..n
      PROVE  OfNewFamily(acc, models[i]) \in G /\ NotChosen(acc, models[i]) \in G
  BY <1>1, <1>2 DEF OfNewFamily, NotChosen
<1>4. <<>> \in G
  OBVIOUS
<1> HIDE DEF G
<1>5. Covering!SequenceFold(<<>>, models) \in G
  BY <1>2, <1>3, <1>4, Covering!SequenceFoldKeeps
<1>6. first \in G
  BY <1>5, FoldsAre
<1> HIDE DEF first
<1>7. Choosing!SequenceFold(first, models) \in G
  BY <1>2, <1>3, <1>6, Choosing!SequenceFoldKeeps
<1> QED BY <1>7, FoldsAre DEF FreePanel, G, first, models

\* After the word mock, the entries of the real providers that are ticked, and no
\* other.
LEMMA SpecOfTicked ==
  ASSUME DOMAIN lines = Provider, \A p \in Provider : Listed(lines[p]), NEW ticked
  PROVE  \E E, rest :
            /\ rest \in Seq(E) /\ \A e \in E : e.provider \in ticked \intersect Provider
            /\ ticked \intersect Provider # {} => rest # <<>>
            /\ SpecOf(ticked) = (IF Mock \in ticked THEN <<Bare(Mock)>> ELSE <<>>) \o rest
<1> DEFINE M == {Default} \union UNION {Range(lines[p]) : p \in Provider}
           E == [provider : ticked \intersect Provider, model : M]
           entries == [i \in DOMAIN providers |->
                         IF providers[i] \in ticked THEN EntriesOf(providers[i]) ELSE <<>>]
           Some(i) == \E j \in 1 .. i : providers[j] \in ticked
<1>1. PICK n \in Nat : DOMAIN providers = 1..n
  BY KeysAssumption
<1> DEFINE H == [i \in 0 .. n |-> {s \in Seq(E) : Some(i) => s # <<>>}]
<1>2. ASSUME NEW p \in Provider, p \in ticked
      PROVE  EntriesOf(p) \in Seq(E) /\ EntriesOf(p) # <<>>
  <2>1. Default \in M
    OBVIOUS
  <2>2. CASE lines[p] = <<>>
    <3>1. Bare(p) \in E
      BY <1>2, <2>1 DEF Bare
    <3> HIDE DEF E
    <3> QED BY <2>2, <3>1 DEF EntriesOf
  <2>3. CASE lines[p] # <<>>
    <3>1. PICK k \in Nat : DOMAIN lines[p] = 1..k
      BY DEF Listed
    <3>2. \A i \in 1..k : lines[p][i] \in M
      BY <3>1 DEF Range
    <3>3. \A i \in 1..k : [provider |-> p, model |-> lines[p][i]] \in E
      BY <1>2, <3>2
    <3>4. EntriesOf(p) = [i \in 1..k |-> [provider |-> p, model |-> lines[p][i]]]
      BY <2>3, <3>1 DEF EntriesOf
    <3> HIDE DEF E
    <3>5. EntriesOf(p) \in [1..k -> E]
      BY <3>3, <3>4
    <3>6. k # 0
      <4>1. lines[p] \in Seq(Range(lines[p]))
        BY DEF Listed
      <4> QED BY <2>3, <3>1, <4>1
    <3>7. Len(EntriesOf(p)) = k /\ EntriesOf(p) \in Seq(E)
      BY <3>5
    <3> QED BY <3>6, <3>7
  <2> QED BY <2>2, <2>3
<1>3. ASSUME NEW i \in 1..n, NEW acc \in H[i - 1] PROVE Joined(acc, entries[i]) \in H[i]
  <2>1. providers[i] \in Provider /\ i - 1 \in 0 .. n /\ i \in 0 .. n
    <3> HIDE DEF H, E, entries, Some
    <3>1. providers[i] \in Provider
      BY <1>1 DEF Provider, Range
    <3> QED BY <3>1
  <2>2. acc \in Seq(E) /\ (Some(i - 1) => acc # <<>>)
    BY <1>3, <2>1
  <2>3. /\ entries[i] \in Seq(E)
        /\ providers[i] \in ticked => entries[i] # <<>>
    <3> HIDE DEF E
    <3> QED BY <1>1, <1>2, <2>1
  <2>4. Some(i) => Some(i - 1) \/ providers[i] \in ticked
    OBVIOUS
  <2>5. PICK last : last = entries[i]
    OBVIOUS
  <2> HIDE DEF entries, E, Some
  <2>6. /\ acc \o last \in Seq(E)
        /\ acc # <<>> \/ last # <<>> => acc \o last # <<>>
    BY <2>2, <2>3, <2>5
  <2>7. Some(i) => acc \o last # <<>>
    BY <2>2, <2>3, <2>4, <2>5, <2>6
  <2> QED BY <2>1, <2>5, <2>6, <2>7 DEF Joined
<1>4. <<>> \in H[0] /\ DOMAIN entries = 1..n
  <2>1. <<>> \in Seq(E)
    OBVIOUS
  <2>2. ~Some(0) /\ 0 \in 0 .. n
    OBVIOUS
  <2> QED BY <1>1, <2>1, <2>2
<1> HIDE DEF H, entries
<1>5. Joining!SequenceFold(<<>>, entries) \in H[n]
  BY <1>1, <1>3, <1>4, Joining!SequenceFoldReaches
<1>6. PICK rest : rest = FoldLeft(Joined, <<>>, entries)
  OBVIOUS
<1>7. rest \in Seq(E) /\ (Some(n) => rest # <<>>)
  <2>1. rest \in H[n] /\ n \in 0 .. n
    BY <1>5, <1>6, FoldsAre
  <2> QED BY <2>1 DEF H
<1>8. ASSUME NEW p \in ticked \intersect Provider PROVE Some(n)
  <2>1. PICK j \in DOMAIN providers : providers[j] = p
    BY DEF Provider, Range
  <2> HIDE DEF E
  <2> QED BY <1>1, <2>1
<1>9. SpecOf(ticked) = (IF Mock \in ticked THEN <<Bare(Mock)>> ELSE <<>>) \o rest
  BY <1>6 DEF SpecOf, entries
<1>10. \A e \in E : e.provider \in ticked \intersect Provider
  OBVIOUS
<1> HIDE DEF E, Some
<1> QED BY <1>7, <1>8, <1>9, <1>10

\* What becomes of the boxes that are ticked.
Begins(asked) ==
  \/ asked = <<Bare(Mock)>>
  \/ MixesMock(asked) /\ \E i \in DOMAIN asked : UnknownDefault(asked[i])
  \/ /\ asked # <<>> /\ FromShown(asked)
     /\ ~\E i \in DOMAIN asked : UnknownDefault(asked[i])

LEMMA SpecBegins ==
  ASSUME ScreenInv, KeysTypeOK, NEW ticked \in SUBSET shown, ticked # {}
  PROVE  Begins(SpecOf(ticked))
<1>1. PICK E, rest :
         /\ rest \in Seq(E) /\ \A e \in E : e.provider \in ticked \intersect Provider
         /\ ticked \intersect Provider # {} => rest # <<>>
         /\ SpecOf(ticked) = (IF Mock \in ticked THEN <<Bare(Mock)>> ELSE <<>>) \o rest
  BY SpecOfTicked DEF ScreenInv
<1>2. PICK asked : asked = SpecOf(ticked)
  OBVIOUS
<1>3. PICK mock : mock = Bare(Mock)
  OBVIOUS
<1>4. mock.provider = Mock /\ mock.model = Default /\ Mock \notin Provider
  BY <1>3, KeysAssumption DEF Bare
<1>5. CASE Mock \in ticked
  <2>1. asked = <<mock>> \o rest
    BY <1>1, <1>2, <1>3, <1>5
  <2>2. CASE rest = <<>>
    <3>1. asked = <<mock>>
      BY <2>1, <2>2
    <3> QED BY <1>2, <1>3, <3>1 DEF Begins
  <2>3. CASE rest # <<>>
    <3>1. /\ rest[1] \in E /\ asked[1] = mock /\ asked[2] = rest[1]
          /\ 1 \in DOMAIN asked /\ 2 \in DOMAIN asked
      <4> DEFINE all == E \union {mock}
      <4>1. <<mock>> \in Seq(all) /\ rest \in Seq(all) /\ Len(rest) >= 1 /\ rest[1] \in E
        BY <1>1, <2>3
      <4> HIDE DEF all
      <4> QED BY <2>1, <4>1
    <3>2. asked[1].provider = Mock /\ asked[2].provider # Mock
      BY <1>1, <1>4, <3>1
    <3>3. UnknownDefault(asked[1])
      BY <1>4, <3>1 DEF UnknownDefault
    <3>4. MixesMock(asked)
      BY <3>1, <3>2 DEF MixesMock
    <3> QED BY <1>2, <3>1, <3>3, <3>4 DEF Begins
  <2> QED BY <2>2, <2>3
<1>6. CASE Mock \notin ticked
  <2>1. asked = rest
    BY <1>1, <1>2, <1>6
  <2>2. ticked \subseteq Provider
    BY <1>6 DEF KeysTypeOK
  <2>3. asked # <<>>
    BY <1>1, <2>1, <2>2
  <2>4. FromShown(asked)
    BY <1>1, <1>6, <2>1 DEF FromShown
  <2>5. ~\E i \in DOMAIN asked : UnknownDefault(asked[i])
    BY <1>1, <2>1 DEF UnknownDefault
  <2> QED BY <1>2, <2>3, <2>4, <2>5 DEF Begins
<1> QED BY <1>5, <1>6

---------------------------------------------------------------------------
LEMMA ScreenInit == CompareInit => ScreenInv
<1> SUFFICES ASSUME CompareInit PROVE ScreenInv
  OBVIOUS
<1>1. DOMAIN lines = Provider /\ \A p \in Provider : lines[p] = <<>>
  BY DEF CompareInit, Init
<1>2. Listed(<<>>)
  BY DEF Listed
<1>3. panel = NoPanel
  BY DEF CompareInit, Init
<1> QED BY <1>1, <1>2, <1>3 DEF CompareInit, Init, ScreenInv, Usable, NoPanel

\* A key that is there stays there until it is removed or locked.
LEMMA ScreenStays ==
  ASSUME ScreenInv, KeysTypeOK, UNCHANGED <<shown, lines, panel>>,
         \A p \in Provider : KeyIn(serve, p)' = Unset => KeyIn(serve, p) = Unset \/ p \in withdrawn',
         withdrawn \subseteq withdrawn'
  PROVE  ScreenInv'
<1>1. \A p \in shown \ {Mock} : p \in Provider
  BY DEF KeysTypeOK
<1> QED BY <1>1 DEF ScreenInv, FromShown

LEMMA ShortestOf ==
  ASSUME NEW i \in Int, NEW j \in Int
  PROVE  Min({i, j}) \in Int /\ Max({i, j}) \in Int /\ Max({i, j}) >= i
<1>1. \E x \in {i, j} : \A y \in {i, j} : x <= y
  OBVIOUS
<1>2. \E x \in {i, j} : \A y \in {i, j} : x >= y
  OBVIOUS
<1> QED BY <1>1, <1>2 DEF Min, Max

LEMMA PickKeepsScreen ==
  ASSUME ScreenInv, KeysTypeOK, NEW p \in Provider, NEW ticked \in SUBSET shown,
         NEW catalogue \in Catalogue, PickFree(p, ticked, catalogue)
  PROVE  ScreenInv'
<1> DEFINE free == FreePanel(catalogue)
           short == Suggested - SumFunctionOnSet(LinesOf, ticked \ {p})
           want == Max({1, Min({Len(free), short})})
<1>1. /\ panel.pc # "resolving"
      /\ lines' = IF free = <<>> THEN lines ELSE [lines EXCEPT ![p] = [i \in 1..want |-> free[i].id]]
      /\ UNCHANGED <<keyVars, shown, withdrawn, panel>>
  BY DEF PickFree
<1>2. free \in Seq(Range(catalogue))
  BY FreePanelListed, KeysAssumption DEF Listed
<1>3. short \in Int
  <2>1. \A q \in {Mock} \union Provider : LinesOf[q] \in Int
    <3>1. Len(SyntheticRoster) \in Int
      BY DEF SyntheticRoster
    <3> QED BY <3>1 DEF LinesOf, ScreenInv, Listed
  <2>2. IsFiniteSet(ticked \ {p})
    <3>1. PICK n \in Nat : DOMAIN providers = 1..n
      BY KeysAssumption
    <3>2. IsFiniteSet(1..n)
      BY FS_Interval
    <3>3. IsFiniteSet({providers[i] : i \in 1..n})
      BY <3>2, ImageOf
    <3>4. Provider = {providers[i] : i \in 1..n}
      BY <3>1 DEF Provider, Range
    <3>5. IsFiniteSet({Mock} \union Provider)
      BY <3>3, <3>4, FS_Singleton, FS_Union
    <3> QED BY <3>5, FS_Subset DEF KeysTypeOK
  <2>3. SumFunctionOnSet(LinesOf, ticked \ {p}) \in Int
    BY <2>1, <2>2, SumIsInt DEF KeysTypeOK
  <2> QED BY <2>3, KeysAssumption
<1>4. want \in Nat
  <2>1. Len(free) \in Int
    BY <1>2
  <2> DEFINE least == Min({Len(free), short})
  <2>2. least \in Int
    BY <1>3, <2>1, ShortestOf
  <2> HIDE DEF least
  <2>3. Max({1, least}) \in Int /\ Max({1, least}) >= 1
    BY <2>2, ShortestOf
  <2> QED BY <2>3 DEF least
<1> HIDE DEF free, short, want
<1>5. Listed([i \in 1..want |-> free[i].id])
  BY <1>4 DEF Listed, Range
<1>6. DOMAIN lines' = Provider /\ \A q \in Provider : Listed(lines'[q])
  BY <1>1, <1>5 DEF ScreenInv
<1>7. \A q \in Provider : KeyIn(serve, q)' = KeyIn(serve, q)
  BY <1>1 DEF KeyIn, keyVars
<1> QED BY <1>1, <1>6, <1>7 DEF ScreenInv, KeysTypeOK

\* A panel begins: typed by hand, or put together from what is shown.
LEMMA BeginKeepsScreen ==
  ASSUME ScreenInv, KeysTypeOK, NEW process, NEW asked, NEW screen,
         BeginPanel(process, asked, screen), screen => process = serve /\ Begins(asked)
  PROVE  /\ ScreenInv' /\ panel'.screen = screen
         /\ screen = TRUE /\ panel'.pc = "refused" => Excused(panel')
<1>1. PICK begun : begun = [NoPanel EXCEPT !.process = process, !.screen = screen, !.asked = asked]
  OBVIOUS
<1>2. begun = [pc |-> "none", process |-> process, screen |-> screen, asked |-> asked, left |-> <<>>,
               roster |-> <<>>, adapters |-> NoPanel.adapters, judge |-> NoPanel.judge,
               because |-> "none"]
  BY <1>1 DEF NoPanel
<1>3. PICK roster : roster = SyntheticRoster
  OBVIOUS
<1>4. PICK judge : judge = [provider |-> Mock, model |-> "judge"]
  OBVIOUS
<1>5. /\ asked = <<Bare(Mock)>> =>
           panel' = [begun EXCEPT !.pc = "ready", !.roster = roster, !.judge = judge]
      /\ asked # <<Bare(Mock)>> /\ asked = <<>> =>
           panel' = [begun EXCEPT !.pc = "refused", !.because = "empty"]
      /\ asked # <<Bare(Mock)>> /\ asked # <<>> /\ (\E i \in DOMAIN asked : UnknownDefault(asked[i])) =>
           panel' = [begun EXCEPT !.pc = "refused", !.because = "unknown"]
      /\ asked # <<Bare(Mock)>> /\ asked # <<>> /\ (~\E i \in DOMAIN asked : UnknownDefault(asked[i])) =>
           panel' = [begun EXCEPT !.pc = "resolving", !.left = asked]
  BY <1>1, <1>3, <1>4 DEF BeginPanel
<1>6. UNCHANGED <<keyVars, shown, withdrawn, lines>>
  BY DEF BeginPanel, screenVars
<1>7. \A q \in Provider : KeyIn(serve, q)' = KeyIn(serve, q)
  BY <1>6 DEF KeyIn, keyVars
<1>8. DOMAIN NoPanel = {"pc", "process", "screen", "asked", "left", "roster", "adapters", "judge", "because"}
  BY DEF NoPanel
<1>9. /\ DOMAIN panel' = DOMAIN NoPanel /\ panel'.screen = screen
      /\ panel'.process = process /\ panel'.asked = asked
      /\ \/ panel'.pc = "ready"
         \/ asked = <<>> /\ asked # <<Bare(Mock)>> /\ panel'.pc = "refused"
         \/ /\ asked # <<Bare(Mock)>> /\ \E i \in DOMAIN asked : UnknownDefault(asked[i])
            /\ panel'.pc = "refused" /\ panel'.because = "unknown"
         \/ /\ asked # <<Bare(Mock)>> /\ ~\E i \in DOMAIN asked : UnknownDefault(asked[i])
            /\ panel'.pc = "resolving" /\ panel'.left = asked
  <2>1. CASE asked = <<Bare(Mock)>>
    BY <1>2, <1>5, <1>8, <2>1
  <2>2. CASE asked # <<Bare(Mock)>> /\ asked = <<>>
    BY <1>2, <1>5, <1>8, <2>2
  <2>3. CASE asked # <<Bare(Mock)>> /\ asked # <<>> /\ \E i \in DOMAIN asked : UnknownDefault(asked[i])
    BY <1>2, <1>5, <1>8, <2>3
  <2>4. CASE asked # <<Bare(Mock)>> /\ asked # <<>> /\ ~\E i \in DOMAIN asked : UnknownDefault(asked[i])
    BY <1>2, <1>5, <1>8, <2>4
  <2> QED BY <2>1, <2>2, <2>3, <2>4
<1>10. panel'.pc = "resolving" /\ panel'.screen => panel'.process = serve /\ FromShown(panel.left)'
  <2> SUFFICES ASSUME panel'.pc = "resolving", panel'.screen
               PROVE  panel'.process = serve /\ FromShown(panel.left)'
    OBVIOUS
  <2>1. process = serve /\ FromShown(asked) /\ panel'.left = asked /\ panel'.process = process
    BY <1>9 DEF Begins
  <2> QED BY <1>6, <2>1 DEF FromShown
<1>11. ASSUME screen = TRUE, panel'.pc = "refused" PROVE Excused(panel')
  <2>1. MixesMock(asked) /\ panel'.because = "unknown" /\ panel'.asked = asked
    BY <1>9, <1>11 DEF Begins, MixesMock
  <2> QED BY <2>1 DEF Excused
<1> QED BY <1>6, <1>7, <1>9, <1>10, <1>11 DEF ScreenInv, KeysTypeOK

\* The panel after an entry is seated, is refused, or the panel is over.
LEMMA SeatKeepsScreen ==
  ASSUME ScreenInv, KeysTypeOK, SeatNext \/ EndPanel
  PROVE  /\ ScreenInv'
         /\ panel.screen /\ panel'.pc = "refused" => Excused(panel')
<1> DEFINE p == Head(panel.left).provider
           k == KeyIn(panel.process, p)
<1>1. UNCHANGED <<keyVars, shown, withdrawn, lines>> /\ panel.pc = "resolving"
  BY DEF SeatNext, EndPanel, screenVars
<1>2. \A q \in Provider : KeyIn(serve, q)' = KeyIn(serve, q)
  BY <1>1 DEF KeyIn, keyVars
<1>3. DOMAIN panel = {"pc", "process", "screen", "asked", "left", "roster", "adapters", "judge", "because"}
  BY DEF ScreenInv, NoPanel
<1>4. /\ DOMAIN NoPanel = DOMAIN panel /\ DOMAIN Seated = DOMAIN panel
      /\ Seated.left = Tail(panel.left) /\ Seated.pc = panel.pc
      /\ Seated.process = panel.process /\ Seated.screen = panel.screen
  BY <1>3 DEF Seated, NoPanel
<1>5. ASSUME NEW because
      PROVE  /\ DOMAIN Refused(because) = DOMAIN NoPanel /\ Refused(because).pc = "refused"
             /\ Refused(because).because = because
  BY DEF Refused, NoPanel
<1>6. /\ DOMAIN panel' = DOMAIN NoPanel
      /\ \/ panel'.pc = "ready"
         \/ /\ panel'.pc = "resolving" /\ panel'.process = panel.process /\ panel'.screen = panel.screen
            /\ panel.left # <<>> /\ panel'.left = Tail(panel.left)
         \/ /\ panel'.pc = "refused" /\ panel.left # <<>>
            /\ \/ panel'.because = "unknown" /\ p \notin Provider
               \/ panel'.because = "no key" /\ k = Unset
               \/ panel'.because = "no client"
  <2>1. CASE EndPanel
    BY <1>3, <1>4, <2>1 DEF EndPanel
  <2>2. CASE SeatNext
    <3>1. /\ panel.left # <<>>
          /\ \/ panel' = Seated
             \/ panel' = Refused("unknown") /\ p \notin Provider
             \/ panel' = Refused("no key") /\ k = Unset
             \/ panel' = [Seated EXCEPT !.adapters = Inserted(@, p, k)]
             \/ panel' = Refused("no client")
      BY <2>2 DEF SeatNext
    <3> HIDE DEF p, k
    <3>2. CASE panel' = Seated
      BY <1>1, <1>4, <3>1, <3>2
    <3>3. CASE panel' = [Seated EXCEPT !.adapters = Inserted(@, p, k)]
      <4>1. /\ DOMAIN panel' = DOMAIN Seated /\ panel'.pc = Seated.pc
            /\ panel'.process = Seated.process /\ panel'.screen = Seated.screen
            /\ panel'.left = Seated.left
        <5>1. PICK seated : seated = Seated
          OBVIOUS
        <5>2. PICK adapters : adapters = Inserted(seated.adapters, p, k)
          OBVIOUS
        <5>3. panel' = [seated EXCEPT !.adapters = adapters] /\ DOMAIN seated = DOMAIN panel
          BY <1>4, <3>3, <5>1, <5>2
        <5> QED BY <1>3, <5>1, <5>3
      <4> QED BY <1>1, <1>4, <3>1, <4>1
    <3>4. CASE panel' = Refused("unknown") /\ p \notin Provider
      BY <1>5, <3>1, <3>4
    <3>5. CASE panel' = Refused("no key") /\ k = Unset
      BY <1>5, <3>1, <3>5
    <3>6. CASE panel' = Refused("no client")
      BY <1>5, <3>1, <3>6
    <3> QED BY <3>1, <3>2, <3>3, <3>4, <3>5, <3>6
  <2> QED BY <2>1, <2>2
<1>7. panel'.pc = "resolving" /\ panel'.screen => panel'.process = serve /\ FromShown(panel.left)'
  <2> SUFFICES ASSUME panel'.pc = "resolving", panel'.screen
               PROVE  panel'.process = serve /\ FromShown(panel.left)'
    OBVIOUS
  <2>1. panel.left # <<>> /\ panel'.left = Tail(panel.left) /\ panel'.process = serve /\ FromShown(panel.left)
    BY <1>1, <1>6 DEF ScreenInv
  <2>2. PICK E : panel.left \in Seq(E) /\ \A e \in E : e.provider \in shown \ {Mock}
    BY <2>1 DEF FromShown
  <2>3. panel'.left \in Seq(E) /\ \A e \in E : e.provider \in shown' \ {Mock}
    BY <1>1, <2>1, <2>2
  <2> QED BY <2>1, <2>3 DEF FromShown
<1>8. ASSUME panel.screen, panel'.pc = "refused" PROVE Excused(panel')
  <2>1. /\ panel.left # <<>> /\ panel.process = serve /\ FromShown(panel.left)
        /\ \/ panel'.because = "unknown" /\ p \notin Provider
           \/ panel'.because = "no key" /\ k = Unset
           \/ panel'.because = "no client"
    BY <1>1, <1>6, <1>8 DEF ScreenInv
  <2>2. p \in shown \ {Mock}
    <3>1. PICK E : panel.left \in Seq(E) /\ \A e \in E : e.provider \in shown \ {Mock}
      BY <2>1 DEF FromShown
    <3>2. PICK left : left = panel.left
      OBVIOUS
    <3>3. left \in Seq(E) /\ left # <<>>
      BY <2>1, <3>1, <3>2
    <3>4. Head(left) \in E
      <4> HIDE DEF p, k
      <4> QED BY <3>3
    <3> QED BY <3>1, <3>2, <3>4
  <2>3. p \in Provider
    BY <2>2 DEF KeysTypeOK
  <2>4. k = Unset => p \in withdrawn
    BY <2>1, <2>2 DEF ScreenInv
  <2> QED BY <2>1, <2>3, <2>4 DEF Excused
<1> QED BY <1>1, <1>2, <1>6, <1>7, <1>8 DEF ScreenInv, KeysTypeOK

LEMMA ScreenStep ==
  ASSUME ScreenInv, KeysTypeOK, [Next]_vars
  PROVE  ScreenInv'
<1> USE DEF keyVars, testVars, panelVars, screenVars
<1>1. ASSUME NEW p \in Provider, NEW k \in Key, SetKey(p, k) PROVE ScreenInv'
  <2>1. \A q \in Provider : KeyIn(serve, q)' = Unset => KeyIn(serve, q) = Unset
    BY <1>1, KeysAssumption DEF SetKey, KeyIn, KeysTypeOK
  <2> QED BY <1>1, <2>1, ScreenStays DEF SetKey
<1>2. ASSUME NEW p \in Provider, RemoveKey(p) \/ LockKey(p) PROVE ScreenInv'
  <2>1. \A q \in Provider : q # p => KeyIn(serve, q)' = KeyIn(serve, q)
    BY <1>2 DEF RemoveKey, LockKey, KeyIn, KeysTypeOK
  <2>2. p \in withdrawn' /\ withdrawn \subseteq withdrawn' /\ UNCHANGED <<shown, lines, panel>>
    BY <1>2 DEF RemoveKey, LockKey
  <2> QED BY <2>1, <2>2, ScreenStays
<1>10. ASSUME NEW p \in Provider, UnlockKey(p) PROVE ScreenInv'
  <2>1. \A q \in Provider : KeyIn(serve, q)' = Unset => KeyIn(serve, q) = Unset \/ q \in withdrawn'
    <3>1. locked' = locked \ {p} /\ keychain' = keychain
      BY <1>10 DEF UnlockKey
    <3> QED BY <3>1 DEF KeyIn
  <2> QED BY <1>10, <2>1, ScreenStays DEF UnlockKey
<1>3. ASSUME NEW p \in Provider, NEW ticked \in SUBSET shown, NEW catalogue \in Catalogue,
             PickFree(p, ticked, catalogue)
      PROVE  ScreenInv'
  BY <1>3, PickKeepsScreen
<1>4. ASSUME ShowProviders PROVE ScreenInv'
  <2>1. Listed(<<>>)
    BY DEF Listed
  <2>2. \A q \in Provider : KeyIn(serve, q)' = KeyIn(serve, q)
    BY <1>4 DEF ShowProviders, KeyIn
  <2>3. /\ shown' \ {Mock} \subseteq Provider
        /\ \A q \in shown' \ {Mock} : KeyIn(serve, q) # Unset
    BY <1>4 DEF ShowProviders, Usable
  <2>4. DOMAIN lines' = Provider /\ \A q \in Provider : lines'[q] = <<>>
    BY <1>4 DEF ShowProviders
  <2>5. panel' = panel /\ panel.pc # "resolving"
    BY <1>4 DEF ShowProviders
  <2> QED BY <2>1, <2>2, <2>3, <2>4, <2>5 DEF ScreenInv
<1>5. ASSUME StartFromScreen PROVE ScreenInv'
  <2>1. PICK ticked \in (SUBSET shown) \ {{}} : BeginPanel(serve, SpecOf(ticked), TRUE)
    BY <1>5 DEF StartFromScreen
  <2>2. Begins(SpecOf(ticked))
    BY <2>1, SpecBegins
  <2> QED BY <2>1, <2>2, BeginKeepsScreen
<1>6. ASSUME StartByHand PROVE ScreenInv'
  BY <1>6, BeginKeepsScreen DEF StartByHand
<1>7. ASSUME SeatNext \/ EndPanel PROVE ScreenInv'
  BY <1>7, SeatKeepsScreen
<1>8. ASSUME UNCHANGED <<keychain, locked, shown, withdrawn, lines, panel>> PROVE ScreenInv'
  <2>1. \A q \in Provider : KeyIn(serve, q)' = KeyIn(serve, q)
    BY <1>8 DEF KeyIn
  <2> QED BY <1>8, <2>1, ScreenStays
<1>9. ASSUME \/ \E p \in Provider, k \in Key, standing \in Standing : AccountChanges(p, k, standing)
             \/ Tick
             \/ \E process \in Process, p \in Provider : BeginTest(process, p)
             \/ \E t \in Test : ListingAnswers(t) \/ CompletionAnswers(t)
             \/ CompareNext
             \/ UNCHANGED vars
      PROVE  UNCHANGED <<keychain, locked, shown, withdrawn, lines, panel>>
  BY <1>9, CompareAside DEF AccountChanges, Tick, BeginTest, ListingAnswers, CompletionAnswers,
     vars, keysVars
<1> QED
  BY <1>1, <1>2, <1>3, <1>4, <1>5, <1>6, <1>7, <1>8, <1>9, <1>10 DEF Next, KeysNext

ScreensInv == TestsInv /\ ScreenInv

LEMMA ScreensInvariant == Spec => []ScreensInv
<1>1. CompareInit => ScreensInv
  BY TestsInit, ScreenInit DEF ScreensInv
<1>2. ScreensInv /\ [Next]_vars => ScreensInv'
  BY TestsStep, ScreenStep DEF ScreensInv, TestsInv
<1> QED BY <1>1, <1>2, PTL DEF Spec

(***************************************************************************)
(* What the Debate screen shows as usable can be seated, whatever models   *)
(* are picked, keys tested and panels typed by hand in between: refused is *)
(* only a panel that has mock beside a real provider, one whose keychain   *)
(* entry was removed or locked meanwhile, and one without an HTTP client   *)
(* (panel::resolve, the /api/providers of serve).                          *)
(***************************************************************************)
THEOREM ShownCanBeSeated == Spec => UsableIsSeated
<1>1. ScreensInv /\ [Next]_vars =>
        [panel'.pc = "refused" /\ panel'.screen /\ panel' # panel => Excused(panel')]_<<panel, withdrawn>>
  <2> SUFFICES ASSUME ScreenInv, KeysTypeOK, [Next]_vars, panel'.pc = "refused", panel'.screen,
                      panel' # panel
               PROVE  Excused(panel')
    BY DEF ScreensInv, TestsInv
  <2>1. SeatNext \/ StartFromScreen \/ StartByHand \/ EndPanel
    <3>1. ~CompareNext /\ ~UNCHANGED vars
      BY CompareAside DEF vars, keysVars, panelVars
    <3>2. ~(\E p \in Provider : \/ \E k \in Key : SetKey(p, k)
                                \/ RemoveKey(p) \/ LockKey(p) \/ UnlockKey(p)
                                \/ \E k \in Key, standing \in Standing : AccountChanges(p, k, standing))
      BY DEF SetKey, RemoveKey, LockKey, UnlockKey, AccountChanges, panelVars
    <3>3. ~Tick /\ ~\E process \in Process, p \in Provider : BeginTest(process, p)
      BY DEF Tick, BeginTest, panelVars
    <3>4. ~\E t \in Test : ListingAnswers(t) \/ CompletionAnswers(t)
      BY DEF ListingAnswers, CompletionAnswers, panelVars
    <3>5. ~ShowProviders
      BY DEF ShowProviders
    <3>6. ~\E p \in Provider, ticked \in SUBSET shown, catalogue \in Catalogue :
              PickFree(p, ticked, catalogue)
      BY DEF PickFree
    <3> QED BY <3>1, <3>2, <3>3, <3>4, <3>5, <3>6 DEF Next, KeysNext
  <2>2. CASE SeatNext \/ EndPanel
    <3>1. panel'.screen = panel.screen
      <4>1. DOMAIN panel = {"pc", "process", "screen", "asked", "left", "roster", "adapters", "judge", "because"}
        BY DEF ScreenInv, NoPanel
      <4>2. CASE EndPanel
        BY <4>1, <4>2 DEF EndPanel
      <4>3. CASE SeatNext
        <5>1. Seated.screen = panel.screen /\ DOMAIN Seated = DOMAIN panel
          BY <4>1 DEF Seated
        <5>2. \A because : Refused(because).screen = panel.screen
          BY DEF Refused, NoPanel
        <5>3. \A adapters : [Seated EXCEPT !.adapters = adapters].screen = Seated.screen
          <6>1. PICK seated : seated = Seated
            OBVIOUS
          <6>2. \A adapters : [seated EXCEPT !.adapters = adapters].screen = seated.screen
            BY <4>1, <5>1, <6>1
          <6> QED BY <6>1, <6>2
        <5>4. \/ panel' = Seated
              \/ \E because : panel' = Refused(because)
              \/ \E adapters : panel' = [Seated EXCEPT !.adapters = adapters]
          BY <4>3 DEF SeatNext
        <5> QED BY <5>1, <5>2, <5>3, <5>4
      <4> QED BY <2>2, <4>2, <4>3
    <3> QED BY <2>2, <3>1, SeatKeepsScreen
  <2>3. CASE StartFromScreen
    <3>1. PICK ticked \in (SUBSET shown) \ {{}} : BeginPanel(serve, SpecOf(ticked), TRUE)
      BY <2>3 DEF StartFromScreen
    <3>2. Begins(SpecOf(ticked))
      BY <3>1, SpecBegins
    <3> QED BY <3>1, <3>2, BeginKeepsScreen
  <2>4. CASE StartByHand
    <3>1. PICK process \in Process, asked \in PanelSpec : BeginPanel(process, asked, FALSE)
      BY <2>4 DEF StartByHand
    <3>2. panel'.screen = FALSE
      BY <3>1, BeginKeepsScreen
    <3> QED BY <3>2
  <2> QED BY <2>1, <2>2, <2>3, <2>4
<1> QED BY <1>1, ScreensInvariant, PTL DEF Spec, UsableIsSeated

---------------------------------------------------------------------------
(* The channel of a comparison *)

Kind == {"skipped", "start", "done", "error"}

(***************************************************************************)
(* Of p, the m events of ch are those of due, n of them, at the places at. *)
(***************************************************************************)
Places(at, ch, m, p, due, n) ==
  /\ at \in [1 .. n -> 1 .. m]
  /\ \A i, j \in 1 .. n : i < j => at[i] < at[j]
  /\ \A i \in 1 .. n : ch[at[i]][1] = due[i] /\ ch[at[i]][2] = p
  /\ \A j \in 1 .. m : ch[j][2] = p => \E i \in 1 .. n : at[i] = j

\* Of p, the channel holds the events of due, in this order, and no other.
Holds(ch, p, due) == \E at : Places(at, ch, Len(ch), p, due, Len(due))

LEMMA HoldsNothing ==
  ASSUME NEW p PROVE Holds(<<>>, p, <<>>)
<1> DEFINE at == [i \in 1 .. 0 |-> 0]
<1>1. 1 .. 0 = {}
  OBVIOUS
<1>2. Places(at, <<>>, 0, p, <<>>, 0)
  BY <1>1 DEF Places
<1> HIDE DEF at
<1> QED BY <1>2 DEF Holds

LEMMA HoldsOfEmpty ==
  ASSUME NEW p, NEW due \in Seq(Kind), Holds(<<>>, p, due) PROVE due = <<>>
<1>1. PICK at : Places(at, <<>>, 0, p, due, Len(due))
  BY DEF Holds
<1>2. CASE Len(due) # 0
  <2>1. 1 \in 1 .. Len(due) /\ 1 .. 0 = {}
    BY <1>2
  <2> QED BY <1>1, <2>1 DEF Places
<1> QED BY <1>2

\* An event of p comes last.
LEMMA PlacesOwn ==
  ASSUME NEW n \in Nat, NEW m \in Nat, NEW at, NEW ch, NEW p, NEW due, Places(at, ch, m, p, due, n),
         NEW new, NEW due2,
         new[m + 1][2] = p, new[m + 1][1] = due2[n + 1],
         \A j \in 1 .. m : new[j] = ch[j], \A i \in 1 .. n : due2[i] = due[i]
  PROVE  \E to : Places(to, new, m + 1, p, due2, n + 1)
<1> DEFINE to == [i \in 1 .. n + 1 |-> IF i = n + 1 THEN m + 1 ELSE at[i]]
<1>1. /\ \A i \in 1 .. n : to[i] = at[i] /\ at[i] \in 1 .. m
      /\ to[n + 1] = m + 1
  BY DEF Places
<1>2. to \in [1 .. n + 1 -> 1 .. m + 1]
  BY DEF Places
<1> HIDE DEF to
<1>3. ASSUME NEW i \in 1 .. n + 1, NEW j \in 1 .. n + 1, i < j PROVE to[i] < to[j]
  <2>1. i \in 1 .. n
    BY <1>3
  <2>2. CASE j = n + 1
    BY <1>1, <2>1, <2>2
  <2>3. CASE j \in 1 .. n
    BY <1>1, <1>3, <2>1, <2>3 DEF Places
  <2> QED BY <2>2, <2>3
<1>4. ASSUME NEW i \in 1 .. n + 1 PROVE new[to[i]][1] = due2[i] /\ new[to[i]][2] = p
  <2>1. CASE i = n + 1
    BY <1>1, <2>1
  <2>2. CASE i \in 1 .. n
    <3>1. to[i] = at[i] /\ at[i] \in 1 .. m /\ due2[i] = due[i] /\ new[at[i]] = ch[at[i]]
      BY <1>1, <2>2
    <3> QED BY <2>2, <3>1 DEF Places
  <2> QED BY <2>1, <2>2
<1>5. ASSUME NEW j \in 1 .. m + 1, new[j][2] = p PROVE \E i \in 1 .. n + 1 : to[i] = j
  <2>1. CASE j = m + 1
    BY <1>1, <2>1
  <2>2. CASE j \in 1 .. m
    <3>1. PICK i \in 1 .. n : at[i] = j
      BY <1>5, <2>2 DEF Places
    <3> QED BY <1>1, <3>1
  <2> QED BY <2>1, <2>2
<1>6. Places(to, new, m + 1, p, due2, n + 1)
  BY <1>2, <1>3, <1>4, <1>5 DEF Places
<1> QED BY <1>6

\* An event of another comes last.
LEMMA PlacesOther ==
  ASSUME NEW n \in Nat, NEW m \in Nat, NEW at, NEW ch, NEW p, NEW due, Places(at, ch, m, p, due, n),
         NEW new, new[m + 1][2] # p, \A j \in 1 .. m : new[j] = ch[j]
  PROVE  Places(at, new, m + 1, p, due, n)
<1>1. \A i \in 1 .. n : at[i] \in 1 .. m /\ new[at[i]] = ch[at[i]]
  BY DEF Places
<1>2. at \in [1 .. n -> 1 .. m + 1]
  BY DEF Places
<1>3. ASSUME NEW j \in 1 .. m + 1, new[j][2] = p PROVE \E i \in 1 .. n : at[i] = j
  <2>1. j \in 1 .. m /\ new[j] = ch[j]
    BY <1>3
  <2> QED BY <1>3, <2>1 DEF Places
<1> QED BY <1>1, <1>2, <1>3 DEF Places

LEMMA HoldsSent ==
  ASSUME NEW ch \in Seq(Kind \X Provider), NEW p \in Provider, NEW due \in Seq(Kind),
         Holds(ch, p, due), NEW kind \in Kind, NEW q \in Provider
  PROVE  Holds(Append(ch, <<kind, q>>), p, IF q = p THEN Append(due, kind) ELSE due)
<1>1. PICK n \in Nat : n = Len(due)
  OBVIOUS
<1>2. PICK m \in Nat : m = Len(ch)
  OBVIOUS
<1>3. PICK new : new = Append(ch, <<kind, q>>)
  OBVIOUS
<1>4. PICK due2 : due2 = Append(due, kind)
  OBVIOUS
<1>5. n = Len(due) /\ m = Len(ch) /\ new = Append(ch, <<kind, q>>) /\ due2 = Append(due, kind)
  BY <1>1, <1>2, <1>3, <1>4
<1>6. /\ Len(new) = m + 1 /\ new[m + 1] = <<kind, q>> /\ \A j \in 1 .. m : new[j] = ch[j]
      /\ Len(due2) = n + 1 /\ due2[n + 1] = kind /\ \A i \in 1 .. n : due2[i] = due[i]
  BY <1>5
<1>7. PICK at : Places(at, ch, m, p, due, n)
  BY <1>5 DEF Holds
<1>8. CASE q = p
  <2>1. new[m + 1][2] = p /\ new[m + 1][1] = due2[n + 1]
    BY <1>6, <1>8
  <2>2. PICK to : Places(to, new, m + 1, p, due2, n + 1)
    BY <1>6, <1>7, <2>1, PlacesOwn
  <2>3. Holds(new, p, due2)
    BY <1>6, <2>2 DEF Holds
  <2> QED BY <1>5, <1>8, <2>3
<1>9. CASE q # p
  <2>1. new[m + 1][2] # p
    BY <1>6, <1>9
  <2>2. Places(at, new, m + 1, p, due, n)
    BY <1>6, <1>7, <2>1, PlacesOther
  <2>3. Holds(new, p, due)
    BY <1>5, <1>6, <2>2 DEF Holds
  <2> QED BY <1>5, <1>9, <2>3
<1> QED BY <1>8, <1>9

\* Where a read of the first event finds those that come after it.
LEMMA PlacesAfter ==
  ASSUME NEW n \in Nat, NEW m \in Nat, m >= 1, NEW at, NEW ch, NEW p, NEW due,
         Places(at, ch, m, p, due, n),
         NEW rest, \A j \in 1 .. m - 1 : rest[j] = ch[j + 1]
  PROVE  /\ \A j \in 1 .. m - 1 : rest[j][2] = p => \E i \in 1 .. n : at[i] = j + 1
         /\ \A i \in 1 .. n : at[i] # 1 => at[i] - 1 \in 1 .. m - 1 /\ rest[at[i] - 1] = ch[at[i]]
<1>1. \A i \in 1 .. n : at[i] \in 1 .. m
  BY DEF Places
<1>2. ASSUME NEW j \in 1 .. m - 1, rest[j][2] = p PROVE \E i \in 1 .. n : at[i] = j + 1
  <2>1. j + 1 \in 1 .. m /\ ch[j + 1][2] = p
    BY <1>2
  <2> QED BY <2>1 DEF Places
<1>3. ASSUME NEW i \in 1 .. n, at[i] # 1
      PROVE  at[i] - 1 \in 1 .. m - 1 /\ rest[at[i] - 1] = ch[at[i]]
  <2>1. at[i] - 1 \in 1 .. m - 1 /\ (at[i] - 1) + 1 = at[i]
    BY <1>1, <1>3
  <2> QED BY <2>1
<1> QED BY <1>2, <1>3

\* The first event of the channel is of another.
LEMMA PlacesPassed ==
  ASSUME NEW n \in Nat, NEW m \in Nat, m >= 1, NEW at, NEW ch, NEW p, NEW due,
         Places(at, ch, m, p, due, n),
         NEW rest, \A j \in 1 .. m - 1 : rest[j] = ch[j + 1],
         ch[1][2] # p
  PROVE  \E to : Places(to, rest, m - 1, p, due, n)
<1>1. /\ \A j \in 1 .. m - 1 : rest[j][2] = p => \E i \in 1 .. n : at[i] = j + 1
      /\ \A i \in 1 .. n : at[i] # 1 => at[i] - 1 \in 1 .. m - 1 /\ rest[at[i] - 1] = ch[at[i]]
  BY PlacesAfter
<1>2. \A i \in 1 .. n : at[i] \in 1 .. m
  BY DEF Places
<1> DEFINE to == [i \in 1 .. n |-> at[i] - 1]
<1>3. ASSUME NEW i \in 1 .. n
      PROVE  to[i] = at[i] - 1 /\ to[i] \in 1 .. m - 1 /\ rest[to[i]] = ch[at[i]]
  <2>1. at[i] # 1
    BY DEF Places
  <2> QED BY <1>1, <2>1
<1>4. to \in [1 .. n -> 1 .. m - 1]
  BY <1>3
<1> HIDE DEF to
<1>5. ASSUME NEW i \in 1 .. n, NEW j \in 1 .. n, i < j PROVE to[i] < to[j]
  BY <1>2, <1>3, <1>5 DEF Places
<1>6. ASSUME NEW j \in 1 .. m - 1, rest[j][2] = p PROVE \E i \in 1 .. n : to[i] = j
  <2>1. PICK i \in 1 .. n : at[i] = j + 1
    BY <1>1, <1>6
  <2> QED BY <1>3, <2>1
<1>7. Places(to, rest, m - 1, p, due, n)
  BY <1>3, <1>4, <1>5, <1>6 DEF Places
<1> QED BY <1>7

\* The first event of the channel is of p.
FirstIsOf(ch, p) == ch[1][2] = p

Follows(due2, due, n) == \A i \in 1 .. n - 1 : due2[i] = due[i + 1]

LEMMA PlacesFirst ==
  ASSUME NEW n \in Nat, NEW m \in Nat, m >= 1, NEW at, NEW ch, NEW p, NEW due,
         Places(at, ch, m, p, due, n), FirstIsOf(ch, p)
  PROVE  n >= 1 /\ at[1] = 1 /\ ch[1][1] = due[1]
<1>1. \A i \in 1 .. n : at[i] \in 1 .. m
  BY DEF Places
<1>2. PICK k \in 1 .. n : at[k] = 1
  BY DEF Places, FirstIsOf
<1>3. k = 1
  <2>1. CASE k # 1
    <3>1. 1 \in 1 .. n /\ 1 < k
      BY <2>1
    <3>2. at[1] < at[k]
      BY <3>1 DEF Places
    <3> QED BY <1>1, <1>2, <3>1, <3>2
  <2> QED BY <2>1
<1>4. n >= 1 /\ ch[1][1] = due[1]
  BY <1>2, <1>3 DEF Places
<1> QED BY <1>2, <1>3, <1>4

LEMMA PlacesTaken ==
  ASSUME NEW n \in Nat, NEW m \in Nat, m >= 1, NEW at, NEW ch, NEW p, NEW due,
         Places(at, ch, m, p, due, n), FirstIsOf(ch, p),
         NEW rest, \A j \in 1 .. m - 1 : rest[j] = ch[j + 1],
         NEW due2, Follows(due2, due, n)
  PROVE  \E to : Places(to, rest, m - 1, p, due2, n - 1)
<1>1. /\ \A j \in 1 .. m - 1 : rest[j][2] = p => \E i \in 1 .. n : at[i] = j + 1
      /\ \A i \in 1 .. n : at[i] # 1 => at[i] - 1 \in 1 .. m - 1 /\ rest[at[i] - 1] = ch[at[i]]
  BY PlacesAfter
<1>2. \A i \in 1 .. n : at[i] \in 1 .. m
  BY DEF Places
<1>3. n >= 1 /\ at[1] = 1
  BY PlacesFirst
<1>4. ASSUME NEW i \in 1 .. n - 1
      PROVE  i + 1 \in 1 .. n /\ at[i + 1] # 1 /\ at[i + 1] \in 1 .. m
  <2>1. i + 1 \in 1 .. n /\ 1 \in 1 .. n /\ 1 < i + 1
    BY <1>3
  <2>2. at[1] < at[i + 1]
    BY <2>1 DEF Places
  <2> QED BY <1>2, <1>3, <2>1, <2>2
<1> DEFINE to == [i \in 1 .. n - 1 |-> at[i + 1] - 1]
<1>5. ASSUME NEW i \in 1 .. n - 1
      PROVE  to[i] = at[i + 1] - 1 /\ to[i] \in 1 .. m - 1 /\ rest[to[i]] = ch[at[i + 1]]
  BY <1>1, <1>4
<1>6. to \in [1 .. n - 1 -> 1 .. m - 1]
  BY <1>5
<1> HIDE DEF to
<1>7. ASSUME NEW i \in 1 .. n - 1, NEW j \in 1 .. n - 1, i < j PROVE to[i] < to[j]
  <2>1. i + 1 \in 1 .. n /\ j + 1 \in 1 .. n /\ i + 1 < j + 1
    BY <1>7, <1>4
  <2>2. at[i + 1] < at[j + 1]
    BY <2>1 DEF Places
  <2> QED BY <1>4, <1>5, <2>2
<1>8. ASSUME NEW i \in 1 .. n - 1 PROVE rest[to[i]][1] = due2[i] /\ rest[to[i]][2] = p
  <2>1. ch[at[i + 1]][1] = due[i + 1] /\ ch[at[i + 1]][2] = p
    BY <1>4 DEF Places
  <2> QED BY <1>5, <2>1 DEF Follows
<1>9. ASSUME NEW j \in 1 .. m - 1, rest[j][2] = p PROVE \E i \in 1 .. n - 1 : to[i] = j
  <2>1. PICK i \in 1 .. n : at[i] = j + 1
    BY <1>1, <1>9
  <2>2. i # 1
    BY <1>3, <2>1
  <2>3. i - 1 \in 1 .. n - 1 /\ (i - 1) + 1 = i
    BY <2>2
  <2>4. to[i - 1] = at[i] - 1
    BY <1>5, <2>3
  <2> QED BY <2>1, <2>3, <2>4
<1>10. Places(to, rest, m - 1, p, due2, n - 1)
  BY <1>6, <1>7, <1>8, <1>9 DEF Places
<1> QED BY <1>10

LEMMA HoldsRead ==
  ASSUME NEW ch \in Seq(Kind \X Provider), ch # <<>>, NEW p \in Provider, NEW due \in Seq(Kind),
         Holds(ch, p, due)
  PROVE  /\ Head(ch)[2] = p => due # <<>> /\ Head(ch)[1] = Head(due) /\ Holds(Tail(ch), p, Tail(due))
         /\ Head(ch)[2] # p => Holds(Tail(ch), p, due)
<1>1. PICK n \in Nat : n = Len(due)
  OBVIOUS
<1>2. PICK m \in Nat : m = Len(ch)
  OBVIOUS
<1>3. PICK rest : rest = Tail(ch)
  OBVIOUS
<1>4. n = Len(due) /\ m = Len(ch) /\ rest = Tail(ch)
  BY <1>1, <1>2, <1>3
<1>5. /\ m >= 1 /\ Len(rest) = m - 1 /\ Head(ch) = ch[1]
      /\ \A j \in 1 .. m - 1 : rest[j] = ch[j + 1]
  BY <1>4
<1>6. PICK at : Places(at, ch, m, p, due, n)
  BY <1>4 DEF Holds
<1>7. CASE ch[1][2] # p
  <2>1. PICK to : Places(to, rest, m - 1, p, due, n)
    BY <1>5, <1>6, <1>7, PlacesPassed
  <2>2. Holds(rest, p, due)
    BY <1>4, <1>5, <2>1 DEF Holds
  <2> QED BY <1>4, <1>5, <1>7, <2>2
<1>8. CASE FirstIsOf(ch, p)
  <2>1. n >= 1 /\ ch[1][1] = due[1]
    BY <1>5, <1>6, <1>8, PlacesFirst
  <2>2. PICK due2 : due2 = Tail(due)
    OBVIOUS
  <2>3. due # <<>> /\ Head(due) = due[1] /\ Len(due2) = n - 1 /\ \A i \in 1 .. n - 1 : due2[i] = due[i + 1]
    BY <1>4, <2>1, <2>2
  <2>4. PICK to : Places(to, rest, m - 1, p, due2, n - 1)
    <3>1. Follows(due2, due, n)
      BY <2>3 DEF Follows
    <3> QED BY <1>5, <1>6, <1>8, <3>1, PlacesTaken
  <2>5. Holds(rest, p, due2)
    BY <1>5, <2>3, <2>4 DEF Holds
  <2> QED BY <1>4, <1>5, <1>8, <2>1, <2>2, <2>3, <2>5 DEF FirstIsOf
<1> QED BY <1>7, <1>8 DEF FirstIsOf

LEMMA AppendedLast ==
  ASSUME NEW S, NEW s \in Seq(S), NEW t \in Seq(S), NEW e \in S
  PROVE  s \o Append(t, e) = Append(s \o t, e)
<1>1. PICK u : u = s \o Append(t, e)
  OBVIOUS
<1>2. PICK v : v = Append(s \o t, e)
  OBVIOUS
<1>3. u \in Seq(S) /\ v \in Seq(S) /\ Len(u) = Len(s) + Len(t) + 1 /\ Len(v) = Len(u)
  BY <1>1, <1>2
<1>4. ASSUME NEW i \in 1 .. Len(u) PROVE u[i] = v[i]
  BY <1>1, <1>2, <1>3, <1>4
<1>5. u = v
  BY <1>3, <1>4
<1> QED BY <1>1, <1>2, <1>5

LEMMA ReadFirst ==
  ASSUME NEW S, NEW s \in Seq(S), NEW t \in Seq(S), t # <<>>
  PROVE  Append(s, Head(t)) \o Tail(t) = s \o t
<1>1. PICK u : u = s \o t
  OBVIOUS
<1>2. PICK v : v = Append(s, Head(t)) \o Tail(t)
  OBVIOUS
<1>3. PICK e : e = Head(t)
  OBVIOUS
<1>4. PICK r : r = Tail(t)
  OBVIOUS
<1>5. /\ e \in S /\ r \in Seq(S) /\ Len(r) = Len(t) - 1 /\ Len(t) >= 1 /\ e = t[1]
      /\ \A j \in 1 .. Len(r) : r[j] = t[j + 1]
  BY <1>3, <1>4
<1>6. e \in S
  BY <1>5
<1>7. PICK w : w = Append(s, e)
  OBVIOUS
<1>8. w \in Seq(S) /\ w = Append(s, e)
  BY <1>6, <1>7
<1>9. Len(w) = Len(s) + 1 /\ w[Len(s) + 1] = e /\ \A i \in 1 .. Len(s) : w[i] = s[i]
  BY <1>5, <1>8
<1>10. v = w \o r
  BY <1>2, <1>3, <1>4, <1>8
<1>11. Len(w) = Len(s) + 1
  BY <1>8
<1>12. w \in Seq(S) /\ r \in Seq(S)
  BY <1>5, <1>8
<1>13. r \in Seq(S) /\ Len(r) = Len(t) - 1 /\ Len(t) \in Nat /\ Len(s) \in Nat
  BY <1>5
<1>14. u \in Seq(S) /\ v \in Seq(S) /\ Len(u) = Len(s) + Len(t) /\ Len(v) = Len(u)
  <2>1. u \in Seq(S) /\ Len(u) = Len(s) + Len(t)
    BY <1>1
  <2>2. v \in Seq(S) /\ Len(v) = Len(w) + Len(r)
    BY <1>10, <1>12
  <2> QED BY <1>11, <1>13, <2>1, <2>2
<1>15. ASSUME NEW i \in 1 .. Len(u) PROVE u[i] = v[i]
  <2>1. CASE i <= Len(s)
    <3>1. u[i] = s[i] /\ v[i] = w[i]
      BY <1>1, <1>10, <1>5, <1>9, <1>14, <2>1
    <3> QED BY <3>1, <1>9, <2>1, <1>14
  <2>2. CASE i = Len(s) + 1
    <3>1. u[i] = t[1] /\ v[i] = w[i]
      BY <1>1, <1>10, <1>5, <1>9, <1>14, <2>2
    <3> QED BY <3>1, <1>5, <1>9, <2>2
  <2>3. CASE i > Len(s) + 1
    <3>1. u[i] = t[i - Len(s)]
      BY <1>1, <1>14, <2>3
    <3>2. i > Len(w) /\ i \in 1 .. Len(v)
      BY <1>9, <1>14, <2>3
    <3>3. v[i] = r[i - Len(w)]
      BY <1>12, <1>10, <1>13, <1>11, <1>14, <3>2
    <3>4. i - Len(w) \in 1 .. Len(r) /\ i - Len(w) + 1 = i - Len(s)
      BY <1>5, <1>9, <1>14, <2>3
    <3> QED BY <3>1, <3>4, <3>3, <1>5
  <2> QED BY <2>1, <2>2, <2>3, <1>14, <1>13
<1>16. u = v
  BY <1>14, <1>15
<1> QED BY <1>1, <1>2, <1>16

---------------------------------------------------------------------------
(* What a card is given, in the end *)

TaskTrail(state) ==
  CASE state \in {"none", "starting"} -> {<<>>}
    [] state \in {"asking", "done", "error"} -> {<<"start">>}
    [] state = "ended" -> {<<"start", "done">>, <<"start", "error">>}

\* The events p has been sent so far, read or not.
Trails(p) ==
  IF p \in compare.skipped THEN {IF p \in compare.told THEN <<"skipped">> ELSE <<>>}
  ELSE TaskTrail(task[p])

TrailInv(p) ==
  \E due \in Seq(Kind) : Holds(channel, p, due) /\ cards[p] \o due \in Trails(p)

CompareTypeOK ==
  /\ compare \in [pc : {"none", "resolving", "skipping", "over"}, left : Seq(Provider),
                  ready : SUBSET Provider, skipped : SUBSET Provider, told : SUBSET Provider]
  /\ task \in [Provider -> {"none", "starting", "asking", "done", "error", "ended"}]
  /\ channel \in Seq(Kind \X Provider)
  /\ cards \in [Provider -> Seq(Kind)]
  /\ page \in {"none", "waiting", "reading", "over", "left"}

\* Every provider is looked up once.
LookedUpOnce ==
  /\ \A i, j \in 1 .. Len(compare.left) : compare.left[i] = compare.left[j] => i = j
  /\ \A i \in 1 .. Len(compare.left) : compare.left[i] \notin compare.ready \union compare.skipped
  /\ compare.ready \intersect compare.skipped = {} /\ compare.told \subseteq compare.skipped

Phases ==
  /\ page = "none" => compare = NoCompare
  /\ page = "left" => compare.pc = "over"
  /\ page = "waiting" => compare.pc \in {"resolving", "skipping"}
  /\ page \in {"none", "waiting"} => \A p \in Provider : task[p] = "none"
  /\ page \in {"reading", "over"} =>
       /\ compare.pc = "over" /\ compare.told = compare.skipped
       /\ \A p \in Provider : task[p] # "none" <=> p \in compare.ready
  /\ page = "over" => channel = <<>> /\ \A p \in Provider : task[p] \in {"none", "ended"}

CompareInv ==
  /\ CompareTypeOK /\ LookedUpOnce /\ Phases
  /\ page # "left" => \A p \in Provider : TrailInv(p)

LEMMA CompareInvInit == CompareInit => CompareInv
<1> SUFFICES ASSUME CompareInit PROVE CompareInv
  OBVIOUS
<1>1. CompareTypeOK /\ LookedUpOnce /\ Phases
  BY DEF CompareInit, NoCompare, CompareTypeOK, LookedUpOnce, Phases
<1>2. ASSUME NEW p \in Provider PROVE TrailInv(p)
  <2>1. Holds(channel, p, <<>>)
    BY HoldsNothing DEF CompareInit
  <2>2. cards[p] = <<>> /\ Trails(p) = {<<>>}
    BY DEF CompareInit, NoCompare, Trails, TaskTrail
  <2>3. <<>> \in Seq(Kind) /\ <<>> \o <<>> = <<>>
    OBVIOUS
  <2> QED BY <2>1, <2>2, <2>3 DEF TrailInv
<1> QED BY <1>1, <1>2 DEF CompareInv

\* An event is sent while there is a reader.
LEMMA TrailsSent ==
  ASSUME CompareTypeOK, \A p \in Provider : TrailInv(p),
         page # "left", NEW kind \in Kind, NEW q \in Provider, Send(kind, q), UNCHANGED cards,
         \A p \in Provider : p # q => Trails(p)' = Trails(p),
         \A s \in Trails(q) : Append(s, kind) \in Trails(q)'
  PROVE  channel' \in Seq(Kind \X Provider) /\ \A p \in Provider : TrailInv(p)'
<1>1. channel' = Append(channel, <<kind, q>>) /\ channel \in Seq(Kind \X Provider)
  BY DEF Send, CompareTypeOK
<1>2. ASSUME NEW p \in Provider PROVE TrailInv(p)'
  <2>1. PICK due \in Seq(Kind) : Holds(channel, p, due) /\ cards[p] \o due \in Trails(p)
    BY DEF TrailInv
  <2>2. Holds(channel', p, IF q = p THEN Append(due, kind) ELSE due)
    BY <1>1, <2>1, HoldsSent
  <2>3. CASE q = p
    <3>1. cards[p] \in Seq(Kind)
      BY DEF CompareTypeOK
    <3>2. cards[p] \o Append(due, kind) = Append(cards[p] \o due, kind)
      <4>1. PICK own \in Seq(Kind) : own = cards[p]
        BY <3>1
      <4>2. own \o Append(due, kind) = Append(own \o due, kind)
        BY AppendedLast
      <4> QED BY <4>1, <4>2
    <3>3. Append(due, kind) \in Seq(Kind)
      OBVIOUS
    <3> QED BY <2>1, <2>2, <2>3, <3>2, <3>3 DEF TrailInv
  <2>4. CASE q # p
    BY <2>1, <2>2, <2>4 DEF TrailInv
  <2> QED BY <2>3, <2>4
<1> QED BY <1>1, <1>2

LEMMA TrailsRead ==
  ASSUME CompareTypeOK, \A p \in Provider : TrailInv(p), PageReads
  PROVE  /\ channel' \in Seq(Kind \X Provider) /\ cards' \in [Provider -> Seq(Kind)]
         /\ \A p \in Provider : TrailInv(p)'
<1>1. /\ channel \in Seq(Kind \X Provider) /\ channel # <<>> /\ channel' = Tail(channel)
      /\ cards \in [Provider -> Seq(Kind)]
      /\ cards' = [cards EXCEPT ![Head(channel)[2]] = Append(@, Head(channel)[1])]
      /\ UNCHANGED <<compare, task>>
  BY DEF PageReads, CompareTypeOK
<1>2. Head(channel) \in Kind \X Provider
  BY <1>1
<1>3. PICK kind \in Kind, q \in Provider : Head(channel) = <<kind, q>>
  <2>1. PICK event \in Kind \X Provider : event = Head(channel)
    BY <1>2
  <2>2. \A event2 \in Kind \X Provider : \E k \in Kind, r \in Provider : event2 = <<k, r>>
    OBVIOUS
  <2> QED BY <2>1, <2>2
<1>4. Head(channel)[1] = kind /\ Head(channel)[2] = q
  BY <1>3
<1>5. cards' = [cards EXCEPT ![q] = Append(@, kind)]
  BY <1>1, <1>4
<1>6. ASSUME NEW p \in Provider PROVE TrailInv(p)'
  <2>1. PICK due \in Seq(Kind) : Holds(channel, p, due) /\ cards[p] \o due \in Trails(p)
    BY DEF TrailInv
  <2>2. Trails(p)' = Trails(p)
    BY <1>1 DEF Trails
  <2>3. CASE q = p
    <3>1. due # <<>> /\ kind = Head(due) /\ Holds(channel', p, Tail(due))
      <4>1. Head(channel)[2] = p /\ Holds(channel, p, due) /\ channel # <<>>
        BY <1>1, <1>4, <2>1, <2>3
      <4>2. due # <<>> /\ Head(channel)[1] = Head(due) /\ Holds(Tail(channel), p, Tail(due))
        <5>1. PICK ch \in Seq(Kind \X Provider) : ch = channel
          BY <1>1
        <5>2. ch # <<>> /\ Holds(ch, p, due) /\ Head(ch)[2] = p
          BY <4>1, <5>1
        <5>3. due # <<>> /\ Head(ch)[1] = Head(due) /\ Holds(Tail(ch), p, Tail(due))
          BY <5>2, HoldsRead
        <5> QED BY <5>1, <5>3
      <4> QED BY <1>1, <1>4, <4>2
    <3>2. Tail(due) \in Seq(Kind) /\ cards'[p] = Append(cards[p], kind) /\ cards[p] \in Seq(Kind)
      BY <1>1, <1>5, <2>3, <3>1
    <3>3. Append(cards[p], Head(due)) \o Tail(due) = cards[p] \o due
      BY <3>1, <3>2, ReadFirst
    <3> QED BY <2>1, <2>2, <3>1, <3>2, <3>3 DEF TrailInv
  <2>4. CASE q # p
    <3>1. Holds(channel', p, due)
      <4>1. Head(channel)[2] # p /\ Holds(channel, p, due) /\ channel # <<>>
        BY <1>1, <1>4, <2>1, <2>4
      <4> QED BY <1>1, <4>1, HoldsRead
    <3> QED BY <1>1, <1>5, <2>1, <2>2, <2>4, <3>1 DEF TrailInv
  <2> QED BY <2>3, <2>4
<1> QED BY <1>1, <1>5, <1>6

\* A step that leaves the handler, the tasks, the channel and the page alone.
LEMMA CompareKept ==
  ASSUME CompareInv, UNCHANGED compareVars PROVE CompareInv'
BY DEF compareVars, CompareInv, CompareTypeOK, LookedUpOnce, Phases, TrailInv, Trails

\* No event moves, and nobody's trail gets shorter.
LEMMA TrailsGrow ==
  ASSUME \A p \in Provider : TrailInv(p), UNCHANGED <<channel, cards>>,
         \A p \in Provider : Trails(p) \subseteq Trails(p)'
  PROVE  \A p \in Provider : TrailInv(p)'
BY DEF TrailInv

LEMMA CompareBegins ==
  ASSUME CompareInv, NEW asked \in Asked, BeginCompare(asked)
  PROVE  CompareInv'
<1>1. /\ compare = NoCompare /\ compare' = [NoCompare EXCEPT !.pc = "resolving", !.left = asked]
      /\ page = "none" /\ page' = "waiting" /\ UNCHANGED <<channel, task, cards>>
  BY DEF BeginCompare, CompareInv, Phases
<1>2. PICK n \in Nat : asked \in [1 .. n -> Provider] /\ IsInjective(asked)
  <2>1. PICK n \in 1 .. Len(providers) : asked \in [1 .. n -> Provider]
    BY DEF Asked
  <2>2. Len(providers) \in Nat
    BY KeysAssumption DEF KeysAssumption
  <2> QED BY <2>1, <2>2 DEF Asked
<1>3. asked \in Seq(Provider) /\ Len(asked) = n
  BY <1>2
<1>4. \A i, j \in 1 .. Len(asked) : asked[i] = asked[j] => i = j
  BY <1>2, <1>3 DEF IsInjective
<1>5. compare' = [pc |-> "resolving", left |-> asked, ready |-> {}, skipped |-> {}, told |-> {}]
  BY <1>1 DEF NoCompare
<1>6. CompareTypeOK'
  BY <1>1, <1>3, <1>5 DEF CompareInv, CompareTypeOK
<1>7. LookedUpOnce'
  BY <1>4, <1>5 DEF LookedUpOnce
<1>8. Phases'
  BY <1>1, <1>5 DEF CompareInv, Phases
<1>9. ASSUME NEW p \in Provider PROVE Trails(p) = {<<>>} /\ Trails(p)' = {<<>>}
  <2>1. task[p] = "none" /\ task'[p] = "none"
    BY <1>1 DEF CompareInv, Phases
  <2>2. compare.skipped = {} /\ compare'.skipped = {}
    BY <1>1, <1>5 DEF NoCompare
  <2> QED BY <2>1, <2>2 DEF Trails, TaskTrail
<1>10. \A p \in Provider : TrailInv(p)'
  BY <1>1, <1>9, TrailsGrow DEF CompareInv
<1> QED BY <1>6, <1>7, <1>8, <1>10 DEF CompareInv

LEMMA CompareResolves ==
  ASSUME CompareInv, ResolveNext
  PROVE  CompareInv'
<1>1. /\ compare.pc = "resolving" /\ compare.left # <<>>
      /\ UNCHANGED <<channel, task, page, cards>>
  BY DEF ResolveNext
<1>2. PICK p : p = Head(compare.left)
  OBVIOUS
<1>3. PICK rest : rest = Tail(compare.left)
  OBVIOUS
<1>4. /\ compare.left \in Seq(Provider) /\ compare.ready \subseteq Provider
      /\ compare.skipped \subseteq Provider /\ compare.told \subseteq Provider
      /\ DOMAIN compare = {"pc", "left", "ready", "skipped", "told"}
  BY DEF CompareInv, CompareTypeOK
<1>5. /\ p \in Provider /\ p = compare.left[1] /\ rest \in Seq(Provider)
      /\ Len(rest) = Len(compare.left) - 1 /\ Len(compare.left) \in Nat \ {0}
      /\ \A i \in 1 .. Len(rest) : rest[i] = compare.left[i + 1]
  BY <1>1, <1>2, <1>3, <1>4
<1>6. page = "waiting" /\ \A q \in Provider : task[q] = "none"
  <2>1. compare.pc # "none" /\ compare.pc # "over"
    BY <1>1
  <2>2. page \in {"none", "waiting", "reading", "over", "left"}
    BY DEF CompareInv, CompareTypeOK
  <2> QED BY <2>1, <2>2 DEF CompareInv, Phases, NoCompare
<1>7. PICK r, s :
        /\ compare' = [pc |-> "resolving", left |-> rest, ready |-> r, skipped |-> s,
                       told |-> compare.told]
        /\ \/ r = compare.ready /\ s = compare.skipped \union {p}
           \/ r = compare.ready \union {p} /\ s = compare.skipped
  <2>1. compare = [pc |-> "resolving", left |-> compare.left, ready |-> compare.ready,
                   skipped |-> compare.skipped, told |-> compare.told]
    BY <1>1 DEF CompareInv, CompareTypeOK
  <2>2. PICK looked : looked = [compare EXCEPT !.left = Tail(@)]
    OBVIOUS
  <2>3. looked = [pc |-> "resolving", left |-> rest, ready |-> compare.ready,
                  skipped |-> compare.skipped, told |-> compare.told]
    <3>1. PICK t, a, b, c : t = compare.left /\ a = compare.ready /\ b = compare.skipped /\ c = compare.told
      OBVIOUS
    <3>2. compare = [pc |-> "resolving", left |-> t, ready |-> a, skipped |-> b, told |-> c]
      BY <2>1, <3>1
    <3>3. looked = [pc |-> "resolving", left |-> Tail(t), ready |-> a, skipped |-> b, told |-> c]
      BY <2>2, <3>2
    <3> QED BY <1>3, <3>1, <3>3
  <2>4. CASE compare' = [looked EXCEPT !.skipped = @ \union {p}]
    <3>2. compare' = [pc |-> "resolving", left |-> rest, ready |-> compare.ready,
                      skipped |-> compare.skipped \union {p}, told |-> compare.told]
      BY <2>3, <2>4
    <3> QED BY <3>2
  <2>5. CASE compare' = [looked EXCEPT !.ready = @ \union {p}]
    <3>2. compare' = [pc |-> "resolving", left |-> rest, ready |-> compare.ready \union {p},
                      skipped |-> compare.skipped, told |-> compare.told]
      BY <2>3, <2>5
    <3> QED BY <3>2
  <2> QED BY <1>2, <2>2, <2>4, <2>5 DEF ResolveNext
<1>8. /\ r \subseteq Provider /\ s \subseteq Provider
      /\ r \subseteq compare.ready \union {p} /\ s \subseteq compare.skipped \union {p}
      /\ compare.skipped \subseteq s
  BY <1>4, <1>5, <1>7
<1>9. CompareTypeOK'
  BY <1>1, <1>4, <1>5, <1>7, <1>8 DEF CompareInv, CompareTypeOK
<1>10. p \notin compare.ready \union compare.skipped
  BY <1>5 DEF CompareInv, LookedUpOnce
<1>11. \A i, j \in 1 .. Len(rest) : rest[i] = rest[j] => i = j
  <2>1. ASSUME NEW i \in 1 .. Len(rest), NEW j \in 1 .. Len(rest), rest[i] = rest[j] PROVE i = j
    <3>1. /\ i + 1 \in 1 .. Len(compare.left) /\ j + 1 \in 1 .. Len(compare.left)
          /\ compare.left[i + 1] = compare.left[j + 1]
      BY <1>5, <2>1
    <3>2. i + 1 = j + 1
      BY <3>1 DEF CompareInv, LookedUpOnce
    <3> QED BY <3>2
  <2> QED BY <2>1
<1>12. \A i \in 1 .. Len(rest) : rest[i] \notin r \union s
  <2>1. ASSUME NEW i \in 1 .. Len(rest) PROVE rest[i] \notin r \union s
    <3>1. i + 1 \in 1 .. Len(compare.left) /\ 1 \in 1 .. Len(compare.left) /\ i + 1 # 1
      BY <1>5
    <3>2. compare.left[i + 1] # compare.left[1]
      BY <3>1 DEF CompareInv, LookedUpOnce
    <3>3. compare.left[i + 1] \notin compare.ready \union compare.skipped
      BY <3>1 DEF CompareInv, LookedUpOnce
    <3> QED BY <1>5, <1>8, <3>2, <3>3
  <2> QED BY <2>1
<1>13. compare.ready \intersect compare.skipped = {} /\ compare.told \subseteq compare.skipped
  BY DEF CompareInv, LookedUpOnce
<1>14. r \intersect s = {} /\ compare.told \subseteq s
  BY <1>7, <1>8, <1>10, <1>13
<1>15. LookedUpOnce'
  BY <1>7, <1>11, <1>12, <1>14 DEF LookedUpOnce
<1>16. Phases'
  BY <1>1, <1>6, <1>7 DEF Phases
<1>17. ASSUME NEW q \in Provider PROVE Trails(q) \subseteq Trails(q)'
  <2>1. CASE q = p
    <3>1. q \notin compare.skipped /\ q \notin compare.told
      BY <1>10, <1>13, <2>1
    <3>2. Trails(q) = {<<>>}
      BY <1>6, <3>1 DEF Trails, TaskTrail
    <3>3. Trails(q)' = {<<>>}
      BY <1>1, <1>6, <1>7, <3>1 DEF Trails, TaskTrail
    <3> QED BY <3>2, <3>3
  <2>2. CASE q # p
    <3>1. q \in s <=> q \in compare.skipped
      BY <1>7, <2>2
    <3> QED BY <1>1, <1>7, <3>1 DEF Trails, TaskTrail
  <2> QED BY <2>1, <2>2
<1>18. \A q \in Provider : TrailInv(q)'
  BY <1>1, <1>6, <1>17, TrailsGrow DEF CompareInv
<1> QED BY <1>9, <1>15, <1>16, <1>18 DEF CompareInv

LEMMA TwoLong ==
  ASSUME NEW S, NEW a \in S, NEW b \in S
  PROVE  Append(<<a>>, b) = <<a, b>>
<1>1. PICK s : s = <<a>>
  OBVIOUS
<1>2. s \in Seq(S) /\ Len(s) = 1 /\ s[1] = a
  BY <1>1
<1>3. PICK u : u = Append(s, b)
  OBVIOUS
<1>4. u \in Seq(S) /\ Len(u) = 2 /\ u[1] = a /\ u[2] = b
  <2>1. s \in Seq(S)
    BY <1>2
  <2>2. u \in Seq(S) /\ Len(u) = Len(s) + 1
    BY <1>3, <2>1
  <2>3. u[Len(s) + 1] = b /\ \A i \in 1 .. Len(s) : u[i] = s[i]
    BY <1>3, <2>1
  <2> QED BY <1>2, <2>2, <2>3
<1>5. PICK v : v = <<a, b>>
  OBVIOUS
<1>6. v \in Seq(S) /\ Len(v) = 2 /\ v[1] = a /\ v[2] = b
  BY <1>5
<1>7. ASSUME NEW i \in 1 .. 2 PROVE u[i] = v[i]
  <2>1. i = 1 \/ i = 2
    OBVIOUS
  <2> QED BY <1>4, <1>6, <2>1
<1>8. u = v
  BY <1>4, <1>6, <1>7
<1> QED BY <1>1, <1>3, <1>5, <1>8

LEMMA TrailsSame ==
  ASSUME NEW p \in Provider, UNCHANGED task,
         p \in compare'.skipped <=> p \in compare.skipped, p \in compare'.told <=> p \in compare.told
  PROVE  Trails(p)' = Trails(p)
<1>1. CASE p \in compare.skipped
  <2>1. CASE p \in compare.told
    BY <1>1, <2>1 DEF Trails, TaskTrail
  <2>2. CASE p \notin compare.told
    BY <1>1, <2>2 DEF Trails, TaskTrail
  <2> QED BY <2>1, <2>2
<1>2. CASE p \notin compare.skipped
  <2>1. task' = task
    OBVIOUS
  <2> QED BY <1>2, <2>1 DEF Trails
<1> QED BY <1>1, <1>2

LEMMA ChannelOpens ==
  ASSUME CompareInv, OpenChannel
  PROVE  CompareInv'
<1>1. /\ compare.pc = "resolving" /\ UNCHANGED <<channel, task, page, cards>>
      /\ compare' = [compare EXCEPT !.pc = "skipping"]
  BY DEF OpenChannel
<1>2. CompareTypeOK
  BY DEF CompareInv
<1>3. /\ compare'.pc = "skipping" /\ compare'.left = compare.left /\ compare'.ready = compare.ready
      /\ compare'.skipped = compare.skipped /\ compare'.told = compare.told
  BY <1>1, <1>2 DEF CompareTypeOK
<1>4. CompareTypeOK'
  BY <1>1, <1>2 DEF CompareTypeOK
<1>5. page = "waiting"
  <2>1. compare.pc # "none" /\ compare.pc # "over"
    BY <1>1
  <2> QED BY <1>2, <2>1 DEF CompareInv, CompareTypeOK, Phases, NoCompare
<1>6. LookedUpOnce' /\ Phases'
  BY <1>1, <1>3, <1>5 DEF CompareInv, LookedUpOnce, Phases
<1>7. \A p \in Provider : Trails(p)' = Trails(p)
  BY <1>1, <1>3, TrailsSame
<1>8. \A p \in Provider : TrailInv(p)'
  BY <1>1, <1>5, <1>7, TrailsGrow DEF CompareInv
<1> QED BY <1>4, <1>6, <1>8 DEF CompareInv

LEMMA SkipsAreSent ==
  ASSUME CompareInv, SendSkip
  PROVE  CompareInv'
<1>1. PICK q \in compare.skipped \ compare.told :
        Send("skipped", q) /\ compare' = [compare EXCEPT !.told = @ \union {q}]
  BY DEF SendSkip
<1>2. compare.pc = "skipping" /\ UNCHANGED <<task, page, cards>>
  BY DEF SendSkip
<1>3. CompareTypeOK
  BY DEF CompareInv
<1>4. page = "waiting"
  <2>1. compare.pc # "none" /\ compare.pc # "over"
    BY <1>2
  <2> QED BY <1>3, <2>1 DEF CompareInv, CompareTypeOK, Phases, NoCompare
<1>5. /\ compare'.pc = "skipping" /\ compare'.left = compare.left /\ compare'.ready = compare.ready
      /\ compare'.skipped = compare.skipped /\ compare'.told = compare.told \union {q}
  BY <1>1, <1>2, <1>3 DEF CompareTypeOK
<1>6. compare.told \union {q} \subseteq Provider /\ q \in Provider
  BY <1>1, <1>3 DEF CompareTypeOK
<1>7. LookedUpOnce' /\ Phases'
  BY <1>1, <1>2, <1>4, <1>5 DEF CompareInv, LookedUpOnce, Phases
<1>8. /\ channel' \in Seq(Kind \X Provider)
      /\ \A p \in Provider : TrailInv(p)'
  <2>1. ASSUME NEW p \in Provider, p # q PROVE Trails(p)' = Trails(p)
    <3>1. p \in compare'.told <=> p \in compare.told
      BY <1>5, <2>1
    <3> QED BY <1>2, <1>5, <3>1, TrailsSame
  <2>2. Trails(q) = {<<>>} /\ Trails(q)' = {<<"skipped">>}
    BY <1>1, <1>5 DEF Trails, TaskTrail
  <2>3. \A s \in Trails(q) : Append(s, "skipped") \in Trails(q)'
    <3>1. Append(<<>>, "skipped") = <<"skipped">>
      OBVIOUS
    <3> QED BY <2>2, <3>1
  <2>4. "skipped" \in Kind /\ page # "left" /\ Send("skipped", q) /\ UNCHANGED cards
    BY <1>1, <1>2, <1>4 DEF Kind
  <2>5. \A p \in Provider : TrailInv(p)
    BY <1>4 DEF CompareInv
  <2> QED BY <1>3, <1>6, <2>1, <2>3, <2>4, <2>5, TrailsSent
<1>9. CompareTypeOK'
  BY <1>1, <1>2, <1>3, <1>6, <1>8 DEF CompareTypeOK
<1> QED BY <1>7, <1>8, <1>9 DEF CompareInv

LEMMA TasksSpawn ==
  ASSUME CompareInv, Spawn
  PROVE  CompareInv'
<1>1. /\ compare.pc = "skipping" /\ compare.told = compare.skipped
      /\ compare' = [compare EXCEPT !.pc = "over"]
      /\ task' = [p \in Provider |-> IF p \in compare.ready THEN "starting" ELSE "none"]
      /\ page' = "reading" /\ UNCHANGED <<channel, cards>>
  BY DEF Spawn
<1>2. CompareTypeOK
  BY DEF CompareInv
<1>3. /\ compare'.pc = "over" /\ compare'.left = compare.left /\ compare'.ready = compare.ready
      /\ compare'.skipped = compare.skipped /\ compare'.told = compare.told
  BY <1>1, <1>2 DEF CompareTypeOK
<1>4. CompareTypeOK'
  <2>1. task' \in [Provider -> {"none", "starting", "asking", "done", "error", "ended"}]
    BY <1>1
  <2>2. compare' \in [pc : {"none", "resolving", "skipping", "over"}, left : Seq(Provider),
                      ready : SUBSET Provider, skipped : SUBSET Provider, told : SUBSET Provider]
    BY <1>1, <1>2 DEF CompareTypeOK
  <2> QED BY <1>1, <1>2, <2>1, <2>2 DEF CompareTypeOK
<1>5. page = "waiting"
  <2>1. compare.pc # "none" /\ compare.pc # "over"
    BY <1>1
  <2> QED BY <1>2, <2>1 DEF CompareInv, CompareTypeOK, Phases, NoCompare
<1>6. LookedUpOnce'
  BY <1>3 DEF CompareInv, LookedUpOnce
<1>7. Phases'
  BY <1>1, <1>3 DEF Phases
<1>8. ASSUME NEW p \in Provider PROVE Trails(p)' = Trails(p)
  <2>1. task[p] = "none" /\ task'[p] \in {"none", "starting"}
    BY <1>1, <1>5 DEF CompareInv, Phases
  <2>2. CASE p \in compare.skipped
    BY <1>3, <2>2 DEF Trails, TaskTrail
  <2>3. CASE p \notin compare.skipped
    <3>1. Trails(p) = {<<>>}
      BY <2>1, <2>3 DEF Trails, TaskTrail
    <3>2. Trails(p)' = {<<>>}
      BY <1>3, <2>1, <2>3 DEF Trails, TaskTrail
    <3> QED BY <3>1, <3>2
  <2> QED BY <2>2, <2>3
<1>9. \A p \in Provider : TrailInv(p)'
  BY <1>1, <1>5, <1>8, TrailsGrow DEF CompareInv
<1> QED BY <1>4, <1>6, <1>7, <1>9 DEF CompareInv

\* A task is only ever between its start and its end while the page is reading, or gone.
LEMMA TaskIsRead ==
  ASSUME CompareInv, NEW p \in Provider, task[p] \in {"starting", "asking", "done", "error"}
  PROVE  page = "left" \/ (page = "reading" /\ p \in compare.ready /\ p \notin compare.skipped)
<1>1. page \in {"none", "waiting", "reading", "over", "left"}
  BY DEF CompareInv, CompareTypeOK
<1> QED BY <1>1 DEF CompareInv, Phases, LookedUpOnce

\* One task moves on, and says so or keeps silent.
LEMMA TaskMoves ==
  ASSUME CompareInv, NEW p \in Provider, task[p] \in {"starting", "asking", "done", "error"},
         NEW state \in {"asking", "done", "error", "ended"}, task' = [task EXCEPT ![p] = state],
         UNCHANGED <<compare, page, cards>>, channel' \in Seq(Kind \X Provider),
         page # "left" => \A q \in Provider : TrailInv(q)'
  PROVE  CompareInv'
<1>1. CompareTypeOK /\ LookedUpOnce /\ Phases
  BY DEF CompareInv
<1>2. CompareTypeOK'
  BY <1>1 DEF CompareTypeOK
<1>3. LookedUpOnce'
  BY <1>1 DEF LookedUpOnce
<1>4. page = "left" \/ (page = "reading" /\ p \in compare.ready)
  BY TaskIsRead
<1>5. ASSUME NEW q \in Provider PROVE task'[q] # "none" <=> task[q] # "none"
  BY <1>1 DEF CompareTypeOK
<1>6. Phases'
  BY <1>1, <1>4, <1>5 DEF Phases
<1> QED BY <1>2, <1>3, <1>6 DEF CompareInv

LEMMA TasksAdvance ==
  ASSUME CompareInv, NEW p \in Provider, TaskStarts(p) \/ VendorAnswers(p) \/ TaskReports(p)
  PROVE  CompareInv'
<1>1. PICK state \in {"asking", "done", "error", "ended"} :
        /\ task' = [task EXCEPT ![p] = state] /\ UNCHANGED <<compare, page, cards>>
        /\ \/ task[p] = "starting" /\ state = "asking" /\ Send("start", p)
           \/ task[p] = "asking" /\ state \in {"done", "error"} /\ UNCHANGED channel
           \/ task[p] \in {"done", "error"} /\ state = "ended" /\ Send(task[p], p)
  BY DEF TaskStarts, VendorAnswers, TaskReports
<1>2. task[p] \in {"starting", "asking", "done", "error"}
  BY <1>1
<1>3. CompareTypeOK /\ channel \in Seq(Kind \X Provider)
      /\ task \in [Provider -> {"none", "starting", "asking", "done", "error", "ended"}]
  BY DEF CompareInv, CompareTypeOK
<1>4. \A q \in Provider : q # p => Trails(q)' = Trails(q)
  BY <1>1, <1>3 DEF Trails, TaskTrail
<1>5. task'[p] = state
  BY <1>1, <1>3
<1>6. CASE page = "left"
  BY <1>1, <1>2, <1>3, <1>6, TaskMoves DEF Send
<1>7. CASE page # "left"
  <2>1. p \notin compare.skipped
    BY <1>2, <1>7, TaskIsRead
  <2>2. \A q \in Provider : TrailInv(q)
    BY <1>7 DEF CompareInv
  <2>3. channel' \in Seq(Kind \X Provider) /\ \A q \in Provider : TrailInv(q)'
    <3>1. CASE task[p] = "starting" /\ state = "asking" /\ Send("start", p)
      <4>1. Trails(p) = {<<>>} /\ Trails(p)' = {<<"start">>}
        BY <1>1, <1>5, <2>1, <3>1 DEF Trails, TaskTrail
      <4>2. \A s \in Trails(p) : Append(s, "start") \in Trails(p)'
        <5>1. Append(<<>>, "start") = <<"start">>
          OBVIOUS
        <5> QED BY <4>1, <5>1
      <4>3. "start" \in Kind
        BY DEF Kind
      <4> QED BY <1>1, <1>3, <1>4, <1>7, <2>2, <3>1, <4>2, <4>3, TrailsSent
    <3>2. CASE task[p] = "asking" /\ state \in {"done", "error"} /\ UNCHANGED channel
      <4>1. Trails(p) = {<<"start">>} /\ Trails(p)' = {<<"start">>}
        BY <1>1, <1>5, <2>1, <3>2 DEF Trails, TaskTrail
      <4> QED BY <1>1, <1>3, <1>4, <2>2, <3>2, <4>1, TrailsGrow
    <3>3. CASE task[p] \in {"done", "error"} /\ state = "ended" /\ Send(task[p], p)
      <4>1. PICK kind \in {"done", "error"} : kind = task[p]
        BY <3>3
      <4>2. Trails(p) = {<<"start">>} /\ Trails(p)' = {<<"start", "done">>, <<"start", "error">>}
        BY <1>1, <1>5, <2>1, <3>3 DEF Trails, TaskTrail
      <4>3. \A s \in Trails(p) : Append(s, kind) \in Trails(p)'
        <5>1. Append(<<"start">>, kind) = <<"start", kind>>
          <6>1. "start" \in Kind /\ kind \in Kind
            BY DEF Kind
          <6> QED BY <6>1, TwoLong
        <5> QED BY <4>2, <5>1
      <4>4. kind \in Kind /\ Send(kind, p)
        BY <3>3, <4>1 DEF Kind
      <4> QED BY <1>1, <1>3, <1>4, <1>7, <2>2, <4>3, <4>4, TrailsSent
    <3> QED BY <1>1, <3>1, <3>2, <3>3
  <2> QED BY <1>1, <1>2, <2>3, TaskMoves
<1> QED BY <1>6, <1>7

LEMMA PageSteps ==
  ASSUME CompareInv, PageReads \/ PageEnds \/ PageLeaves
  PROVE  CompareInv'
<1>1. CompareTypeOK /\ LookedUpOnce /\ Phases
  BY DEF CompareInv
<1>2. CASE PageReads
  <2>1. page = "reading" /\ UNCHANGED <<compare, task, page>>
    BY <1>2 DEF PageReads
  <2>2. \A p \in Provider : TrailInv(p)
    BY <2>1 DEF CompareInv
  <2>3. /\ channel' \in Seq(Kind \X Provider) /\ cards' \in [Provider -> Seq(Kind)]
        /\ \A p \in Provider : TrailInv(p)'
    BY <1>1, <1>2, <2>2, TrailsRead
  <2>4. CompareTypeOK'
    BY <1>1, <2>1, <2>3 DEF CompareTypeOK
  <2>5. LookedUpOnce' /\ Phases'
    BY <1>1, <2>1 DEF LookedUpOnce, Phases
  <2> QED BY <2>3, <2>4, <2>5 DEF CompareInv
<1>3. CASE PageEnds
  <2>1. /\ page = "reading" /\ page' = "over" /\ UNCHANGED <<compare, channel, task, cards>>
        /\ channel = <<>> /\ \A p \in Provider : task[p] \in {"none", "ended"}
    BY <1>3 DEF PageEnds, Closed
  <2>2. CompareTypeOK' /\ LookedUpOnce' /\ Phases'
    BY <1>1, <2>1 DEF CompareTypeOK, LookedUpOnce, Phases
  <2>3. \A p \in Provider : Trails(p)' = Trails(p)
    BY <2>1 DEF Trails, TaskTrail
  <2>4. \A p \in Provider : TrailInv(p)'
    BY <2>1, <2>3, TrailsGrow DEF CompareInv
  <2> QED BY <2>2, <2>4 DEF CompareInv
<1>4. CASE PageLeaves
  <2>1. /\ page' = "left" /\ compare' = [compare EXCEPT !.pc = "over"] /\ channel' = <<>>
        /\ UNCHANGED <<task, cards>>
    BY <1>4 DEF PageLeaves
  <2>2. CompareTypeOK'
    <3>1. compare' \in [pc : {"none", "resolving", "skipping", "over"}, left : Seq(Provider),
                        ready : SUBSET Provider, skipped : SUBSET Provider, told : SUBSET Provider]
      BY <1>1, <2>1 DEF CompareTypeOK
    <3>2. channel' \in Seq(Kind \X Provider)
      BY <2>1
    <3> QED BY <1>1, <2>1, <3>1, <3>2 DEF CompareTypeOK
  <2>3. /\ compare'.pc = "over" /\ compare'.left = compare.left /\ compare'.ready = compare.ready
        /\ compare'.skipped = compare.skipped /\ compare'.told = compare.told
    BY <1>1, <2>1 DEF CompareTypeOK
  <2>4. LookedUpOnce' /\ Phases'
    BY <1>1, <2>1, <2>3 DEF LookedUpOnce, Phases
  <2> QED BY <2>1, <2>2, <2>4 DEF CompareInv
<1> QED BY <1>2, <1>3, <1>4

LEMMA CompareStep == CompareInv /\ [Next]_vars => CompareInv'
<1> SUFFICES ASSUME CompareInv, [Next]_vars PROVE CompareInv'
  OBVIOUS
<1>1. CASE UNCHANGED compareVars
  BY <1>1, CompareKept
<1>2. CASE CompareNext
  BY <1>2, CompareBegins, CompareResolves, ChannelOpens, SkipsAreSent, TasksSpawn, TasksAdvance,
     PageSteps DEF CompareNext
<1> QED BY <1>1, <1>2 DEF Next, vars

LEMMA CompareInvariance == Spec => []CompareInv
<1>1. CompareInit /\ [][Next]_vars => []CompareInv
  BY CompareInvInit, CompareStep, PTL
<1> QED BY <1>1, PTL DEF Spec

(***************************************************************************)
(* Whatever the order in which the tasks report and the page reads, and    *)
(* whatever else happens to the keys meanwhile, when the page hears        *)
(* run-done every card asked for was skipped once, or started and then     *)
(* ended once (drive_compare, and the drop of the last sender).            *)
(***************************************************************************)
THEOREM CardsSettle == Spec => []EveryCardSettles
<1>1. CompareInv => EveryCardSettles
  <2> SUFFICES ASSUME CompareInv, page = "over" PROVE EveryCardSettles
    BY DEF EveryCardSettles
  <2>1. ASSUME NEW p \in Provider PROVE cards[p] \in Trails(p)
    <3>1. PICK due \in Seq(Kind) : Holds(channel, p, due) /\ cards[p] \o due \in Trails(p)
      BY DEF CompareInv, TrailInv
    <3>2. channel = <<>>
      BY DEF CompareInv, Phases
    <3>3. due = <<>>
      BY <3>1, <3>2, HoldsOfEmpty
    <3>4. cards[p] \in Seq(Kind)
      BY DEF CompareInv, CompareTypeOK
    <3>5. cards[p] \o <<>> = cards[p]
      BY <3>4
    <3> QED BY <3>1, <3>3, <3>5
  <2>2. ASSUME NEW p \in compare.ready
        PROVE  cards[p] \in {<<"start", "done">>, <<"start", "error">>}
    <3>1. p \in Provider /\ p \notin compare.skipped /\ task[p] = "ended"
      BY DEF CompareInv, CompareTypeOK, LookedUpOnce, Phases
    <3> QED BY <2>1, <3>1 DEF Trails, TaskTrail
  <2>3. ASSUME NEW p \in compare.skipped PROVE cards[p] = <<"skipped">>
    <3>1. p \in Provider /\ p \in compare.told
      BY DEF CompareInv, CompareTypeOK, Phases
    <3> QED BY <2>1, <3>1 DEF Trails, TaskTrail
  <2> QED BY <2>2, <2>3 DEF EveryCardSettles
<1> QED BY <1>1, CompareInvariance, PTL

---------------------------------------------------------------------------
(* What free_open_weight_panel gives *)

LEMMA AppendedRange ==
  ASSUME NEW S, NEW s \in Seq(S), NEW e \in S
  PROVE  Append(s, e) \in Seq(S) /\ Range(Append(s, e)) = Range(s) \union {e}
<1>1. PICK u : u = Append(s, e)
  OBVIOUS
<1>2. /\ u \in Seq(S) /\ Len(u) = Len(s) + 1 /\ DOMAIN u = 1 .. Len(u) /\ DOMAIN s = 1 .. Len(s)
      /\ u[Len(s) + 1] = e /\ \A i \in 1 .. Len(s) : u[i] = s[i]
  BY <1>1
<1>3. Len(s) \in Nat /\ \A i : i \in 1 .. Len(s) + 1 <=> i \in 1 .. Len(s) \/ i = Len(s) + 1
  OBVIOUS
<1>4. Range(u) = Range(s) \union {e}
  BY <1>2, <1>3 DEF Range
<1> QED BY <1>1, <1>2, <1>4

Values(f, n) == {f[i] : i \in 1 .. n}

\* The positions of a list give as many things as there are positions, if no two give the same.
LEMMA SpreadOf ==
  ASSUME NEW n \in Nat, NEW f
  PROVE  /\ IsFiniteSet(Values(f, n)) /\ Cardinality(Values(f, n)) <= n
         /\ (\A i, j \in 1 .. n : f[i] = f[j] => i = j) => Cardinality(Values(f, n)) = n
<1>1. IsFiniteSet(1 .. n) /\ Cardinality(1 .. n) = n
  BY FS_Interval
<1>2. PICK S : S = 1 .. n
  OBVIOUS
<1>3. IsFiniteSet(S) /\ Cardinality(S) = n
  BY <1>1, <1>2
<1>4. /\ IsFiniteSet({f[x] : x \in S}) /\ Cardinality({f[x] : x \in S}) <= Cardinality(S)
      /\ (\A x, y \in S : f[x] = f[y] => x = y) => Cardinality({f[x] : x \in S}) = Cardinality(S)
  BY <1>3, ImageOf
<1>5. Values(f, n) = {f[x] : x \in S}
  BY <1>2 DEF Values
<1> QED BY <1>2, <1>3, <1>4, <1>5

LEMMA MinOfTwo ==
  ASSUME NEW a \in Nat, NEW b \in Nat
  PROVE  /\ a <= b => Min({a, b}) = a
         /\ b <= a => Min({a, b}) = b
<1>1. PICK m : m = Min({a, b})
  OBVIOUS
<1>2. \E x \in {a, b} : \A y \in {a, b} : x <= y
  OBVIOUS
<1>3. m \in {a, b} /\ \A y \in {a, b} : m <= y
  BY <1>1, <1>2 DEF Min
<1> QED BY <1>1, <1>3

FitsModel(m) == m.open /\ m.prompt = "0" /\ m.completion = "0"

\* What the first i models leave, of those that fit.
Sifted(models, i) == {m \in Range(models) : FitsModel(m) /\ \E j \in 1 .. i : models[j] = m}

LEMMA EligibleFits ==
  ASSUME NEW catalogue, Listed(catalogue)
  PROVE  Range(Eligible(catalogue)) = Fits(Range(catalogue))
<1>1. PICK n \in Nat : DOMAIN catalogue = 1..n
  BY DEF Listed
<1> DEFINE R == Range(catalogue)
           H == [i \in 0 .. n |-> {s \in Seq(R) : Range(s) = Sifted(catalogue, i)}]
<1>2. <<>> \in H[0]
  <2>1. PICK none : none = <<>>
    OBVIOUS
  <2>2. none \in Seq(R) /\ Range(none) = {}
    BY <2>1 DEF Range
  <2>3. Sifted(catalogue, 0) = {} /\ 0 \in 0 .. n
    BY DEF Sifted
  <2> HIDE DEF R
  <2> QED BY <2>1, <2>2, <2>3
<1>3. ASSUME NEW i \in 1..n, NEW acc \in H[i - 1] PROVE IfEligible(acc, catalogue[i]) \in H[i]
  <2>1. PICK m : m = catalogue[i]
    OBVIOUS
  <2>2. m \in R /\ i - 1 \in 0 .. n /\ i \in 0 .. n
    BY <1>1, <2>1 DEF Range
  <2>3. acc \in Seq(R) /\ Range(acc) = Sifted(catalogue, i - 1)
    BY <1>3, <2>2
  <2>4. \A j : j \in 1 .. i <=> j \in 1 .. i - 1 \/ j = i
    OBVIOUS
  <2>5. FitsModel(m) <=> (m.open /\ Free(m) = "yes")
    BY DEF FitsModel, Free, Unquoted
  <2>6. CASE FitsModel(m)
    <3>1. Append(acc, m) \in Seq(R) /\ Range(Append(acc, m)) = Range(acc) \union {m}
      <4> HIDE DEF R, H
      <4> QED BY <2>2, <2>3, AppendedRange
    <3>2. Sifted(catalogue, i) = Sifted(catalogue, i - 1) \union {m}
      BY <2>1, <2>2, <2>4, <2>6 DEF Sifted
    <3>3. IfEligible(acc, m) = Append(acc, m)
      BY <2>5, <2>6 DEF IfEligible
    <3> QED BY <2>1, <2>2, <2>3, <3>1, <3>2, <3>3
  <2>7. CASE ~FitsModel(m)
    <3>1. Sifted(catalogue, i) = Sifted(catalogue, i - 1)
      BY <2>1, <2>2, <2>4, <2>7 DEF Sifted
    <3>2. IfEligible(acc, m) = acc
      BY <2>5, <2>7 DEF IfEligible
    <3> QED BY <2>1, <2>2, <2>3, <3>1, <3>2
  <2> QED BY <2>6, <2>7
<1> HIDE DEF H
<1>4. Filtering!SequenceFold(<<>>, catalogue) \in H[n]
  BY <1>1, <1>2, <1>3, Filtering!SequenceFoldReaches
<1>5. Eligible(catalogue) \in H[n]
  BY <1>4, FoldsAre DEF Eligible
<1>6. Range(Eligible(catalogue)) = Sifted(catalogue, n)
  BY <1>5 DEF H
<1>7. Sifted(catalogue, n) = Fits(Range(catalogue))
  <2>1. \A m \in Range(catalogue) : \E j \in 1 .. n : catalogue[j] = m
    BY <1>1 DEF Range
  <2> QED BY <2>1 DEF Sifted, Fits, FitsModel
<1> QED BY <1>6, <1>7

\* One of each family, as many as there is room for.
Covers(c, models, i) ==
  /\ Len(c) <= Suggested
  /\ \A x, y \in 1 .. Len(c) : c[x].family = c[y].family => x = y
  /\ Len(c) = Suggested \/ \A j \in 1 .. i : \E x \in 1 .. Len(c) : c[x].family = models[j].family

\* Every model, as many as there is room for, after those of the first pass.
Fills(c, first, models, i) ==
  /\ Len(first) <= Len(c) /\ Len(c) <= Suggested
  /\ \A x \in 1 .. Len(first) : c[x] = first[x]
  /\ \A x, y \in 1 .. Len(c) : c[x].id = c[y].id => x = y
  /\ Len(c) = Suggested \/ \A j \in 1 .. i : \E x \in 1 .. Len(c) : c[x].id = models[j].id

LEMMA CoversMore ==
  ASSUME NEW S, NEW c \in Seq(S), NEW m \in S, NEW models, NEW i \in Nat, models[i + 1] = m,
         Covers(c, models, i)
  PROVE  OfNewFamily(c, m) \in Seq(S) /\ Covers(OfNewFamily(c, m), models, i + 1)
<1>1. Suggested \in Nat
  BY KeysAssumption DEF KeysAssumption
<1>2. PICK k \in Nat : k = Len(c)
  OBVIOUS
<1>3. DOMAIN c = 1 .. k
  BY <1>2
<1>4. CASE k = Suggested
  <2>1. OfNewFamily(c, m) = c
    BY <1>2, <1>4 DEF OfNewFamily
  <2>2. Covers(c, models, i + 1)
    BY <1>2, <1>4 DEF Covers
  <2> QED BY <2>1, <2>2
<1>5. CASE k # Suggested /\ \E x \in 1 .. k : c[x].family = m.family
  <2>1. \E chosen \in Range(c) : chosen.family = m.family
    BY <1>3, <1>5 DEF Range
  <2>2. OfNewFamily(c, m) = c
    BY <2>1 DEF OfNewFamily
  <2>3. ASSUME NEW j \in 1 .. i + 1 PROVE \E x \in 1 .. k : c[x].family = models[j].family
    <3>1. j \in 1 .. i \/ j = i + 1
      OBVIOUS
    <3> QED BY <1>2, <1>5, <3>1 DEF Covers
  <2> QED BY <1>2, <2>2, <2>3 DEF Covers
<1>6. CASE k # Suggested /\ \A x \in 1 .. k : c[x].family # m.family
  <2>1. ~ \E chosen \in Range(c) : chosen.family = m.family
    BY <1>3, <1>6 DEF Range
  <2>2. PICK d : d = Append(c, m)
    OBVIOUS
  <2>3. OfNewFamily(c, m) = d
    BY <1>2, <1>6, <2>1, <2>2 DEF OfNewFamily
  <2>4. d \in Seq(S) /\ Len(d) = k + 1 /\ d[k + 1] = m /\ \A x \in 1 .. k : d[x] = c[x]
    <3>1. d \in Seq(S) /\ Len(d) = Len(c) + 1
      BY <2>2
    <3>2. d[Len(c) + 1] = m /\ \A x \in 1 .. Len(c) : d[x] = c[x]
      BY <2>2
    <3> QED BY <1>2, <3>1, <3>2
  <2>5. \A x : x \in 1 .. k + 1 <=> x \in 1 .. k \/ x = k + 1
    BY <1>2
  <2>6. k + 1 <= Suggested
    BY <1>1, <1>2, <1>6 DEF Covers
  <2>7. \A x, y \in 1 .. k + 1 : d[x].family = d[y].family => x = y
    BY <1>2, <1>6, <2>4, <2>5 DEF Covers
  <2>8. ASSUME NEW j \in 1 .. i + 1 PROVE \E x \in 1 .. k + 1 : d[x].family = models[j].family
    <3>1. CASE j = i + 1
      BY <2>4, <2>5, <3>1
    <3>2. CASE j # i + 1
      <4>1. j \in 1 .. i
        BY <3>2
      <4>2. PICK x \in 1 .. k : c[x].family = models[j].family
        BY <1>2, <1>6, <4>1 DEF Covers
      <4> QED BY <2>4, <2>5, <4>2
    <3> QED BY <3>1, <3>2
  <2> QED BY <2>3, <2>4, <2>6, <2>7, <2>8 DEF Covers
<1> QED BY <1>4, <1>5, <1>6

LEMMA FillsMore ==
  ASSUME NEW S, NEW c \in Seq(S), NEW m \in S, NEW models, NEW i \in Nat, models[i + 1] = m,
         NEW first, Len(first) \in Nat, Fills(c, first, models, i)
  PROVE  NotChosen(c, m) \in Seq(S) /\ Fills(NotChosen(c, m), first, models, i + 1)
<1>1. Suggested \in Nat
  BY KeysAssumption DEF KeysAssumption
<1>2. PICK k \in Nat : k = Len(c)
  OBVIOUS
<1>3. DOMAIN c = 1 .. k
  BY <1>2
<1>4. CASE k = Suggested
  <2>1. NotChosen(c, m) = c
    BY <1>2, <1>4 DEF NotChosen
  <2>2. Fills(c, first, models, i + 1)
    BY <1>2, <1>4 DEF Fills
  <2> QED BY <2>1, <2>2
<1>5. CASE k # Suggested /\ \E x \in 1 .. k : c[x].id = m.id
  <2>1. \E chosen \in Range(c) : chosen.id = m.id
    BY <1>3, <1>5 DEF Range
  <2>2. NotChosen(c, m) = c
    BY <2>1 DEF NotChosen
  <2>3. ASSUME NEW j \in 1 .. i + 1 PROVE \E x \in 1 .. k : c[x].id = models[j].id
    <3>1. j \in 1 .. i \/ j = i + 1
      OBVIOUS
    <3> QED BY <1>2, <1>5, <3>1 DEF Fills
  <2> QED BY <1>2, <2>2, <2>3 DEF Fills
<1>6. CASE k # Suggested /\ \A x \in 1 .. k : c[x].id # m.id
  <2>1. ~ \E chosen \in Range(c) : chosen.id = m.id
    BY <1>3, <1>6 DEF Range
  <2>2. PICK d : d = Append(c, m)
    OBVIOUS
  <2>3. NotChosen(c, m) = d
    BY <1>2, <1>6, <2>1, <2>2 DEF NotChosen
  <2>4. d \in Seq(S) /\ Len(d) = k + 1 /\ d[k + 1] = m /\ \A x \in 1 .. k : d[x] = c[x]
    <3>1. d \in Seq(S) /\ Len(d) = Len(c) + 1
      BY <2>2
    <3>2. d[Len(c) + 1] = m /\ \A x \in 1 .. Len(c) : d[x] = c[x]
      BY <2>2
    <3> QED BY <1>2, <3>1, <3>2
  <2>5. \A x : x \in 1 .. k + 1 <=> x \in 1 .. k \/ x = k + 1
    BY <1>2
  <2>6. k + 1 <= Suggested /\ Len(first) <= k
    BY <1>1, <1>2, <1>6 DEF Fills
  <2>7. \A x, y \in 1 .. k + 1 : d[x].id = d[y].id => x = y
    BY <1>2, <1>6, <2>4, <2>5 DEF Fills
  <2>8. ASSUME NEW j \in 1 .. i + 1 PROVE \E x \in 1 .. k + 1 : d[x].id = models[j].id
    <3>1. CASE j = i + 1
      BY <2>4, <2>5, <3>1
    <3>2. CASE j # i + 1
      <4>1. j \in 1 .. i
        BY <3>2
      <4>2. PICK x \in 1 .. k : c[x].id = models[j].id
        BY <1>2, <1>6, <4>1 DEF Fills
      <4> QED BY <2>4, <2>5, <4>2
    <3> QED BY <3>1, <3>2
  <2>9. \A x \in 1 .. Len(first) : d[x] = first[x]
    <3>1. \A x \in 1 .. Len(first) : x \in 1 .. k /\ c[x] = first[x]
      BY <1>2, <2>6 DEF Fills
    <3> QED BY <2>4, <3>1
  <2>10. Len(first) <= k + 1
    BY <2>6
  <2> QED BY <2>3, <2>4, <2>6, <2>7, <2>8, <2>9, <2>10 DEF Fills
<1> QED BY <1>4, <1>5, <1>6

LEMMA PassesOver ==
  ASSUME NEW S, NEW n \in Nat, NEW models \in [1 .. n -> S],
         \A m, other \in S : m.id = other.id => m.family = other.family
  PROVE  \E first, c \in Seq(S) :
           /\ Covers(first, models, n) /\ Fills(c, first, models, n)
           /\ c = FoldLeft(NotChosen, FoldLeft(OfNewFamily, <<>>, models), models)
<1> DEFINE H == [i \in 0 .. n |-> {s \in Seq(S) : Covers(s, models, i)}]
<1>1. Suggested \in Nat
  BY KeysAssumption DEF KeysAssumption
<1>2. DOMAIN models = 1 .. n /\ \A i \in 1 .. n : models[i] \in S
  OBVIOUS
<1>3. <<>> \in H[0]
  <2>1. PICK none : none = <<>>
    OBVIOUS
  <2>2. none \in Seq(S) /\ Len(none) = 0
    BY <2>1
  <2>3. Covers(none, models, 0)
    BY <1>1, <2>2 DEF Covers
  <2> QED BY <2>1, <2>2, <2>3
<1>4. ASSUME NEW i \in 1 .. n, NEW acc \in H[i - 1] PROVE OfNewFamily(acc, models[i]) \in H[i]
  <2>1. i - 1 \in 0 .. n /\ i \in 0 .. n /\ i - 1 \in Nat /\ (i - 1) + 1 = i
    OBVIOUS
  <2>2. acc \in Seq(S) /\ Covers(acc, models, i - 1)
    BY <1>4, <2>1
  <2>3. PICK m \in S : m = models[i]
    BY <1>2
  <2>4. PICK j \in Nat : j = i - 1
    BY <2>1
  <2>5. models[j + 1] = m /\ Covers(acc, models, j)
    BY <2>1, <2>2, <2>3, <2>4
  <2>6. OfNewFamily(acc, m) \in Seq(S) /\ Covers(OfNewFamily(acc, m), models, j + 1)
    BY <2>2, <2>5, CoversMore
  <2> QED BY <2>1, <2>3, <2>4, <2>6
<1> HIDE DEF H
<1>5. Covering!SequenceFold(<<>>, models) \in H[n]
  BY <1>2, <1>3, <1>4, Covering!SequenceFoldReaches
<1>6. PICK first : first = FoldLeft(OfNewFamily, <<>>, models)
  OBVIOUS
<1>7. first \in Seq(S) /\ Covers(first, models, n)
  <2>1. first \in H[n]
    BY <1>5, <1>6, FoldsAre
  <2> QED BY <2>1 DEF H
<1> DEFINE G == [i \in 0 .. n |-> {s \in Seq(S) : Fills(s, first, models, i)}]
<1>8. first \in G[0]
  <2>1. Len(first) \in Nat /\ \A x \in 1 .. Len(first) : first[x] \in S
    BY <1>7
  <2>2. \A x, y \in 1 .. Len(first) : first[x].id = first[y].id => x = y
    BY <1>7, <2>1 DEF Covers
  <2>3. Fills(first, first, models, 0)
    BY <1>7, <2>1, <2>2 DEF Covers, Fills
  <2> QED BY <1>7, <2>3
<1>9. ASSUME NEW i \in 1 .. n, NEW acc \in G[i - 1] PROVE NotChosen(acc, models[i]) \in G[i]
  <2>1. i - 1 \in 0 .. n /\ i \in 0 .. n /\ i - 1 \in Nat /\ (i - 1) + 1 = i
    OBVIOUS
  <2>2. acc \in Seq(S) /\ Fills(acc, first, models, i - 1)
    BY <1>9, <2>1
  <2>3. PICK m \in S : m = models[i]
    BY <1>2
  <2>4. PICK j \in Nat : j = i - 1
    BY <2>1
  <2>5. models[j + 1] = m /\ Fills(acc, first, models, j) /\ Len(first) \in Nat
    BY <1>7, <2>1, <2>2, <2>3, <2>4
  <2>6. NotChosen(acc, m) \in Seq(S) /\ Fills(NotChosen(acc, m), first, models, j + 1)
    BY <2>2, <2>5, FillsMore
  <2> QED BY <2>1, <2>3, <2>4, <2>6
<1> HIDE DEF G
<1>10. Choosing!SequenceFold(first, models) \in G[n]
  BY <1>2, <1>8, <1>9, Choosing!SequenceFoldReaches
<1>11. PICK c : c = FoldLeft(NotChosen, first, models)
  OBVIOUS
<1>12. c \in Seq(S) /\ Fills(c, first, models, n)
  <2>1. c \in G[n]
    BY <1>10, <1>11, FoldsAre
  <2> QED BY <2>1 DEF G
<1> QED BY <1>6, <1>7, <1>11, <1>12

\* Of n different things out of T, either there is no room for more or T holds no more.
LEMMA AsManyAsFit ==
  ASSUME NEW T, IsFiniteSet(T), NEW part, part \subseteq T, NEW n \in Nat,
         Cardinality(part) = n, n <= Suggested, n = Suggested \/ T \subseteq part
  PROVE  n = Fewer(T)
<1>1. Suggested \in Nat
  BY KeysAssumption DEF KeysAssumption
<1>2. Cardinality(T) \in Nat /\ n <= Cardinality(T)
  BY FS_Subset, FS_CardinalityType
<1>3. CASE n = Suggested
  BY <1>1, <1>2, <1>3, MinOfTwo DEF Fewer
<1>4. CASE T \subseteq part
  <2>1. T = part
    BY <1>4
  <2>2. Cardinality(T) = n
    BY <2>1
  <2> QED BY <1>1, <1>2, <2>2, MinOfTwo DEF Fewer
<1> QED BY <1>3, <1>4

LEMMA FreePanelSpreads ==
  ASSUME NEW catalogue, Listed(catalogue),
         \A m, other \in Range(catalogue) : m.id = other.id => m.family = other.family
  PROVE  Spreads(catalogue, FreePanel(catalogue))
<1>1. PICK models : models = Eligible(catalogue)
  OBVIOUS
<1>2. PICK S : S = Fits(Range(catalogue))
  OBVIOUS
<1>3. Range(models) = S /\ S \subseteq Range(catalogue)
  BY <1>1, <1>2, EligibleFits DEF Fits
<1>4. PICK n \in Nat : DOMAIN models = 1 .. n
  <2>1. models \in Seq(Range(catalogue))
    BY <1>1, EligibleListed
  <2> QED BY <2>1
<1>5. models \in [1 .. n -> S] /\ S = {models[i] : i \in 1 .. n}
  <2>1. models \in Seq(Range(catalogue))
    BY <1>1, EligibleListed
  <2>2. \A i \in 1 .. n : models[i] \in S
    BY <1>3, <1>4 DEF Range
  <2> QED BY <1>3, <1>4, <2>1, <2>2 DEF Range
<1>6. \A m, other \in S : m.id = other.id => m.family = other.family
  BY <1>3
<1>7. PICK first, c \in Seq(S) :
        /\ Covers(first, models, n) /\ Fills(c, first, models, n) /\ c = FreePanel(catalogue)
  BY <1>1, <1>5, <1>6, PassesOver DEF FreePanel
<1>8. PICK k, l : k = Len(c) /\ l = Len(first)
  OBVIOUS
<1>9. k \in Nat /\ l \in Nat
  BY <1>8
<1>10. /\ DOMAIN c = 1 .. k /\ (\A x \in 1 .. k : c[x] \in S)
      /\ \A x \in 1 .. l : first[x] \in S
  BY <1>8
<1>11. /\ l <= k /\ k <= Suggested /\ l <= Suggested
       /\ \A x \in 1 .. l : c[x] = first[x]
       /\ \A x, y \in 1 .. k : c[x].id = c[y].id => x = y
       /\ k = Suggested \/ \A j \in 1 .. n : \E x \in 1 .. k : c[x].id = models[j].id
       /\ \A x, y \in 1 .. l : first[x].family = first[y].family => x = y
       /\ l = Suggested \/ \A j \in 1 .. n : \E x \in 1 .. l : first[x].family = models[j].family
  BY <1>7, <1>8 DEF Covers, Fills
<1>12. Range(c) \subseteq S
  BY <1>10 DEF Range
<1>13. IsFiniteSet(Ids(S)) /\ IsFiniteSet(Families(S))
  <2> DEFINE i == [j \in 1 .. n |-> models[j].id]
             f == [j \in 1 .. n |-> models[j].family]
  <2>1. IsFiniteSet(Values(i, n)) /\ IsFiniteSet(Values(f, n))
    <3> HIDE DEF i, f
    <3> QED BY SpreadOf
  <2>2. Ids(S) = Values(i, n) /\ Families(S) = Values(f, n)
    BY <1>5 DEF Ids, Families, Values
  <2> QED BY <2>1, <2>2
<1>14. k = Fewer(Ids(S))
  <2> DEFINE f == [x \in 1 .. k |-> c[x].id]
             part == Values(f, k)
  <2>1. \A x, y \in 1 .. k : f[x] = f[y] => x = y
    BY <1>11
  <2>2. Cardinality(part) = k
    <3> HIDE DEF f
    <3> QED BY <1>9, <2>1, SpreadOf
  <2>3. part \subseteq Ids(S)
    BY <1>10 DEF Ids, Values
  <2>4. k = Suggested \/ Ids(S) \subseteq part
    <3>1. CASE \A j \in 1 .. n : \E x \in 1 .. k : c[x].id = models[j].id
      <4>1. ASSUME NEW m \in S PROVE \E x \in 1 .. k : f[x] = m.id
        <5>1. PICK j \in 1 .. n : m = models[j]
          BY <1>5
        <5>2. PICK x \in 1 .. k : c[x].id = models[j].id
          BY <3>1
        <5> QED BY <5>1, <5>2
      <4> HIDE DEF f
      <4> QED BY <4>1 DEF Ids, Values
    <3> QED BY <1>11, <3>1
  <2> HIDE DEF part
  <2> QED BY <1>11, <1>13, <1>9, <2>2, <2>3, <2>4, AsManyAsFit
<1>15. Cardinality(Families(Range(c))) = Fewer(Families(S))
  <2> DEFINE f == [x \in 1 .. l |-> first[x].family]
             part == Values(f, l)
             g == [x \in 1 .. k |-> c[x].family]
  <2>1. \A x, y \in 1 .. l : f[x] = f[y] => x = y
    BY <1>11
  <2>2. Cardinality(part) = l
    <3> HIDE DEF f, g
    <3> QED BY <1>9, <2>1, SpreadOf
  <2>3. PICK all : all = Values(g, k)
    OBVIOUS
  <2>4. all = Families(Range(c))
    BY <1>10, <2>3 DEF Families, Range, Values
  <2>5. IsFiniteSet(all) /\ Cardinality(all) <= k
    <3> HIDE DEF g
    <3> QED BY <1>9, <2>3, SpreadOf
  <2>6. part \subseteq all
    <3>1. \A x \in 1 .. l : x \in 1 .. k /\ f[x] = g[x]
      BY <1>11, <1>9
    <3> HIDE DEF f, g
    <3> QED BY <2>3, <3>1 DEF Values
  <2>7. all \subseteq Families(S)
    BY <1>12, <2>4 DEF Families
  <2>8. l = Suggested \/ Families(S) \subseteq part
    <3>1. CASE \A j \in 1 .. n : \E x \in 1 .. l : first[x].family = models[j].family
      <4>1. ASSUME NEW m \in S PROVE \E x \in 1 .. l : f[x] = m.family
        <5>1. PICK j \in 1 .. n : m = models[j]
          BY <1>5
        <5>2. PICK x \in 1 .. l : first[x].family = models[j].family
          BY <3>1
        <5> QED BY <5>1, <5>2
      <4> HIDE DEF f
      <4> QED BY <4>1 DEF Families, Values
    <3> QED BY <1>11, <3>1
  <2> HIDE DEF part
  <2>9. Cardinality(all) \in Nat /\ l <= Cardinality(all)
    BY <2>2, <2>5, <2>6, FS_Subset, FS_CardinalityType
  <2>10. Suggested \in Nat
    BY KeysAssumption DEF KeysAssumption
  <2>11. Cardinality(all) <= Suggested
    BY <1>11, <1>9, <2>5, <2>9, <2>10
  <2>12. Cardinality(all) = Suggested \/ Families(S) \subseteq all
    BY <2>6, <2>8, <2>9, <2>10, <2>11
  <2>13. Cardinality(all) = Fewer(Families(S))
    BY <1>13, <2>7, <2>9, <2>11, <2>12, AsManyAsFit
  <2> QED BY <2>4, <2>13
<1> QED BY <1>2, <1>7, <1>8, <1>10, <1>11, <1>12, <1>14, <1>15 DEF Spreads

LEMMA PickedSpreads ==
  ASSUME SuggestionsSpread, [Next]_vars
  PROVE  SuggestionsSpread'
<1>1. CASE UNCHANGED picked
  BY <1>1 DEF SuggestionsSpread
<1>2. ASSUME NEW p \in Provider, NEW ticked \in SUBSET shown, NEW catalogue \in Catalogue,
             PickFree(p, ticked, catalogue)
      PROVE  SuggestionsSpread'
  <2>1. picked' = [from |-> catalogue, free |-> FreePanel(catalogue)]
    BY <1>2 DEF PickFree
  <2>2. Listed(catalogue) /\ \A m, other \in Range(catalogue) : m.id = other.id => m.family = other.family
    BY KeysAssumption DEF KeysAssumption, Listed
  <2>3. Spreads(catalogue, FreePanel(catalogue))
    BY <2>2, FreePanelSpreads
  <2> QED BY <2>1, <2>3 DEF SuggestionsSpread
<1>3. KeysNext /\ UNCHANGED compareVars =>
        \/ UNCHANGED picked
        \/ \E p \in Provider, ticked \in SUBSET shown, catalogue \in Catalogue :
             PickFree(p, ticked, catalogue)
  BY DEF KeysNext, SetKey, RemoveKey, AccountChanges, Tick, BeginTest, ListingAnswers,
     CompletionAnswers, ShowProviders, StartFromScreen, StartByHand, BeginPanel, SeatNext, EndPanel,
     LockKey, UnlockKey, panelVars, screenVars
<1>4. CompareNext => UNCHANGED picked
  BY DEF CompareNext, BeginCompare, ResolveNext, OpenChannel, SendSkip, Spawn, TaskStarts,
     VendorAnswers, TaskReports, PageReads, PageEnds, PageLeaves, keysVars, panelVars, screenVars
<1> QED BY <1>1, <1>2, <1>3, <1>4 DEF Next, vars, keysVars, panelVars, screenVars

(***************************************************************************)
(* Whatever catalogue a vendor answers with, the models suggested out of   *)
(* it are free and open, all different, as many as fit, and of as many     *)
(* families as so many models can be (free_open_weight_panel, both its     *)
(* passes).                                                                *)
(***************************************************************************)
THEOREM SuggestionsHold == Spec => []SuggestionsSpread
<1>1. CompareInit => SuggestionsSpread
  <2> SUFFICES ASSUME CompareInit PROVE SuggestionsSpread
    OBVIOUS
  <2>1. PICK none : none = <<>>
    OBVIOUS
  <2>2. Listed(none) /\ Range(none) = {}
    BY <2>1 DEF Listed, Range
  <2>3. FreePanel(none) = none
    <3>1. PICK s : s = FreePanel(none)
      OBVIOUS
    <3>2. s \in Seq({})
      BY <2>2, <3>1, FreePanelListed
    <3>3. Len(s) = 0
      <4>1. CASE Len(s) # 0
        <5>1. 1 \in 1 .. Len(s)
          BY <3>2, <4>1
        <5>2. s[1] \in {}
          BY <3>2, <5>1
        <5> QED BY <5>2
      <4> QED BY <4>1
    <3> QED BY <2>1, <3>1, <3>2, <3>3
  <2>4. Spreads(none, FreePanel(none))
    BY <2>2, FreePanelSpreads
  <2>5. picked.from = none /\ picked.free = none
    BY <2>1 DEF CompareInit, Init
  <2> QED BY <2>3, <2>4, <2>5 DEF SuggestionsSpread
<1>2. SuggestionsSpread /\ [Next]_vars => SuggestionsSpread'
  BY PickedSpreads
<1> QED BY <1>1, <1>2, PTL DEF Spec
=============================================================================
