---------------------------- MODULE ProviderKeys ----------------------------
(***************************************************************************)
(* What the program does with the operator's API keys: where a key is      *)
(* found (arbiter-providers/keys.rs), how `arbiter keys test` and the Keys *)
(* screen find out whether it works (verify.rs, probe.rs), which models it *)
(* can run (catalogue.rs), and how a panel is put together from it         *)
(* (panel.rs).                                                             *)
(*                                                                         *)
(* The environment of a process is fixed when it starts; the keychain      *)
(* belongs to the machine; the cache of verdicts to the process.  A key    *)
(* stands for its fingerprint, and a provider for its default model too,   *)
(* since verification asks no other.  The synthetic provider, mock, has no *)
(* key and no test: it is one of the boxes of the Debate screen, and a     *)
(* panel of its own.  Time is counted in parts of VERIFICATION_TTL_SECS.   *)
(***************************************************************************)
EXTENDS Integers, Sequences, FiniteSets, SequencesExt

CONSTANTS
  providers,    \* REAL_PROVIDER_IDS, in the order of the list
  Key,          \* what can be stored or exported for one of them
  Process,      \* `arbiter serve`, and a command at the terminal
  serve,        \* the first of these
  arbiterVar,   \* ARBITER_<PROVIDER>_API_KEY in the environment of a process
  providerVar,  \* the provider's own variable there
  stored,       \* the keychain at the start
  Account,      \* what a vendor may think of a key, by provider and key
  refusal,      \* the status with which a vendor refuses a key
  Catalogue,    \* the lists of models a vendor may answer with
  PanelSpec,    \* the --panel arguments typed by hand
  Suggested,    \* SUGGESTED_PANEL_MODELS
  TTL,          \* VERIFICATION_TTL_SECS
  MaxTime,      \* bound on the clock
  MaxChanges,   \* bound on what happens to keychain and accounts
  MaxRequests   \* bound on tests, picks, panels and comparisons

Unset == "unset"
Blank == "blank"
Mock == "mock"

Standing == {"works", "poor", "void"}

Provider == Range(providers)

ASSUME KeysAssumption ==
  /\ serve \in Process
  /\ providers \in Seq(Provider) /\ IsInjective(providers)
  /\ Unset \notin Key /\ Blank \notin Key /\ Mock \notin Provider
  /\ arbiterVar \in [Process -> [Provider -> Key \union {Unset, Blank}]]
  /\ providerVar \in [Process -> [Provider -> Key \union {Unset, Blank}]]
  /\ stored \in [Provider -> Key \union {Unset}]
  /\ Account \subseteq [Provider -> [Key -> Standing]]
  /\ refusal \in [Provider -> {400, 401, 403}]
  /\ \A catalogue \in Catalogue :
       /\ catalogue \in Seq(Range(catalogue))
       /\ \A m, other \in Range(catalogue) : m.id = other.id => m.family = other.family
  /\ TTL \in Nat /\ MaxTime \in Nat /\ MaxChanges \in Nat /\ MaxRequests \in Nat
  /\ Suggested \in Nat

Test == 1 .. MaxRequests

VARIABLES
  keychain,   \* the key stored for each provider, or Unset
  locked,     \* the providers whose entry the keychain does not give out now
  account,    \* what the vendors think of the keys
  now,        \* now_unix
  changes,    \* how often keychain, its locks or accounts have changed
  cache,      \* VerificationCache: verdict and checked_at, where there is one
  test,       \* the verifications, by the number of the request
  heard,      \* history: when a process last heard that a key works, or is refused
  requests,   \* tests, picks, panels and comparisons so far
  shown,      \* the providers the Debate screen last heard are usable
  withdrawn,  \* history: those whose keychain entry has been removed or locked since
  picked,     \* the catalogue the screen last asked for, and what it suggested
  lines,      \* the models picked for each provider of the screen
  panel       \* the panel being resolved, or resolved last

keyVars == <<keychain, locked, account, changes>>
testVars == <<cache, test, heard>>
screenVars == <<shown, withdrawn, picked, lines>>
panelVars == <<screenVars, panel>>
keysVars == <<keyVars, now, testVars, requests, panelVars>>

---------------------------------------------------------------------------
\* non_blank: a variable that is set to nothing is not set.
NonBlank(value) == IF value = Blank THEN Unset ELSE value

\* The three sources, the first that has something.  A keychain entry that
\* cannot be read is no entry.
KeyIn(process, p) ==
  LET own == NonBlank(arbiterVar[process][p])
      vendors == NonBlank(providerVar[process][p])
  IN  IF own # Unset THEN own
      ELSE IF vendors # Unset THEN vendors
      ELSE IF p \in locked THEN Unset ELSE keychain[p]

Never == -1 - TTL

Fresh(at) == now - at <= TTL

\* Mutant: what is remembered of a provider is remembered of any key of it.
RememberedOfProvider(process, p, k) ==
  LET of == {e \in DOMAIN cache : e[1] = process /\ e[2] = p /\ Fresh(cache[e].at)}
  IN  IF of = {} THEN "nothing" ELSE cache[CHOOSE e \in of : TRUE].result

\* VerificationCache::get; an entry that has expired is none.
Remembered(process, p, k) ==
  IF <<process, p, k>> \in DOMAIN cache /\ Fresh(cache[<<process, p, k>>].at)
    THEN cache[<<process, p, k>>].result
    ELSE "nothing"

Inserted(map, x, value) ==
  [y \in DOMAIN map \union {x} |-> IF y = x THEN value ELSE map[y]]

\* VerificationCache::put
Remember(process, p, k, result) ==
  cache' = Inserted(cache, <<process, p, k>>, [result |-> result, at |-> now])

---------------------------------------------------------------------------
(***************************************************************************)
(* What comes back from a vendor: no response, or a status.  200 with a    *)
(* body the adapter cannot read is a response for the listing, where the   *)
(* models are only counted, and none of the adapter's for a completion.    *)
(***************************************************************************)
NoResponse == 0
Unreadable == 1

ListingResponses(p, k) ==
  {NoResponse, 429} \union (IF account[p][k] = "void" THEN {refusal[p]} ELSE {200})

CompletionResponses(p, k) ==
  {NoResponse, 503} \union (CASE account[p][k] = "works" -> {200, Unreadable}
                              [] account[p][k] = "poor" -> {402}
                              [] account[p][k] = "void" -> {refusal[p]})

KeyRefused(status) == status \in {401, 403}

NoPanel == [pc |-> "none", process |-> serve, screen |-> FALSE, asked |-> <<>>, left |-> <<>>,
            roster |-> <<>>, adapters |-> [p \in {} |-> Unset],
            judge |-> [provider |-> Unset, model |-> Unset], because |-> "none"]

\* History: when the completion of a test may have been billed, and the tests of
\* the same key in the same process of which that can be said when it begins.
NoTest == [pc |-> "idle", process |-> serve, provider |-> Unset, key |-> Unset, since |-> 0,
           authenticated |-> FALSE, state |-> "none", after |-> {}, billed |-> Never]

\* Mutant: whatever is configured somewhere, were it to nothing.
Configured ==
  {Mock} \union {p \in Provider : \/ arbiterVar[serve][p] # Unset
                                 \/ providerVar[serve][p] # Unset
                                 \/ keychain[p] # Unset}

\* The providers of which GET /api/providers says usable.
Usable == {Mock} \union {p \in Provider : KeyIn(serve, p) # Unset}

Init ==
  /\ keychain = stored
  /\ locked \in SUBSET {p \in Provider : stored[p] # Unset}
  /\ account \in Account
  /\ now = 0
  /\ changes = 0
  /\ cache = [e \in {} |-> [result |-> "nothing", at |-> 0]]
  /\ test = [t \in Test |-> NoTest]
  /\ heard = [e \in Process \X Provider \X Key |-> [works |-> Never, refused |-> Never]]
  /\ shown = Usable
  /\ withdrawn = {}
  /\ requests = 0
  /\ picked = [from |-> <<>>, free |-> <<>>]
  /\ lines = [p \in Provider |-> <<>>]
  /\ panel = NoPanel

---------------------------------------------------------------------------
(* The keychain: `arbiter keys set` and `rm`, and the Keys screen. *)

\* A key that is blank is refused before it gets here.
SetKey(p, k) ==
  /\ changes < MaxChanges
  /\ changes' = changes + 1
  /\ keychain' = [keychain EXCEPT ![p] = k]
  /\ UNCHANGED <<locked, account, now, testVars, requests, panelVars>>

RemoveKey(p) ==
  /\ changes < MaxChanges
  /\ keychain[p] # Unset
  /\ changes' = changes + 1
  /\ keychain' = [keychain EXCEPT ![p] = Unset]
  /\ withdrawn' = withdrawn \union {p}
  /\ UNCHANGED <<locked, account, now, testVars, requests, shown, picked, lines, panel>>

\* The keychain stops giving out an entry it has: it was locked, or the user says no.
LockKey(p) ==
  /\ changes < MaxChanges
  /\ keychain[p] # Unset /\ p \notin locked
  /\ changes' = changes + 1
  /\ locked' = locked \union {p}
  /\ withdrawn' = withdrawn \union {p}
  /\ UNCHANGED <<keychain, account, now, testVars, requests, shown, picked, lines, panel>>

UnlockKey(p) ==
  /\ changes < MaxChanges
  /\ p \in locked
  /\ changes' = changes + 1
  /\ locked' = locked \ {p}
  /\ UNCHANGED <<keychain, account, now, testVars, requests, panelVars>>

\* A balance is topped up or used up, a key revoked.
AccountChanges(p, k, standing) ==
  /\ changes < MaxChanges
  /\ account[p][k] \notin {standing, "void"}
  /\ changes' = changes + 1
  /\ account' = [account EXCEPT ![p][k] = standing]
  /\ UNCHANGED <<keychain, locked, now, testVars, requests, panelVars>>

Tick ==
  /\ now < MaxTime
  /\ now' = now + 1
  /\ UNCHANGED <<keyVars, testVars, requests, panelVars>>

---------------------------------------------------------------------------
(* verify *)

Request == requests < MaxRequests /\ requests' = requests + 1

Answer(t, state) == [test[t] EXCEPT !.pc = "idle", !.state = state]

\* What the test says, and where it was learned.
Say(t, state) == test' = [test EXCEPT ![t] = Answer(t, state)]

\* Those of one key in one process whose completion may have been billed.
BilledFor(process, p, k) ==
  {t \in Test : test[t].billed # Never /\ <<test[t].process, test[t].provider, test[t].key>> = <<process, p, k>>}

Begun(process, p) ==
  [NoTest EXCEPT !.process = process, !.provider = p, !.key = KeyIn(process, p), !.since = now,
                 !.after = BilledFor(process, p, KeyIn(process, p))]

\* Mutant: every test asks the vendor.
AskVendorAnyway(process, p) ==
  /\ Request
  /\ test' = [test EXCEPT ![requests + 1] =
       IF KeyIn(process, p) = Unset THEN [Begun(process, p) EXCEPT !.state = "missing"]
       ELSE [Begun(process, p) EXCEPT !.pc = "listing"]]
  /\ UNCHANGED <<keyVars, now, cache, heard, panelVars>>

(***************************************************************************)
(* The key and the cache are looked at once, before the first request; a   *)
(* key set while the requests are under way is not seen.                   *)
(***************************************************************************)
BeginTest(process, p) ==
  LET k == KeyIn(process, p)
      known == Remembered(process, p, k)
  IN  /\ Request
      /\ test' = [test EXCEPT ![requests + 1] =
           IF k = Unset THEN [Begun(process, p) EXCEPT !.state = "missing"]
           ELSE IF known # "nothing" THEN [Begun(process, p) EXCEPT !.state = known]
           ELSE [Begun(process, p) EXCEPT !.pc = "listing"]]
      /\ UNCHANGED <<keyVars, now, cache, heard, panelVars>>

\* The process has heard the vendor's word on the key of this test.
Learn(t, result) ==
  LET e == <<test[t].process, test[t].provider, test[t].key>>
  IN  /\ Remember(e[1], e[2], e[3], result)
      /\ heard' = [heard EXCEPT ![e] = IF result = "verified" THEN [@ EXCEPT !.works = now]
                                                             ELSE [@ EXCEPT !.refused = now]]

\* probe_key, which costs nothing; also where there is no client to ask with.
ListingAnswers(t) ==
  /\ test[t].pc = "listing"
  /\ \E status \in ListingResponses(test[t].provider, test[t].key) :
       \/ /\ KeyRefused(status)
          /\ Learn(t, "rejected")
          /\ Say(t, "rejected")
       \/ /\ status = NoResponse
          /\ Say(t, "unreachable")
          /\ UNCHANGED <<cache, heard>>
       \/ /\ status # NoResponse /\ ~KeyRefused(status)
          /\ test' = [test EXCEPT ![t].pc = "completing", ![t].authenticated = (status = 200)]
          /\ UNCHANGED <<cache, heard>>
  /\ UNCHANGED <<keyVars, now, requests, panelVars>>

\* A 200 is billed whether or not it can be read, and a completion that never came
\* back may have been.
SayBilled(t, state) == test' = [test EXCEPT ![t] = [Answer(t, state) EXCEPT !.billed = now]]

\* Only a word on the key itself is remembered.
CompletionAnswers(t) ==
  /\ test[t].pc = "completing"
  /\ \E status \in CompletionResponses(test[t].provider, test[t].key) :
       \/ /\ status = 200
          /\ Learn(t, "verified")
          /\ SayBilled(t, "verified")
       \/ /\ KeyRefused(status)
          /\ Learn(t, "rejected")
          /\ Say(t, "rejected")
       \/ /\ status \notin {200, Unreadable, NoResponse} /\ ~KeyRefused(status)
          /\ Say(t, "blocked")
          /\ UNCHANGED <<cache, heard>>
       \/ /\ status \in {NoResponse, Unreadable}
          /\ SayBilled(t, "unreachable")
          /\ UNCHANGED <<cache, heard>>
  /\ UNCHANGED <<keyVars, now, requests, panelVars>>

---------------------------------------------------------------------------
(***************************************************************************)
(* Catalogues.  A model has an id, a family, two prices, each quoted or    *)
(* not, and open or closed weights.                                        *)
(***************************************************************************)
Unquoted == "unquoted"

\* Free only when both halves are quoted and zero; Unquoted says nothing.
Free(model) ==
  IF Unquoted \in {model.prompt, model.completion} THEN Unquoted
  ELSE IF model.prompt = "0" /\ model.completion = "0" THEN "yes" ELSE "no"

IfEligible(eligible, m) ==
  IF m.open /\ Free(m) = "yes" THEN Append(eligible, m) ELSE eligible

Eligible(catalogue) == FoldLeft(IfEligible, <<>>, catalogue)

\* The two passes over a list, each until the panel is full.
OfNewFamily(chosen, m) ==
  IF Len(chosen) = Suggested \/ \E c \in Range(chosen) : c.family = m.family
    THEN chosen ELSE Append(chosen, m)

NotChosen(chosen, m) ==
  IF Len(chosen) = Suggested \/ \E c \in Range(chosen) : c.id = m.id
    THEN chosen ELSE Append(chosen, m)

\* Mutant: one pass.
AnyFree(catalogue) == FoldLeft(NotChosen, <<>>, Eligible(catalogue))

\* free_open_weight_panel: one of each family, then any not yet chosen.
FreePanel(catalogue) ==
  FoldLeft(NotChosen, FoldLeft(OfNewFamily, <<>>, Eligible(catalogue)), Eligible(catalogue))

---------------------------------------------------------------------------
(* The Debate screen *)

Default == "default"

\* The screen is loaded: every usable provider has a box and its default model.
ShowProviders ==
  /\ panel.pc # "resolving"
  /\ shown' = Usable
  /\ withdrawn' = {}
  /\ lines' = [p \in Provider |-> <<>>]
  /\ UNCHANGED <<keyVars, now, testVars, requests, picked, panel>>

\* mock_panel: three models and a judge.
SyntheticRoster == [i \in 1 .. 3 |-> [provider |-> Mock, model |-> i]]

\* modelsFrom: mock is all of its roster, a provider without a line its default.
LinesOf ==
  [p \in {Mock} \union Provider |->
     IF p = Mock THEN Len(SyntheticRoster) ELSE IF lines[p] = <<>> THEN 1 ELSE Len(lines[p])]

(***************************************************************************)
(* "Five free models": the vendor is asked with the provider's key, and    *)
(* what it suggests replaces the provider's lines, as many as the panel is *)
(* short of.                                                               *)
(***************************************************************************)
PickFree(p, ticked, catalogue) ==
  LET free == FreePanel(catalogue)
      short == Suggested - SumFunctionOnSet(LinesOf, ticked \ {p})
      want == Max({1, Min({Len(free), short})})
  IN  /\ panel.pc # "resolving"
      /\ p \in shown /\ KeyIn(serve, p) # Unset
      /\ Request
      /\ picked' = [from |-> catalogue, free |-> free]
      /\ lines' = IF free = <<>> THEN lines
                  ELSE [lines EXCEPT ![p] = [i \in 1 .. want |-> free[i].id]]
      /\ UNCHANGED <<keyVars, now, testVars, shown, withdrawn, panel>>

Joined(spec, entries) == spec \o entries

\* A name alone stands for the provider's default model.
Bare(p) == [provider |-> p, model |-> Default]

EntriesOf(p) ==
  IF lines[p] = <<>> THEN <<Bare(p)>>
  ELSE [i \in DOMAIN lines[p] |-> [provider |-> p, model |-> lines[p][i]]]

\* selectedPanelSpec, in the order of known_providers; mock has no lines.
SpecOf(ticked) ==
  (IF Mock \in ticked THEN <<Bare(Mock)>> ELSE <<>>)
    \o FoldLeft(Joined, <<>>,
                [i \in DOMAIN providers |->
                   IF providers[i] \in ticked THEN EntriesOf(providers[i]) ELSE <<>>])

---------------------------------------------------------------------------
(* panel::resolve *)

\* parse_spec: only a known provider has a default model.
UnknownDefault(e) == e.provider \notin Provider /\ e.model = Default

(***************************************************************************)
(* The word mock alone is the synthetic panel.  Anything else is parsed    *)
(* whole before a key is looked for: a spec without an entry is refused,   *)
(* and one where a bare name is none of REAL_PROVIDER_IDS, as mock is.     *)
(***************************************************************************)
BeginPanel(process, asked, screen) ==
  LET begun == [NoPanel EXCEPT !.process = process, !.screen = screen, !.asked = asked]
  IN  /\ panel.pc # "resolving"
      /\ Request
      /\ panel' = IF asked = <<Bare(Mock)>> THEN
                    [begun EXCEPT !.pc = "ready", !.roster = SyntheticRoster,
                                  !.judge = [provider |-> Mock, model |-> "judge"]]
                  ELSE IF asked = <<>> THEN
                    [begun EXCEPT !.pc = "refused", !.because = "empty"]
                  ELSE IF \E i \in DOMAIN asked : UnknownDefault(asked[i]) THEN
                    [begun EXCEPT !.pc = "refused", !.because = "unknown"]
                  ELSE [begun EXCEPT !.pc = "resolving", !.left = asked]
      /\ UNCHANGED <<keyVars, now, testVars, screenVars>>

StartFromScreen ==
  \E ticked \in (SUBSET shown) \ {{}} : BeginPanel(serve, SpecOf(ticked), TRUE)

StartByHand ==
  \E process \in Process, asked \in PanelSpec : BeginPanel(process, asked, FALSE)

Seated == [panel EXCEPT !.left = Tail(@), !.roster = Append(@, Head(panel.left))]

Refused(because) ==
  [NoPanel EXCEPT !.pc = "refused", !.process = panel.process, !.screen = panel.screen,
                  !.asked = panel.asked, !.because = because]

\* One adapter for each provider.  A provider without a key refuses the panel, and
\* so does an adapter whose HTTP client cannot be built.  A name that is none of
\* REAL_PROVIDER_IDS has no key or else no adapter.
SeatNext ==
  LET p == Head(panel.left).provider
  IN  /\ panel.pc = "resolving" /\ panel.left # <<>>
      /\ IF p \in DOMAIN panel.adapters THEN panel' = Seated
         ELSE IF p \notin Provider THEN panel' = Refused("unknown")
         ELSE IF KeyIn(panel.process, p) = Unset THEN panel' = Refused("no key")
         ELSE \/ panel' = [Seated EXCEPT !.adapters = Inserted(@, p, KeyIn(panel.process, p))]
              \/ panel' = Refused("no client")
      /\ UNCHANGED <<keyVars, now, testVars, requests, screenVars>>

\* The judge rides the first provider of the panel.
EndPanel ==
  /\ panel.pc = "resolving" /\ panel.left = <<>>
  /\ panel' = [panel EXCEPT !.pc = "ready", !.judge = Head(panel.asked)]
  /\ UNCHANGED <<keyVars, now, testVars, requests, screenVars>>

KeysNext ==
  \/ \E p \in Provider :
       \/ \E k \in Key : SetKey(p, k)
       \/ RemoveKey(p) \/ LockKey(p) \/ UnlockKey(p)
       \/ \E k \in Key, standing \in Standing : AccountChanges(p, k, standing)
  \/ Tick
  \/ \E process \in Process, p \in Provider : BeginTest(process, p)
  \/ \E t \in Test : ListingAnswers(t) \/ CompletionAnswers(t)
  \/ ShowProviders
  \/ \E p \in Provider, ticked \in SUBSET shown, catalogue \in Catalogue :
       PickFree(p, ticked, catalogue)
  \/ StartFromScreen
  \/ StartByHand
  \/ SeatNext
  \/ EndPanel

---------------------------------------------------------------------------
(* Properties *)

(***************************************************************************)
(* A test that says verified or rejected repeats what the vendor told the  *)
(* same process about that very key, at most TTL before the test began:    *)
(* neither another key of the provider, nor one that has been replaced in  *)
(* the keychain meanwhile, nor the word of another process is repeated.    *)
(***************************************************************************)
VerdictsAreEarned ==
  \A t \in Test :
    LET h == heard[<<test[t].process, test[t].provider, test[t].key>>]
    IN  /\ test[t].state = "verified" => h.works >= test[t].since - TTL
        /\ test[t].state = "rejected" => h.refused >= test[t].since - TTL

(***************************************************************************)
(* A process that has had a completion billed to test a key is not billed  *)
(* again for a test of that key that begins afterwards and within TTL,     *)
(* whatever else is tested, set and answered in between -- unless the      *)
(* answer it has paid for was lost or could not be read, for then there is *)
(* nothing to remember.  Two processes share no memory, and tests that     *)
(* overlap all ask.                                                        *)
(***************************************************************************)
BilledOnce ==
  \A t, u \in Test :
    test[t].billed # Never /\ u \in test[t].after /\ test[t].since - test[u].billed <= TTL
      => test[u].state = "unreachable"

\* The reasons for which a panel of the screen may be refused.
MixesMock(asked) ==
  \E i, j \in DOMAIN asked : asked[i].provider = Mock /\ asked[j].provider # Mock

Excused(refused) ==
  \/ refused.because = "unknown" /\ MixesMock(refused.asked)
  \/ refused.because = "no key" /\ Head(panel.left).provider \in withdrawn
  \/ refused.because = "no client"

(***************************************************************************)
(* A panel put together on the screen out of what GET /api/providers calls *)
(* usable is refused only where mock was ticked beside a real provider,    *)
(* for a provider whose keychain entry was removed or locked after the     *)
(* screen was loaded, or for want of an HTTP client: whatever else was     *)
(* set, tested, picked or typed in between.                                *)
(***************************************************************************)
UsableIsSeated ==
  [][panel'.pc = "refused" /\ panel'.screen /\ panel' # panel => Excused(panel')]_<<panel, withdrawn>>

Families(models) == {m.family : m \in models}
Ids(models) == {m.id : m \in models}

Fits(models) == {m \in models : m.open /\ m.prompt = "0" /\ m.completion = "0"}

Fewer(set) == Min({Suggested, Cardinality(set)})

Spreads(from, free) ==
  /\ Range(free) \subseteq Fits(Range(from))
  /\ \A i, j \in DOMAIN free : free[i].id = free[j].id => i = j
  /\ Len(free) = Fewer(Ids(Fits(Range(from))))
  /\ Cardinality(Families(Range(free))) = Fewer(Families(Fits(Range(from))))

(***************************************************************************)
(* What the picker suggests is free and open, names no model twice, is as  *)
(* long as the catalogue allows, and covers as many families as so many    *)
(* models can: a family comes twice only when every family has come.       *)
(***************************************************************************)
SuggestionsSpread == Spreads(picked.from, picked.free)

=============================================================================
