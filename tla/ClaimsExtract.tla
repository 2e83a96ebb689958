--------------------------- MODULE ClaimsExtract ---------------------------
(***************************************************************************)
(* The stage claims.extract (stages/claims_extract.rs).  Each position is  *)
(* extracted by one provider call into a list of claim candidates.  A      *)
(* candidate is grounded by a quote that occurs in the position, or by     *)
(* premises that are grounded themselves.  What is not grounded is         *)
(* repaired at most once, as long as the stage's repair budget lasts; a    *)
(* cycle of premises that survives is cut edge by edge; what then has no   *)
(* ground is admitted as unsupported.                                      *)
(*                                                                         *)
(* Kahn's sort is modelled round by round, and the grounding of a layer    *)
(* with its round: the code grounds in the order the sort returns, which   *)
(* is layer by layer.  The text of a claim and the matching of a quote are *)
(* abstracted to whether the quote occurs.  What a call does to the ledger *)
(* and the cache is BudgetLedger's subject; here a call answers or not.    *)
(***************************************************************************)
EXTENDS Integers, Sequences, FiniteSets

CONSTANTS
    Position,        \* the positions the stage is given
    Extractions,     \* Extractions[p]: the candidate lists a call may return
    Repairs,         \* the repairs a call may return: index -> candidate
    MaxParallelism,  \* positions worked on at a time
    RepairCost,      \* the estimate every repair call is booked with
    RepairCap        \* the repair budget of the stage

\* The labels of RawCandidate.kind; "other" is any label that is not known.
Labels == {"fact", "inference", "assumption", "opinion", "other"}

\* One RawCandidate: does its quote occur, which claims does it cite (by the
\* 1-based index the model wrote), and how sure is the extractor of that.
Candidate == [kind : Labels, quote : {"none", "found", "absent"},
              refs : SUBSET Nat, confidence : Nat]

ASSUME ExtractAssumption ==
    /\ IsFiniteSet(Position)
    /\ Extractions \in [Position -> SUBSET Seq(Candidate)]
    /\ \A r \in Repairs : \A i \in DOMAIN r : r[i] \in Candidate
    /\ MaxParallelism \in Nat \ {0}
    /\ RepairCost \in Nat
    /\ RepairCap \in Nat

VARIABLES
    cancelled,       \* the run's cancellation token
    pc,              \* pc[p]: where extract_one is with position p
    candidates,      \* candidates[p]: the list as extracted, then as repaired
    premise_edges,   \* premise_edges[p][i]: the claims that claim i rests on
    remaining,       \* remaining[p]: the claims the sort has not placed yet
    grounded,        \* grounded[p]: the claims with a quote or grounded premises
    cycle,           \* cycle[p]: what the sort could not place before any cut
    repaired,        \* the positions a repair call was sent for
    repair_spent,    \* the cumulative repair spend of the stage
    returned,        \* returned[p]: the claims extract_one returned
    status           \* "running" until every position has been collected

work == <<candidates, premise_edges, remaining, grounded, cycle>>
extractVars == <<cancelled, pc, work, repaired, repair_spent, returned, status>>

-----------------------------------------------------------------------------
\* The indices of a candidate list.
Idx(list) == 1..Len(list)

\* build_premise_edges: only inferences cite, and a citation that is out of
\* range is dropped by parse_ref.
PremiseEdges(list) ==
    [i \in Idx(list) |-> IF list[i].kind = "inference" THEN list[i].refs \cap Idx(list)
                                                       ELSE {}]

\* Steps 1 and 2 of the grounding: an exact or a fuzzy match of the quote.
Quoted(list) == {i \in Idx(list) : list[i].quote = "found"}

\* The claims a round of Kahn's algorithm places: none of their premises waits.
Ready(p) == {i \in remaining[p] : premise_edges[p][i] \cap remaining[p] = {}}

\* Step 3: a claim with premises, all of them grounded, is derived.
Derivable(edges, ground) == {i \in DOMAIN edges : edges[i] # {} /\ edges[i] \subseteq ground}

Sorted(p) == pc[p] = "sorting" /\ Ready(p) = {}

NeedsRepair(p) == remaining[p] # {} \/ grounded[p] # Idx(candidates[p])

\* cut_cycle_edges has begun, with a cycle that is not empty.
Cutting(p) == cycle[p] # {}

\* Mutant: the budget is looked at before the amount is added.
RepairAffordableBefore == repair_spent <= RepairCap

RepairAffordable == repair_spent + RepairCost <= RepairCap

\* The resolution is final but for cycles: nothing to repair, or the one
\* repair is behind, or there is no budget for it.
PastRepair(p) == p \in repaired \/ Cutting(p) \/ ~NeedsRepair(p) \/ ~RepairAffordable

\* The edges cut_cycle_edges may remove: both ends in the unplaced part.
InsideCycle(p) ==
    LET within == IF Cutting(p) THEN remaining[p] \cap cycle[p] ELSE remaining[p]
    IN  {e \in within \X within : e[2] \in premise_edges[p][e[1]]}

\* Mutant: only an edge weaker than all others is cut.
WeakestStrictly(p) ==
    LET conf(e) == candidates[p][e[1]].confidence
    IN  {e \in InsideCycle(p) : \A f \in InsideCycle(p) \ {e} : conf(e) < conf(f)}

\* The first edge of the stable sort by confidence.  All edges of a claim have
\* its confidence; their order is the order the model cited them in.
Weakest(p) ==
    LET conf(e) == candidates[p][e[1]].confidence
    IN  {e \in InsideCycle(p) : \A f \in InsideCycle(p) :
            conf(e) < conf(f) \/ (conf(e) = conf(f) /\ e[1] <= f[1])}

Running == {p \in Position : pc[p] \in {"extracting", "sorting", "repairing"}}

\* build_claims: the grounding and the kind a claim is admitted with.
DeclaredKind(k) == IF k = "other" THEN "unverified" ELSE k

Built(p) ==
    LET groundingOf(i) == CASE i \in Quoted(candidates[p]) -> "quote"
                            [] i \in grounded[p] \ Quoted(candidates[p]) -> "derived"
                            [] OTHER -> "unsupported"
    IN  [i \in Idx(candidates[p]) |->
            [grounding |-> groundingOf(i),
             premises |-> IF groundingOf(i) = "derived" THEN premise_edges[p][i] ELSE {},
             kind |-> IF groundingOf(i) = "unsupported" THEN "unverified"
                      ELSE DeclaredKind(candidates[p][i].kind)]]

-----------------------------------------------------------------------------
ExtractInit ==
    /\ cancelled = FALSE
    /\ pc = [p \in Position |-> "waiting"]
    /\ candidates = [p \in Position |-> << >>]
    /\ premise_edges = [p \in Position |-> << >>]
    /\ remaining = [p \in Position |-> {}]
    /\ grounded = [p \in Position |-> {}]
    /\ cycle = [p \in Position |-> {}]
    /\ repaired = {}
    /\ repair_spent = 0
    /\ returned = [p \in Position |-> << >>]
    /\ status = "running"

\* CancellationToken::cancel, from outside the stage.
Cancel ==
    /\ status = "running" /\ ~cancelled
    /\ cancelled' = TRUE
    /\ UNCHANGED <<pc, work, repaired, repair_spent, returned, status>>

\* Mutant: the stream is not bounded.
StartAtOnce(p) ==
    /\ pc[p] = "waiting"
    /\ pc' = [pc EXCEPT ![p] = IF cancelled THEN "done" ELSE "extracting"]
    /\ UNCHANGED <<cancelled, work, repaired, repair_spent, returned, status>>

\* buffer_unordered polls the next position; a cancelled run skips it.
Start(p) ==
    /\ pc[p] = "waiting" /\ Cardinality(Running) < MaxParallelism
    /\ pc' = [pc EXCEPT ![p] = IF cancelled THEN "done" ELSE "extracting"]
    /\ UNCHANGED <<cancelled, work, repaired, repair_spent, returned, status>>

\* No response, or one that does not parse: the position yields no claims.
ExtractFails(p) ==
    /\ pc[p] = "extracting"
    /\ pc' = [pc EXCEPT ![p] = "done"]
    /\ UNCHANGED <<cancelled, work, repaired, repair_spent, returned, status>>

\* resolve(): the edges of the list, its quotes, and a sort not yet begun.
Resolve(p, list) ==
    /\ candidates' = [candidates EXCEPT ![p] = list]
    /\ premise_edges' = [premise_edges EXCEPT ![p] = PremiseEdges(list)]
    /\ remaining' = [remaining EXCEPT ![p] = Idx(list)]
    /\ grounded' = [grounded EXCEPT ![p] = Quoted(list)]
    /\ pc' = [pc EXCEPT ![p] = "sorting"]

Extract(p) ==
    /\ pc[p] = "extracting"
    /\ \E list \in Extractions[p] : Resolve(p, list)
    /\ UNCHANGED <<cancelled, cycle, repaired, repair_spent, returned, status>>

\* Mutant: only quotes ground a derivation.
SortRoundFromQuotes(p) ==
    /\ pc[p] = "sorting" /\ Ready(p) # {}
    /\ remaining' = [remaining EXCEPT ![p] = @ \ Ready(p)]
    /\ grounded' = [grounded EXCEPT ![p] =
            @ \cup (Ready(p) \cap Derivable(premise_edges[p], Quoted(candidates[p])))]
    /\ UNCHANGED <<cancelled, pc, candidates, premise_edges, cycle, repaired, repair_spent,
                   returned, status>>

\* One round of topo_sort, with the grounding of the claims it places.
SortRound(p) ==
    /\ pc[p] = "sorting" /\ Ready(p) # {}
    /\ remaining' = [remaining EXCEPT ![p] = @ \ Ready(p)]
    /\ grounded' = [grounded EXCEPT
                      ![p] = @ \cup (Ready(p) \cap Derivable(premise_edges[p], @))]
    /\ UNCHANGED <<cancelled, pc, candidates, premise_edges, cycle, repaired, repair_spent,
                   returned, status>>

\* try_spend_repair_budget, under its mutex, and the repair call is sent.
SendRepair(p) ==
    /\ Sorted(p) /\ ~PastRepair(p)
    /\ repair_spent' = repair_spent + RepairCost
    /\ pc' = [pc EXCEPT ![p] = "repairing"]
    /\ repaired' = repaired \cup {p}
    /\ UNCHANGED <<cancelled, work, returned, status>>

\* The repair call failed or its answer does not parse: the first resolution
\* stands, and the budget stays spent.
RepairFails(p) ==
    /\ pc[p] = "repairing"
    /\ pc' = [pc EXCEPT ![p] = "sorting"]
    /\ UNCHANGED <<cancelled, work, repaired, repair_spent, returned, status>>

\* apply_repairs replaces kind and grounding of every index named, a grounded
\* claim's as well, and everything is resolved anew.
ApplyRepairs(p) ==
    /\ pc[p] = "repairing"
    /\ \E r \in Repairs :
          Resolve(p, [i \in Idx(candidates[p]) |->
                        IF i \in DOMAIN r THEN r[i] ELSE candidates[p][i]])
    /\ UNCHANGED <<cancelled, cycle, repaired, repair_spent, returned, status>>

\* One turn of cut_cycle_edges' loop; the sort starts over without the edge.
CutEdge(p) ==
    /\ Sorted(p) /\ remaining[p] # {} /\ PastRepair(p)
    /\ \E e \in Weakest(p) :
          premise_edges' = [premise_edges EXCEPT ![p][e[1]] = @ \ {e[2]}]
    /\ remaining' = [remaining EXCEPT ![p] = Idx(candidates[p])]
    /\ grounded' = [grounded EXCEPT ![p] = Quoted(candidates[p])]
    /\ cycle' = [cycle EXCEPT ![p] = IF Cutting(p) THEN @ ELSE remaining[p]]
    /\ UNCHANGED <<cancelled, pc, candidates, repaired, repair_spent, returned, status>>

\* Everything is placed: the claims are built.
Finish(p) ==
    /\ Sorted(p) /\ remaining[p] = {} /\ PastRepair(p)
    /\ returned' = [returned EXCEPT ![p] = Built(p)]
    /\ pc' = [pc EXCEPT ![p] = "done"]
    /\ UNCHANGED <<cancelled, work, repaired, repair_spent, status>>

\* The stream is collected.
Collect ==
    /\ status = "running"
    /\ \A p \in Position : pc[p] = "done"
    /\ status' = "completed"
    /\ UNCHANGED <<cancelled, pc, work, repaired, repair_spent, returned>>

ExtractOne(p) ==
    \/ Start(p) \/ ExtractFails(p) \/ Extract(p) \/ SortRound(p) \/ SendRepair(p)
    \/ RepairFails(p) \/ ApplyRepairs(p) \/ CutEdge(p) \/ Finish(p)

ExtractNext == Cancel \/ Collect \/ \E p \in Position : ExtractOne(p)

ExtractSpec == ExtractInit /\ [][ExtractNext]_extractVars

\* The executor polls every future that can make progress, and a provider
\* call ends: each adapter's client has a timeout.
FairExtractSpec ==
    ExtractSpec /\ WF_extractVars(Collect) /\ \A p \in Position : WF_extractVars(ExtractOne(p))

-----------------------------------------------------------------------------
Row == [grounding : {"quote", "derived", "unsupported"}, premises : SUBSET Nat,
        kind : (Labels \ {"other"}) \cup {"unverified"}]

\* The types of the stage's state; per position, everything ranges over the
\* indices of its candidate list.
ExtractTypeOK ==
    /\ cancelled \in BOOLEAN
    /\ pc \in [Position -> {"waiting", "extracting", "sorting", "repairing", "done"}]
    /\ candidates \in [Position -> Seq(Candidate)]
    /\ DOMAIN premise_edges = Position
    /\ \A p \in Position :
          /\ premise_edges[p] \in [Idx(candidates[p]) -> SUBSET Idx(candidates[p])]
          /\ returned[p] = << >> \/ returned[p] \in [Idx(candidates[p]) -> Row]
    /\ remaining \in [Position -> SUBSET Nat]
    /\ grounded \in [Position -> SUBSET Nat]
    /\ cycle \in [Position -> SUBSET Nat]
    /\ \A p \in Position :
          remaining[p] \cup grounded[p] \cup cycle[p] \subseteq Idx(candidates[p])
    /\ repaired \subseteq Position
    /\ repair_spent \in Nat
    /\ DOMAIN returned = Position
    /\ status \in {"running", "completed"}

\* What extract_one returned for p, once it has.
Extracted(p) == pc[p] = "done" /\ returned[p] # << >>

DerivedIn(p) == {i \in DOMAIN returned[p] : returned[p][i].grounding = "derived"}

(***************************************************************************)
(* A claim is never its own ground: what extract_one returns as derived    *)
(* has premises, each of them is grounded too, and no set of derived       *)
(* claims rests only on itself, whatever cycles the extraction and the     *)
(* repair declared and whichever edges were cut.                           *)
(***************************************************************************)
Supported ==
    \A p \in Position : Extracted(p) =>
        /\ \A i \in DerivedIn(p) :
              /\ returned[p][i].premises # {}
              /\ \A j \in returned[p][i].premises : returned[p][j].grounding # "unsupported"
        /\ \A S \in SUBSET DerivedIn(p) :
              S # {} => \E i \in S : returned[p][i].premises \cap S = {}

\* The least set with the quoted claims that is closed under derivation: the
\* meaning of "grounded", without the order of a sort.
LeastGround(p) ==
    {i \in Idx(candidates[p]) :
        \A S \in SUBSET Idx(candidates[p]) :
            Quoted(candidates[p]) \cup Derivable(premise_edges[p], S) \subseteq S => i \in S}

(***************************************************************************)
(* The one pass over Kahn's order grounds exactly the claims that the      *)
(* remaining edges ground: none is missed because it came too early.       *)
(***************************************************************************)
GroundsExactly ==
    \A p \in Position : Extracted(p) =>
        {i \in DOMAIN returned[p] : returned[p][i].grounding # "unsupported"} = LeastGround(p)

(***************************************************************************)
(* Cutting takes premises only from claims that the sort could not place:  *)
(* any other derived claim keeps every premise it was extracted with.      *)
(***************************************************************************)
PlacedKeepPremises ==
    \A p \in Position : Extracted(p) =>
        \A i \in Idx(candidates[p]) \ cycle[p] :
            premise_edges[p][i] = PremiseEdges(candidates[p])[i]

(***************************************************************************)
(* However many positions fail at once, the repair calls they are sent     *)
(* never cost more than the stage's repair budget by their estimates.      *)
(***************************************************************************)
RepairsWithinCap ==
    repair_spent = RepairCost * Cardinality(repaired) /\ repair_spent <= RepairCap

(***************************************************************************)
(* Every position is answered for, and the stage completes: neither a      *)
(* failed call nor a cycle holds it up, and the cutting ends.              *)
(***************************************************************************)
StageCompletes == <>(status = "completed")

\* Seen from outside, the stage is a bounded pool that takes every item once.
Items == INSTANCE StageItems WITH
    Item <- Position,
    Places <- MaxParallelism,
    waiting <- {p \in Position : pc[p] = "waiting"},
    running <- Running,
    free <- MaxParallelism - Cardinality(Running),
    ended <- {p \in Position : pc[p] = "done"},
    collected <- status = "completed"

(***************************************************************************)
(* claims.extract implements StageItems: at most MaxParallelism positions  *)
(* at a time, each taken once, none lost, and no output before all ended.  *)
(***************************************************************************)
RefinesItems == Items!Spec

=============================================================================
