---------------------------- MODULE ClaimStages -----------------------------
(***************************************************************************)
(* From extracted claims to the argument graph: claims.normalize merges    *)
(* what states the same point, options.cluster groups the positions into   *)
(* options and attaches claims to them, relations.analyze asks how pairs   *)
(* of claims bear on each other.  Each stage asks a model in batches, and  *)
(* takes of every answer what it can use.                                  *)
(*                                                                         *)
(* A call is one step: it answers, or it fails, is refused or does not     *)
(* parse (its money and its events are BudgetLedger's subject). References *)
(* like "#2" are numbers into what the call listed. Confidences are        *)
(* abstracted to whether they reach the threshold; texts to how alike they *)
(* are.                                                                    *)
(***************************************************************************)
EXTENDS Similarity

CONSTANTS
  Model,           \* who may sit on a panel
  Inputs,          \* [claims, positions, score] the stages may be given
  GroupAnswers,    \* sequences of [members, sure]
  ClusterAnswers,  \* sequences of [members]
  AttachAnswers,   \* sequences of [claim, option, polarity]
  RelationAnswers, \* sequences of [pair, kind, from]
  MaxPairsAsked    \* max_pairs_per_batch

Kinds == {"fact", "inference", "assumption", "opinion", "unverified"}

\* Ids are claim_{position}_{index}, one for each claim; scores are symmetric
\* in the code, which nothing here rests on.
ASSUME StagesAssumption ==
  /\ MaxPairsAsked \in Nat \ {0}
  /\ \A in \in Inputs :
       /\ in.claims \in Seq([id : Nat, position : Nat, kind : Kinds])
       /\ \A i, j \in DOMAIN in.claims : in.claims[i].id = in.claims[j].id => i = j
       /\ in.positions \in Seq(Model)
       /\ \A i \in DOMAIN in.claims : in.claims[i].position \in DOMAIN in.positions
       /\ in.score \in [DOMAIN in.claims -> [DOMAIN in.claims -> Nat]]
  /\ GroupAnswers \subseteq Seq([members : Seq(Nat), sure : BOOLEAN])
  /\ ClusterAnswers \subseteq Seq([members : Seq(Nat)])
  /\ AttachAnswers \subseteq Seq([claim : Nat, option : Nat, polarity : STRING])
  /\ RelationAnswers \subseteq Seq([pair : Nat, kind : STRING, from : STRING])

VARIABLES
  input,     \* what claims.extract and positions.generate returned
  stage,
  todo,      \* what is still to be asked by this stage, a sequence of batches
  parent,    \* the union-find over extracted claims
  batched,   \* whether they were asked about in more than one batch
  claims,    \* the normalized claims, by id
  options,   \* the options, each with the positions it groups
  cells,     \* the attachment matrix
  relations,
  \* What was asked and answered so far:
  linked,    \* pairs of extracted claims that an accepted group holds together
  said,      \* the classifier's last word on a claim and an option
  asked      \* pairs of claims put to relations.classify

graph == <<claims, options, cells, relations>>
heard == <<linked, said, asked>>
vars == <<input, stage, todo, parent, batched, graph, heard>>

NoAnswer == << >>

---------------------------------------------------------------------------
(* claims.normalize *)

Size == Len(input.claims)

\* The references of an answer that name something listed.
Named(members, list) == Keep(members, {k \in DOMAIN members : members[k] \in DOMAIN list})

\* The unions a group asks for: everything it names with the first it names.
Links(group, listed) ==
  LET named == Named(group.members, listed)
  IN  IF ~group.sure \/ Len(group.members) < 2 THEN << >>
      ELSE [k \in 1..(Len(named) - 1) |-> <<listed[named[1]], listed[named[k + 1]]>>]

AllLinks(answer, listed) == Flat([g \in DOMAIN answer |-> Links(answer[g], listed)])

\* call_grouping: from the cache or the provider, or nothing on any of its
\* early returns. Fewer than two items are not asked about.
GroupReplies(listed) == IF Len(listed) < 2 THEN {NoAnswer} ELSE GroupAnswers \union {NoAnswer}

\* group_and_union
Group(listed) ==
  \E answer \in GroupReplies(listed) :
    /\ parent' = UnionAll(parent, AllLinks(answer, listed))
    /\ linked' = linked \union ToSet(AllLinks(answer, listed))

Init ==
  /\ input \in Inputs
  /\ stage = IF Size < 2 THEN "merging" ELSE "grouping"
  /\ LET batches == Batches(Size, TopPairs(input.score))
     IN  todo = batches /\ batched = (Len(batches) > 1)
  /\ parent = Alone(Size)
  /\ claims = << >> /\ options = << >> /\ cells = << >> /\ relations = << >>
  /\ linked = {} /\ said = << >> /\ asked = {}

GroupBatch ==
  /\ stage = "grouping" /\ todo # << >>
  /\ Group(Head(todo))
  /\ todo' = Tail(todo)
  /\ stage' = IF Len(todo) > 1 THEN stage ELSE IF batched THEN "stitching" ELSE "merging"
  /\ UNCHANGED <<input, batched, graph, said, asked>>

\* One more call over a representative of every class, if they fit into one.
Stitch ==
  /\ stage = "stitching"
  /\ LET roots == InOrder(Roots(parent), Smaller(Roots(parent)))
     IN  IF Len(roots) \in 2..MaxClaims THEN Group(roots) ELSE UNCHANGED <<parent, linked>>
  /\ stage' = "merging"
  /\ UNCHANGED <<input, todo, batched, graph, said, asked>>

Strength(kind) == CASE kind = "fact" -> 0 [] kind = "inference" -> 1 [] kind = "assumption" -> 2
                    [] kind = "opinion" -> 3 [] kind = "unverified" -> 4

\* The claim that a class of extracted claims becomes.
Merged(class) ==
  [id |-> Min({input.claims[i].id : i \in class}),
   kind |-> CHOOSE k \in {input.claims[i].kind : i \in class} :
              \A i \in class : Strength(k) <= Strength(input.claims[i].kind),
   members |-> class]

\* merge_claims
Merge ==
  /\ stage = "merging"
  /\ LET merged == {Merged(Class(parent, r)) : r \in Roots(parent)}
     IN  claims' = InOrder(merged, {p \in merged \X merged : p[1].id < p[2].id})
  /\ stage' = "clustering"
  /\ UNCHANGED <<input, todo, parent, batched, options, cells, relations, heard>>

---------------------------------------------------------------------------
(* options.cluster *)

PositionsOf(c) == {input.claims[i].position : i \in c.members}
ModelsOf(c) == {input.positions[p] : p \in PositionsOf(c)}

Option(members) == [id |-> members[1], members |-> members]

Taken(opts) == UNION {ToSet(opts[k].members) : k \in DOMAIN opts}

\* A position that no group has is an option of its own.
LeftOver(opts) ==
  LET rest == DOMAIN input.positions \ Taken(opts)
      order == InOrder(rest, Smaller(rest))
  IN  [k \in DOMAIN order |-> Option(<<order[k]>>)]

\* Mutant: a position that has its option may be grouped again.
AddAgain(opts, group) ==
  LET fresh == Named(group.members, input.positions)
  IN  IF fresh = << >> THEN opts ELSE Append(opts, Option(fresh))

\* Of a group, the positions that no earlier group has.
AddGroup(opts, group) ==
  LET named == Named(group.members, input.positions)
      fresh == Keep(named, {k \in DOMAIN named : named[k] \notin Taken(opts)})
  IN  IF fresh = << >> THEN opts ELSE Append(opts, Option(fresh))

\* cluster_positions
Grouped(groups) ==
  LET grouped == FoldLeft(AddGroup, << >>, groups)
  IN  grouped \o LeftOver(grouped)

\* run() lists an option once for every position in it.
Expanded(opts) ==
  Flat([k \in DOMAIN opts |-> [m \in DOMAIN opts[k].members |->
                                 [id |-> opts[k].id, position |-> opts[k].members[m]]]])

\* Mutant: an option stands for the first of its positions only.
SurvivorSeeds(opts) ==
  LET seeded == {<<c.id, o.id>> : c \in ToSet(claims), o \in ToSet(opts)}
      by(key) == \E c \in ToSet(claims) : c.id = key[1] /\ key[2] \in PositionsOf(c)
  IN  [key \in {k \in seeded : by(k)} |-> "supports"]

\* A claim supports the options of the positions that made it.
Seeds(opts) ==
  LET listed == ToSet(Expanded(opts))
      seeded == UNION {{<<c.id, o.id>> : o \in {x \in listed : x.position \in PositionsOf(c)}}
                         : c \in ToSet(claims)}
  IN  [key \in seeded |-> "supports"]

\* call: an answer for one of the two templates, or nothing. Without one every
\* position is an option of its own, and a chunk keeps its seeds.
ClusterReplies == ClusterAnswers \union {NoAnswer}
AttachReplies == AttachAnswers \union {NoAnswer}

Cluster ==
  /\ stage = "clustering"
  /\ \E answer \in ClusterReplies : options' = Grouped(answer)
  /\ cells' = Seeds(options')
  /\ todo' = IF options' = << >> THEN << >> ELSE Chunks(claims, MaxClaims)
  /\ stage' = "attaching"
  /\ UNCHANGED <<input, parent, batched, claims, relations, heard>>

Without(f, x) == [y \in DOMAIN f \ {x} |-> f[y]]
With(f, x, v) == [y \in DOMAIN f \union {x} |-> IF y = x THEN v ELSE f[y]]

Known(polarity) == polarity \in {"supports", "opposes", "neutral"}

\* The cells of an answer that name a claim and an option, as key and polarity.
Usable(answer, chunk, listed) ==
  LET ok == Keep(answer, {k \in DOMAIN answer : /\ answer[k].claim \in DOMAIN chunk
                                                /\ answer[k].option \in DOMAIN listed
                                                /\ Known(answer[k].polarity)})
  IN  [k \in DOMAIN ok |-> [key |-> <<chunk[ok[k].claim].id, listed[ok[k].option].id>>,
                            polarity |-> ok[k].polarity]]

\* An answer overrides the seed, and "neutral" takes it away.
Revise(matrix, a) ==
  IF a.polarity = "neutral" THEN Without(matrix, a.key) ELSE With(matrix, a.key, a.polarity)

\* The last word counts.
Note(words, a) == With(words, a.key, a.polarity)

AttachChunk ==
  /\ stage = "attaching" /\ todo # << >>
  /\ \E answer \in AttachReplies :
       LET used == Usable(answer, Head(todo), Expanded(options))
       IN  /\ cells' = FoldLeft(Revise, cells, used)
           /\ said' = FoldLeft(Note, said, used)
  /\ todo' = Tail(todo)
  /\ UNCHANGED <<input, stage, parent, batched, claims, options, relations, linked, asked>>

---------------------------------------------------------------------------
(* relations.analyze *)

On(option, polarity) ==
  {i \in DOMAIN claims : /\ <<claims[i].id, option>> \in DOMAIN cells
                         /\ cells[<<claims[i].id, option>>] = polarity}

CrossModel(i, j) == \E m \in ModelsOf(claims[i]), n \in ModelsOf(claims[j]) : m # n

\* Mutant: claims that share an author are not compared.
DisjointPairs ==
  UNION {{Ordered(i, j) : i \in On(o.id, "supports"),
                          j \in {k \in On(o.id, "opposes") :
                                   \A i \in On(o.id, "supports") :
                                     ModelsOf(claims[i]) \intersect ModelsOf(claims[k]) = {}}}
           : o \in ToSet(options)}

\* polarity_pairs
PolarityPairs ==
  UNION {{Ordered(p[1], p[2]) : p \in {q \in On(o.id, "supports") \X On(o.id, "opposes") :
                                         CrossModel(q[1], q[2])}}
           : o \in ToSet(options)}

\* How alike two normalized claims are: the texts are those of their ids.
TextScore ==
  LET text(c) == CHOOSE i \in DOMAIN input.claims : input.claims[i].id = c.id
  IN  [i \in DOMAIN claims |-> [j \in DOMAIN claims |-> input.score[text(claims[i])][text(claims[j])]]]

BeginRelations ==
  /\ stage = "attaching" /\ todo = << >>
  /\ todo' = IF Len(claims) < 2 THEN << >>
             ELSE Chunks(PairsInOrder(TopPairs(TextScore) \union PolarityPairs), MaxPairsAsked)
  /\ stage' = "relating"
  /\ UNCHANGED <<input, parent, batched, graph, heard>>

RelationKinds == {"supports", "contradicts", "qualifies", "unrelated", "uncertain"}

\* What an answer says of the pairs it was asked about; unless it says "from B
\* to A", the relation goes from the first claim to the second.
Relations(answer, pairs) ==
  LET ok == Keep(answer, {k \in DOMAIN answer : /\ answer[k].pair \in DOMAIN pairs
                                                /\ answer[k].kind \in RelationKinds})
      ends(r) == IF r.from = "B" THEN <<pairs[r.pair][2], pairs[r.pair][1]>> ELSE pairs[r.pair]
  IN  [k \in DOMAIN ok |-> [from |-> claims[ends(ok[k])[1]].id, to |-> claims[ends(ok[k])[2]].id,
                            kind |-> ok[k].kind]]

\* call: an answer, or no relation between the pairs of the batch.
RelationReplies == RelationAnswers \union {NoAnswer}

RelateBatch ==
  /\ stage = "relating" /\ todo # << >>
  /\ \E answer \in RelationReplies :
       relations' = relations \o Relations(answer, Head(todo))
  /\ asked' = asked \union ToSet(Head(todo))
  /\ todo' = Tail(todo)
  /\ UNCHANGED <<input, stage, parent, batched, claims, options, cells, linked, said>>

Complete ==
  /\ stage = "relating" /\ todo = << >>
  /\ stage' = "done"
  /\ UNCHANGED <<input, todo, parent, batched, graph, heard>>

Next ==
  \/ GroupBatch \/ Stitch \/ Merge
  \/ Cluster \/ AttachChunk
  \/ BeginRelations \/ RelateBatch \/ Complete

Spec == Init /\ [][Next]_vars

---------------------------------------------------------------------------
\* i and j are held together by accepted groups, directly or through others.
Connected(i, j) ==
  \A S \in SUBSET (1..Size) :
    (i \in S /\ \A l \in linked : l[1] \in S <=> l[2] \in S) => j \in S

(***************************************************************************)
(* Whatever the batches and the stitching asked and in which order the     *)
(* groups were named: two extracted claims end in one normalized claim     *)
(* exactly if accepted groups connect them, every extracted claim is a     *)
(* member once, and the claim has the least id and the strongest kind of   *)
(* its members (claims.normalize).                                         *)
(***************************************************************************)
MergesConnected ==
  stage \notin {"grouping", "stitching", "merging"} =>
    /\ \A i, j \in 1..Size : Connected(i, j) <=> \E c \in ToSet(claims) : {i, j} \subseteq c.members
    /\ \A k, l \in DOMAIN claims : k # l => claims[k].members \intersect claims[l].members = {}
    /\ \A c \in ToSet(claims), i \in 1..Size : i \in c.members =>
         /\ c.id <= input.claims[i].id /\ Strength(c.kind) <= Strength(input.claims[i].kind)

(***************************************************************************)
(* "no position is ever silently dropped", and none is in two options: the *)
(* options are distinct, and every position has exactly one, whatever the  *)
(* model grouped (options.cluster).                                        *)
(***************************************************************************)
OnePositionOneOption ==
  stage \notin {"grouping", "stitching", "merging", "clustering"} =>
    /\ \A p \in DOMAIN input.positions : \E k \in DOMAIN options :
         /\ p \in ToSet(options[k].members)
         /\ \A l \in DOMAIN options \ {k} : p \notin ToSet(options[l].members)
    /\ \A k, l \in DOMAIN options : k # l => options[k].id # options[l].id

OptionOf(p) == (CHOOSE o \in ToSet(options) : p \in ToSet(o.members)).id

(***************************************************************************)
(* The matrix is what the positions and the classifier's last word say,    *)
(* and nothing else: unless it spoke of the pair, a claim supports the     *)
(* option of each position that made it, also when it was merged from      *)
(* several or its position is not the one the option is named after.       *)
(***************************************************************************)
CellsAreAccountedFor ==
  stage \in {"attaching", "relating", "done"} =>
    \A c \in ToSet(claims), o \in ToSet(options) :
      LET key == <<c.id, o.id>>
          expected == IF key \in DOMAIN said THEN said[key]
                      ELSE IF \E p \in PositionsOf(c) : OptionOf(p) = o.id THEN "supports"
                      ELSE "neutral"
      IN  IF expected = "neutral" THEN key \notin DOMAIN cells
          ELSE key \in DOMAIN cells /\ cells[key] = expected

(***************************************************************************)
(* Two claims of different models that stand on opposite sides of an       *)
(* option are always put to relations.classify, however unlike their texts *)
(* are; and every relation is between two different claims that were.      *)
(***************************************************************************)
OpponentsAreCompared ==
  stage = "done" =>
    /\ \A i, j \in DOMAIN claims, o \in ToSet(options) :
         (i \in On(o.id, "supports") /\ j \in On(o.id, "opposes") /\ CrossModel(i, j))
           => Ordered(i, j) \in asked
    /\ \A r \in ToSet(relations) : \E p \in asked :
         {r.from, r.to} = {claims[p[1]].id, claims[p[2]].id} /\ r.from # r.to
=============================================================================
