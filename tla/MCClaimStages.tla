--------------------------- MODULE MCClaimStages ----------------------------
(***************************************************************************)
(* Three positions and up to five claims, three to a batch, so that four   *)
(* or five are grouped in two calls and stitched together when enough of   *)
(* them have merged; two pairs to a batch.  Two inputs have claims that    *)
(* are alike, one has hardly any, one has a single claim.                  *)
(***************************************************************************)
EXTENDS ClaimStages

Extracted(id, position, kind) == [id |-> id, position |-> position, kind |-> kind]

FourClaims == <<Extracted(2, 1, "fact"), Extracted(1, 1, "opinion"),
                Extracted(3, 2, "inference"), Extracted(4, 3, "assumption")>>

Score(n, alike) ==
  [i \in 1..n |-> [j \in 1..n |-> IF <<i, j>> \in DOMAIN alike THEN alike[<<i, j>>]
                                  ELSE IF <<j, i>> \in DOMAIN alike THEN alike[<<j, i>>] ELSE 0]]

Alike == [p \in {<<1, 2>>, <<1, 3>>, <<3, 4>>} |-> IF p = <<1, 2>> THEN 2 ELSE 5]
AllAlike == [p \in {<<1, 5>>, <<2, 3>>, <<2, 5>>, <<3, 4>>} |-> p[2]]
Unlike == [p \in {<<2, 4>>} |-> 1]

MCModel == {"m1", "m2", "m3"}

Panel == <<"m1", "m2", "m3">>

FiveClaims == Append(FourClaims, Extracted(5, 2, "fact"))

MCInputs ==
  {[claims |-> FiveClaims, positions |-> Panel, score |-> Score(5, AllAlike)]} \union
  {[claims |-> FourClaims, positions |-> Panel, score |-> Score(4, a)] : a \in {Alike, Unlike}}
    \union {[claims |-> <<Extracted(7, 2, "unverified")>>, positions |-> Panel,
             score |-> Score(1, [p \in {} |-> 0])]}

Together(members) == [members |-> members, sure |-> TRUE]

MCGroupAnswers ==
  {<<Together(<<1, 2>>)>>, <<Together(<<1, 2>>), Together(<<1, 3>>)>>,
   <<Together(<<3, 0, 2>>), [members |-> <<1, 2>>, sure |-> FALSE]>>, <<Together(<<2, 9>>)>>}

MCClusterAnswers ==
  {<<[members |-> <<1, 2>>]>>, <<[members |-> <<2, 1>>], [members |-> <<1, 3>>]>>,
   <<[members |-> <<4>>], [members |-> <<3, 3>>]>>}

Word(claim, option, polarity) == [claim |-> claim, option |-> option, polarity |-> polarity]

MCAttachAnswers ==
  {<<Word(1, 1, "opposes")>>, <<Word(2, 2, "opposes"), Word(1, 1, "supports")>>,
   <<Word(1, 1, "neutral"), Word(1, 3, "supports"), Word(5, 1, "opposes")>>,
   <<Word(1, 1, "supports"), Word(1, 2, "neutral")>>, <<Word(1, 1, "unsure")>>}

Saying(pair, kind, from) == [pair |-> pair, kind |-> kind, from |-> from]

MCRelationAnswers ==
  {<<Saying(1, "contradicts", "B"), Saying(2, "supports", "A")>>,
   <<Saying(1, "refutes", "A"), Saying(3, "supports", "A"), Saying(1, "uncertain", "x")>>}
=============================================================================
