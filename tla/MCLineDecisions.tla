--------------------------- MODULE MCLineDecisions ---------------------------
(***************************************************************************)
(* Instances of LineDecisions for TLC.  Line l1 asks for ten pieces of m1  *)
(* made by A, l2 for as many of any maker; m2 is a substitute.  What a      *)
(* crawl finds differs in the maker, the currency, the tiers, the lead     *)
(* time and the part the rows are about.  Handlers are interchangeable.    *)
(***************************************************************************)
EXTENDS LineDecisions

CONSTANTS l1, l2, m1, m2, A, B, canonA

MCAlias == [m \in {A, B} |-> IF m = A THEN canonA ELSE None]
MCRate  == [c \in {"CNY", "USD"} \X {"CNY", "USD"} |-> IF c = <<"USD", "CNY">> THEN 7 ELSE 0]

Tier(moq, price, ccy) == [moq |-> moq, price |-> price, ccy |-> ccy]
Row(model, mfr) ==
    [model |-> model, package |-> None, mfr |-> mfr, moq |-> 1, stock |-> 100,
     mainland |-> <<>>, hk |-> <<>>, tiers |-> <<>>, lead |-> 5, review |-> None, canon |-> None]

MCBom == [l \in Line |->
    [mpn |-> m1, sub |-> None, package |-> None,
     mfr |-> IF l = l1 THEN A ELSE None, canon |-> None, qty |-> 10]]

\* A dear row that comes soon and a cheap one that comes late; a row in dollars
\* for large orders and one of another maker; a row of the other part.
Dear    == [Row(m1, A) EXCEPT !.mainland = <<Tier(1, 9, "CNY")>>, !.lead = 1]
Cheap   == [Row(m1, A) EXCEPT !.mainland = <<Tier(1, 8, "CNY"), Tier(20, 4, "CNY")>>]
Dollar  == [Row(m1, A) EXCEPT !.hk = <<Tier(1, 2, "USD"), Tier(10, 1, "USD")>>]
OtherM  == [Row(m1, B) EXCEPT !.mainland = <<Tier(1, 3, "CNY")>>]
Second(mfr) == [Row(m2, mfr) EXCEPT !.tiers = <<Tier(1, 5, "CNY")>>]

MCFound == [k \in Key |-> IF k[1] = m2 THEN {"second"}
                          ELSE IF k[2] = "hqchip" THEN {"made"} ELSE {"made", "other"}]
MCShared == {<<m1, "icgoo">>}
MCRows  == [made |-> <<Dear, Cheap, Dollar>>, other |-> <<OtherM, Second(A)>>,
            second |-> <<Second(B)>>]

MCRank == [p \in Platform |-> IF p = "hqchip" THEN 1 ELSE 2]

MCSymmetry == Permutations(Handler)
=============================================================================
