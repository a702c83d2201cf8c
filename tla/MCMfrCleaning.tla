--------------------------- MODULE MCMfrCleaning ---------------------------
(***************************************************************************)
(* Instance of MfrCleaning for TLC: two lines for one part, of makers A    *)
(* and B; a crawl brings four rows, two of them alike but for the price,   *)
(* of which the dearer comes first.                                        *)
(***************************************************************************)
EXTENDS MfrCleaning

CONSTANTS l1, l2, m1, A, B, cA, cB

MCBom == [l \in Line |-> [mpn |-> m1, sub |-> None, package |-> None, canon |-> None, qty |-> 10,
                          mfr |-> IF l = l1 THEN A ELSE B]]

Quote(mfr, price) ==
    [model |-> m1, package |-> None, mfr |-> mfr, moq |-> 1, stock |-> 100,
     mainland |-> <<[moq |-> 1, price |-> price, ccy |-> "CNY"]>>, hk |-> <<>>, tiers |-> <<>>,
     lead |-> 5, review |-> None, canon |-> None, id |-> 0, owner |-> None]

MCOffer == [dear |-> Quote(A, 5), cheap |-> Quote(A, 3), other |-> Quote(B, 4),
            dearest |-> Quote(A, 7), manual |-> Quote(A, 2)]
MCRows       == {<<"dear", "cheap", "other", "dearest">>}
MCManualRows == {<<"manual">>}
MCKnown == {[m \in Mfr |-> None], [m \in Mfr |-> IF m = A THEN cA ELSE cB]}

MCRank == [p \in Platform |-> 1]
MCRate == [c \in {"CNY"} \X {"CNY"} |-> 0]

=============================================================================
