---------------------------- MODULE LineMatching ----------------------------
(***************************************************************************)
(* What the server computes from the rows it has read about a line: the    *)
(* price of a quote in the base currency (biz/bom_compare_price.go,        *)
(* bom_price_tier_parse.go, bom_fx.go), the best quote of a platform and   *)
(* of a line (biz/bom_line_match.go, bom_match_sort.go,                    *)
(* service/bom_match_parallel.go), the availability of a line              *)
(* (biz/bom_line_availability.go, service/bom_availability.go), the gap    *)
(* it leaves (service/bom_gap_service.go) and rule B on its reviewed       *)
(* quotes (biz/bom_quote_review_rule_b.go).  No state: these are functions *)
(* of what was read, and the modules with state use them.                  *)
(*                                                                         *)
(* Part numbers, packages and makers stand for their normal forms: every   *)
(* comparison in the code normalises both sides.  A price column is the    *)
(* sequence of its segments, tiers or Bad; a stock or a lead time that     *)
(* cannot be parsed is Unknown.  unit_price has no column: both callers    *)
(* pass 0, and the branch for it is left out.                              *)
(***************************************************************************)
EXTENDS Integers, Sequences, FiniteSets

CONSTANTS
    Platform,   \* platforms of the session
    Rank,       \* [Platform -> Nat]: the order of their identifiers
    Alias,      \* [maker -> canonical id or None]: t_bom_manufacturer_alias
    Rate,       \* [<<from, to>> -> Nat]: t_bom_fx_rate of the day, 0 for no row
    Base,       \* base currency
    None        \* an empty column

Unknown == -1
LeadUnknown == 2 ^ 30

RangeOf(s) == {s[i] : i \in DOMAIN s}

\* The columns of a line and of a row of quotes that are read here.
LineColumns  == {"mpn", "sub", "package", "mfr", "canon", "qty"}
QuoteColumns == {"model", "package", "mfr", "moq", "stock", "mainland", "hk", "tiers",
                 "lead", "review", "canon"}

-----------------------------------------------------------------------------
(* Prices *)

\* All segments parse, or there are no tiers at all.
Bad == [moq |-> 0, price |-> 0, ccy |-> ""]
ParsePriceTiers(s) == IF Bad \in RangeOf(s) THEN {} ELSE RangeOf(s)

\* A row as it is read: numbers are numbers, and currencies have rates, 0 for none.
QuoteOK(q) ==
    /\ QuoteColumns \subseteq DOMAIN q
    /\ q.lead \in Int /\ q.stock \in Int
    /\ \A t \in (RangeOf(q.mainland) \cup RangeOf(q.hk) \cup RangeOf(q.tiers)) \ {Bad} :
          t.price \in Int /\ Rate[<<t.ccy, Base>>] \in Nat /\ Rate[<<Base, t.ccy>>] \in Nat

\* Of the tiers for at most q pieces those for the most pieces; they must agree.
PickTier(s, q) ==
    LET open == {t \in ParsePriceTiers(s) : t.moq <= q}
        best == {t \in open : \A u \in open : u.moq <= t.moq}
    IN  IF Cardinality(best) = 1 THEN best ELSE {}

\* ExtractCompareUnitPrice: the first price column that gives a price, behind
\* the gates on the quantity, the minimum order and the stock; {} or one tier.
ComparePrice(quote, q) ==
    IF q <= 0 \/ quote.moq > q \/ (quote.stock # Unknown /\ quote.stock < q) THEN {}
    ELSE LET mainland == PickTier(quote.mainland, q)
             hk       == PickTier(quote.hk, q)
         IN  IF mainland # {} THEN mainland
             ELSE IF hk # {} THEN hk ELSE PickTier(quote.tiers, q)

\* ToBaseCCY: the direct rate, else the inverse of the rate back, else nothing.
\* Quantised as QuantizeUnitPriceBase does: to the nearest unit of the sort key.
ToBaseCCY(tier) ==
    LET direct == Rate[<<tier.ccy, Base>>]
        back   == Rate[<<Base, tier.ccy>>]
    IN  IF tier.ccy = Base THEN {tier.price}
        ELSE IF direct # 0 THEN {tier.price * direct}
        ELSE IF back # 0 THEN {(2 * tier.price + back) \div (2 * back)} ELSE {}

BasePrice(quote, q) == UNION {ToBaseCCY(t) : t \in ComparePrice(quote, q)}

-----------------------------------------------------------------------------
(* The best quote *)

\* The canonical maker a line asks for: its own, else the alias table's.
DemandCanon(line) == IF line.canon # None THEN line.canon ELSE
                     IF line.mfr = None THEN None ELSE Alias[line.mfr]

\* Reviewed quotes count when accepted for that maker, others by their alias.
MfrPasses(line, quote) ==
    line.mfr # None =>
        /\ quote.mfr # None /\ DemandCanon(line) # None
        /\ CASE quote.review = "accepted" -> quote.canon = DemandCanon(line)
             [] quote.review = None       -> Alias[quote.mfr] = DemandCanon(line)
             [] OTHER                     -> FALSE

\* lineMatchRowPasses, for the part number the line is searched under.
RowPasses(line, mpn, quote) ==
    /\ quote.model = mpn
    /\ line.package # None => quote.package = line.package
    /\ MfrPasses(line, quote)

\* The rows of a list that fit, with their places.
Eligible(line, mpn, quotes) ==
    {r \in {[at |-> i, quote |-> quotes[i]] : i \in DOMAIN quotes} :
        RowPasses(line, mpn, r.quote) /\ BasePrice(r.quote, line.qty) # {}}

SortKey(line, p, quote) ==
    [price |-> CHOOSE x \in BasePrice(quote, line.qty) : TRUE,
     lead  |-> IF quote.lead = Unknown THEN LeadUnknown ELSE quote.lead,
     stock |-> IF quote.stock = Unknown THEN 0 ELSE quote.stock,
     rank  |-> Rank[p]]

\* Mutant of LessMatchCandidate: lead times first.
LessByLead(a, b) == a.lead < b.lead \/ (a.lead = b.lead /\ a.price < b.price)

LessMatchCandidate(a, b) ==
    \/ a.price < b.price
    \/ a.price = b.price /\ a.lead < b.lead
    \/ a.price = b.price /\ a.lead = b.lead /\ a.stock > b.stock
    \/ a.price = b.price /\ a.lead = b.lead /\ a.stock = b.stock /\ a.rank < b.rank

\* Of the candidates, pairs of a place in the order of the scan and a key, the
\* first that no other beats.
First(cands) ==
    CHOOSE c \in cands : \A d \in cands :
        \/ LessMatchCandidate(c.key, d.key)
        \/ ~LessMatchCandidate(d.key, c.key) /\ c.at <= d.at

\* PickBestQuoteForLine: {} or the best row of one platform.
PickBest(line, mpn, p, quotes) ==
    LET cands == {[at |-> r.at, quote |-> r.quote, key |-> SortKey(line, p, r.quote)] :
                      r \in Eligible(line, mpn, quotes)}
    IN  IF cands = {} THEN {} ELSE {First(cands).quote}

\* A row of t_bom_quote_item read without its review, as the cache is read.
Unreviewed(quote) == [quote EXCEPT !.review = None]

Alike(a, b) == a.model = b.model /\ a.mfr = b.mfr /\ a.package = b.package

\* Mutant of Nth: no item is marked as used, rows alike all get the first's review.
NthAny(quotes, i, r) == 0

\* How many rows up to the i-th are like r: rows alike are merged in order.
Nth(quotes, i, r) == Cardinality({j \in 1 .. i : Alike(quotes[j], r)})

\* mergeQuoteRowsWithSessionLineReads, on the rows of a cache entry: the review (and
\* the canonical id, if any) of the item each row corresponds to.
Merged(rows, items) ==
    [i \in DOMAIN rows |->
        LET row  == Unreviewed(rows[i])
            nth  == Nth(rows, i, row)
            same == {j \in DOMAIN items : Alike(items[j], row) /\ Nth(items, j, row) = nth}
        IN  IF same = {} THEN row
            ELSE LET item == items[CHOOSE j \in same : TRUE]
                 IN  [row EXCEPT !.review = item.review,
                                 !.canon = IF item.canon # None THEN item.canon ELSE @]]

\* A cache entry is None or its outcome and its items.  An entry without items
\* reads as "[]", which is not empty: it is usable.
NoMatchOutcomes == {"no_mpn_match", "no_result"}
Usable(snap) == snap # None /\ snap.outcome \notin NoMatchOutcomes
Items(snap)  == IF snap = None THEN <<>> ELSE snap.quotes

\* runMatch of matchOneLine: one candidate per platform with a usable entry; "read"
\* are the rows that ListBomQuoteItemsForSessionLineRead finds, when the entries have
\* been loaded before.
CandidatesRead(line, mpn, cache, read) ==
    UNION {{[at |-> Rank[p], platform |-> p, quote |-> q, key |-> SortKey(line, p, q)] :
               q \in IF Usable(cache[<<mpn, p>>])
                     THEN PickBest(line, mpn, p, Merged(Items(cache[<<mpn, p>>]), read[<<mpn, p>>]))
                     ELSE {}} : p \in Platform}

\* The rows of a part's entries, when nothing changes in between.
ItemsOf(mpns, cache) == [k \in mpns \X Platform |-> Items(cache[k])]

Candidates(line, mpn, cache) == CandidatesRead(line, mpn, cache, ItemsOf({mpn}, cache))

HasSubstitute(line) == line.sub # None /\ line.sub # line.mpn

\* matchOneLine: {} or the chosen quote; the substitute only when the part
\* itself gave no candidate.
MatchOneLineRead(line, cache, read) ==
    LET own == CandidatesRead(line, line.mpn, cache, read)
        all == IF own = {} /\ HasSubstitute(line)
               THEN CandidatesRead(line, line.sub, cache, read) ELSE own
    IN  IF all = {} THEN {} ELSE {First(all)}

MatchOneLine(line, cache) == MatchOneLineRead(line, cache, ItemsOf({line.mpn, line.sub}, cache))

-----------------------------------------------------------------------------
(* Availability *)

Terminal == {"succeeded", "no_result", "failed_terminal", "cancelled", "skipped"}

\* platformHasUsableQuote: a row of the part's own entry fits, for the part or
\* for its substitute.
HasUsableQuote(line, p, cache) ==
    LET rows == Items(cache[<<line.mpn, p>>])
        Picks(mpn) == PickBest(line, mpn, p, Merged(rows, Items(cache[<<mpn, p>>]))) # {}
    IN  Picks(line.mpn) \/ (HasSubstitute(line) /\ Picks(line.sub))

\* Mutant of PlatformFact: a cached outcome without a match counts as quotes.
PlatformFactRaw(line, p, st, cache) ==
    [state |-> st, noData |-> FALSE, unavailable |-> FALSE,
     raw |-> cache[<<line.mpn, p>>] # None, usable |-> cache[<<line.mpn, p>>] # None]

\* platformAvailabilityFact: an outcome without data, or a task that failed, is
\* looked at before any quote.
PlatformFact(line, p, st, cache) ==
    LET snap == cache[<<line.mpn, p>>]
        none == (snap # None /\ snap.outcome \in NoMatchOutcomes) \/ st = "no_result"
        lost == st \in {"failed_terminal", "cancelled", "skipped"}
        raw  == ~none /\ ~lost /\ Usable(snap)
    IN  [state |-> st, noData |-> none, unavailable |-> lost, raw |-> raw,
         usable |-> raw /\ HasUsableQuote(line, p, cache)]

\* ClassifyLineAvailability, on the facts of the session's platforms.
Classify(facts) ==
    CASE facts = {}                                -> "collection_unavailable"
      [] \E f \in facts : f.state \notin Terminal  -> "collecting"
      [] \E f \in facts : f.usable                 -> "ready"
      [] \E f \in facts : f.raw                    -> "no_match_after_filter"
      [] \E f \in facts : f.unavailable            -> "collection_unavailable"
      [] \A f \in facts : f.noData                 -> "no_data"
      [] OTHER                                     -> "collection_unavailable"

\* A key with no search task has the empty state.
Availability(line, task, cache) ==
    Classify({PlatformFact(line, p, task[<<line.mpn, p>>], cache) : p \in Platform})

HardGap   == {"no_data", "collection_unavailable"}
StrictGap == HardGap \cup {"no_match_after_filter"}

\* ReadinessFromTasks: every task of every line has ended, and each line has
\* succeeded on some platform.
SearchEnded(lines, task) ==
    Platform = {} \/ \A l \in lines :
        /\ \A p \in Platform : task[<<l.mpn, p>>] \in Terminal
        /\ \E p \in Platform : task[<<l.mpn, p>>] = "succeeded"

\* Mutant of NoStrictGap: the gate of AutoMatch.
NoHardGap(lines, task, cache) ==
    \A l \in lines : Availability(l, task, cache) \notin HardGap

\* matchReadinessError for a run that is saved, on the lines ...
NoStrictGap(lines, task, cache) ==
    \A l \in lines : Availability(l, task, cache) \notin StrictGap

\* ... and on the tasks; "marked": the status of the session is data_ready.
MayMatch(lines, task, marked) == marked \/ SearchEnded(lines, task)

\* lineGapAvailability and AvailabilityStatusToGapType: {} or the gap to open, for
\* a line that has a task on some platform, or none.
GapOf(line, asked, cache) ==
    IF Platform = {} THEN {"COLLECTION_UNAVAILABLE"}
    ELSE IF \E p \in Platform : Usable(cache[<<line.mpn, p>>]) THEN {}
    ELSE IF ~asked THEN {"COLLECTION_UNAVAILABLE"}
    ELSE IF \A p \in Platform : cache[<<line.mpn, p>>] # None THEN {"NO_DATA"}
    ELSE {"NO_MATCH_AFTER_FILTER"}

\* MatchResultSourceFromMatchStatus.
SourceOf(chosen, substitute) ==
    IF chosen = {} THEN "unresolved"
    ELSE IF substitute # None THEN "substitute_match" ELSE "auto_match"

-----------------------------------------------------------------------------
(* Rule B: the cheapest three quotes of a line are accepted *)

\* BuildQuoteReviewRowInputs: a row without a review is pending, and a line without
\* a quantity asks for one piece.
ReviewRow(quote, q, id) ==
    [id     |-> id,
     review |-> IF quote.review = None THEN "pending" ELSE quote.review,
     price  |-> BasePrice(quote, IF q <= 0 THEN 1 ELSE q)]

\* Set S: pending or accepted, with a price (missing prices: M1).
InS(r) == r.review \in {"pending", "accepted"} /\ r.price # {}

\* sortSRows; the update time is never set, so that the id decides.
Before(a, b) == LET Price(r) == CHOOSE x \in r.price : TRUE
                IN  Price(a) < Price(b) \/ (Price(a) = Price(b) /\ a.id < b.id)

Cheapest(rows, k) == {r \in rows : Cardinality({s \in rows : Before(s, r)}) < k}

TopK(rows) == LET s == {r \in rows : InS(r)} IN Cheapest(s, 3)
TopN(rows) == Cheapest({r \in rows : r.price # {}}, 5)

RuleB(rows) == LET top == TopK(rows)
               IN  top # {} /\ \A r \in top : r.review = "accepted"
=============================================================================
