---------------------------- MODULE MfrCleaning ----------------------------
(***************************************************************************)
(* The makers of a session's lines and of the quotes for them: the alias   *)
(* table (t_bom_manufacturer_alias), the canonical maker of each line      *)
(* (t_bom_session_line) and the review of each quote (t_bom_quote_item).   *)
(* Requests that add an alias, approve one for a session, apply the known  *)
(* ones, change the maker of a line, review a quote and match a line       *)
(* interleave with crawls that replace the quotes                          *)
(* (service/bom_manufacturer_alias_api.go, bom_mfr_two_phase.go,           *)
(* data/bom_manufacturer_cleaning_repo.go, bom_search_task_repo.go).       *)
(*                                                                         *)
(* A handler's step is one statement or one transaction.  Makers stand for *)
(* their normal forms.  A lookup of an alias may miss a row that is there: *)
(* servers cache misses for a while.  Those made while a line is matched   *)
(* neither miss nor fail here.                                             *)
(***************************************************************************)
EXTENDS Integers, Sequences, FiniteSets

CONSTANTS
    None,        \* an empty column
    Platform, Rank, Rate, Base, \* see LineMatching
    Line,        \* rows of t_bom_session_line of the session
    Bom,         \* [Line -> row]: as imported, before the makers are looked up
    Mfr,         \* makers
    Canon,       \* canonical ids
    Known,       \* tables of aliases the session may start with
    Mpn,         \* part numbers
    Offer,       \* [name -> quote as it comes from a platform, the server's columns empty]
    Rows,        \* sequences of names of quotes that a crawl may bring
    ManualRows,  \* ... and a person enter
    Handler,     \* requests in progress
    MaxRequests, \* bound: requests
    MaxStores,   \* bound: replaced cache entries
    MaxAborts    \* bound: handlers that end early

VARIABLES
    alias,      \* [Mfr -> Canon or None]
    line,       \* [Line -> row]
    entry,      \* [Mpn \X (Platform + "manual") -> items of the cache entry, <<>> if there is none]
    issued,     \* number of ids given to items
    h,          \* [Handler -> record of what it does and has read]
    picked,     \* history: the maker last matched for and the item chosen, if it is there, or None
    crossed,    \* history: lines whose maker changed while a clean-up had them in its list
    requests, stores, aborts

vars == <<alias, line, entry, issued, h, picked, crossed, requests, stores, aborts>>

INSTANCE LineMatching WITH Alias <- alias

\* The names of a crawl's rows are names of quotes, which have all columns of an item.
ASSUME CleaningAssumption ==
    /\ MaxRequests \in Nat /\ MaxStores \in Nat /\ MaxAborts \in Nat
    /\ None \notin Mfr \cup Canon \cup Line \cup {"pending", "accepted", "rejected"}
    /\ IsFiniteSet(Platform) /\ Rank \in [Platform -> Nat]
    /\ Known \subseteq [Mfr -> Canon \cup {None}]
    /\ \A l \in Line : Bom[l] \in [mpn : Mpn, sub : Mpn \cup {None}, package : {Bom[l].package},
                                  mfr : Mfr, canon : {None}, qty : Nat]
    /\ \A rows \in Rows \cup ManualRows : rows \in Seq(DOMAIN Offer)
    /\ \A o \in DOMAIN Offer : QuoteOK(Offer[o]) /\ {"id", "owner"} \subseteq DOMAIN Offer[o]

Key   == Mpn \X (Platform \cup {"manual"})
Canons == Canon \cup {None}

\* What CanonicalID may answer for a maker, when nothing fails.
Answers(m) == IF m = None THEN {None} ELSE {None, alias[m]}

\* Next step; line, maker and canonical id of the request; lines listed and not
\* yet written, with their makers; item; line and entries as they were read.
Idle == [pc |-> "idle", l |-> None, mfr |-> None, canon |-> None, todo |-> {}, id |-> 0,
         row |-> None, snap |-> <<>>]

\* The items of a result, with what was found of their makers: accepted if known.
NewItems(rows, found, owner, last) ==
    [i \in DOMAIN rows |->
        LET canon == found[Offer[rows[i]].mfr]
        IN  [Offer[rows[i]] EXCEPT !.id = last + i, !.owner = owner, !.canon = canon,
                                   !.review = IF canon # None THEN "accepted" ELSE "pending"]]

\* The cache entries as they are loaded, with their outcome; one without items gives
\* no candidate, like one that is not there.
Snapshots == [k \in Key |-> [outcome |-> "ok", quotes |-> entry[k]]]

\* What the lookups for the rows may find.
Lookups(rows) ==
    LET makers == {Offer[o].mfr : o \in RangeOf(rows)}
    IN  {found \in [makers -> Canons] : \A m \in makers : found[m] \in Answers(m)}

\* Some aliases are known, the lines were imported with what was found of them, and
\* another session has searched for some part, or not.
Init ==
    /\ alias \in Known
    /\ line \in [Line -> UNION {{[Bom[l] EXCEPT !.canon = c] : c \in Answers(Bom[l].mfr)} : l \in Line}]
    /\ \A l \in Line : line[l].mpn = Bom[l].mpn /\ line[l].mfr = Bom[l].mfr
    /\ \E m \in Mpn, p \in Platform, rows \in Rows \cup {<<>>} : \E found \in Lookups(rows) :
          /\ issued = Len(rows)
          /\ entry = [k \in Key |-> IF k = <<m, p>> THEN NewItems(rows, found, None, 0) ELSE <<>>]
    /\ h = [p \in Handler |-> Idle]
    /\ picked = None /\ crossed = {}
    /\ requests = 0 /\ stores = 0 /\ aborts = 0

At(p, pc)      == h[p].pc = pc
Become(p, rec) == h' = [h EXCEPT ![p] = rec]
Done(p)        == Become(p, Idle)

Ask(p) ==
    /\ At(p, "idle")
    /\ requests < MaxRequests /\ requests' = requests + 1
    /\ UNCHANGED <<stores, aborts>>

\* A handler's own step: no new request.
Step(p, pc) == At(p, pc) /\ UNCHANGED <<requests, stores, aborts>>

-----------------------------------------------------------------------------
(* Lines *)

\* CreateManufacturerAlias: a maker that has a row is refused.
CreateAlias(p) ==
    /\ Ask(p)
    /\ \E m \in Mfr, c \in Canon :
          alias' = [alias EXCEPT ![m] = IF @ = None THEN c ELSE @]
    /\ UNCHANGED <<line, entry, issued, h, picked, crossed>>

\* ApproveSessionLineMfrCleaning: the row is inserted; when there is one it must
\* be found and say the same.
Approve(p) ==
    /\ Ask(p)
    /\ \E m \in Mfr, c \in Canon :
          /\ alias' = [alias EXCEPT ![m] = IF @ = None THEN c ELSE @]
          /\ \/ alias'[m] = c /\ Become(p, [Idle EXCEPT !.pc = "backfill", !.mfr = m, !.canon = c])
             \/ alias[m] # None /\ h' = h
    /\ UNCHANGED <<line, entry, issued, picked, crossed>>

\* BackfillSessionLineManufacturerCanonical: the lines of the maker, as listed.
List(p) ==
    /\ Step(p, "backfill")
    /\ Become(p, [h[p] EXCEPT !.pc = "fill",
           !.todo = {<<l, h[p].mfr>> : l \in {k \in Line : line[k].mfr = h[p].mfr}}])
    /\ UNCHANGED <<alias, line, entry, issued, picked, crossed>>

Fill(p) ==
    /\ Step(p, "fill")
    /\ \/ h[p].todo = {} /\ Done(p) /\ line' = line
       \/ \E t \in h[p].todo :
             /\ line' = [line EXCEPT ![t[1]].canon = h[p].canon]
             /\ Become(p, [h[p] EXCEPT !.todo = @ \ {t}])
    /\ UNCHANGED <<alias, entry, issued, picked, crossed>>

\* ApplyKnownAliasesToSession: lists the lines without a canonical maker ...
ListOpen(p) ==
    /\ Ask(p)
    /\ Become(p, [Idle EXCEPT !.pc = "apply",
           !.todo = {<<l, line[l].mfr>> : l \in {k \in Line : line[k].canon = None}}])
    /\ UNCHANGED <<alias, line, entry, issued, picked, crossed>>

\* ... and looks each listed maker up; a line that has got one meanwhile keeps it.
Apply(p) ==
    /\ Step(p, "apply")
    /\ \/ h[p].todo = {} /\ Done(p) /\ line' = line
       \/ \E t \in h[p].todo : \E c \in Answers(t[2]) :
             /\ line' = [line EXCEPT ![t[1]].canon = IF @ = None THEN c ELSE @]
             /\ Become(p, [h[p] EXCEPT !.todo = @ \ {t}])
    /\ UNCHANGED <<alias, entry, issued, picked, crossed>>

\* PatchSessionLine with a maker, possibly empty: it is looked up first, ...
PatchMfr(p) ==
    /\ Ask(p)
    /\ \E l \in Line, m \in Mfr \cup {None} : \E c \in Answers(m) :
          Become(p, [Idle EXCEPT !.pc = "patch", !.l = l, !.mfr = m, !.canon = c])
    /\ UNCHANGED <<alias, line, entry, issued, picked, crossed>>

\* Mutant of Patched: a maker that is not known leaves the canonical maker.
PatchedIfKnown(row, m, c) == [row EXCEPT !.mfr = m, !.canon = IF c = None THEN @ ELSE c]

Patched(row, m, c) == [row EXCEPT !.mfr = m, !.canon = c]

\* ... and both columns are written together.
UpdateLine(p) ==
    /\ Step(p, "patch")
    /\ LET l == h[p].l
       IN  /\ line' = [line EXCEPT ![l] = Patched(@, h[p].mfr, h[p].canon)]
           /\ crossed' = IF \E q \in Handler, m \in Mfr \cup {None} : <<l, m>> \in h[q].todo
                         THEN crossed \cup {l} ELSE crossed \ {l}
    /\ Done(p)
    /\ UNCHANGED <<alias, entry, issued, picked>>

-----------------------------------------------------------------------------
(* Quotes *)

\* upsertQuoteCache: the items of the entry are replaced.
Replace(k, rows, owner) ==
    /\ stores < MaxStores /\ stores' = stores + 1
    /\ \E found \in Lookups(rows) :
          entry' = [entry EXCEPT ![k] = NewItems(rows, found, owner, issued)]
    /\ issued' = issued + Len(rows)
    /\ UNCHANGED <<alias, line, h, picked, crossed, requests, aborts>>

\* FinalizeSearchTask for a search of this or another session, and a quote that a
\* person enters for a line (UpsertManualQuote).
Crawl       == \E m \in Mpn, p \in Platform, rows \in Rows : Replace(<<m, p>>, rows, None)
ManualQuote == \E l \in Line, rows \in ManualRows : Replace(<<line[l].mpn, "manual">>, rows, l)

Stored == UNION {RangeOf(entry[k]) : k \in Key}

\* UpdateQuoteItemManufacturerReview: by id; an item that is gone is no error.
Review(id, review, canon) ==
    entry' = [k \in Key |-> [i \in DOMAIN entry[k] |->
                 IF entry[k][i].id = id
                 THEN [entry[k][i] EXCEPT !.review = review, !.canon = canon] ELSE entry[k][i]]]

Reject(p) ==
    /\ Ask(p)
    /\ \E id \in 1 .. issued : Review(id, "rejected", None)
    /\ UNCHANGED <<alias, line, issued, h, picked, crossed>>

\* Mutant of Verdict: what was rejected once is looked at once more.
VerdictReopens(id) ==
    IF \E q \in Stored : q.id = id /\ q.review = "rejected" THEN "pending" ELSE "accepted"

Verdict(id) == "accepted"

\* Accepted for the maker that the request gives, ...
Accept(p) ==
    /\ Ask(p)
    /\ \E id \in 1 .. issued, c \in Canon : Review(id, Verdict(id), c)
    /\ UNCHANGED <<alias, line, issued, h, picked, crossed>>

\* ... or for that of the item, which must be one of the session, that is entered
\* by hand, ...
AcceptDefault(p) ==
    /\ Ask(p)
    /\ \E id \in 1 .. issued : \E own \in {q \in Stored : q.id = id /\ q.owner # None} :
          Become(p, [Idle EXCEPT !.pc = IF own.canon # None THEN "accept" ELSE "lines",
                                 !.id = id, !.l = own.owner, !.canon = own.canon])
    /\ UNCHANGED <<alias, line, entry, issued, picked, crossed>>

\* ... or for that of its line; with neither the request is refused.
LineDefault(p) ==
    /\ Step(p, "lines")
    /\ LET c == line[h[p].l].canon
       IN  IF c = None THEN Done(p) ELSE Become(p, [h[p] EXCEPT !.pc = "accept", !.canon = c])
    /\ UNCHANGED <<alias, line, entry, issued, picked, crossed>>

AcceptLoaded(p) ==
    /\ Step(p, "accept")
    /\ Review(h[p].id, Verdict(h[p].id), h[p].canon)
    /\ Done(p)
    /\ UNCHANGED <<alias, line, issued, picked, crossed>>

-----------------------------------------------------------------------------
(* Matching *)

\* computeMatchItems: the lines and the cache entries with their rows, ...
LoadCache(p) ==
    /\ Ask(p)
    /\ \E l \in Line : Become(p, [Idle EXCEPT !.pc = "match", !.l = l, !.row = line[l], !.snap = Snapshots])
    /\ UNCHANGED <<alias, line, entry, issued, picked, crossed>>

\* ... then the items with their reviews; reading those of a line with quotes
\* entered by hand fails.  The lookups of makers on the way find what there is.
HasManual(l) == \E q \in Stored : q.owner = l

MatchLine(p) ==
    /\ Step(p, "match")
    /\ LET row    == h[p].row
           chosen == {c.quote.id : c \in MatchOneLineRead(row, h[p].snap, entry)}
       IN  picked' = IF HasManual(h[p].l) THEN picked
                     ELSE [mfr |-> row.mfr, demand |-> DemandCanon(row),
                           items |-> {[review |-> i.review, canon |-> i.canon] :
                                       i \in {j \in Stored : j.id \in chosen}}]
    /\ Done(p)
    /\ UNCHANGED <<alias, line, entry, issued, crossed>>

\* A handler ends early: an error, a cancelled request or the server's end.
Abort(p) ==
    /\ ~At(p, "idle")
    /\ aborts < MaxAborts /\ aborts' = aborts + 1
    /\ Done(p)
    /\ UNCHANGED <<alias, line, entry, issued, picked, crossed, requests, stores>>

Next ==
    \/ \E p \in Handler :
          \/ CreateAlias(p) \/ Approve(p) \/ List(p) \/ Fill(p) \/ ListOpen(p) \/ Apply(p)
          \/ PatchMfr(p) \/ UpdateLine(p)
          \/ Reject(p) \/ Accept(p) \/ AcceptDefault(p) \/ LineDefault(p) \/ AcceptLoaded(p)
          \/ LoadCache(p) \/ MatchLine(p) \/ Abort(p)
    \/ Crawl \/ ManualQuote

Spec == Init /\ [][Next]_vars

-----------------------------------------------------------------------------
(* Properties *)

\* The canonical maker of a line is the one its maker stands for, or none yet;
\* whatever approvals, clean-ups, edits and missed lookups there were.  Only an edit
\* of the maker while a clean-up had the line in its list may leave another.
LineCanonKnown ==
    \A l \in Line \ crossed :
        line[l].canon # None => line[l].mfr # None /\ line[l].canon = alias[line[l].mfr]

\* A line that asks for a maker is never matched to a quote whose item is not
\* accepted for it at that moment: not to one rejected since the rows were loaded,
\* nor to one that takes the review of a row like it.
ChosenIsAccepted ==
    picked # None /\ picked.mfr # None =>
        \A i \in picked.items : i.review = "accepted" /\ i.canon = picked.demand

ReviewRows(l) ==
    {ReviewRow(i, line[l].qty, i.id) :
        i \in UNION {RangeOf(entry[k]) : k \in {line[l].mpn} \X Platform}}

\* Once the cheapest quotes of a line are all accepted, only a new result or the
\* rejection of one of them can undo it: no acceptance, of whatever quote, does.
RuleBStands ==
    [][stores' = stores =>
          \A l \in Line : \A now \in {ReviewRows(l)} :
              RuleB(now) =>
                  \/ RuleB(ReviewRows(l)')
                  \/ \E r \in TopK(now) : [r EXCEPT !.review = "rejected"] \in ReviewRows(l)']_entry
=============================================================================
