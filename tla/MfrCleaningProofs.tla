------------------------- MODULE MfrCleaningProofs --------------------------
(***************************************************************************)
(* Theorems about MfrCleaning for any lines, makers, quotes and aliases,   *)
(* and any number of requests in progress: the canonical maker of a line   *)
(* is that of its maker, a line is matched to a quote only if its item is  *)
(* accepted for that maker, and acceptances keep rule B.                   *)
(***************************************************************************)
EXTENDS MfrCleaning, FiniteSetTheorems, WellFoundedInduction, TLAPS

Makers == Mfr \cup {None}

RowOK(row) ==
    row \in [mpn : Mpn, sub : Mpn \cup {None}, package : {row.package}, mfr : Makers,
            canon : {row.canon}, qty : {row.qty}]

RecordOK(r) ==
    r \in [pc : {r.pc}, l : {r.l}, mfr : {r.mfr}, canon : {r.canon}, todo : {r.todo}, id : {r.id},
          row : {r.row}, snap : {r.snap}]

\* A maker beside a canonical maker, as they stand in a line or a handler's record:
\* the second is that of the first in the aliases a, or none.
Agree(r, a) == r.canon # None => r.mfr \in Mfr /\ r.canon = a[r.mfr]

Shapes ==
    /\ alias \in [Mfr -> Canons]
    /\ line = [l \in Line |-> line[l]] /\ \A l \in Line : RowOK(line[l])
    /\ h = [p \in Handler |-> h[p]] /\ \A p \in Handler : RecordOK(h[p])

\* What a handler with record r holds, given aliases a, lines n and crossed lines x.
\* A patch writes a maker with an answer for it, ...
PatchKnown(r, a) == r.pc = "patch" => r.l \in Line /\ r.mfr \in Makers /\ Agree(r, a)

\* ... an approval the id that its maker has got, to lines listed under that maker, ...
FillKnown(r, a) ==
    /\ r.pc \in {"backfill", "fill"} => r.canon # None /\ Agree(r, a)
    /\ r.pc = "fill" => \A t \in r.todo : t[2] = r.mfr

\* ... and a listed line still has the maker it was listed under, or is noted.
TodoKnown(r, n, x) ==
    \A t \in r.todo : t \in Line \X Makers /\ (t[1] \in x \/ n[t[1]].mfr = t[2])

HandlerOK(r, a, n, x) == PatchKnown(r, a) /\ FillKnown(r, a) /\ TodoKnown(r, n, x)

LinesAgree == \A l \in Line \ crossed : Agree(line[l], alias)

IInv ==
    /\ Shapes
    /\ \A p \in Handler : HandlerOK(h[p], alias, line, crossed)
    /\ LinesAgree

-----------------------------------------------------------------------------
(* Records *)

LEMMA IdleOK == RecordOK(Idle) /\ \A a, n, x : HandlerOK(Idle, a, n, x)
BY DEF RecordOK, HandlerOK, PatchKnown, FillKnown, TodoKnown, Idle

\* The lines after one of them gets other columns.
LEMMA LineKeeps ==
  ASSUME Shapes, NEW l \in Line, NEW row, RowOK(row), line' = [line EXCEPT ![l] = row]
  PROVE  /\ line' = [k \in Line |-> line'[k]] /\ \A k \in Line : RowOK(line'[k])
         /\ line'[l] = row /\ \A k \in Line : k # l => line'[k] = line[k]
BY DEF Shapes

\* The records after one handler gets another one.
LEMMA BecomeKeeps ==
  ASSUME Shapes, NEW p \in Handler, NEW rec, RecordOK(rec), Become(p, rec)
  PROVE  /\ h' = [q \in Handler |-> h'[q]] /\ \A q \in Handler : RecordOK(h'[q])
         /\ h'[p] = rec /\ \A q \in Handler : q # p => h'[q] = h[q]
BY DEF Shapes, Become

\* An answer for a maker is its id, or none.
LEMMA AnswersAgree ==
  ASSUME NEW m \in Makers, NEW c \in Answers(m), Shapes
  PROVE  c # None => m \in Mfr /\ c = alias[m]
BY DEF Answers, Makers

\* An id that a maker has got stays: whatever agreed with the aliases agrees still.
LEMMA AliasGrows ==
  ASSUME Shapes, NEW m \in Mfr, NEW c \in Canon,
         alias' = [alias EXCEPT ![m] = IF @ = None THEN c ELSE @]
  PROVE  /\ alias' \in [Mfr -> Canons]
         /\ \A r : Agree(r, alias) => Agree(r, alias')
         /\ \A r, n, x : HandlerOK(r, alias, n, x) => HandlerOK(r, alias', n, x)
<1>1. alias' \in [Mfr -> Canons] /\ \A n \in Mfr : alias[n] # None => alias'[n] = alias[n]
  BY DEF Shapes, Canons
<1>2. \A r : Agree(r, alias) => Agree(r, alias')
  BY <1>1 DEF Agree
<1> QED BY <1>1, <1>2 DEF HandlerOK, PatchKnown, FillKnown

-----------------------------------------------------------------------------
(* Steps *)

LEMMA InitIInv == Init => IInv
<1> SUFFICES ASSUME Init PROVE IInv
  OBVIOUS
<1>1. ASSUME NEW l \in Line
      PROVE  RowOK(line[l]) /\ Agree(line[l], alias)
  <2>1. line[l] \in UNION {{[Bom[k] EXCEPT !.canon = c] : c \in Answers(Bom[k].mfr)} : k \in Line}
    BY DEF Init
  <2>2. PICK k \in Line : \E c \in Answers(Bom[k].mfr) : line[l] = [Bom[k] EXCEPT !.canon = c]
    BY <2>1
  <2>3. PICK c \in Answers(Bom[k].mfr) : line[l] = [Bom[k] EXCEPT !.canon = c]
    BY <2>2
  <2>4. Bom[k] \in [mpn : Mpn, sub : Mpn \cup {None}, package : {Bom[k].package},
                  mfr : Mfr, canon : {None}, qty : Nat]
    BY CleaningAssumption
  <2>5. RowOK(line[l]) /\ line[l].mfr = Bom[k].mfr /\ line[l].canon = c /\ Bom[k].mfr \in Mfr
    BY <2>3, <2>4 DEF RowOK, Makers
  <2>6. c # None => c = alias[Bom[k].mfr]
    BY <2>5 DEF Answers
  <2> QED BY <2>5, <2>6 DEF Agree
<1>2. alias \in [Mfr -> Canons]
  BY CleaningAssumption DEF Init, Canons
<1>3. line = [l \in Line |-> line[l]]
  BY DEF Init
<1>4. h = [p \in Handler |-> h[p]] /\ \A p \in Handler : h[p] = Idle
  BY DEF Init
<1> QED BY <1>1, <1>2, <1>3, <1>4, IdleOK DEF IInv, Shapes, LinesAgree

\* A step that only gives one handler another record.
LEMMA MoveKeeps ==
  ASSUME IInv, UNCHANGED <<alias, line, crossed>>, NEW p \in Handler, NEW rec,
         RecordOK(rec), HandlerOK(rec, alias, line, crossed), Become(p, rec)
  PROVE  IInv'
<1>1. /\ h' = [q \in Handler |-> h'[q]] /\ \A q \in Handler : RecordOK(h'[q])
      /\ h'[p] = rec /\ \A q \in Handler : q # p => h'[q] = h[q]
  BY BecomeKeeps DEF IInv
<1>2. Shapes'
  BY <1>1 DEF IInv, Shapes
<1>3. \A q \in Handler : HandlerOK(h'[q], alias', line', crossed')
  BY <1>1 DEF IInv
<1>4. LinesAgree'
  BY DEF IInv, LinesAgree
<1> QED BY <1>2, <1>3, <1>4 DEF IInv

LEMMA CreateAliasStep ==
  ASSUME IInv, NEW p \in Handler, CreateAlias(p)
  PROVE  IInv'
<1>1. PICK m \in Mfr, c \in Canon : alias' = [alias EXCEPT ![m] = IF @ = None THEN c ELSE @]
  BY DEF CreateAlias
<1>2. UNCHANGED <<line, crossed, h>>
  BY DEF CreateAlias
<1>3. /\ alias' \in [Mfr -> Canons]
      /\ \A r : Agree(r, alias) => Agree(r, alias')
      /\ \A r, n, x : HandlerOK(r, alias, n, x) => HandlerOK(r, alias', n, x)
  BY <1>1, AliasGrows DEF IInv
<1> QED BY <1>2, <1>3 DEF IInv, Shapes, LinesAgree

LEMMA ApproveStep ==
  ASSUME IInv, NEW p \in Handler, Approve(p)
  PROVE  IInv'
<1>1. PICK m \in Mfr, c \in Canon :
         /\ alias' = [alias EXCEPT ![m] = IF @ = None THEN c ELSE @]
         /\ \/ alias'[m] = c /\ Become(p, [Idle EXCEPT !.pc = "backfill", !.mfr = m, !.canon = c])
            \/ h' = h
  BY DEF Approve
<1>2. UNCHANGED <<line, crossed>>
  BY DEF Approve
<1>3. /\ alias' \in [Mfr -> Canons]
      /\ \A r : Agree(r, alias) => Agree(r, alias')
      /\ \A r, n, x : HandlerOK(r, alias, n, x) => HandlerOK(r, alias', n, x)
  BY <1>1, AliasGrows DEF IInv
<1>4. LinesAgree'
  BY <1>2, <1>3 DEF IInv, LinesAgree
<1>5. CASE h' = h
  BY <1>2, <1>3, <1>4, <1>5 DEF IInv, Shapes
<1>6. CASE alias'[m] = c /\ Become(p, [Idle EXCEPT !.pc = "backfill", !.mfr = m, !.canon = c])
  <2> DEFINE rec == [Idle EXCEPT !.pc = "backfill", !.mfr = m, !.canon = c]
  <2>1. RecordOK(rec) /\ HandlerOK(rec, alias', line', crossed')
    BY <1>6, CleaningAssumption
       DEF Idle, RecordOK, HandlerOK, PatchKnown, FillKnown, TodoKnown, Agree
  <2> HIDE DEF rec
  <2>2. /\ h' = [q \in Handler |-> h'[q]] /\ \A q \in Handler : RecordOK(h'[q])
        /\ h'[p] = rec /\ \A q \in Handler : q # p => h'[q] = h[q]
    BY <1>6, <2>1, BecomeKeeps DEF IInv, rec
  <2>3. Shapes'
    BY <1>2, <1>3, <2>2 DEF IInv, Shapes
  <2>4. \A q \in Handler : HandlerOK(h'[q], alias', line', crossed')
    BY <1>2, <1>3, <2>1, <2>2 DEF IInv
  <2> QED BY <1>4, <2>3, <2>4 DEF IInv
<1> QED BY <1>1, <1>5, <1>6

LEMMA ListStep ==
  ASSUME IInv, NEW p \in Handler, List(p)
  PROVE  IInv'
<1> DEFINE todo == {<<l, h[p].mfr>> : l \in {k \in Line : line[k].mfr = h[p].mfr}}
           rec == [h[p] EXCEPT !.pc = "fill", !.todo = todo]
<1>1. UNCHANGED <<alias, line, crossed>> /\ Become(p, rec) /\ h[p].pc = "backfill"
  BY DEF List, Step, At
<1>2. RecordOK(h[p]) /\ HandlerOK(h[p], alias, line, crossed)
  BY DEF IInv, Shapes
<1>3. /\ RecordOK(rec) /\ rec.pc = "fill" /\ rec.todo = todo
      /\ rec.mfr = h[p].mfr /\ rec.canon = h[p].canon
  BY <1>2 DEF RecordOK
<1>4. h[p].canon # None /\ Agree(h[p], alias) /\ h[p].mfr \in Mfr
  BY <1>1, <1>2 DEF HandlerOK, FillKnown, Agree
<1>5. TodoKnown(rec, line, crossed) /\ \A t \in todo : t[2] = h[p].mfr
  BY <1>3, <1>4 DEF TodoKnown, Makers
<1> HIDE DEF rec, todo
<1>6. HandlerOK(rec, alias, line, crossed)
  BY <1>3, <1>4, <1>5 DEF HandlerOK, PatchKnown, FillKnown, Agree
<1> QED BY <1>1, <1>3, <1>6, MoveKeeps

\* Fill and Apply: the canonical maker of a listed line is set for the maker it was
\* listed under, and the line is taken off the list.
LEMMA SetKeeps ==
  ASSUME IInv, UNCHANGED <<alias, crossed>>, NEW p \in Handler, NEW t \in h[p].todo, NEW c,
         c # None => t[2] \in Mfr /\ c = alias[t[2]],
         line' = [line EXCEPT ![t[1]].canon = c],
         Become(p, [h[p] EXCEPT !.todo = @ \ {t}]), h[p].pc \in {"fill", "apply"}
  PROVE  IInv'
<1> DEFINE l == t[1]
           row == [line[l] EXCEPT !.canon = c]
           rec == [h[p] EXCEPT !.todo = @ \ {t}]
<1>1. RecordOK(h[p]) /\ HandlerOK(h[p], alias, line, crossed)
  BY DEF IInv, Shapes
<1>2. l \in Line /\ (l \in crossed \/ line[l].mfr = t[2])
  BY <1>1 DEF HandlerOK, TodoKnown
<1>3. RowOK(line[l])
  BY <1>2 DEF IInv, Shapes
<1>4. RowOK(row) /\ row.mfr = line[l].mfr /\ row.canon = c
  BY <1>3 DEF RowOK
<1>5. line' = [line EXCEPT ![l] = row]
  OBVIOUS
<1> HIDE DEF row
<1>6. /\ line' = [k \in Line |-> line'[k]] /\ \A k \in Line : RowOK(line'[k])
      /\ line'[l] = row /\ \A k \in Line : k # l => line'[k] = line[k]
  BY <1>2, <1>4, <1>5, LineKeeps DEF IInv
<1>7. /\ RecordOK(rec) /\ rec.pc = h[p].pc /\ rec.todo = h[p].todo \ {t}
      /\ rec.mfr = h[p].mfr /\ rec.canon = h[p].canon /\ rec.l = h[p].l
  BY <1>1 DEF RecordOK
<1> HIDE DEF rec
<1>8. /\ h' = [q \in Handler |-> h'[q]] /\ \A q \in Handler : RecordOK(h'[q])
      /\ h'[p] = rec /\ \A q \in Handler : q # p => h'[q] = h[q]
  BY <1>7, BecomeKeeps DEF IInv, rec
<1>9. Shapes'
  BY <1>6, <1>8 DEF IInv, Shapes
<1>10. \A k \in Line : line'[k].mfr = line[k].mfr
  BY <1>4, <1>6
<1>11. \A r : HandlerOK(r, alias, line, crossed) => HandlerOK(r, alias', line', crossed')
  <2>1. \A r : TodoKnown(r, line, crossed) => TodoKnown(r, line', crossed')
    BY <1>10 DEF TodoKnown
  <2> QED BY <2>1 DEF HandlerOK
<1>12. HandlerOK(rec, alias, line, crossed)
  BY <1>1, <1>7 DEF HandlerOK, PatchKnown, FillKnown, TodoKnown, Agree
<1>13. \A q \in Handler : HandlerOK(h'[q], alias', line', crossed')
  BY <1>8, <1>11, <1>12 DEF IInv
<1>14. LinesAgree'
  <2> SUFFICES ASSUME NEW k \in Line \ crossed PROVE Agree(line'[k], alias)
    BY DEF LinesAgree
  <2>1. CASE k = l
    BY <1>2, <1>4, <1>6, <2>1 DEF Agree
  <2>2. CASE k # l
    BY <1>6, <2>2 DEF IInv, LinesAgree
  <2> QED BY <2>1, <2>2
<1> QED BY <1>9, <1>13, <1>14 DEF IInv

LEMMA FillStep ==
  ASSUME IInv, NEW p \in Handler, Fill(p)
  PROVE  IInv'
<1>1. UNCHANGED <<alias, crossed>> /\ h[p].pc = "fill"
  BY DEF Fill, Step, At
<1>2. CASE Done(p) /\ line' = line
  BY <1>1, <1>2, IdleOK, MoveKeeps DEF Done
<1>3. ASSUME NEW t \in h[p].todo,
             line' = [line EXCEPT ![t[1]].canon = h[p].canon],
             Become(p, [h[p] EXCEPT !.todo = @ \ {t}])
      PROVE  IInv'
  <2>1. HandlerOK(h[p], alias, line, crossed)
    BY DEF IInv
  <2>2. h[p].canon # None /\ t[2] \in Mfr /\ h[p].canon = alias[t[2]]
    BY <1>1, <2>1 DEF HandlerOK, FillKnown, Agree
  <2> QED BY <1>1, <1>3, <2>2, SetKeeps
<1> QED BY <1>2, <1>3 DEF Fill

LEMMA ListOpenStep ==
  ASSUME IInv, NEW p \in Handler, ListOpen(p)
  PROVE  IInv'
<1> DEFINE todo == {<<l, line[l].mfr>> : l \in {k \in Line : line[k].canon = None}}
           rec == [Idle EXCEPT !.pc = "apply", !.todo = todo]
<1>1. UNCHANGED <<alias, line, crossed>> /\ Become(p, rec)
  BY DEF ListOpen
<1>2. RecordOK(rec) /\ rec.pc = "apply" /\ rec.todo = todo
  BY DEF RecordOK, Idle
<1>3. TodoKnown(rec, line, crossed)
  BY <1>2 DEF TodoKnown, IInv, Shapes, RowOK
<1> HIDE DEF rec
<1>4. HandlerOK(rec, alias, line, crossed)
  BY <1>2, <1>3 DEF HandlerOK, PatchKnown, FillKnown
<1> QED BY <1>1, <1>2, <1>4, MoveKeeps

LEMMA ApplyStep ==
  ASSUME IInv, NEW p \in Handler, Apply(p)
  PROVE  IInv'
<1>1. UNCHANGED <<alias, crossed>> /\ h[p].pc = "apply"
  BY DEF Apply, Step, At
<1>2. CASE Done(p) /\ line' = line
  BY <1>1, <1>2, IdleOK, MoveKeeps DEF Done
<1>3. ASSUME NEW t \in h[p].todo, NEW c \in Answers(t[2]),
             line' = [line EXCEPT ![t[1]].canon = IF @ = None THEN c ELSE @],
             Become(p, [h[p] EXCEPT !.todo = @ \ {t}])
      PROVE  IInv'
  <2>1. t \in Line \X Makers /\ HandlerOK(h[p], alias, line, crossed)
    BY DEF IInv, HandlerOK, TodoKnown
  <2>2. c # None => t[2] \in Mfr /\ c = alias[t[2]]
    BY <2>1, AnswersAgree DEF IInv
  <2>3. CASE line[t[1]].canon = None
    <3>1. line' = [line EXCEPT ![t[1]].canon = c]
      BY <1>3, <2>3
    <3> QED BY <1>1, <1>3, <2>2, <3>1, SetKeeps
  <2>4. CASE line[t[1]].canon # None
    <3>1. line' = line
      <4>1. line' = [line EXCEPT ![t[1]] = [line[t[1]] EXCEPT !.canon = line[t[1]].canon]]
        BY <1>3, <2>4
      <4>2. RowOK(line[t[1]])
        BY <2>1 DEF IInv, Shapes
      <4>3. [line[t[1]] EXCEPT !.canon = line[t[1]].canon] = line[t[1]]
        BY <4>2 DEF RowOK
      <4> QED BY <2>1, <4>1, <4>3 DEF IInv, Shapes
    <3> DEFINE rec == [h[p] EXCEPT !.todo = @ \ {t}]
    <3>2. RecordOK(h[p])
      BY DEF IInv, Shapes
    <3>3. RecordOK(rec) /\ rec.pc = "apply" /\ rec.todo = h[p].todo \ {t}
      BY <1>1, <3>2 DEF RecordOK
    <3> HIDE DEF rec
    <3>4. HandlerOK(rec, alias, line, crossed)
      BY <2>1, <3>3 DEF HandlerOK, PatchKnown, FillKnown, TodoKnown
    <3>5. Become(p, rec)
      BY <1>3 DEF rec
    <3> QED BY <1>1, <3>1, <3>3, <3>4, <3>5, MoveKeeps
  <2> QED BY <2>3, <2>4
<1> QED BY <1>2, <1>3 DEF Apply

LEMMA PatchMfrStep ==
  ASSUME IInv, NEW p \in Handler, PatchMfr(p)
  PROVE  IInv'
<1>1. PICK l \in Line, m \in Makers : \E c \in Answers(m) :
         Become(p, [Idle EXCEPT !.pc = "patch", !.l = l, !.mfr = m, !.canon = c])
  BY DEF PatchMfr, Makers
<1>2. PICK c \in Answers(m) :
         Become(p, [Idle EXCEPT !.pc = "patch", !.l = l, !.mfr = m, !.canon = c])
  BY <1>1
<1> DEFINE rec == [Idle EXCEPT !.pc = "patch", !.l = l, !.mfr = m, !.canon = c]
<1>3. c # None => m \in Mfr /\ c = alias[m]
  BY AnswersAgree DEF IInv
<1>4. RecordOK(rec) /\ HandlerOK(rec, alias, line, crossed)
  BY <1>3 DEF Idle, RecordOK, HandlerOK, PatchKnown, FillKnown, TodoKnown, Agree
<1> HIDE DEF rec
<1>5. UNCHANGED <<alias, line, crossed>> /\ Become(p, rec)
  BY <1>2 DEF PatchMfr, rec
<1> QED BY <1>4, <1>5, MoveKeeps

\* A line whose maker changes is noted if anyone has listed it, and agrees if nobody has.
LEMMA UpdateLineStep ==
  ASSUME IInv, NEW p \in Handler, UpdateLine(p)
  PROVE  IInv'
<1> DEFINE l == h[p].l
           row == [line[l] EXCEPT !.mfr = h[p].mfr, !.canon = h[p].canon]
<1>1. /\ h[p].pc = "patch" /\ alias' = alias /\ Become(p, Idle)
      /\ line' = [line EXCEPT ![l] = row]
      /\ crossed' = IF \E q \in Handler, m \in Makers : <<l, m>> \in h[q].todo
                    THEN crossed \cup {l} ELSE crossed \ {l}
  BY DEF UpdateLine, Step, At, Done, Patched, Makers
<1>2. l \in Line /\ h[p].mfr \in Makers /\ Agree(h[p], alias)
  BY <1>1 DEF IInv, HandlerOK, PatchKnown
<1>3. RowOK(line[l])
  BY <1>2 DEF IInv, Shapes
<1>4. RowOK(row) /\ row.mfr = h[p].mfr /\ row.canon = h[p].canon
  BY <1>2, <1>3 DEF RowOK
<1> HIDE DEF row
<1>5. /\ line' = [k \in Line |-> line'[k]] /\ \A k \in Line : RowOK(line'[k])
      /\ line'[l] = row /\ \A k \in Line : k # l => line'[k] = line[k]
  BY <1>1, <1>2, <1>4, LineKeeps DEF IInv
<1>6. /\ h' = [q \in Handler |-> h'[q]] /\ \A q \in Handler : RecordOK(h'[q])
      /\ h'[p] = Idle /\ \A q \in Handler : q # p => h'[q] = h[q]
  BY <1>1, IdleOK, BecomeKeeps DEF IInv
<1>7. Shapes'
  BY <1>1, <1>5, <1>6 DEF IInv, Shapes
<1>8. ASSUME NEW q \in Handler, q # p
      PROVE  HandlerOK(h'[q], alias', line', crossed')
  <2>1. HandlerOK(h[q], alias, line, crossed)
    BY DEF IInv
  <2>2. ASSUME NEW t \in h[q].todo
        PROVE  t \in Line \X Makers /\ (t[1] \in crossed' \/ line'[t[1]].mfr = t[2])
    <3>1. t \in Line \X Makers /\ (t[1] \in crossed \/ line[t[1]].mfr = t[2])
      BY <2>1 DEF HandlerOK, TodoKnown
    <3>2. CASE t[1] = l
      <4>1. <<l, t[2]>> \in h[q].todo /\ t[2] \in Makers
        BY <3>1, <3>2
      <4> QED BY <1>1, <3>1, <3>2, <4>1
    <3>3. CASE t[1] # l
      BY <1>1, <1>5, <3>1, <3>3
    <3> QED BY <3>2, <3>3
  <2> QED BY <1>1, <1>6, <1>8, <2>1, <2>2 DEF HandlerOK, TodoKnown
<1>9. \A q \in Handler : HandlerOK(h'[q], alias', line', crossed')
  BY <1>6, <1>8, IdleOK
<1>10. LinesAgree'
  <2> SUFFICES ASSUME NEW k \in Line \ crossed' PROVE Agree(line'[k], alias)
    BY <1>1 DEF LinesAgree
  <2>1. CASE k = l
    BY <1>2, <1>4, <1>5, <2>1 DEF Agree
  <2>2. CASE k # l
    <3>1. k \notin crossed
      BY <1>1, <2>2
    <3> QED BY <1>5, <2>2, <3>1 DEF IInv, LinesAgree
  <2> QED BY <2>1, <2>2
<1> QED BY <1>7, <1>9, <1>10 DEF IInv

\* Reviews and matching: the handler's record gets a step in which it writes no line.
LEMMA OtherStep ==
  ASSUME IInv, NEW p \in Handler,
         \/ Reject(p) \/ Accept(p) \/ AcceptDefault(p) \/ LineDefault(p) \/ AcceptLoaded(p)
         \/ LoadCache(p) \/ MatchLine(p) \/ Abort(p)
  PROVE  IInv'
<1> USE DEF Ask, Step, At
<1>1. UNCHANGED <<alias, line, crossed>>
  BY DEF Reject, Accept, AcceptDefault, LineDefault, AcceptLoaded, LoadCache, MatchLine, Abort
<1>2. CASE Reject(p) \/ Accept(p)
  <2>1. h' = h
    BY <1>2 DEF Reject, Accept
  <2> QED BY <1>1, <2>1 DEF IInv, Shapes, LinesAgree
<1>3. CASE Done(p)
  BY <1>1, <1>3, IdleOK, MoveKeeps DEF Done
<1>4. ASSUME NEW rec, RecordOK(rec), rec.pc \notin {"patch", "backfill", "fill"},
             rec.todo \subseteq h[p].todo, Become(p, rec)
      PROVE  IInv'
  <2>1. HandlerOK(rec, alias, line, crossed)
    BY <1>4 DEF IInv, HandlerOK, PatchKnown, FillKnown, TodoKnown
  <2> QED BY <1>1, <1>4, <2>1, MoveKeeps
<1>5. CASE AcceptDefault(p)
  <2>1. PICK id, own :
           Become(p, [Idle EXCEPT !.pc = IF own.canon # None THEN "accept" ELSE "lines",
                                  !.id = id, !.l = own.owner, !.canon = own.canon])
    BY <1>5 DEF AcceptDefault
  <2> DEFINE pc == IF own.canon # None THEN "accept" ELSE "lines"
             rec == [Idle EXCEPT !.pc = pc, !.id = id, !.l = own.owner, !.canon = own.canon]
  <2>2. RecordOK(rec) /\ rec.pc \in {"accept", "lines"} /\ rec.todo = {}
    BY DEF Idle, RecordOK
  <2> HIDE DEF rec
  <2>3. Become(p, rec)
    BY <2>1 DEF rec
  <2> QED BY <1>4, <2>2, <2>3
<1>6. CASE LineDefault(p)
  <2> DEFINE rec == [h[p] EXCEPT !.pc = "accept", !.canon = line[h[p].l].canon]
  <2>1. Done(p) \/ Become(p, rec)
    BY <1>6 DEF LineDefault
  <2>2. RecordOK(h[p])
    BY DEF IInv, Shapes
  <2>3. RecordOK(rec) /\ rec.pc = "accept" /\ rec.todo = h[p].todo
    BY <2>2 DEF RecordOK
  <2> HIDE DEF rec
  <2> QED BY <1>3, <1>4, <2>1, <2>3
<1>7. CASE LoadCache(p)
  <2>1. PICK l \in Line :
           Become(p, [Idle EXCEPT !.pc = "match", !.l = l, !.row = line[l], !.snap = Snapshots])
    BY <1>7 DEF LoadCache
  <2> DEFINE rec == [Idle EXCEPT !.pc = "match", !.l = l, !.row = line[l], !.snap = Snapshots]
  <2>2. RecordOK(rec) /\ rec.pc = "match" /\ rec.todo = {}
    BY DEF Idle, RecordOK
  <2> HIDE DEF rec
  <2>3. Become(p, rec)
    BY <2>1 DEF rec
  <2> QED BY <1>4, <2>2, <2>3
<1>8. CASE AcceptLoaded(p) \/ MatchLine(p) \/ Abort(p)
  BY <1>3, <1>8 DEF AcceptLoaded, MatchLine, Abort
<1> QED BY <1>2, <1>5, <1>6, <1>7, <1>8

LEMMA NextKeeps == IInv /\ [Next]_vars => IInv'
<1> SUFFICES ASSUME IInv, [Next]_vars
             PROVE  IInv'
  OBVIOUS
<1>1. CASE Crawl \/ ManualQuote \/ UNCHANGED vars
  <2>1. UNCHANGED <<alias, line, crossed, h>>
    BY <1>1 DEF Crawl, ManualQuote, Replace, vars
  <2> QED BY <2>1 DEF IInv, Shapes, LinesAgree
<1>2. ASSUME NEW p \in Handler,
             \/ CreateAlias(p) \/ Approve(p) \/ List(p) \/ Fill(p) \/ ListOpen(p) \/ Apply(p)
             \/ PatchMfr(p) \/ UpdateLine(p)
      PROVE  IInv'
  BY <1>2, CreateAliasStep, ApproveStep, ListStep, FillStep, ListOpenStep, ApplyStep,
     PatchMfrStep, UpdateLineStep
<1> QED BY <1>1, <1>2, OtherStep DEF Next

\* A line's canonical maker is what its maker stands for, or none, whatever approvals,
\* clean-ups, edits and missed look-ups there were; only a line whose maker is edited
\* while a clean-up has it listed may be left with another.
THEOREM CanonKnown == Spec => []LineCanonKnown
<1>1. Init => IInv
  BY InitIInv
<1>2. IInv /\ [Next]_vars => IInv'
  BY NextKeeps
<1>3. IInv => LineCanonKnown
  BY CleaningAssumption DEF IInv, LinesAgree, Agree, LineCanonKnown
<1> QED BY <1>1, <1>2, <1>3, PTL DEF Spec

-----------------------------------------------------------------------------
(* What is chosen is a row of an entry *)

\* Of finitely many things some thing is least, whatever the order (by the
\* strict inclusion of their sets of lesser things).
LEMMA FiniteLeast ==
  ASSUME NEW S, IsFiniteSet(S), S # {}, NEW R,
         \A x \in S : <<x, x>> \notin R,
         \A x, y, z \in S : <<x, y>> \in R /\ <<y, z>> \in R => <<x, z>> \in R
  PROVE  \E x \in S : \A y \in S : <<y, x>> \notin R
<1> DEFINE Lesser(x) == {y \in S : <<y, x>> \in R}
           T == {Lesser(x) : x \in S}
<1>1. T \subseteq FiniteSubsetsOf(S)
  <2>1. \A x \in S : Lesser(x) \in SUBSET S
    OBVIOUS
  <2>2. SUBSET S = FiniteSubsetsOf(S)
    BY FS_FiniteSubsetsOfFinite
  <2> HIDE DEF Lesser
  <2> QED BY <2>1, <2>2
<1>2. T # {}
  <2> HIDE DEF Lesser
  <2> QED OBVIOUS
<1>3. IsWellFoundedOn(StrictSubsetOrdering(S), FiniteSubsetsOf(S))
  BY FS_StrictSubsetOrderingWellFounded
<1>4. PICK L \in T : \A M \in T : <<M, L>> \notin StrictSubsetOrdering(S)
  <2> HIDE DEF T
  <2> QED BY <1>1, <1>2, <1>3, WFMin
<1>5. PICK x \in S : L = Lesser(x)
  BY <1>4
<1>6. ASSUME NEW y \in S, <<y, x>> \in R
      PROVE  FALSE
  <2>1. Lesser(y) \subseteq Lesser(x) /\ y \in Lesser(x) /\ y \notin Lesser(y)
    BY <1>6
  <2>2. Lesser(y) \in T
    OBVIOUS
  <2>3. <<Lesser(y), Lesser(x)>> \in StrictSubsetOrdering(S)
    BY <2>1 DEF StrictSubsetOrdering
  <2> QED BY <1>4, <1>5, <2>2, <2>3
<1> QED BY <1>6

KeyOK(key) == key.price \in Int /\ key.lead \in Int /\ key.stock \in Int /\ key.rank \in Int

\* Of finitely many candidates the first one is there.
LEMMA FirstIsThere ==
  ASSUME NEW cands, IsFiniteSet(cands), cands # {},
         \A c \in cands : KeyOK(c.key) /\ c.at \in Int
  PROVE  First(cands) \in cands
<1> DEFINE Beats(d, c) == \/ LessMatchCandidate(d.key, c.key)
                          \/ ~LessMatchCandidate(c.key, d.key) /\ d.at < c.at
           R == {e \in cands \X cands : Beats(e[1], e[2])}
<1>1. \A c, d \in cands : <<d, c>> \in R <=> Beats(d, c)
  OBVIOUS
<1>2. \A x \in cands : ~Beats(x, x)
  BY DEF LessMatchCandidate, KeyOK
<1>3. \A x, y, z \in cands : Beats(x, y) /\ Beats(y, z) => Beats(x, z)
  BY DEF LessMatchCandidate, KeyOK
<1>4. \E x \in cands : \A y \in cands : <<y, x>> \notin R
  <2>1. \A x \in cands : <<x, x>> \notin R
    BY <1>1, <1>2
  <2>2. \A x, y, z \in cands : <<x, y>> \in R /\ <<y, z>> \in R => <<x, z>> \in R
    <3> HIDE DEF Beats, R
    <3> QED BY <1>1, <1>3
  <2> HIDE DEF R
  <2> QED BY <2>1, <2>2, FiniteLeast
<1>5. PICK x \in cands : \A y \in cands : ~Beats(y, x)
  <2> HIDE DEF R, Beats
  <2> QED BY <1>1, <1>4
<1>6. \A d \in cands : \/ LessMatchCandidate(x.key, d.key)
                       \/ ~LessMatchCandidate(d.key, x.key) /\ x.at <= d.at
  BY <1>5
<1> QED BY <1>6 DEF First

\* Prices and keys are numbers.
LEMMA PricesAreNumbers ==
  ASSUME NEW q, QuoteOK(q), NEW n
  PROVE  BasePrice(q, n) \subseteq Int
<1> DEFINE segments == RangeOf(q.mainland) \cup RangeOf(q.hk) \cup RangeOf(q.tiers)
<1>1. \A s : PickTier(s, n) \subseteq RangeOf(s) \ {Bad}
  BY DEF PickTier, ParsePriceTiers
<1>2. ComparePrice(q, n) \subseteq segments \ {Bad}
  BY <1>1 DEF ComparePrice
<1>3. ASSUME NEW t \in segments \ {Bad}
      PROVE  ToBaseCCY(t) \subseteq Int
  <2>1. t.price \in Int /\ Rate[<<t.ccy, Base>>] \in Nat /\ Rate[<<Base, t.ccy>>] \in Nat
    BY <1>3 DEF QuoteOK
  <2>2. \A a \in Int, b \in Nat : b # 0 => (2 * a + b) \div (2 * b) \in Int
    OBVIOUS
  <2>3. \A a \in Int, b \in Nat : a * b \in Int
    OBVIOUS
  <2> QED BY <2>1, <2>2, <2>3 DEF ToBaseCCY
<1> QED BY <1>2, <1>3 DEF BasePrice

LEMMA KeysAreNumbers ==
  ASSUME NEW row, NEW p \in Platform, NEW q, QuoteOK(q), BasePrice(q, row.qty) # {}
  PROVE  KeyOK(SortKey(row, p, q))
<1>1. (CHOOSE x \in BasePrice(q, row.qty) : TRUE) \in Int
  BY PricesAreNumbers
<1>2. 2 ^ 30 \in Int
  OBVIOUS
<1>3. Rank[p] \in Int
  BY CleaningAssumption
<1> QED BY <1>1, <1>2, <1>3 DEF KeyOK, SortKey, QuoteOK, LeadUnknown

\* The review and the canonical id of a row are not what its price is computed from.
LEMMA RowStays ==
  ASSUME NEW q, QuoteOK(q), NEW review, NEW canon
  PROVE  /\ QuoteOK([q EXCEPT !.review = review, !.canon = canon])
         /\ QuoteOK([q EXCEPT !.canon = canon, !.review = review])
         /\ QuoteOK([q EXCEPT !.review = review])
         /\ [q EXCEPT !.review = review, !.canon = canon].model = q.model
         /\ [q EXCEPT !.review = review].model = q.model
BY DEF QuoteOK, QuoteColumns

\* A row keeps its model and what it costs when it is given the review of an item.
LEMMA MergedRow ==
  ASSUME NEW rows, NEW items, NEW i \in DOMAIN rows, QuoteOK(rows[i])
  PROVE  /\ Merged(rows, items)[i].model = rows[i].model
         /\ QuoteOK(Merged(rows, items)[i])
<1> DEFINE row == Unreviewed(rows[i])
<1>1. QuoteOK(row) /\ row.model = rows[i].model
  BY RowStays DEF Unreviewed
<1> HIDE DEF row
<1>2. Merged(rows, items)[i] = row \/ \E item : Merged(rows, items)[i] =
           [row EXCEPT !.review = item.review,
                       !.canon = IF item.canon # None THEN item.canon ELSE @]
  <2> DEFINE same == {j \in DOMAIN items : Alike(items[j], row) /\ Nth(items, j, row) = Nth(rows, i, row)}
             item == items[CHOOSE j \in same : TRUE]
  <2>1. Merged(rows, items)[i] =
          IF same = {} THEN row
          ELSE [row EXCEPT !.review = item.review,
                           !.canon = IF item.canon # None THEN item.canon ELSE @]
    BY DEF Merged, row
  <2> HIDE DEF same, item
  <2> QED BY <2>1
<1>3. ASSUME NEW item
      PROVE  LET q == [row EXCEPT !.review = item.review,
                                  !.canon = IF item.canon # None THEN item.canon ELSE @]
             IN  q.model = row.model /\ QuoteOK(q)
  <2> DEFINE canon == IF item.canon # None THEN item.canon ELSE row.canon
  <2>1. LET q == [row EXCEPT !.review = item.review, !.canon = canon]
        IN  q.model = row.model /\ QuoteOK(q)
    <3> HIDE DEF canon
    <3> QED BY <1>1 DEF QuoteOK, QuoteColumns
  <2> QED BY <2>1
<1> QED BY <1>1, <1>2, <1>3

LEMMA MergedId ==
  ASSUME NEW rows, NEW items, NEW i \in DOMAIN rows, "id" \in DOMAIN rows[i]
  PROVE  Merged(rows, items)[i].id = rows[i].id
<1> DEFINE row == Unreviewed(rows[i])
           same == {j \in DOMAIN items : Alike(items[j], row) /\ Nth(items, j, row) = Nth(rows, i, row)}
           item == items[CHOOSE j \in same : TRUE]
<1>1. Merged(rows, items)[i] =
        IF same = {} THEN row
        ELSE [row EXCEPT !.review = item.review,
                         !.canon = IF item.canon # None THEN item.canon ELSE @]
  BY DEF Merged
<1>2. "id" \in DOMAIN row /\ row.id = rows[i].id
  BY DEF Unreviewed
<1> HIDE DEF same, item, row
<1> QED BY <1>1, <1>2

\* The best row of a platform is one of its rows, and fits.
LEMMA PickIsRow ==
  ASSUME NEW row, NEW mpn, NEW p \in Platform, NEW rows,
         IsFiniteSet(DOMAIN rows), DOMAIN rows \subseteq Nat,
         \A i \in DOMAIN rows : QuoteOK(rows[i])
  PROVE  \A q \in PickBest(row, mpn, p, rows) :
            \E i \in DOMAIN rows : /\ q = rows[i] /\ RowPasses(row, mpn, q)
                                  /\ BasePrice(q, row.qty) # {}
<1> DEFINE fit == Eligible(row, mpn, rows)
           Cand(r) == [at |-> r.at, quote |-> r.quote, key |-> SortKey(row, p, r.quote)]
           cands == {Cand(r) : r \in fit}
<1>1. PickBest(row, mpn, p, rows) = IF cands = {} THEN {} ELSE {First(cands).quote}
  BY DEF PickBest
<1>2. \A r \in fit : /\ r.at \in DOMAIN rows /\ r.quote = rows[r.at]
                     /\ r = [at |-> r.at, quote |-> rows[r.at]]
                     /\ RowPasses(row, mpn, r.quote) /\ BasePrice(r.quote, row.qty) # {}
  BY DEF Eligible
<1>3. \A r \in fit : KeyOK(SortKey(row, p, r.quote)) /\ r.at \in Int
  BY <1>2, KeysAreNumbers
<1>4. IsFiniteSet(cands)
  <2> DEFINE f == [i \in {r.at : r \in fit} |-> Cand([at |-> i, quote |-> rows[i]])]
  <2>1. {r.at : r \in fit} \subseteq DOMAIN rows
    BY <1>2
  <2>2. IsFiniteSet({r.at : r \in fit})
    BY <2>1, FS_Subset
  <2>3. f \in Surjection({r.at : r \in fit}, cands)
    BY <1>2 DEF Surjection
  <2> QED BY <2>2, <2>3, FS_Surjection
<1>5. \A c \in cands : KeyOK(c.key) /\ c.at \in Int
  BY <1>3
<1>6. ASSUME cands # {}
      PROVE  \E r \in fit : First(cands).quote = r.quote
  <2>1. First(cands) \in cands
    <3> HIDE DEF cands
    <3> QED BY <1>4, <1>5, <1>6, FirstIsThere
  <2>2. PICK r \in fit : First(cands) = Cand(r)
    BY <2>1
  <2>3. Cand(r).quote = r.quote
    OBVIOUS
  <2> HIDE DEF Cand, cands, fit
  <2> QED BY <2>2, <2>3
<1> HIDE DEF cands, fit
<1> QED BY <1>1, <1>2, <1>6

\* Places are counted from 1.
Listing(s) == \E n \in Nat : DOMAIN s = 1 .. n

LEMMA ListingFinite == \A s : Listing(s) => IsFiniteSet(DOMAIN s) /\ DOMAIN s \subseteq Nat
<1> SUFFICES ASSUME NEW s, Listing(s)
             PROVE  IsFiniteSet(DOMAIN s) /\ DOMAIN s \subseteq Nat
  OBVIOUS
<1>1. PICK n \in Nat : DOMAIN s = 1 .. n
  BY DEF Listing
<1>2. IsFiniteSet(1 .. n)
  BY FS_Interval
<1> QED BY <1>1, <1>2

\* The candidates of a part: rows of its entries with the reviews that were read.
LEMMA CandidatesAreRows ==
  ASSUME NEW row, NEW mpn, NEW snap, NEW read,
         \A p \in Platform : /\ Listing(Items(snap[<<mpn, p>>]))
                            /\ \A i \in DOMAIN Items(snap[<<mpn, p>>]) : QuoteOK(Items(snap[<<mpn, p>>])[i])
  PROVE  LET all == CandidatesRead(row, mpn, snap, read)
         IN  /\ IsFiniteSet(all) /\ \A d \in all : KeyOK(d.key) /\ d.at \in Int
             /\ \A d \in all : \E p \in Platform : \E i \in DOMAIN Items(snap[<<mpn, p>>]) :
                   /\ d.quote = Merged(Items(snap[<<mpn, p>>]), read[<<mpn, p>>])[i]
                   /\ MfrPasses(row, d.quote)
<1> DEFINE old(p) == Items(snap[<<mpn, p>>])
           rows(p) == Merged(old(p), read[<<mpn, p>>])
           best(p) == IF Usable(snap[<<mpn, p>>]) THEN PickBest(row, mpn, p, rows(p)) ELSE {}
           Of(p, q) == [at |-> Rank[p], platform |-> p, quote |-> q, key |-> SortKey(row, p, q)]
           On(p) == {Of(p, q) : q \in best(p)}
<1>1. CandidatesRead(row, mpn, snap, read) = UNION {On(p) : p \in Platform}
  BY DEF CandidatesRead
<1>2. ASSUME NEW p \in Platform
      PROVE  /\ IsFiniteSet(DOMAIN rows(p)) /\ DOMAIN rows(p) \subseteq Nat
             /\ DOMAIN rows(p) = DOMAIN old(p)
             /\ \A i \in DOMAIN rows(p) : QuoteOK(rows(p)[i])
  <2>1. DOMAIN rows(p) = DOMAIN old(p)
    BY DEF Merged
  <2>2. \A i \in DOMAIN old(p) : QuoteOK(rows(p)[i])
    BY MergedRow
  <2> QED BY <2>1, <2>2, ListingFinite
<1>3. ASSUME NEW p \in Platform, NEW q \in best(p)
      PROVE  /\ KeyOK(SortKey(row, p, q))
             /\ \E i \in DOMAIN old(p) : q = rows(p)[i] /\ MfrPasses(row, q)
  <2>1. q \in PickBest(row, mpn, p, rows(p))
    OBVIOUS
  <2> HIDE DEF best, rows, old
  <2>2. PICK i \in DOMAIN rows(p) : /\ q = rows(p)[i] /\ RowPasses(row, mpn, q)
                                   /\ BasePrice(q, row.qty) # {}
    BY <1>2, <2>1, PickIsRow
  <2>3. QuoteOK(q)
    BY <1>2, <2>2
  <2> QED BY <1>2, <2>2, <2>3, KeysAreNumbers DEF RowPasses
<1>4. ASSUME NEW p \in Platform
      PROVE  IsFiniteSet(On(p))
  <2>1. best(p) = {} \/ \E q : best(p) = {q}
    BY DEF PickBest
  <2> HIDE DEF best
  <2>2. On(p) = {} \/ \E q : On(p) = {Of(p, q)}
    BY <2>1
  <2> QED BY <2>2, FS_EmptySet, FS_Singleton
<1> HIDE DEF On
<1>5. IsFiniteSet(UNION {On(p) : p \in Platform})
  <2> DEFINE f == [p \in Platform |-> On(p)]
             sets == {On(p) : p \in Platform}
  <2>1. f \in Surjection(Platform, sets)
    BY DEF Surjection
  <2>2. IsFiniteSet(sets)
    BY <2>1, FS_Surjection, CleaningAssumption
  <2>3. \A X \in sets : IsFiniteSet(X)
    BY <1>4
  <2> HIDE DEF sets
  <2>4. IsFiniteSet(UNION sets)
    BY <2>2, <2>3, FS_UNION
  <2> QED BY <2>4 DEF sets
<1>6. \A p \in Platform : \A q : /\ Of(p, q).at \in Int /\ Of(p, q).key = SortKey(row, p, q)
                                  /\ Of(p, q).quote = q
  BY CleaningAssumption
<1>7. \A d \in UNION {On(p) : p \in Platform} : \E p \in Platform : \E q \in best(p) : d = Of(p, q)
  <2> HIDE DEF best, Of
  <2> QED BY DEF On
<1> HIDE DEF Of, rows, best, old
<1>8. ASSUME NEW d \in UNION {On(p) : p \in Platform}
      PROVE  /\ KeyOK(d.key) /\ d.at \in Int
             /\ \E p \in Platform : \E i \in DOMAIN old(p) : d.quote = rows(p)[i] /\ MfrPasses(row, d.quote)
  <2>1. PICK p \in Platform : \E q \in best(p) : d = Of(p, q)
    BY <1>7
  <2>2. PICK q \in best(p) : d = Of(p, q)
    BY <2>1
  <2> QED BY <1>3, <1>6, <2>2
<1> QED BY <1>1, <1>5, <1>8 DEF rows, old

\* What a line is matched to: a row of a loaded entry, with the review that was read,
\* and it fits the maker of the line.
LEMMA ChosenIsRow ==
  ASSUME NEW row, row.mpn \in Mpn, row.sub \in Mpn \cup {None}, NEW snap, NEW read,
         \A k \in Key : Listing(Items(snap[k])) /\ \A i \in DOMAIN Items(snap[k]) : QuoteOK(Items(snap[k])[i])
  PROVE  \A c \in MatchOneLineRead(row, snap, read) :
            \E k \in Key : \E i \in DOMAIN Items(snap[k]) :
               c.quote = Merged(Items(snap[k]), read[k])[i] /\ MfrPasses(row, c.quote)
<1>1. ASSUME NEW mpn \in Mpn, CandidatesRead(row, mpn, snap, read) # {}
      PROVE  \E k \in Key : \E i \in DOMAIN Items(snap[k]) :
                LET c == First(CandidatesRead(row, mpn, snap, read))
                IN  c.quote = Merged(Items(snap[k]), read[k])[i] /\ MfrPasses(row, c.quote)
  <2> DEFINE all == CandidatesRead(row, mpn, snap, read)
  <2>1. \A p \in Platform : <<mpn, p>> \in Key
    BY DEF Key
  <2>2. /\ IsFiniteSet(all) /\ \A d \in all : KeyOK(d.key) /\ d.at \in Int
        /\ \A d \in all : \E p \in Platform : \E i \in DOMAIN Items(snap[<<mpn, p>>]) :
              /\ d.quote = Merged(Items(snap[<<mpn, p>>]), read[<<mpn, p>>])[i]
              /\ MfrPasses(row, d.quote)
    BY <2>1, CandidatesAreRows
  <2> HIDE DEF all
  <2>3. First(all) \in all
    BY <1>1, <2>2, FirstIsThere DEF all
  <2> QED BY <2>1, <2>2, <2>3 DEF all
<1> DEFINE own == CandidatesRead(row, row.mpn, snap, read)
           sub == CandidatesRead(row, row.sub, snap, read)
           all == IF own = {} /\ HasSubstitute(row) THEN sub ELSE own
<1>2. MatchOneLineRead(row, snap, read) = IF all = {} THEN {} ELSE {First(all)}
  BY DEF MatchOneLineRead
<1>3. HasSubstitute(row) => row.sub \in Mpn
  BY DEF HasSubstitute
<1> QED BY <1>1, <1>2, <1>3

-----------------------------------------------------------------------------
(* Items, and the entries as a matching has loaded them *)

\* Two lists with the same items in the same places, whatever their reviews.
Same(a, b) == DOMAIN a = DOMAIN b /\ \A i \in DOMAIN a : a[i].id = b[i].id /\ Alike(a[i], b[i])

\* No item of the entries e has an id of the list.
Gone(a, e) == \A i \in DOMAIN a : \A k \in Key : \A j \in DOMAIN e[k] : e[k][j].id # a[i].id

\* One and the same row is the n-th like it at one place only.
LEMMA NthUnique ==
  ASSUME NEW s, Listing(s), NEW r, NEW i \in DOMAIN s, NEW j \in DOMAIN s,
         Alike(s[i], r), Alike(s[j], r), Nth(s, i, r) = Nth(s, j, r)
  PROVE  i = j
<1> DEFINE Upto(m) == {x \in 1 .. m : Alike(s[x], r)}
<1>1. i \in Nat /\ j \in Nat /\ i >= 1 /\ j >= 1
  BY DEF Listing
<1>2. ASSUME NEW a \in Nat, NEW b \in Nat, a < b, Alike(s[b], r), b >= 1,
             Cardinality(Upto(a)) = Cardinality(Upto(b))
      PROVE  FALSE
  <2>1. IsFiniteSet(1 .. b) /\ Upto(b) \subseteq 1 .. b
    BY FS_Interval
  <2>2. IsFiniteSet(Upto(b))
    BY <2>1, FS_Subset
  <2>3. Upto(a) \subseteq Upto(b) /\ b \in Upto(b) /\ b \notin Upto(a)
    BY <1>2
  <2> HIDE DEF Upto
  <2>4. Upto(a) = Upto(b)
    BY <1>2, <2>2, <2>3, FS_Subset
  <2> QED BY <2>3, <2>4
<1>3. Cardinality(Upto(i)) = Cardinality(Upto(j))
  BY DEF Nth
<1> HIDE DEF Upto
<1> QED BY <1>1, <1>2, <1>3

LEMMA AlikeTrans ==
  \A a, b, c : /\ Alike(a, b) => Alike(b, a)
               /\ Alike(a, b) /\ Alike(b, c) => Alike(a, c)
BY DEF Alike

\* Two lists with the same items count the rows that are alike alike.
LEMMA SameNth ==
  ASSUME NEW a, NEW b, Listing(a), Same(a, b), NEW i \in DOMAIN a, NEW r
  PROVE  Nth(a, i, r) = Nth(b, i, r)
<1>1. 1 .. i \subseteq DOMAIN a
  BY DEF Listing
<1>2. \A j \in 1 .. i : Alike(a[j], r) <=> Alike(b[j], r)
  BY <1>1, AlikeTrans DEF Same
<1>3. {j \in 1 .. i : Alike(a[j], r)} = {j \in 1 .. i : Alike(b[j], r)}
  BY <1>2
<1> QED BY <1>3 DEF Nth

\* While the items are the same a row gets the review of its own item.
LEMMA MergedReview ==
  ASSUME NEW old, NEW now, Listing(old), Same(old, now),
         NEW i \in DOMAIN old, QuoteOK(old[i])
  PROVE  /\ Merged(old, now)[i].review = now[i].review
         /\ now[i].canon # None => Merged(old, now)[i].canon = now[i].canon
<1> DEFINE row == Unreviewed(old[i])
           same == {j \in DOMAIN now : Alike(now[j], row) /\ Nth(now, j, row) = Nth(old, i, row)}
           item == now[CHOOSE j \in same : TRUE]
<1>1. Merged(old, now)[i] =
        IF same = {} THEN row
        ELSE [row EXCEPT !.review = item.review,
                         !.canon = IF item.canon # None THEN item.canon ELSE @]
  BY DEF Merged
<1>2. Alike(old[i], row)
  BY DEF Alike, Unreviewed, QuoteOK, QuoteColumns
<1> HIDE DEF row
<1>3. Listing(now) /\ DOMAIN now = DOMAIN old /\ Alike(now[i], row)
  BY <1>2, AlikeTrans DEF Listing, Same
<1>4. Nth(now, i, row) = Nth(old, i, row)
  BY SameNth
<1>5. i \in same /\ \A j \in same : j = i
  BY <1>3, <1>4, NthUnique
<1>6. item = now[i]
  <2> HIDE DEF same
  <2> QED BY <1>5
<1>7. "review" \in DOMAIN row /\ "canon" \in DOMAIN row
  BY DEF row, Unreviewed, QuoteOK, QuoteColumns
<1> HIDE DEF same, item
<1> QED BY <1>1, <1>5, <1>6, <1>7

\* An item, accepted for some maker if it is accepted.
ItemOK(q) ==
    /\ QuoteOK(q) /\ "id" \in DOMAIN q
    /\ q.review \in {"pending", "accepted", "rejected"}
    /\ q.review = "accepted" => q.canon # None

\* Entries e, of items with the ids up to n; no two items have the same id.
EntriesOK(e, n) ==
    /\ n \in Nat
    /\ \A k \in Key : /\ Listing(e[k])
                      /\ \A i \in DOMAIN e[k] : ItemOK(e[k][i]) /\ e[k][i].id \in 1 .. n
    /\ \A j, k \in Key : \A i \in DOMAIN e[j], m \in DOMAIN e[k] :
          e[j][i].id = e[k][m].id => j = k /\ i = m

\* Loaded entries are those there are, but for reviews, or their items are gone.
ListOK(old, k, e, n) ==
    /\ Listing(old)
    /\ \A i \in DOMAIN old : QuoteOK(old[i]) /\ "id" \in DOMAIN old[i] /\ old[i].id \in 1 .. n
    /\ Same(old, e[k]) \/ Gone(old, e)
SeenOK(snap, e, n) == \A k \in Key : ListOK(Items(snap[k]), k, e, n)

PartsOK(row) == row.mpn \in Mpn /\ row.sub \in Mpn \cup {None}

HeldOK(r, e, n) ==
    /\ r.pc = "match" => SeenOK(r.snap, e, n) /\ PartsOK(r.row)
    /\ r.pc = "accept" => r.canon # None

ReviewInv ==
    /\ entry = [k \in Key |-> entry[k]] /\ EntriesOK(entry, issued)
    /\ \A p \in Handler : HeldOK(h[p], entry, issued)
    /\ ChosenIsAccepted

\* How entries change: reviews of the same items, or new items.
Moved(e, n, f, m) ==
    /\ m \in Nat /\ n <= m
    /\ \A k \in Key : Same(e[k], f[k]) \/ \A i \in DOMAIN f[k] : f[k][i].id > n

LEMMA SameTrans == \A a, b, c : Same(a, b) /\ Same(b, c) => Same(a, c)
BY AlikeTrans DEF Same

LEMMA SameIsMoved == \A e, n : n \in Nat => Moved(e, n, e, n)
BY DEF Moved, Same, Alike

\* What was loaded stays as it is, or goes for ever: ids are not given twice.
LEMMA SeenStays ==
  ASSUME NEW e, NEW n, NEW f, NEW m, EntriesOK(e, n), Moved(e, n, f, m)
  PROVE  \A snap : SeenOK(snap, e, n) => SeenOK(snap, f, m)
<1> SUFFICES ASSUME NEW k \in Key, NEW old, ListOK(old, k, e, n)
             PROVE  ListOK(old, k, f, m)
  BY DEF SeenOK
<1>1. /\ Listing(old)
      /\ \A i \in DOMAIN old : QuoteOK(old[i]) /\ "id" \in DOMAIN old[i] /\ old[i].id \in 1 .. n
      /\ Same(old, e[k]) \/ Gone(old, e)
  BY DEF ListOK
<1>2. n \in Nat /\ m \in Nat /\ n <= m
  BY DEF EntriesOK, Moved
<1>3. \A i \in DOMAIN old : old[i].id \in 1 .. m
  BY <1>1, <1>2
<1>4. CASE Gone(old, e)
  <2>1. ASSUME NEW i \in DOMAIN old, NEW j \in Key, NEW x \in DOMAIN f[j], f[j][x].id = old[i].id
        PROVE  FALSE
    <3>1. CASE Same(e[j], f[j])
      BY <1>4, <2>1, <3>1 DEF Same, Gone
    <3>2. CASE f[j][x].id > n
      BY <1>1, <1>2, <2>1, <3>2
    <3> QED BY <3>1, <3>2 DEF Moved
  <2> QED BY <1>1, <1>3, <2>1 DEF Gone, ListOK
<1>5. CASE Same(old, e[k]) /\ Same(e[k], f[k])
  BY <1>1, <1>3, <1>5, SameTrans DEF ListOK
<1>6. CASE Same(old, e[k]) /\ ~Same(e[k], f[k])
  <2>1. ASSUME NEW i \in DOMAIN old, NEW j \in Key, NEW x \in DOMAIN f[j], f[j][x].id = old[i].id
        PROVE  FALSE
    <3>1. CASE f[j][x].id > n
      BY <1>1, <1>2, <2>1, <3>1
    <3>2. CASE Same(e[j], f[j])
      <4>1. j # k /\ x \in DOMAIN e[j] /\ e[j][x].id = old[i].id
        BY <1>6, <2>1, <3>2 DEF Same
      <4>2. i \in DOMAIN e[k] /\ e[k][i].id = old[i].id
        BY <1>6 DEF Same
      <4> QED BY <4>1, <4>2 DEF EntriesOK
    <3> QED BY <3>1, <3>2 DEF Moved
  <2> QED BY <1>1, <1>3, <2>1 DEF Gone, ListOK
<1> QED BY <1>1, <1>4, <1>5, <1>6

\* The same items with other reviews are as well in order.
LEMMA SameEntries ==
  ASSUME NEW e, NEW n, EntriesOK(e, n), NEW f,
         \A k \in Key : Same(e[k], f[k]) /\ \A i \in DOMAIN f[k] : ItemOK(f[k][i])
  PROVE  EntriesOK(f, n)
<1>1. \A k \in Key : /\ DOMAIN f[k] = DOMAIN e[k]
                    /\ \A i \in DOMAIN f[k] : f[k][i].id = e[k][i].id
  BY DEF Same
<1>2. \A k \in Key : /\ Listing(f[k])
                    /\ \A i \in DOMAIN f[k] : f[k][i].id \in 1 .. n
  BY <1>1 DEF EntriesOK, Listing
<1>3. ASSUME NEW j \in Key, NEW k \in Key, NEW i \in DOMAIN f[j], NEW m \in DOMAIN f[k],
             f[j][i].id = f[k][m].id
      PROVE  j = k /\ i = m
  <2>1. i \in DOMAIN e[j] /\ m \in DOMAIN e[k] /\ e[j][i].id = e[k][m].id
    BY <1>1, <1>3
  <2> QED BY <2>1 DEF EntriesOK
<1> QED BY <1>2, <1>3 DEF EntriesOK

\* Entries after a review; it changes no item but for the review and its maker.
AfterReview(e, id, v, c) ==
    [k \in Key |-> [i \in DOMAIN e[k] |->
        IF e[k][i].id = id THEN [e[k][i] EXCEPT !.review = v, !.canon = c] ELSE e[k][i]]]

LEMMA ReviewedEntries ==
  ASSUME NEW e, NEW n, EntriesOK(e, n), NEW id, NEW v \in {"accepted", "rejected"}, NEW c,
         v = "accepted" => c # None
  PROVE  LET f == AfterReview(e, id, v, c)
         IN  EntriesOK(f, n) /\ \A k \in Key : Same(e[k], f[k])
<1> DEFINE f == AfterReview(e, id, v, c)
<1>1. ASSUME NEW q, ItemOK(q)
      PROVE  LET r == [q EXCEPT !.review = v, !.canon = c]
             IN  ItemOK(r) /\ r.id = q.id /\ Alike(q, r)
  <2> DEFINE r == [q EXCEPT !.review = v, !.canon = c]
  <2>1. QuoteOK(q) /\ "id" \in DOMAIN q /\ QuoteColumns \subseteq DOMAIN q
    BY <1>1 DEF ItemOK, QuoteOK
  <2>2. QuoteOK(r)
    BY <2>1, RowStays
  <2>3. DOMAIN r = DOMAIN q /\ r.review = v /\ r.canon = c /\ r.id = q.id /\ Alike(q, r)
    BY <2>1 DEF QuoteColumns, Alike
  <2> HIDE DEF r
  <2>4. ItemOK(r)
    BY <2>1, <2>2, <2>3 DEF ItemOK
  <2> QED BY <2>3, <2>4 DEF r
<1>2. ASSUME NEW k \in Key
      PROVE  /\ DOMAIN f[k] = DOMAIN e[k] /\ Listing(e[k])
             /\ \A i \in DOMAIN e[k] : /\ ItemOK(e[k][i]) /\ ItemOK(f[k][i])
                                      /\ f[k][i].id = e[k][i].id /\ Alike(e[k][i], f[k][i])
  <2>1. Listing(e[k]) /\ \A i \in DOMAIN e[k] : ItemOK(e[k][i])
    BY DEF EntriesOK
  <2>2. DOMAIN f[k] = DOMAIN e[k]
    BY DEF AfterReview
  <2>3. \A i \in DOMAIN e[k] : f[k][i] = e[k][i] \/ f[k][i] = [e[k][i] EXCEPT !.review = v, !.canon = c]
    BY DEF AfterReview
  <2> HIDE DEF f
  <2>4. \A q : Alike(q, q)
    BY DEF Alike
  <2>5. ASSUME NEW i \in DOMAIN e[k]
        PROVE  ItemOK(f[k][i]) /\ f[k][i].id = e[k][i].id /\ Alike(e[k][i], f[k][i])
    <3>1. CASE f[k][i] = e[k][i]
      BY <2>1, <2>4, <3>1
    <3>2. CASE f[k][i] = [e[k][i] EXCEPT !.review = v, !.canon = c]
      BY <1>1, <2>1, <3>2
    <3> QED BY <2>3, <3>1, <3>2
  <2> QED BY <2>1, <2>2, <2>5
<1> HIDE DEF f
<1>3. \A k \in Key : Same(e[k], f[k])
  BY <1>2 DEF Same
<1>4. EntriesOK(f, n)
  <2>1. \A k \in Key : \A i \in DOMAIN f[k] : ItemOK(f[k][i])
    BY <1>2
  <2> QED BY <1>3, <2>1, SameEntries
<1> QED BY <1>3, <1>4 DEF f

\* An item of a new result.
Entered(o, c, id, w) ==
    [Offer[o] EXCEPT !.id = id, !.owner = w, !.canon = c,
                     !.review = IF c # None THEN "accepted" ELSE "pending"]

LEMMA NewItem ==
  ASSUME NEW o \in DOMAIN Offer, NEW c, NEW id, NEW w
  PROVE  ItemOK(Entered(o, c, id, w)) /\ Entered(o, c, id, w).id = id
<1> DEFINE offer == Offer[o]
           review == IF c # None THEN "accepted" ELSE "pending"
           q == [offer EXCEPT !.id = id, !.owner = w, !.canon = c, !.review = review]
<1>1. QuoteOK(offer) /\ {"id", "owner"} \subseteq DOMAIN offer
  BY CleaningAssumption
<1> HIDE DEF offer, review
<1>2. DOMAIN q = DOMAIN offer /\ q.id = id /\ q.canon = c /\ q.review = review
  BY <1>1 DEF QuoteOK, QuoteColumns
<1>3. /\ q.lead = offer.lead /\ q.stock = offer.stock /\ q.mainland = offer.mainland
      /\ q.hk = offer.hk /\ q.tiers = offer.tiers
  BY <1>1 DEF QuoteOK, QuoteColumns
<1> HIDE DEF q
<1>4. QuoteOK(q)
  BY <1>1, <1>2, <1>3 DEF QuoteOK
<1>5. ItemOK(q)
  BY <1>1, <1>2, <1>4 DEF ItemOK, review
<1> QED BY <1>2, <1>5 DEF q, offer, review, Entered

\* A result replaces the items of one entry by items with new ids.
LEMMA ReplacedEntries ==
  ASSUME NEW e, NEW n, EntriesOK(e, n), e = [j \in Key |-> e[j]], NEW k \in Key,
         NEW rows \in Seq(DOMAIN Offer), NEW found, NEW w,
         NEW f, f = [e EXCEPT ![k] = NewItems(rows, found, w, n)]
  PROVE  EntriesOK(f, n + Len(rows)) /\ Moved(e, n, f, n + Len(rows))
<1> DEFINE new == NewItems(rows, found, w, n)
           m == n + Len(rows)
<1>1. Len(rows) \in Nat /\ DOMAIN rows = 1 .. Len(rows) /\ n \in Nat
  BY DEF EntriesOK
<1>2. DOMAIN new = 1 .. Len(rows)
  BY <1>1 DEF NewItems
<1>3. ASSUME NEW i \in DOMAIN new
      PROVE  ItemOK(new[i]) /\ new[i].id = n + i
  <2> DEFINE o == rows[i]
             c == found[Offer[o].mfr]
  <2>1. o \in DOMAIN Offer
    BY <1>1, <1>2
  <2>2. new[i] = Entered(o, c, n + i, w)
    BY <1>1, <1>2 DEF NewItems, Entered
  <2> HIDE DEF new, o, c
  <2> QED BY <2>1, <2>2, NewItem
<1> HIDE DEF new
<1>4. f[k] = new /\ \A j \in Key : j # k => f[j] = e[j]
  BY DEF new
<1>5. ASSUME NEW j \in Key
      PROVE  /\ Listing(f[j])
             /\ \A i \in DOMAIN f[j] : ItemOK(f[j][i]) /\ f[j][i].id \in 1 .. m
  <2>1. CASE j = k
    BY <1>1, <1>2, <1>3, <1>4, <2>1 DEF Listing
  <2>2. CASE j # k
    BY <1>1, <1>4, <2>2 DEF EntriesOK
  <2> QED BY <2>1, <2>2
<1>6. \A i \in DOMAIN f[k] : f[k][i].id > n
  BY <1>1, <1>2, <1>3, <1>4
<1>7. ASSUME NEW a \in Key, NEW b \in Key, NEW i \in DOMAIN f[a], NEW x \in DOMAIN f[b],
             f[a][i].id = f[b][x].id
      PROVE  a = b /\ i = x
  <2>1. CASE a = k /\ b = k
    BY <1>1, <1>2, <1>3, <1>4, <1>7, <2>1
  <2>2. CASE a # k /\ b # k
    BY <1>4, <1>7, <2>2 DEF EntriesOK
  <2>3. ASSUME NEW c \in Key, c # k, NEW y \in DOMAIN f[c]
        PROVE  f[c][y].id <= n
    BY <1>1, <1>4, <2>3 DEF EntriesOK
  <2>4. f[a][i].id \in Int /\ f[b][x].id \in Int
    <3>1. f[a][i].id \in 1 .. m /\ f[b][x].id \in 1 .. m
      BY <1>5
    <3> QED BY <3>1
  <2>5. CASE a = k /\ b # k
    <3>1. f[a][i].id > n /\ f[b][x].id <= n
      BY <1>6, <2>3, <2>5
    <3> QED BY <1>1, <1>7, <2>4, <3>1
  <2>6. CASE a # k /\ b = k
    <3>1. f[b][x].id > n /\ f[a][i].id <= n
      BY <1>6, <2>3, <2>6
    <3> QED BY <1>1, <1>7, <2>4, <3>1
  <2> QED BY <2>1, <2>2, <2>5, <2>6
<1>8. EntriesOK(f, m)
  <2>1. m \in Nat
    BY <1>1
  <2> HIDE DEF m
  <2> QED BY <1>5, <1>7, <2>1 DEF EntriesOK
<1>9. \A j \in Key : j # k => Same(e[j], f[j])
  BY <1>4 DEF Same, Alike
<1> QED BY <1>1, <1>6, <1>8, <1>9 DEF Moved

-----------------------------------------------------------------------------
(* Steps *)

\* The records after a step that moves entries and gives one handler another record.
LEMMA HeldStays ==
  ASSUME ReviewInv, EntriesOK(entry', issued'), Moved(entry, issued, entry', issued'),
         \A q \in Handler : h'[q] = h[q] \/ HeldOK(h'[q], entry', issued')
  PROVE  \A q \in Handler : HeldOK(h'[q], entry', issued')
<1>1. \A snap : SeenOK(snap, entry, issued) => SeenOK(snap, entry', issued')
  BY SeenStays DEF ReviewInv
<1> QED BY <1>1 DEF ReviewInv, HeldOK

\* A handler's record in which it neither has loaded entries nor is about to accept.
Plain(r) == r.pc \notin {"match", "accept"}

LEMMA PlainStep ==
  ASSUME IInv, ReviewInv, NEW p \in Handler,
         \/ CreateAlias(p) \/ Approve(p) \/ List(p) \/ Fill(p) \/ ListOpen(p) \/ Apply(p)
         \/ PatchMfr(p) \/ UpdateLine(p) \/ Abort(p)
  PROVE  /\ UNCHANGED <<entry, issued, picked>>
         /\ \A q \in Handler : h'[q] = h[q] \/ Plain(h'[q])
<1> USE DEF Ask, Step, At
<1>1. UNCHANGED <<entry, issued, picked>>
  BY DEF CreateAlias, Approve, List, Fill, ListOpen, Apply, PatchMfr, UpdateLine, Abort
<1> SUFFICES \A q \in Handler : h'[q] = h[q] \/ Plain(h'[q])
  BY <1>1
<1>2. RecordOK(h[p])
  BY DEF IInv, Shapes
<1>3. ASSUME NEW rec, RecordOK(rec), Plain(rec), Become(p, rec)
      PROVE  \A q \in Handler : h'[q] = h[q] \/ Plain(h'[q])
  BY <1>3, BecomeKeeps DEF IInv
<1>4. CASE h' = h
  BY <1>4
<1>5. CASE Done(p)
  <2>1. RecordOK(Idle) /\ Plain(Idle)
    BY IdleOK DEF Idle, Plain
  <2> QED BY <1>3, <1>5, <2>1 DEF Done
<1>6. CASE Approve(p)
  <2>1. h' = h \/ \E m \in Mfr, c \in Canon :
                    Become(p, [Idle EXCEPT !.pc = "backfill", !.mfr = m, !.canon = c])
    BY <1>6 DEF Approve
  <2>2. ASSUME NEW m, NEW c
        PROVE  LET rec == [Idle EXCEPT !.pc = "backfill", !.mfr = m, !.canon = c]
               IN  RecordOK(rec) /\ Plain(rec)
    BY DEF Idle, RecordOK, Plain
  <2> QED BY <1>3, <1>4, <2>1, <2>2
<1>7. CASE List(p)
  <2> DEFINE todo == {<<l, h[p].mfr>> : l \in {k \in Line : line[k].mfr = h[p].mfr}}
  <2>1. Become(p, [h[p] EXCEPT !.pc = "fill", !.todo = todo])
    BY <1>7 DEF List
  <2> HIDE DEF todo
  <2>2. LET rec == [h[p] EXCEPT !.pc = "fill", !.todo = todo]
        IN  RecordOK(rec) /\ Plain(rec)
    BY <1>2 DEF RecordOK, Plain
  <2> QED BY <1>3, <2>1, <2>2
<1>8. CASE Fill(p) \/ Apply(p)
  <2>1. Done(p) \/ \E t \in h[p].todo : Become(p, [h[p] EXCEPT !.todo = @ \ {t}])
    BY <1>8 DEF Fill, Apply
  <2>2. h[p].pc \in {"fill", "apply"}
    BY <1>8 DEF Fill, Apply
  <2>3. ASSUME NEW t
        PROVE  LET rec == [h[p] EXCEPT !.todo = @ \ {t}]
               IN  RecordOK(rec) /\ Plain(rec)
    BY <1>2, <2>2 DEF RecordOK, Plain
  <2> QED BY <1>3, <1>5, <2>1, <2>3
<1>9. CASE ListOpen(p)
  <2> DEFINE todo == {<<l, line[l].mfr>> : l \in {k \in Line : line[k].canon = None}}
  <2>1. Become(p, [Idle EXCEPT !.pc = "apply", !.todo = todo])
    BY <1>9 DEF ListOpen
  <2> HIDE DEF todo
  <2>2. LET rec == [Idle EXCEPT !.pc = "apply", !.todo = todo]
        IN  RecordOK(rec) /\ Plain(rec)
    BY DEF Idle, RecordOK, Plain
  <2> QED BY <1>3, <2>1, <2>2
<1>10. CASE PatchMfr(p)
  <2>1. PICK l \in Line, m \in Mfr \cup {None} : \E c \in Answers(m) :
           Become(p, [Idle EXCEPT !.pc = "patch", !.l = l, !.mfr = m, !.canon = c])
    BY <1>10 DEF PatchMfr
  <2>2. PICK c \in Answers(m) :
           Become(p, [Idle EXCEPT !.pc = "patch", !.l = l, !.mfr = m, !.canon = c])
    BY <2>1
  <2>3. LET rec == [Idle EXCEPT !.pc = "patch", !.l = l, !.mfr = m, !.canon = c]
        IN  RecordOK(rec) /\ Plain(rec)
    BY DEF Idle, RecordOK, Plain
  <2> QED BY <1>3, <2>2, <2>3
<1>11. CASE CreateAlias(p) \/ UpdateLine(p) \/ Abort(p)
  BY <1>4, <1>5, <1>11 DEF CreateAlias, UpdateLine, Abort
<1> QED BY <1>1, <1>6, <1>7, <1>8, <1>9, <1>10, <1>11

\* A step that leaves the entries, and the choice that was made.
LEMMA PlainKeeps ==
  ASSUME ReviewInv, UNCHANGED <<entry, issued, picked>>,
         \A q \in Handler : h'[q] = h[q] \/ HeldOK(h'[q], entry, issued)
  PROVE  ReviewInv'
<1>1. issued \in Nat
  BY DEF ReviewInv, EntriesOK
<1>2. Moved(entry, issued, entry', issued') /\ EntriesOK(entry', issued')
  BY <1>1, SameIsMoved DEF ReviewInv
<1>3. \A q \in Handler : HeldOK(h'[q], entry', issued')
  BY <1>2, HeldStays
<1>4. ChosenIsAccepted'
  BY DEF ReviewInv, ChosenIsAccepted
<1> QED BY <1>2, <1>3, <1>4 DEF ReviewInv

\* A step that changes the entries.
LEMMA EntriesKeep ==
  ASSUME ReviewInv, EntriesOK(entry', issued'), Moved(entry, issued, entry', issued'),
         entry' = [k \in Key |-> entry'[k]], picked' = picked,
         \A q \in Handler : h'[q] = h[q] \/ HeldOK(h'[q], entry', issued')
  PROVE  ReviewInv'
<1>1. ChosenIsAccepted'
  BY DEF ReviewInv, ChosenIsAccepted
<1> QED BY <1>1, HeldStays DEF ReviewInv

LEMMA ReviewKeeps ==
  ASSUME ReviewInv, NEW id, NEW v \in {"accepted", "rejected"}, NEW c,
         v = "accepted" => c # None, Review(id, v, c), UNCHANGED <<issued, picked>>,
         \A q \in Handler : h'[q] = h[q] \/ Plain(h'[q])
  PROVE  ReviewInv'
<1>1. entry' = AfterReview(entry, id, v, c)
  BY DEF Review, AfterReview
<1>2. EntriesOK(entry, issued)
  BY DEF ReviewInv
<1>3. EntriesOK(entry', issued) /\ \A k \in Key : Same(entry[k], entry'[k])
  BY <1>1, <1>2, ReviewedEntries
<1>4. Moved(entry, issued, entry', issued')
  BY <1>2, <1>3 DEF Moved, EntriesOK
<1>5. entry' = [k \in Key |-> entry'[k]]
  BY <1>1 DEF AfterReview
<1> QED BY <1>3, <1>4, <1>5, EntriesKeep DEF HeldOK, Plain

LEMMA InitReview == Init => ReviewInv
<1> SUFFICES ASSUME Init PROVE ReviewInv
  OBVIOUS
<1>1. PICK m \in Mpn, p \in Platform, rows \in Rows \cup {<<>>} : \E found \in Lookups(rows) :
         /\ issued = Len(rows)
         /\ entry = [k \in Key |-> IF k = <<m, p>> THEN NewItems(rows, found, None, 0) ELSE <<>>]
  BY DEF Init
<1>2. PICK found \in Lookups(rows) :
         /\ issued = Len(rows)
         /\ entry = [k \in Key |-> IF k = <<m, p>> THEN NewItems(rows, found, None, 0) ELSE <<>>]
  BY <1>1
<1> DEFINE e == [k \in Key |-> <<>>]
<1>3. EntriesOK(e, 0) /\ e = [k \in Key |-> e[k]]
  <2>1. \A k \in Key : DOMAIN e[k] = 1 .. 0
    OBVIOUS
  <2>2. 1 .. 0 = {}
    OBVIOUS
  <2> HIDE DEF e
  <2>3. EntriesOK(e, 0)
    BY <2>1, <2>2 DEF EntriesOK, Listing
  <2> QED BY <2>3 DEF e
<1>4. rows \in Seq(DOMAIN Offer) /\ <<m, p>> \in Key
  <2>1. <<>> \in Seq(DOMAIN Offer)
    OBVIOUS
  <2>2. <<m, p>> \in Key
    BY DEF Key
  <2> QED BY <2>1, <2>2, CleaningAssumption
<1>5. entry = [e EXCEPT ![<<m, p>>] = NewItems(rows, found, None, 0)]
  BY <1>2
<1> HIDE DEF e
<1>6. EntriesOK(entry, 0 + Len(rows))
  BY <1>3, <1>4, <1>5, ReplacedEntries
<1>7. EntriesOK(entry, issued)
  <2>1. 0 + Len(rows) = Len(rows)
    BY <1>4
  <2> QED BY <1>2, <1>6, <2>1
<1>8. \A q \in Handler : HeldOK(h[q], entry, issued)
  BY DEF Init, HeldOK, Idle
<1>9. ChosenIsAccepted
  BY DEF Init, ChosenIsAccepted
<1>10. entry = [k \in Key |-> entry[k]]
  BY <1>2
<1> QED BY <1>7, <1>8, <1>9, <1>10 DEF ReviewInv

LEMMA ReplaceKeeps ==
  ASSUME IInv, ReviewInv, Crawl \/ ManualQuote
  PROVE  ReviewInv'
<1>1. PICK k \in Key, rows \in Rows \cup ManualRows, w \in Line \cup {None} : Replace(k, rows, w)
  <2>1. \A l \in Line : line[l].mpn \in Mpn
    BY DEF IInv, Shapes, RowOK
  <2> QED BY <2>1 DEF Crawl, ManualQuote, Key
<1>2. PICK found \in Lookups(rows) : entry' = [entry EXCEPT ![k] = NewItems(rows, found, w, issued)]
  BY <1>1 DEF Replace
<1>3. issued' = issued + Len(rows) /\ UNCHANGED <<h, picked>>
  BY <1>1 DEF Replace
<1>4. EntriesOK(entry, issued) /\ entry = [j \in Key |-> entry[j]] /\ rows \in Seq(DOMAIN Offer)
  BY CleaningAssumption DEF ReviewInv
<1>5. EntriesOK(entry', issued') /\ Moved(entry, issued, entry', issued')
  BY <1>2, <1>3, <1>4, ReplacedEntries
<1>6. entry' = [j \in Key |-> entry'[j]]
  BY <1>2, <1>4
<1> QED BY <1>3, <1>5, <1>6, EntriesKeep

\* The entries as they are now are as they are seen.
LEMMA LoadedIsSeen == ReviewInv => SeenOK(Snapshots, entry, issued)
<1> SUFFICES ASSUME ReviewInv, NEW k \in Key
             PROVE  ListOK(Items(Snapshots[k]), k, entry, issued)
  BY DEF SeenOK
<1>1. Items(Snapshots[k]) = <<>> \/ Items(Snapshots[k]) = entry[k]
  BY DEF Items, Snapshots
<1>2. CASE Items(Snapshots[k]) = entry[k]
  BY <1>2 DEF ReviewInv, EntriesOK, ListOK, ItemOK, Same, Alike
<1>3. CASE Items(Snapshots[k]) = <<>>
  <2>1. DOMAIN Items(Snapshots[k]) = {} /\ {} = 1 .. 0
    BY <1>3
  <2> HIDE <1>3
  <2> QED BY <2>1 DEF ListOK, Listing, Gone
<1> QED BY <1>1, <1>2, <1>3

LEMMA LoadKeeps ==
  ASSUME IInv, ReviewInv, NEW p \in Handler, LoadCache(p)
  PROVE  ReviewInv'
<1>1. PICK l \in Line :
         Become(p, [Idle EXCEPT !.pc = "match", !.l = l, !.row = line[l], !.snap = Snapshots])
  BY DEF LoadCache
<1> DEFINE rec == [Idle EXCEPT !.pc = "match", !.l = l, !.row = line[l], !.snap = Snapshots]
<1>2. RecordOK(rec) /\ rec.pc = "match" /\ rec.row = line[l] /\ rec.snap = Snapshots
  BY DEF Idle, RecordOK
<1> HIDE DEF rec
<1>3. h'[p] = rec /\ \A q \in Handler : q # p => h'[q] = h[q]
  BY <1>1, <1>2, BecomeKeeps DEF IInv, rec
<1>4. PartsOK(line[l])
  BY DEF IInv, Shapes, RowOK, PartsOK
<1>5. HeldOK(rec, entry, issued)
  BY <1>2, <1>4, LoadedIsSeen DEF HeldOK
<1>6. UNCHANGED <<entry, issued, picked>>
  BY DEF LoadCache
<1> QED BY <1>3, <1>5, <1>6, PlainKeeps

\* Acceptances for a maker that the request does not give.
LEMMA DefaultKeeps ==
  ASSUME IInv, ReviewInv, NEW p \in Handler, AcceptDefault(p) \/ LineDefault(p)
  PROVE  ReviewInv'
<1>1. UNCHANGED <<entry, issued, picked>>
  BY DEF AcceptDefault, LineDefault
<1>2. ASSUME NEW rec, RecordOK(rec), rec.pc \in {"lines", "accept"},
             rec.pc = "accept" => rec.canon # None,
             Become(p, rec)
      PROVE  ReviewInv'
  <2>1. h'[p] = rec /\ \A q \in Handler : q # p => h'[q] = h[q]
    BY <1>2, BecomeKeeps DEF IInv
  <2>2. HeldOK(rec, entry, issued)
    BY <1>2 DEF HeldOK
  <2> QED BY <1>1, <2>1, <2>2, PlainKeeps
<1>3. CASE AcceptDefault(p)
  <2>1. PICK id, own :
           Become(p, [Idle EXCEPT !.pc = IF own.canon # None THEN "accept" ELSE "lines",
                                  !.id = id, !.l = own.owner, !.canon = own.canon])
    BY <1>3 DEF AcceptDefault
  <2> DEFINE pc == IF own.canon # None THEN "accept" ELSE "lines"
             rec == [Idle EXCEPT !.pc = pc, !.id = id, !.l = own.owner, !.canon = own.canon]
  <2>2. RecordOK(rec) /\ rec.pc = pc /\ rec.canon = own.canon
    BY DEF Idle, RecordOK
  <2> HIDE DEF rec
  <2>3. Become(p, rec)
    BY <2>1 DEF rec
  <2> QED BY <1>2, <2>2, <2>3
<1>4. CASE LineDefault(p)
  <2> DEFINE c == line[h[p].l].canon
             rec == [h[p] EXCEPT !.pc = "accept", !.canon = c]
  <2>1. Done(p) \/ (c # None /\ Become(p, rec))
    BY <1>4 DEF LineDefault
  <2>2. RecordOK(h[p])
    BY DEF IInv, Shapes
  <2> HIDE DEF c
  <2>3. RecordOK(rec) /\ rec.pc = "accept" /\ rec.canon = c
    BY <2>2 DEF RecordOK
  <2> HIDE DEF rec
  <2>4. CASE Done(p)
    <3>1. h'[p] = Idle /\ \A q \in Handler : q # p => h'[q] = h[q]
      BY <2>4, IdleOK, BecomeKeeps DEF IInv, Done
    <3>2. HeldOK(Idle, entry, issued)
      BY DEF HeldOK, Idle
    <3> QED BY <1>1, <3>1, <3>2, PlainKeeps
  <2> QED BY <1>2, <2>1, <2>3, <2>4
<1> QED BY <1>3, <1>4

LEMMA ReviewsKeep ==
  ASSUME IInv, ReviewInv, NEW p \in Handler, Reject(p) \/ Accept(p) \/ AcceptLoaded(p)
  PROVE  ReviewInv'
<1>1. CASE Reject(p)
  <2>1. PICK id \in 1 .. issued : Review(id, "rejected", None)
    BY <1>1 DEF Reject
  <2> QED BY <1>1, <2>1, ReviewKeeps DEF Reject
<1>2. CASE Accept(p)
  <2>1. PICK id \in 1 .. issued, c \in Canon : Review(id, "accepted", c)
    BY <1>2 DEF Accept, Verdict
  <2>2. c # None
    BY CleaningAssumption
  <2> QED BY <1>2, <2>1, <2>2, ReviewKeeps DEF Accept
<1>3. CASE AcceptLoaded(p)
  <2>1. h[p].pc = "accept" /\ Review(h[p].id, "accepted", h[p].canon)
    BY <1>3 DEF AcceptLoaded, Verdict, Step, At
  <2>2. PICK id, c : id = h[p].id /\ c = h[p].canon
    OBVIOUS
  <2>3. c # None
    BY <2>1, <2>2 DEF ReviewInv, HeldOK
  <2>4. Review(id, "accepted", c)
    BY <2>1, <2>2 DEF Review
  <2>5. h'[p] = Idle /\ \A q \in Handler : q # p => h'[q] = h[q]
    BY <1>3, IdleOK, BecomeKeeps DEF IInv, Done, AcceptLoaded
  <2>6. \A q \in Handler : h'[q] = h[q] \/ Plain(h'[q])
    BY <2>5 DEF Plain, Idle
  <2> QED BY <1>3, <2>3, <2>4, <2>6, ReviewKeeps DEF AcceptLoaded
<1> QED BY <1>1, <1>2, <1>3

\* What is chosen is looked at when its entry is still there, as it was loaded.
LEMMA ChoiceIsAccepted ==
  ASSUME ReviewInv, NEW row, PartsOK(row), row.mfr # None, NEW snap, SeenOK(snap, entry, issued),
         NEW c \in MatchOneLineRead(row, snap, entry), NEW j \in Stored, j.id = c.quote.id
  PROVE  j.review = "accepted" /\ j.canon = DemandCanon(row)
<1>1. \A k \in Key : ListOK(Items(snap[k]), k, entry, issued)
  BY DEF SeenOK
<1>2. PICK k \in Key : \E i \in DOMAIN Items(snap[k]) :
         c.quote = Merged(Items(snap[k]), entry[k])[i] /\ MfrPasses(row, c.quote)
  BY <1>1, ChosenIsRow DEF ListOK, PartsOK
<1> DEFINE old == Items(snap[k])
           now == entry[k]
<1>3. PICK i \in DOMAIN old : c.quote = Merged(old, now)[i] /\ MfrPasses(row, c.quote)
  BY <1>2
<1> HIDE DEF old
<1>4. Listing(old) /\ QuoteOK(old[i]) /\ "id" \in DOMAIN old[i] /\ (Same(old, now) \/ Gone(old, entry))
  BY <1>1 DEF ListOK, old
<1>5. c.quote.id = old[i].id
  BY <1>3, <1>4, MergedId
<1>6. PICK x \in Key : \E y \in DOMAIN entry[x] : j = entry[x][y]
  BY DEF Stored, RangeOf
<1>7. PICK y \in DOMAIN entry[x] : j = entry[x][y]
  BY <1>6
<1>8. Same(old, now)
  BY <1>4, <1>5, <1>7 DEF Gone
<1>9. x = k /\ y = i
  BY <1>5, <1>7, <1>8 DEF Same, ReviewInv, EntriesOK
<1>10. j = now[i] /\ ItemOK(j)
  BY <1>7, <1>9 DEF ReviewInv, EntriesOK
<1>11. /\ c.quote.review = j.review
       /\ j.canon # None => c.quote.canon = j.canon
  <2> HIDE DEF now
  <2>1. /\ Merged(old, now)[i].review = now[i].review
        /\ now[i].canon # None => Merged(old, now)[i].canon = now[i].canon
    BY <1>4, <1>8, MergedReview
  <2> QED BY <1>3, <1>10, <2>1
<1>12. c.quote.review = "accepted" /\ c.quote.canon = DemandCanon(row)
  <2>1. j.review # None /\ None # "accepted"
    BY <1>10, CleaningAssumption DEF ItemOK
  <2> QED BY <1>3, <1>11, <2>1 DEF MfrPasses
<1> QED BY <1>10, <1>11, <1>12 DEF ItemOK

LEMMA MatchKeeps ==
  ASSUME IInv, ReviewInv, NEW p \in Handler, MatchLine(p)
  PROVE  ReviewInv'
<1>1. UNCHANGED <<entry, issued>> /\ h[p].pc = "match"
  BY DEF MatchLine, Step, At
<1>2. PICK row, snap : row = h[p].row /\ snap = h[p].snap
  OBVIOUS
<1>3. PartsOK(row) /\ SeenOK(snap, entry, issued)
  BY <1>1, <1>2 DEF ReviewInv, HeldOK
<1>4. h'[p] = Idle /\ \A q \in Handler : q # p => h'[q] = h[q]
  BY IdleOK, BecomeKeeps DEF IInv, MatchLine, Done
<1>5. \A q \in Handler : HeldOK(h'[q], entry', issued')
  <2>1. HeldOK(Idle, entry, issued)
    BY DEF HeldOK, Idle
  <2> QED BY <1>1, <1>4, <2>1 DEF ReviewInv
<1>6. ChosenIsAccepted'
  <2> DEFINE chosen == {c.quote.id : c \in MatchOneLineRead(row, snap, entry)}
             items == {[review |-> i.review, canon |-> i.canon] : i \in {j \in Stored : j.id \in chosen}}
  <2>1. \/ picked' = picked
        \/ picked' = [mfr |-> row.mfr, demand |-> DemandCanon(row), items |-> items]
    BY <1>2 DEF MatchLine
  <2>2. ASSUME row.mfr # None, NEW i \in items
        PROVE  i.review = "accepted" /\ i.canon = DemandCanon(row)
    <3>1. PICK j \in Stored : j.id \in chosen /\ i = [review |-> j.review, canon |-> j.canon]
      OBVIOUS
    <3>2. PICK c \in MatchOneLineRead(row, snap, entry) : j.id = c.quote.id
      BY <3>1
    <3>3. j.review = "accepted" /\ j.canon = DemandCanon(row)
      BY <1>3, <2>2, <3>2, ChoiceIsAccepted
    <3> QED BY <3>1, <3>3
  <2> HIDE DEF items
  <2>3. CASE picked' = picked
    BY <2>3 DEF ReviewInv, ChosenIsAccepted
  <2>4. CASE picked' = [mfr |-> row.mfr, demand |-> DemandCanon(row), items |-> items]
    BY <2>2, <2>4 DEF ChosenIsAccepted
  <2> QED BY <2>1, <2>3, <2>4
<1> QED BY <1>1, <1>5, <1>6 DEF ReviewInv

LEMMA ReviewNext == IInv /\ ReviewInv /\ [Next]_vars => ReviewInv'
<1> SUFFICES ASSUME IInv, ReviewInv, [Next]_vars
             PROVE  ReviewInv'
  OBVIOUS
<1>1. CASE UNCHANGED vars
  BY <1>1, PlainKeeps DEF vars
<1>2. ASSUME NEW p \in Handler,
             \/ CreateAlias(p) \/ Approve(p) \/ List(p) \/ Fill(p) \/ ListOpen(p) \/ Apply(p)
             \/ PatchMfr(p) \/ UpdateLine(p) \/ Abort(p)
      PROVE  ReviewInv'
  <2>1. /\ UNCHANGED <<entry, issued, picked>>
        /\ \A q \in Handler : h'[q] = h[q] \/ Plain(h'[q])
    BY <1>2, PlainStep
  <2> QED BY <2>1, PlainKeeps DEF Plain, HeldOK
<1> QED BY <1>1, <1>2, ReviewsKeep, DefaultKeeps, LoadKeeps, MatchKeeps, ReplaceKeeps DEF Next

\* A line that asks for a maker is matched to a quote only if its item is accepted for
\* it at that moment; whatever reviews and new results came after the rows were loaded.
THEOREM Accepted == Spec => []ChosenIsAccepted
<1>1. Init => IInv /\ ReviewInv
  BY InitIInv, InitReview
<1>2. (IInv /\ ReviewInv) /\ [Next]_vars => (IInv /\ ReviewInv)'
  BY NextKeeps, ReviewNext
<1>3. ReviewInv => ChosenIsAccepted
  BY DEF ReviewInv
<1> QED BY <1>1, <1>2, <1>3, PTL DEF Spec

-----------------------------------------------------------------------------
(* Rule B on rows whose review changes *)

RowsOK(rows) ==
    /\ IsFiniteSet(rows)
    /\ \A r \in rows : /\ r = [id |-> r.id, review |-> r.review, price |-> r.price]
                      /\ r.id \in Int /\ r.price \subseteq Int
    /\ \A r, s \in rows : r.id = s.id => r = s

SetS(rows) == {r \in rows : InS(r)}
Reviewed(r, v) == [id |-> r.id, review |-> v, price |-> r.price]
AfterVerdict(rows, r, v) == (rows \ {r}) \cup {Reviewed(r, v)}

LEMMA TopIsCheapest ==
  ASSUME NEW rows
  PROVE  TopK(rows) = {r \in SetS(rows) : Cardinality({s \in SetS(rows) : Before(s, r)}) < 3}
BY DEF TopK, Cheapest, SetS

\* Rows with a price are ordered by it, and by their ids.
LEMMA BeforeOrders ==
  ASSUME NEW rows, RowsOK(rows)
  PROVE  /\ \A a \in SetS(rows) : ~Before(a, a)
         /\ \A a, b, c \in SetS(rows) : Before(a, b) /\ Before(b, c) => Before(a, c)
         /\ \A a, b \in SetS(rows) : a # b => Before(a, b) \/ Before(b, a)
<1> DEFINE Price(r) == CHOOSE x \in r.price : TRUE
<1>1. \A r \in SetS(rows) : Price(r) \in Int /\ r.id \in Int /\ r \in rows
  BY DEF SetS, InS, RowsOK
<1>2. \A a, b : Before(a, b) <=> Price(a) < Price(b) \/ (Price(a) = Price(b) /\ a.id < b.id)
  BY DEF Before
<1>3. \A a, b \in SetS(rows) : a # b => a.id # b.id
  BY <1>1 DEF RowsOK
<1> HIDE DEF Price
<1> QED BY <1>1, <1>2, <1>3

\* A reviewed row stands where it stood.
LEMMA SamePlace ==
  \A r, v, s : /\ Before(s, Reviewed(r, v)) <=> Before(s, r)
               /\ Before(Reviewed(r, v), s) <=> Before(r, s)
BY DEF Before, Reviewed

LEMMA AfterRowsOK ==
  ASSUME NEW rows, RowsOK(rows), NEW r \in rows, NEW v
  PROVE  RowsOK(AfterVerdict(rows, r, v))
<1> DEFINE now == AfterVerdict(rows, r, v)
           x == Reviewed(r, v)
<1>1. IsFiniteSet(now)
  BY FS_RemoveElement, FS_AddElement DEF RowsOK, AfterVerdict
<1>2. /\ x = [id |-> x.id, review |-> x.review, price |-> x.price]
      /\ x.id = r.id /\ x.id \in Int /\ x.price \subseteq Int
  BY DEF RowsOK, Reviewed
<1>3. now = (rows \ {r}) \cup {x}
  BY DEF AfterVerdict
<1> HIDE DEF now, x
<1>4. \A s \in now : /\ s = [id |-> s.id, review |-> s.review, price |-> s.price]
                    /\ s.id \in Int /\ s.price \subseteq Int
  <2>1. \A s \in rows : /\ s = [id |-> s.id, review |-> s.review, price |-> s.price]
                       /\ s.id \in Int /\ s.price \subseteq Int
    BY DEF RowsOK
  <2> QED BY <1>2, <1>3, <2>1
<1>5. \A s, t \in now : s.id = t.id => s = t
  <2>1. \A s, t \in rows : s.id = t.id => s = t
    BY DEF RowsOK
  <2> QED BY <1>2, <1>3, <2>1
<1>6. RowsOK(now)
  BY <1>1, <1>4, <1>5 DEF RowsOK
<1> QED BY <1>6 DEF now

\* Some row is the cheapest.
LEMMA TopIsThere ==
  ASSUME NEW rows, RowsOK(rows), SetS(rows) # {}
  PROVE  TopK(rows) # {}
<1> DEFINE R == {e \in SetS(rows) \X SetS(rows) : Before(e[1], e[2])}
<1>1. IsFiniteSet(SetS(rows))
  BY FS_Subset DEF SetS, RowsOK
<1>2. \A a, b \in SetS(rows) : <<a, b>> \in R <=> Before(a, b)
  OBVIOUS
<1> HIDE DEF R
<1>3. PICK x \in SetS(rows) : \A y \in SetS(rows) : ~Before(y, x)
  <2>1. \A a \in SetS(rows) : <<a, a>> \notin R
    BY <1>2, BeforeOrders
  <2>2. \A a, b, c \in SetS(rows) : <<a, b>> \in R /\ <<b, c>> \in R => <<a, c>> \in R
    BY <1>2, BeforeOrders
  <2> QED BY <1>1, <1>2, <2>1, <2>2, FiniteLeast
<1>4. {s \in SetS(rows) : Before(s, x)} = {}
  BY <1>3
<1>5. Cardinality({s \in SetS(rows) : Before(s, x)}) < 3
  BY <1>4, FS_EmptySet
<1> QED BY <1>3, <1>5, TopIsCheapest

\* An acceptance leaves every row that was dearer than three others dearer than three.
LEMMA AcceptStands ==
  ASSUME NEW rows, RowsOK(rows), NEW r \in rows, RuleB(rows)
  PROVE  RuleB(AfterVerdict(rows, r, "accepted"))
<1> DEFINE x == Reviewed(r, "accepted")
           now == AfterVerdict(rows, r, "accepted")
           f == [s \in rows |-> IF s = r THEN x ELSE s]
<1>1. RowsOK(now)
  BY AfterRowsOK
<1>2. now = (rows \ {r}) \cup {x}
  BY DEF AfterVerdict
<1>3. x.id = r.id /\ x.review = "accepted" /\ x.price = r.price /\ (InS(r) => InS(x))
  BY DEF Reviewed, InS
<1>4. \A s : /\ Before(s, x) <=> Before(s, r)
             /\ Before(x, s) <=> Before(r, s)
  BY SamePlace
<1> HIDE DEF x, now
<1>5. \A s, t \in rows : f[s] = f[t] => s = t
  BY <1>3 DEF RowsOK
<1>6. \A s \in SetS(rows) : f[s] \in SetS(now)
  BY <1>2, <1>3 DEF SetS
<1>7. \A s \in rows : \A t : Before(s, t) => Before(f[s], t)
  BY <1>4
<1> HIDE DEF f
<1>8. ASSUME NEW t \in TopK(now)
      PROVE  t.review = "accepted"
  <2>1. CASE t = x
    BY <1>3, <2>1
  <2>2. CASE t # x
    <3> DEFINE old == {s \in SetS(rows) : Before(s, t)}
               new == {s \in SetS(now) : Before(s, t)}
    <3>1. t \in SetS(now) /\ Cardinality(new) < 3
      BY TopIsCheapest
    <3>2. t \in SetS(rows)
      BY <1>2, <2>2, <3>1 DEF SetS
    <3>3. IsFiniteSet(new) /\ IsFiniteSet(old)
      BY <1>1, FS_Subset DEF RowsOK, SetS
    <3> DEFINE g == [s \in old |-> f[s]]
    <3>4. g \in Injection(old, new)
      <4>1. \A s \in old : s \in rows /\ f[s] \in new
        BY <1>6, <1>7 DEF SetS
      <4> HIDE DEF old, new
      <4>2. g \in [old -> new] /\ \A a, b \in old : g[a] = g[b] => a = b
        BY <1>5, <4>1
      <4> QED BY <4>2 DEF Injection, IsInjective
    <3> HIDE DEF g, old, new
    <3>5. Cardinality(old) <= Cardinality(new)
      BY <3>3, <3>4, FS_Injection
    <3>6. Cardinality(old) \in Nat /\ Cardinality(new) \in Nat
      BY <3>3, FS_CardinalityType
    <3>7. Cardinality(old) < 3
      BY <3>1, <3>5, <3>6
    <3>8. t \in TopK(rows)
      BY <3>2, <3>7, TopIsCheapest DEF old
    <3> QED BY <3>8 DEF RuleB
  <2> QED BY <2>1, <2>2
<1>9. TopK(now) # {}
  <2>1. PICK t : t \in TopK(rows)
    BY DEF RuleB
  <2>2. t \in SetS(rows)
    BY <2>1, TopIsCheapest
  <2> QED BY <1>1, <1>6, <2>2, TopIsThere
<1> QED BY <1>8, <1>9 DEF RuleB, now

\* A rejection of a row that three others precede leaves the cheapest three.
LEMMA RejectStands ==
  ASSUME NEW rows, RowsOK(rows), NEW r \in rows, r \notin TopK(rows), RuleB(rows)
  PROVE  RuleB(AfterVerdict(rows, r, "rejected"))
<1> DEFINE x == Reviewed(r, "rejected")
           now == AfterVerdict(rows, r, "rejected")
<1>1. now = (rows \ {r}) \cup {x} /\ ~InS(x)
  BY DEF AfterVerdict, InS, Reviewed
<1>2. SetS(now) = SetS(rows) \ {r}
  BY <1>1 DEF SetS
<1> HIDE DEF now, x
<1>3. IsFiniteSet(SetS(rows))
  BY FS_Subset DEF SetS, RowsOK
<1>4. CASE r \notin SetS(rows)
  <2>1. SetS(now) = SetS(rows)
    BY <1>2, <1>4
  <2>2. TopK(now) = TopK(rows)
    BY <2>1, TopIsCheapest
  <2> QED BY <2>2 DEF RuleB, now
<1>5. CASE r \in SetS(rows)
  <2> DEFINE Old(t) == {s \in SetS(rows) : Before(s, t)}
             New(t) == {s \in SetS(now) : Before(s, t)}
  <2>1. ~(Cardinality(Old(r)) < 3)
    BY <1>5, TopIsCheapest
  <2>2. \A t : IsFiniteSet(Old(t)) /\ IsFiniteSet(New(t))
    BY <1>2, <1>3, FS_Subset
  <2>3. \A t : Cardinality(Old(t)) \in Nat /\ Cardinality(New(t)) \in Nat
    <3> HIDE DEF Old, New
    <3> QED BY <2>2, FS_CardinalityType
  <2>4. \A t \in SetS(rows) : Before(t, r) => New(t) = Old(t)
    BY <1>2, <1>5, BeforeOrders
  <2>5. \A t \in SetS(rows) : Before(r, t) => Old(r) \subseteq New(t)  /\ Old(r) \subseteq Old(t)
    BY <1>2, <1>5, BeforeOrders
  <2>6. \A t \in SetS(rows) : t # r => Before(t, r) \/ Before(r, t)
    BY <1>5, BeforeOrders
  <2> HIDE DEF Old, New
  <2>7. ASSUME NEW t \in SetS(rows), t # r
        PROVE  Cardinality(New(t)) < 3 <=> Cardinality(Old(t)) < 3
    <3>1. CASE Before(t, r)
      BY <2>4, <3>1
    <3>2. CASE Before(r, t)
      <4>1. Old(r) \in SUBSET New(t) /\ Old(r) \in SUBSET Old(t)
        BY <2>5, <3>2
      <4>2. Cardinality(Old(r)) <= Cardinality(New(t)) /\ Cardinality(Old(r)) <= Cardinality(Old(t))
        BY <2>2, <4>1, FS_Subset
      <4> QED BY <2>1, <2>3, <4>2
    <3> QED BY <2>6, <2>7, <3>1, <3>2
  <2>8. TopK(now) = TopK(rows)
    <3>1. TopK(now) = {t \in SetS(now) : Cardinality(New(t)) < 3}
      BY TopIsCheapest DEF New
    <3>2. TopK(rows) = {t \in SetS(rows) : Cardinality(Old(t)) < 3}
      BY TopIsCheapest DEF Old
    <3> QED BY <1>2, <2>1, <2>7, <3>1, <3>2
  <2> QED BY <2>8 DEF RuleB, now
<1> QED BY <1>4, <1>5

\* The items of some entries, and the rows of a line that asks for q pieces.
ItemsIn(e, K)    == UNION {RangeOf(e[k]) : k \in K}
RowOf(i, q)      == ReviewRow(i, q, i.id)
RowsFor(e, K, q) == {RowOf(i, q) : i \in ItemsIn(e, K)}

LEMMA ItemsInThem ==
  ASSUME NEW e, NEW K
  PROVE  /\ \A k \in K : \A i \in DOMAIN e[k] : e[k][i] \in ItemsIn(e, K)
         /\ \A x \in ItemsIn(e, K) : \E k \in K : \E i \in DOMAIN e[k] : x = e[k][i]
BY DEF ItemsIn, RangeOf

LEMMA RangeFinite ==
  ASSUME NEW s, IsFiniteSet(DOMAIN s)
  PROVE  IsFiniteSet(RangeOf(s))
<1> DEFINE f == [i \in DOMAIN s |-> s[i]]
<1>1. f \in Surjection(DOMAIN s, RangeOf(s))
  BY DEF Surjection, RangeOf
<1> QED BY <1>1, FS_Surjection

LEMMA RowsForOK ==
  ASSUME NEW e, NEW n, EntriesOK(e, n), NEW K \in SUBSET Key, IsFiniteSet(K), NEW q
  PROVE  RowsOK(RowsFor(e, K, q))
<1> DEFINE all == ItemsIn(e, K)
           f == [i \in all |-> RowOf(i, q)]
           lists == {RangeOf(e[k]) : k \in K}
           g == [k \in K |-> RangeOf(e[k])]
<1>2. IsFiniteSet(all)
  <2>1. g \in Surjection(K, lists)
    BY DEF Surjection
  <2>2. IsFiniteSet(lists)
    BY <2>1, FS_Surjection
  <2>3. \A k \in K : IsFiniteSet(RangeOf(e[k]))
    BY ListingFinite, RangeFinite DEF EntriesOK
  <2>4. \A L \in lists : IsFiniteSet(L)
    BY <2>3
  <2>5. all = UNION lists
    BY DEF ItemsIn
  <2> HIDE DEF lists, all
  <2> QED BY <2>2, <2>4, <2>5, FS_UNION
<1>3. IsFiniteSet(RowsFor(e, K, q))
  <2>1. f \in Surjection(all, RowsFor(e, K, q))
    <3> HIDE DEF all
    <3>1. RowsFor(e, K, q) = {RowOf(i, q) : i \in all}
      BY DEF RowsFor, all
    <3> QED BY <3>1 DEF Surjection
  <2> HIDE DEF f, all
  <2> QED BY <1>2, <2>1, FS_Surjection
<1>4. \A i \in all : ItemOK(i) /\ i.id \in 1 .. n
  BY ItemsInThem DEF EntriesOK
<1>5. \A i, j \in all : i.id = j.id => i = j
  <2> SUFFICES ASSUME NEW i \in all, NEW j \in all, i.id = j.id
               PROVE  i = j
    OBVIOUS
  <2>1. PICK a \in K : \E x \in DOMAIN e[a] : i = e[a][x]
    BY ItemsInThem
  <2>2. PICK b \in K : \E y \in DOMAIN e[b] : j = e[b][y]
    BY ItemsInThem
  <2> QED BY <2>1, <2>2 DEF EntriesOK
<1>6. ASSUME NEW i, ItemOK(i), i.id \in 1 .. n
      PROVE  LET r == RowOf(i, q)
             IN  /\ r = [id |-> r.id, review |-> r.review, price |-> r.price]
                 /\ r.id = i.id /\ r.id \in Int /\ r.price \subseteq Int
  <2>1. n \in Nat /\ i.id \in Int
    BY <1>6 DEF EntriesOK
  <2>2. BasePrice(i, IF q <= 0 THEN 1 ELSE q) \subseteq Int
    BY <1>6, PricesAreNumbers DEF ItemOK
  <2> QED BY <2>1, <2>2 DEF RowOf, ReviewRow
<1> HIDE DEF all
<1>7. \A r \in RowsFor(e, K, q) : \E i \in all : r = RowOf(i, q)
  BY DEF RowsFor, all
<1>8. \A r \in RowsFor(e, K, q) : /\ r = [id |-> r.id, review |-> r.review, price |-> r.price]
                                  /\ r.id \in Int /\ r.price \subseteq Int
  BY <1>4, <1>6, <1>7
<1>9. \A r, s \in RowsFor(e, K, q) : r.id = s.id => r = s
  BY <1>4, <1>5, <1>6, <1>7
<1> QED BY <1>3, <1>8, <1>9 DEF RowsOK

\* A review changes the review of one row at most.
ItemAfter(i, id, v, c) == IF i.id = id THEN [i EXCEPT !.review = v, !.canon = c] ELSE i

LEMMA PriceStays ==
  ASSUME NEW i, ItemOK(i), NEW q, NEW id, NEW v \in {"accepted", "rejected"}, NEW c
  PROVE  RowOf(ItemAfter(i, id, v, c), q) =
            IF i.id = id THEN Reviewed(RowOf(i, q), v) ELSE RowOf(i, q)
<1> DEFINE x == [i EXCEPT !.review = v, !.canon = c]
<1>1. QuoteColumns \subseteq DOMAIN i /\ "id" \in DOMAIN i
  BY DEF ItemOK, QuoteOK
<1>2. /\ x.review = v /\ x.id = i.id /\ x.moq = i.moq /\ x.stock = i.stock
      /\ x.mainland = i.mainland /\ x.hk = i.hk /\ x.tiers = i.tiers
  BY <1>1 DEF QuoteColumns
<1>3. v # None
  BY CleaningAssumption
<1>4. ItemAfter(i, id, v, c) = IF i.id = id THEN x ELSE i
  BY DEF ItemAfter
<1> HIDE DEF x
<1>5. \A k : BasePrice(x, k) = BasePrice(i, k)
  BY <1>2 DEF BasePrice, ComparePrice
<1>6. RowOf(x, q) = Reviewed(RowOf(i, q), v)
  BY <1>2, <1>3, <1>5 DEF RowOf, ReviewRow, Reviewed
<1> QED BY <1>4, <1>6

LEMMA RowsAfterReview ==
  ASSUME NEW e, NEW n, EntriesOK(e, n), NEW K \in SUBSET Key, IsFiniteSet(K), NEW q,
         NEW id, NEW v \in {"accepted", "rejected"}, NEW c
  PROVE  LET rows == RowsFor(e, K, q)
             now  == RowsFor(AfterReview(e, id, v, c), K, q)
         IN  now = rows \/ \E r \in rows : now = AfterVerdict(rows, r, v)
<1> DEFINE rows == RowsFor(e, K, q)
           f == AfterReview(e, id, v, c)
           now == RowsFor(f, K, q)
           After(r) == IF r.id = id THEN Reviewed(r, v) ELSE r
<1>1. \A k \in Key : DOMAIN f[k] = DOMAIN e[k] /\ \A i \in DOMAIN e[k] : f[k][i] = ItemAfter(e[k][i], id, v, c)
  BY DEF AfterReview, ItemAfter
<1> HIDE DEF f
<1>3. \A x : x \in ItemsIn(f, K) <=> \E i \in ItemsIn(e, K) : x = ItemAfter(i, id, v, c)
  BY <1>1, ItemsInThem
<1>4. \A i \in ItemsIn(e, K) : ItemOK(i)
  BY ItemsInThem DEF EntriesOK
<1>5. \A i \in ItemsIn(e, K) : RowOf(ItemAfter(i, id, v, c), q) = After(RowOf(i, q))
  <2>1. \A i : RowOf(i, q).id = i.id
    BY DEF RowOf, ReviewRow
  <2> SUFFICES ASSUME NEW i \in ItemsIn(e, K)
               PROVE  RowOf(ItemAfter(i, id, v, c), q) = After(RowOf(i, q))
    OBVIOUS
  <2>2. RowOf(ItemAfter(i, id, v, c), q) =
           IF i.id = id THEN Reviewed(RowOf(i, q), v) ELSE RowOf(i, q)
    BY <1>4, PriceStays
  <2> QED BY <2>1, <2>2
<1>6. RowsOK(rows)
  BY RowsForOK
<1>7. \A x : x \in now <=> \E r \in rows : x = After(r)
  <2>1. \A x : x \in now <=> \E i \in ItemsIn(f, K) : x = RowOf(i, q)
    BY DEF RowsFor
  <2>2. \A x : x \in rows <=> \E i \in ItemsIn(e, K) : x = RowOf(i, q)
    BY DEF RowsFor
  <2> HIDE DEF now, rows, After
  <2> QED BY <1>3, <1>5, <2>1, <2>2
<1> HIDE DEF now, rows
<1>8. CASE \A r \in rows : r.id # id
  <2>1. now = rows
    BY <1>7, <1>8
  <2> QED BY <2>1 DEF now, rows, f
<1>9. ASSUME NEW r \in rows, r.id = id
      PROVE  now = AfterVerdict(rows, r, v)
  <2>1. \A s \in rows : s.id = id => s = r
    BY <1>6, <1>9 DEF RowsOK
  <2> QED BY <1>7, <1>9, <2>1 DEF AfterVerdict
<1> QED BY <1>8, <1>9 DEF now, rows, f

KeysOf(m) == {m} \X Platform

LEMMA ReviewRowsAre ==
  ASSUME NEW l
  PROVE  /\ ReviewRows(l) = RowsFor(entry, KeysOf(line[l].mpn), line[l].qty)
         /\ ReviewRows(l)' = RowsFor(entry', KeysOf(line'[l].mpn), line'[l].qty)
BY DEF ReviewRows, RowsFor, RowOf, ItemsIn, KeysOf

LEMMA KeysFinite ==
  ASSUME NEW m \in Mpn
  PROVE  KeysOf(m) \in SUBSET Key /\ IsFiniteSet(KeysOf(m))
<1>1. IsFiniteSet({m} \X Platform)
  BY FS_Singleton, FS_Product, CleaningAssumption
<1> QED BY <1>1 DEF Key, KeysOf

\* Once rule B holds, a review undoes it only if it rejects one of the cheapest three.
LEMMA ReviewStands ==
  ASSUME NEW rows, RowsOK(rows), RuleB(rows), NEW now, NEW v \in {"accepted", "rejected"},
         now = rows \/ \E r \in rows : now = AfterVerdict(rows, r, v)
  PROVE  RuleB(now) \/ \E r \in TopK(rows) : [r EXCEPT !.review = "rejected"] \in now
<1>1. CASE now = rows
  BY <1>1
<1>2. ASSUME NEW r \in rows, now = AfterVerdict(rows, r, v)
      PROVE  RuleB(now) \/ \E s \in TopK(rows) : [s EXCEPT !.review = "rejected"] \in now
  <2>1. CASE v = "accepted"
    BY <1>2, <2>1, AcceptStands
  <2>2. CASE v = "rejected" /\ r \notin TopK(rows)
    BY <1>2, <2>2, RejectStands
  <2>3. CASE v = "rejected" /\ r \in TopK(rows)
    <3>1. r = [id |-> r.id, review |-> r.review, price |-> r.price]
      BY DEF RowsOK
    <3>2. [r EXCEPT !.review = "rejected"] = Reviewed(r, "rejected")
      BY <3>1 DEF Reviewed
    <3> QED BY <1>2, <2>3, <3>2 DEF AfterVerdict
  <2> QED BY <2>1, <2>2, <2>3
<1> QED BY <1>1, <1>2

\* A step that changes an entry without a new result is a review, of an item by its id.
LEMMA OnlyReviews ==
  ASSUME IInv, ReviewInv, stores \in Nat, Next, stores' = stores, entry' # entry
  PROVE  line' = line /\ \E id, c : \E v \in {"accepted", "rejected"} : entry' = AfterReview(entry, id, v, c)
<1>1. ~(Crawl \/ ManualQuote)
  <2>1. ASSUME Crawl \/ ManualQuote PROVE stores' = stores + 1
    BY <2>1 DEF Crawl, ManualQuote, Replace
  <2> QED BY <2>1
<1>2. PICK p \in Handler : Reject(p) \/ Accept(p) \/ AcceptLoaded(p)
  <2> USE DEF Ask, Step, At
  <2> QED BY <1>1 DEF Next, CreateAlias, Approve, List, Fill, ListOpen, Apply, PatchMfr, UpdateLine,
                      AcceptDefault, LineDefault, LoadCache, MatchLine, Abort
<1>3. line' = line
  BY <1>2 DEF Reject, Accept, AcceptLoaded
<1>4. \E id, c : \E v \in {"accepted", "rejected"} : Review(id, v, c)
  BY <1>2 DEF Reject, Accept, AcceptLoaded, Verdict
<1> QED BY <1>3, <1>4 DEF Review, AfterReview

LEMMA StandStep ==
  ASSUME IInv, ReviewInv, stores \in Nat, Next, stores' = stores, entry' # entry, NEW l \in Line,
         RuleB(ReviewRows(l))
  PROVE  \/ RuleB(ReviewRows(l)')
         \/ \E r \in TopK(ReviewRows(l)) : [r EXCEPT !.review = "rejected"] \in ReviewRows(l)'
<1>1. line' = line
  BY OnlyReviews
<1>2. PICK id, c : \E v \in {"accepted", "rejected"} : entry' = AfterReview(entry, id, v, c)
  BY OnlyReviews
<1>3. PICK v \in {"accepted", "rejected"} : entry' = AfterReview(entry, id, v, c)
  BY <1>2
<1>4. PICK e, n, K, q : e = entry /\ n = issued /\ K = KeysOf(line[l].mpn) /\ q = line[l].qty
  OBVIOUS
<1>5. line[l].mpn \in Mpn
  BY DEF IInv, Shapes, RowOK
<1>6. EntriesOK(e, n) /\ K \in SUBSET Key /\ IsFiniteSet(K)
  BY <1>4, <1>5, KeysFinite DEF ReviewInv
<1> DEFINE rows == RowsFor(e, K, q)
           now == RowsFor(AfterReview(e, id, v, c), K, q)
<1>7. ReviewRows(l) = rows /\ ReviewRows(l)' = now
  BY <1>1, <1>3, <1>4, ReviewRowsAre
<1>8. RowsOK(rows) /\ (now = rows \/ \E r \in rows : now = AfterVerdict(rows, r, v))
  BY <1>6, RowsForOK, RowsAfterReview
<1> HIDE DEF rows, now
<1> QED BY <1>7, <1>8, ReviewStands

\* Once the cheapest quotes of a line are all accepted, no acceptance of whatever quote
\* undoes that, nor does the rejection of a dearer one.
THEOREM RuleBKept == Spec => RuleBStands
<1> DEFINE Inv == IInv /\ ReviewInv /\ stores \in Nat
<1>1. Init => Inv
  <2>1. Init => stores \in Nat
    BY DEF Init
  <2> QED BY <2>1, InitIInv, InitReview
<1>2. Inv /\ [Next]_vars => Inv'
  <2> SUFFICES ASSUME Inv, [Next]_vars
               PROVE  (stores \in Nat)'
    BY NextKeeps, ReviewNext
  <2>1. stores' = stores \/ stores' = stores + 1
    <3> USE DEF Ask, Step, At
    <3> QED BY DEF Next, vars, CreateAlias, Approve, List, Fill, ListOpen, Apply, PatchMfr, UpdateLine,
                   Reject, Accept, AcceptDefault, LineDefault, AcceptLoaded, LoadCache, MatchLine, Abort,
                   Crawl, ManualQuote, Replace
  <2> QED BY <2>1
<1>3. Inv /\ [Next]_vars =>
        [stores' = stores =>
          \A l \in Line : \A now \in {ReviewRows(l)} :
              RuleB(now) =>
                  \/ RuleB(ReviewRows(l)')
                  \/ \E r \in TopK(now) : [r EXCEPT !.review = "rejected"] \in ReviewRows(l)']_entry
  BY StandStep DEF vars
<1> QED BY <1>1, <1>2, <1>3, PTL DEF Spec, RuleBStands
=============================================================================
