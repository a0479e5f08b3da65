------------------------- MODULE ResponseCacheProofs -------------------------
(***************************************************************************)
(* The response cache stays bounded, for any number of requests that store *)
(* at the same time, any limit, and any number of inserts and flushes.     *)
(*                                                                         *)
(* What a trim leaves behind depends on trims and flushes of the past.  Of *)
(* that past one number is enough, the mark: a row with a later number of  *)
(* the current count still has its writer ahead of its trim.  The mark     *)
(* moves to the counter when a writer finds the table within its limit,    *)
(* and to the number of a writer that trims, if that is later.             *)
(***************************************************************************)
EXTENDS ResponseCache, FiniteSetTheorems, TLAPS

Num    == IF counter = None THEN 0 ELSE counter
Window == (CacheMax * 3) \div 4

Drawn   == {w \in Writer : At(w, "drawn")}
Pending == {w \in Writer : At(w, "inserted") \/ At(w, "trimming")}

RowsOf(ws) == {writer[w].row : w \in ws}

(* The rows of the table and those a writer is about to insert.            *)
Live == rows \cup RowsOf(Drawn)

Current(r)  == r.count = count
Stale       == {r \in Live : ~Current(r)}
After(mark) == {r \in Live : Current(r) /\ r.seq > mark}
(* What the trim of the mark would have deleted, and so came after it.     *)
Late(mark)  == {r \in Live : Current(r) /\ r.seq < mark - Window}

(* Numbers are handed out in order, and every count began with none.       *)
CountInv ==
  /\ IsFiniteSet(rows)
  /\ \A r \in Live \cup RowsOf(Pending) :
       r.count <= count /\ (Current(r) => r.seq <= Num)
  /\ Writer = {} => counter = None

(* A flush leaves at most what each writer was about to insert.            *)
StaleInv == Cardinality(Stale) <= Cardinality(Writer)

(* The writer of a row with a number after the mark is yet to trim.        *)
Awaited(mark) == rows \cap After(mark) \subseteq RowsOf(Pending)

(* The mark is where a writer found the table within its limit ...         *)
Calm(mark) ==
  Cardinality(Live \ After(mark)) <= CacheMax + Cardinality(Writer) - 1

(* ... or the number with which one trimmed it.                            *)
Trimmed(mark) == Cardinality(Late(mark)) <= Cardinality(Writer) - 1

Mark(mark) == Awaited(mark) /\ (Calm(mark) \/ Trimmed(mark))

MarkInv == \E mark \in 0 .. Num : Mark(mark)

CacheInv == TypeOK /\ CountInv /\ StaleInv /\ MarkInv

------------------------------------------------------------------------------
(* Sets that are finite, and sizes that are numbers.                       *)
LEMMA Finite ==
  ASSUME CountInv
  PROVE  /\ IsFiniteSet(rows) /\ IsFiniteSet(RowsOf(Drawn)) /\ IsFiniteSet(Live)
         /\ IsFiniteSet(RowsOf(Pending))
         /\ Cardinality(RowsOf(Drawn)) <= Cardinality(Drawn)
         /\ Cardinality(RowsOf(Pending)) <= Cardinality(Pending)
         /\ Cardinality(Drawn) <= Cardinality(Writer)
         /\ Cardinality(Pending) <= Cardinality(Writer)
         /\ Cardinality(Drawn) \in Nat /\ Cardinality(Pending) \in Nat
         /\ Cardinality(Writer) \in Nat
<1>1. IsFiniteSet(rows) BY DEF CountInv
<1>2. IsFiniteSet(Writer) BY CacheAssumption
<1>3. /\ IsFiniteSet(Drawn) /\ Cardinality(Drawn) <= Cardinality(Writer)
      /\ IsFiniteSet(Pending) /\ Cardinality(Pending) <= Cardinality(Writer)
  <2>1. Drawn \subseteq Writer /\ Pending \subseteq Writer BY DEF Drawn, Pending
  <2>. QED BY <1>2, <2>1, FS_Subset
<1>4. \A ws : IsFiniteSet(ws) =>
        /\ IsFiniteSet(RowsOf(ws)) /\ Cardinality(RowsOf(ws)) <= Cardinality(ws)
  <2>. TAKE ws
  <2>. HAVE IsFiniteSet(ws)
  <2>. DEFINE f == [w \in ws |-> writer[w].row]
  <2>1. f \in Surjection(ws, RowsOf(ws)) BY DEF Surjection, RowsOf
  <2>. QED BY <2>1, FS_Surjection
<1>5. IsFiniteSet(Live) BY <1>1, <1>3, <1>4, FS_Union DEF Live
<1>. QED BY <1>1, <1>2, <1>3, <1>4, <1>5, FS_CardinalityType

(* A writer that does not draw leaves one writer fewer that has drawn.     *)
LEMMA OneAside ==
  ASSUME CountInv, NEW w \in Writer, ~At(w, "drawn")
  PROVE  Cardinality(RowsOf(Drawn)) <= Cardinality(Writer) - 1
<1>1. IsFiniteSet(Writer) BY CacheAssumption
<1>2. /\ IsFiniteSet(Writer \ {w})
      /\ Cardinality(Writer \ {w}) = Cardinality(Writer) - 1
  BY <1>1, FS_RemoveElement
<1>3. Drawn \subseteq Writer \ {w} BY DEF Drawn
<1>4. Cardinality(Drawn) <= Cardinality(Writer \ {w}) BY <1>2, <1>3, FS_Subset
<1>5. Cardinality(RowsOf(Drawn)) \in Nat BY Finite, FS_CardinalityType
<1>6. Cardinality(RowsOf(Drawn)) <= Cardinality(Drawn) /\ Cardinality(Drawn) \in Nat
  BY Finite
<1>7. Cardinality(Writer) \in Nat BY Finite
<1>. QED BY <1>2, <1>4, <1>5, <1>6, <1>7

(* Of a finite set a part is not larger.                                   *)
LEMMA Part ==
  ASSUME NEW S, NEW T, IsFiniteSet(T), S \subseteq T
  PROVE  /\ IsFiniteSet(S)
         /\ Cardinality(S) \in Nat /\ Cardinality(T) \in Nat
         /\ Cardinality(S) <= Cardinality(T)
BY FS_Subset, FS_CardinalityType

(* Two sets together are at most as large as both.                         *)
LEMMA Both ==
  ASSUME NEW S, NEW T, IsFiniteSet(S), IsFiniteSet(T)
  PROVE  /\ IsFiniteSet(S \cup T)
         /\ Cardinality(S) \in Nat /\ Cardinality(T) \in Nat
         /\ Cardinality(S \cup T) \in Nat
         /\ Cardinality(S \cup T) <= Cardinality(S) + Cardinality(T)
<1>1. /\ IsFiniteSet(S \cup T) /\ IsFiniteSet(S \cap T)
      /\ Cardinality(S \cup T)
           = Cardinality(S) + Cardinality(T) - Cardinality(S \cap T)
  BY FS_Union, FS_Intersection
<1>. QED BY <1>1, FS_CardinalityType

------------------------------------------------------------------------------
LEMMA TypeStep == TypeOK /\ [Next]_vars => TypeOK'
<1>. SUFFICES ASSUME TypeOK, [Next]_vars PROVE TypeOK' OBVIOUS
<1>. USE CacheAssumption
<1>1. ASSUME NEW w \in Writer, Draw(w) PROVE TypeOK'
  BY <1>1 DEF Draw, TypeOK, Row, At, Idle
<1>2. ASSUME NEW w \in Writer, Insert(w) PROVE TypeOK'
  <2>1. writer[w].row \in Row BY <1>2 DEF Insert, At, TypeOK, Idle
  <2>2. rows' \subseteq Row BY <1>2, <2>1 DEF Insert, TypeOK
  <2>. QED BY <1>2, <2>1, <2>2 DEF Insert, Goes, At, TypeOK, Idle
<1>3. ASSUME NEW w \in Writer, Measure(w) PROVE TypeOK'
  BY <1>3 DEF Measure, Goes, At, TypeOK, Idle
<1>4. ASSUME NEW w \in Writer, Trim(w) PROVE TypeOK'
  BY <1>4 DEF Trim, TypeOK, Idle
<1>5. CASE Flush BY <1>5 DEF Flush, TypeOK
<1>6. CASE FlushDataset BY <1>6 DEF FlushDataset, TypeOK
<1>7. CASE UNCHANGED vars BY <1>7 DEF vars, TypeOK
<1>. QED BY <1>1, <1>2, <1>3, <1>4, <1>5, <1>6, <1>7 DEF Next

(* THEOREM 1.  Every variable keeps a value of its kind.                   *)
THEOREM TypeCorrect == Spec => []TypeOK
<1>1. Init => TypeOK BY CacheAssumption DEF Init, TypeOK, Idle
<1>. QED BY <1>1, TypeStep, PTL DEF Spec

------------------------------------------------------------------------------
(* The size of a set of live rows does not grow when the set does not.     *)
LEMMA StaleShrinks ==
  ASSUME CountInv, StaleInv, Stale' \subseteq Stale
  PROVE  StaleInv'
<1>1. IsFiniteSet(Live) BY Finite
<1>2. Stale \subseteq Live BY DEF Stale
<1>3. IsFiniteSet(Stale) BY <1>1, <1>2, Part
<1>4. /\ Cardinality(Stale') \in Nat /\ Cardinality(Stale) \in Nat
      /\ Cardinality(Stale') <= Cardinality(Stale)
  BY <1>3, Part
<1>5. Cardinality(Writer) \in Nat BY Finite
<1>. QED BY <1>4, <1>5 DEF StaleInv

LEMMA CalmLasts ==
  ASSUME CountInv, NEW mark, Calm(mark),
         Live' \ After(mark)' \subseteq Live \ After(mark)
  PROVE  Calm(mark)'
<1>. DEFINE S == Live \ After(mark)
<1>. DEFINE T == Live' \ After(mark)'
<1>1. IsFiniteSet(Live) BY Finite
<1>2. IsFiniteSet(S) BY <1>1, Part
<1>3. T \subseteq S OBVIOUS
<1>4. /\ Cardinality(T) \in Nat /\ Cardinality(S) \in Nat
      /\ Cardinality(T) <= Cardinality(S)
  BY <1>2, <1>3, Part
<1>5. Cardinality(Writer) \in Nat BY Finite
<1>6. Cardinality(S) <= CacheMax + Cardinality(Writer) - 1 BY DEF Calm
<1>. HIDE DEF S, T
<1>7. Cardinality(T) <= CacheMax + Cardinality(Writer) - 1
  BY <1>4, <1>5, <1>6, CacheAssumption
<1>. QED BY <1>7 DEF Calm, T

LEMMA TrimmedLasts ==
  ASSUME CountInv, NEW mark, Trimmed(mark), Late(mark)' \subseteq Late(mark)
  PROVE  Trimmed(mark)'
<1>1. IsFiniteSet(Live) BY Finite
<1>2. Late(mark) \subseteq Live BY DEF Late
<1>3. IsFiniteSet(Late(mark)) BY <1>1, <1>2, Part
<1>4. /\ Cardinality(Late(mark)') \in Nat /\ Cardinality(Late(mark)) \in Nat
      /\ Cardinality(Late(mark)') <= Cardinality(Late(mark))
  BY <1>3, Part
<1>5. Cardinality(Writer) \in Nat BY Finite
<1>. QED BY <1>4, <1>5 DEF Trimmed

------------------------------------------------------------------------------
(* What each step of a writer does to the rows there are and to come.      *)
LEMMA Holds ==
  ASSUME TypeOK, NEW w \in Writer, ~At(w, "idle")
  PROVE  /\ writer[w].row \in Row
         /\ At(w, "drawn") \/ At(w, "inserted") \/ At(w, "trimming")
BY DEF TypeOK, At, Idle

LEMMA DrawMoves ==
  ASSUME TypeOK, NEW w \in Writer, Draw(w)
  PROVE  \E new \in Row :
           /\ new.seq = Num + 1 /\ new.count = count
           /\ rows' = rows /\ count' = count /\ counter' = Num + 1
           /\ Live' = Live \cup {new}
           /\ RowsOf(Pending)' = RowsOf(Pending)
<1>. DEFINE new == [seq |-> Num + 1, count |-> count]
<1>1. new \in Row /\ Num + 1 \in Nat \ {0}
  BY CacheAssumption DEF Draw, TypeOK, Row, Num
<1>2. /\ At(w, "idle") /\ rows' = rows /\ count' = count /\ counter' = Num + 1
      /\ writer' = [writer EXCEPT ![w] = [pc |-> "drawn", row |-> new]]
  BY CacheAssumption DEF Draw, TypeOK, Num
<1>3. /\ writer'[w] = [pc |-> "drawn", row |-> new]
      /\ \A x \in Writer : x # w => writer'[x] = writer[x]
  BY <1>2 DEF TypeOK
<1>. HIDE DEF new
<1>4. Drawn' = Drawn \cup {w} /\ w \notin Drawn BY <1>2, <1>3 DEF Drawn, At
<1>5. Pending' = Pending /\ w \notin Pending BY <1>2, <1>3 DEF Pending, At
<1>6. RowsOf(Drawn)' = RowsOf(Drawn) \cup {new}
  BY <1>3, <1>4 DEF RowsOf, Drawn
<1>7. RowsOf(Pending)' = RowsOf(Pending) BY <1>3, <1>5 DEF RowsOf, Pending
<1>8. Live' = Live \cup {new} BY <1>2, <1>6 DEF Live
<1>9. new.seq = Num + 1 /\ new.count = count BY DEF new
<1>. QED BY <1>1, <1>2, <1>7, <1>8, <1>9

LEMMA InsertMoves ==
  ASSUME TypeOK, NEW w \in Writer, Insert(w)
  PROVE  /\ ~At(w, "idle") /\ writer[w].row \in Live
         /\ count' = count /\ counter' = counter
         /\ rows' \subseteq rows \cup {writer[w].row}
         /\ Live' \subseteq Live
         /\ RowsOf(Pending)' = RowsOf(Pending) \cup {writer[w].row}
<1>1. /\ At(w, "drawn") /\ count' = count /\ counter' = counter
      /\ rows' \subseteq rows \cup {writer[w].row}
  BY DEF Insert
<1>2. /\ writer'[w].pc = "inserted" /\ writer'[w].row = writer[w].row
      /\ \A x \in Writer : x # w => writer'[x] = writer[x]
  BY <1>1, Holds DEF Insert, Goes, TypeOK, At, Idle
<1>3. Drawn' = Drawn \ {w} /\ w \in Drawn BY <1>1, <1>2 DEF Drawn, At
<1>4. Pending' = Pending \cup {w} /\ w \notin Pending BY <1>1, <1>2 DEF Pending, At
<1>5. RowsOf(Drawn)' \subseteq RowsOf(Drawn) BY <1>2, <1>3 DEF RowsOf, Drawn
<1>6. RowsOf(Pending)' = RowsOf(Pending) \cup {writer[w].row}
  BY <1>2, <1>4 DEF RowsOf, Pending
<1>7. writer[w].row \in RowsOf(Drawn) BY <1>3 DEF RowsOf
<1>8. Live' \subseteq Live BY <1>1, <1>5, <1>7 DEF Live
<1>. QED BY <1>1, <1>6, <1>7, <1>8 DEF At, Live

LEMMA MeasureMoves ==
  ASSUME TypeOK, NEW w \in Writer, Measure(w)
  PROVE  /\ At(w, "inserted") /\ count' = count /\ counter' = counter /\ rows' = rows
         /\ Live' = Live /\ RowsOf(Drawn)' = RowsOf(Drawn)
         /\ RowsOf(Pending)' \subseteq RowsOf(Pending)
         /\ Size > CacheMax => RowsOf(Pending)' = RowsOf(Pending)
<1>1. At(w, "inserted") /\ count' = count /\ counter' = counter /\ rows' = rows
  BY DEF Measure
<1>2. /\ writer'[w].pc \in {"idle", "trimming"}
      /\ \A x \in Writer : x # w => writer'[x] = writer[x]
      /\ Size > CacheMax => writer'[w].pc = "trimming"
      /\ writer'[w].pc = "trimming" => writer'[w].row = writer[w].row
  BY <1>1, Holds DEF Measure, Goes, TypeOK, At, Idle
<1>3. Drawn' = Drawn /\ w \notin Drawn BY <1>1, <1>2 DEF Drawn, At
<1>4. Pending' \subseteq Pending /\ (Size > CacheMax => Pending' = Pending)
  BY <1>1, <1>2 DEF Pending, At
<1>5. RowsOf(Drawn)' = RowsOf(Drawn) BY <1>2, <1>3 DEF RowsOf, Drawn
<1>6. \A x \in Pending' : writer'[x].row = writer[x].row
  BY <1>2 DEF Pending, At
<1>7. /\ RowsOf(Pending)' \subseteq RowsOf(Pending)
      /\ Size > CacheMax => RowsOf(Pending)' = RowsOf(Pending)
  BY <1>4, <1>6 DEF RowsOf
<1>. QED BY <1>1, <1>5, <1>7 DEF Live

LEMMA TrimMoves ==
  ASSUME TypeOK, NEW w \in Writer, Trim(w)
  PROVE  /\ At(w, "trimming") /\ count' = count /\ counter' = counter
         /\ rows' = rows \ TooOld(writer[w].row)
         /\ Live' \subseteq Live /\ RowsOf(Drawn)' = RowsOf(Drawn)
         /\ writer[w].row \in RowsOf(Pending)
         /\ RowsOf(Pending)' \subseteq RowsOf(Pending)
         /\ RowsOf(Pending) \subseteq RowsOf(Pending)' \cup {writer[w].row}
<1>1. /\ At(w, "trimming") /\ count' = count /\ counter' = counter
      /\ rows' = rows \ TooOld(writer[w].row)
  BY DEF Trim
<1>2. /\ writer'[w].pc = "idle"
      /\ \A x \in Writer : x # w => writer'[x] = writer[x]
  BY <1>1 DEF Trim, TypeOK, Idle
<1>3. Drawn' = Drawn /\ w \notin Drawn BY <1>1, <1>2 DEF Drawn, At
<1>4. Pending' = Pending \ {w} /\ w \in Pending BY <1>1, <1>2 DEF Pending, At
<1>5. RowsOf(Drawn)' = RowsOf(Drawn) BY <1>2, <1>3 DEF RowsOf, Drawn
<1>6. /\ RowsOf(Pending)' \subseteq RowsOf(Pending)
      /\ RowsOf(Pending) \subseteq RowsOf(Pending)' \cup {writer[w].row}
      /\ writer[w].row \in RowsOf(Pending)
  BY <1>2, <1>4 DEF RowsOf, Pending
<1>. QED BY <1>1, <1>5, <1>6 DEF Live

LEMMA LiveRows ==
  ASSUME TypeOK
  PROVE  /\ Live \subseteq Row /\ RowsOf(Pending) \subseteq Row
         /\ Num \in Nat /\ count \in Nat
<1>1. \A w \in Drawn \cup Pending : writer[w].row \in Row
  BY Holds DEF Drawn, Pending, At
<1>. QED BY <1>1, CacheAssumption DEF Live, RowsOf, TypeOK, Num

LEMMA FlushMoves ==
  ASSUME TypeOK, Flush
  PROVE  /\ rows' = {} /\ count' = count + 1 /\ counter' = None /\ Num' = 0
         /\ Live' = RowsOf(Drawn) /\ RowsOf(Drawn)' = RowsOf(Drawn)
         /\ RowsOf(Pending)' = RowsOf(Pending)
<1>1. /\ rows' = {} /\ count' = count + 1 /\ counter' = None /\ writer' = writer
  BY DEF Flush
<1>2. RowsOf(Drawn)' = RowsOf(Drawn) /\ RowsOf(Pending)' = RowsOf(Pending)
  BY <1>1 DEF RowsOf, Drawn, Pending, At
<1>. QED BY <1>1, <1>2 DEF Live, Num

LEMMA FlushDatasetMoves ==
  ASSUME TypeOK, FlushDataset \/ UNCHANGED vars
  PROVE  /\ rows' \subseteq rows /\ count' = count /\ counter' = counter
         /\ Live' \subseteq Live /\ RowsOf(Drawn)' = RowsOf(Drawn)
         /\ RowsOf(Pending)' = RowsOf(Pending)
<1>1. rows' \subseteq rows /\ count' = count /\ counter' = counter /\ writer' = writer
  BY DEF FlushDataset, vars
<1>2. RowsOf(Drawn)' = RowsOf(Drawn) /\ RowsOf(Pending)' = RowsOf(Pending)
  BY <1>1 DEF RowsOf, Drawn, Pending, At
<1>. QED BY <1>1, <1>2 DEF Live

------------------------------------------------------------------------------
(* Numbers stay in order.                                                  *)
LEMMA CountStep == TypeOK /\ CountInv /\ [Next]_vars => CountInv'
<1>. SUFFICES ASSUME TypeOK, CountInv, [Next]_vars PROVE CountInv' OBVIOUS
<1>. DEFINE All == Live \cup RowsOf(Pending)
<1>0. /\ IsFiniteSet(rows) /\ Num \in Nat /\ count \in Nat
      /\ \A r \in All : /\ r.count \in Nat /\ r.seq \in Nat
                        /\ r.count <= count /\ (Current(r) => r.seq <= Num)
  BY LiveRows, CacheAssumption DEF CountInv, Row
<1>1. ASSUME NEW w \in Writer, Draw(w) PROVE CountInv'
  <2>1. PICK new \in Row :
           /\ new.seq = Num + 1 /\ new.count = count
           /\ rows' = rows /\ count' = count /\ counter' = Num + 1
           /\ Live' = Live \cup {new}
           /\ RowsOf(Pending)' = RowsOf(Pending)
    BY <1>1, DrawMoves
  <2>2. Num' = Num + 1 BY <1>0, <2>1, CacheAssumption DEF Num
  <2>3. \A r \in All' : r.count <= count' /\ (Current(r)' => r.seq <= Num')
    BY <1>0, <2>1, <2>2 DEF Current
  <2>. QED BY <1>0, <1>1, <2>1, <2>3 DEF CountInv
<1>2. ASSUME NEW w \in Writer, Insert(w) PROVE CountInv'
  <2>1. /\ All' \subseteq All /\ count' = count /\ counter' = counter
        /\ rows' \subseteq rows \cup {writer[w].row}
    BY <1>2, InsertMoves
  <2>2. IsFiniteSet(rows') BY <1>0, <2>1, FS_AddElement, FS_Subset
  <2>3. Num' = Num BY <2>1 DEF Num
  <2>. QED BY <1>0, <1>2, <2>1, <2>2, <2>3 DEF CountInv, Current
<1>3. ASSUME /\ All' \subseteq All /\ count' = count /\ counter' = counter
             /\ rows' \subseteq rows
      PROVE  CountInv'
  <2>1. IsFiniteSet(rows') BY <1>0, <1>3, FS_Subset
  <2>2. Num' = Num BY <1>3 DEF Num
  <2>. QED BY <1>0, <1>3, <2>1, <2>2 DEF CountInv, Current
<1>4. ASSUME NEW w \in Writer, Measure(w) PROVE CountInv'
  <2>1. All' \subseteq All /\ count' = count /\ counter' = counter /\ rows' \subseteq rows
    BY <1>4, MeasureMoves
  <2>. QED BY <1>3, <2>1
<1>5. ASSUME NEW w \in Writer, Trim(w) PROVE CountInv'
  <2>1. All' \subseteq All /\ count' = count /\ counter' = counter /\ rows' \subseteq rows
    BY <1>5, TrimMoves
  <2>. QED BY <1>3, <2>1
<1>6. CASE Flush
  <2>1. /\ rows' = {} /\ count' = count + 1 /\ counter' = None
        /\ All' \subseteq All
    BY <1>6, FlushMoves DEF Live
  <2>2. IsFiniteSet(rows') BY <2>1, FS_EmptySet
  <2>3. \A r \in All' : r.count <= count' /\ ~Current(r)'
    BY <1>0, <2>1 DEF Current
  <2>. QED BY <2>1, <2>2, <2>3 DEF CountInv
<1>7. CASE FlushDataset \/ UNCHANGED vars
  <2>1. All' \subseteq All /\ count' = count /\ counter' = counter /\ rows' \subseteq rows
    BY <1>7, FlushDatasetMoves
  <2>. QED BY <1>3, <2>1
<1>. QED BY <1>1, <1>2, <1>4, <1>5, <1>6, <1>7 DEF Next

(* A flush makes rows stale that are to be inserted, no other step does.   *)
LEMMA StaleStep == TypeOK /\ CountInv /\ StaleInv /\ [Next]_vars => StaleInv'
<1>. SUFFICES ASSUME TypeOK, CountInv, StaleInv, [Next]_vars PROVE StaleInv' OBVIOUS
<1>1. ASSUME NEW w \in Writer, Draw(w) PROVE StaleInv'
  <2>1. PICK new \in Row : /\ new.count = count /\ count' = count
                           /\ Live' = Live \cup {new}
    BY <1>1, DrawMoves
  <2>2. Stale' \subseteq Stale BY <2>1 DEF Stale, Current
  <2>. QED BY <2>2, StaleShrinks
<1>2. ASSUME Live' \subseteq Live, count' = count PROVE StaleInv'
  <2>1. Stale' \subseteq Stale BY <1>2 DEF Stale, Current
  <2>. QED BY <2>1, StaleShrinks
<1>3. ASSUME NEW w \in Writer, Insert(w) \/ Measure(w) \/ Trim(w) PROVE StaleInv'
  <2>1. Live' \subseteq Live /\ count' = count
    BY <1>3, InsertMoves, MeasureMoves, TrimMoves
  <2>. QED BY <1>2, <2>1
<1>4. CASE Flush
  <2>1. Live' = RowsOf(Drawn) BY <1>4, FlushMoves
  <2>2. Stale' \subseteq RowsOf(Drawn) BY <2>1 DEF Stale
  <2>3. /\ Cardinality(Stale') <= Cardinality(RowsOf(Drawn))
        /\ Cardinality(Stale') \in Nat /\ Cardinality(RowsOf(Drawn)) \in Nat
    BY <2>2, Finite, Part
  <2>4. Cardinality(RowsOf(Drawn)) <= Cardinality(Writer)
    <3>1. /\ Cardinality(RowsOf(Drawn)) <= Cardinality(Drawn)
          /\ Cardinality(Drawn) <= Cardinality(Writer)
          /\ Cardinality(Drawn) \in Nat /\ Cardinality(Writer) \in Nat
      BY Finite
    <3>. QED BY <2>3, <3>1
  <2>5. Cardinality(Writer) \in Nat BY Finite
  <2>. QED BY <2>3, <2>4, <2>5 DEF StaleInv
<1>5. CASE FlushDataset \/ UNCHANGED vars
  <2>1. Live' \subseteq Live /\ count' = count BY <1>5, FlushDatasetMoves
  <2>. QED BY <1>2, <2>1
<1>. QED BY <1>1, <1>3, <1>4, <1>5 DEF Next

------------------------------------------------------------------------------
(* A mark lasts while rows only go, and those that stay are awaited.       *)
LEMMA MarkLasts ==
  ASSUME CountInv, NEW mark, Mark(mark), Awaited(mark)', count' = count,
         \A r \in Live' \ Live :
           Current(r) /\ r.seq > mark /\ ~(r.seq < mark - Window)
  PROVE  Mark(mark)'
<1>1. ASSUME Calm(mark) PROVE Calm(mark)'
  <2>1. Live' \ After(mark)' \subseteq Live \ After(mark)
    BY DEF After, Current
  <2>. QED BY <1>1, <2>1, CalmLasts
<1>2. ASSUME Trimmed(mark) PROVE Trimmed(mark)'
  <2>1. Late(mark)' \subseteq Late(mark) BY DEF Late, Current
  <2>. QED BY <1>2, <2>1, TrimmedLasts
<1>. QED BY <1>1, <1>2 DEF Mark

(* A writer that finds the table within its limit sets the mark.           *)
LEMMA MeasureCalms ==
  ASSUME TypeOK, CountInv, NEW w \in Writer, Measure(w), ~(Size > CacheMax)
  PROVE  Mark(Num)'
<1>1. /\ At(w, "inserted") /\ count' = count /\ counter' = counter /\ rows' = rows
      /\ Live' = Live /\ RowsOf(Drawn)' = RowsOf(Drawn)
  BY MeasureMoves
<1>2. Num' = Num BY <1>1 DEF Num
<1>3. After(Num)' = {}
  <2>1. \A r \in Live : Current(r)' => r.seq <= Num
    BY <1>1 DEF CountInv, Current
  <2>2. Live \subseteq Row /\ Num \in Nat BY LiveRows
  <2>3. \A r \in Live : ~(Current(r)' /\ r.seq > Num) BY <2>1, <2>2 DEF Row
  <2>. QED BY <1>1, <1>2, <2>3 DEF After
<1>4. Awaited(Num)' BY <1>3 DEF Awaited
<1>5. /\ Cardinality(rows) \in Nat /\ Cardinality(RowsOf(Drawn)) \in Nat
      /\ Cardinality(Live) \in Nat
      /\ Cardinality(Live) <= Cardinality(rows) + Cardinality(RowsOf(Drawn))
  BY Finite, Both DEF Live
<1>6. Cardinality(rows) <= CacheMax BY <1>5, CacheAssumption DEF Size
<1>7. /\ Cardinality(RowsOf(Drawn)) <= Cardinality(Writer) - 1
      /\ Cardinality(Writer) \in Nat
  BY <1>1, OneAside, Finite DEF At
<1>8. Cardinality(Live) <= CacheMax + Cardinality(Writer) - 1
  BY <1>5, <1>6, <1>7, CacheAssumption
<1>9. Live' \ After(Num)' = Live BY <1>1, <1>3
<1>10. Calm(Num)' BY <1>8, <1>9 DEF Calm
<1>. QED BY <1>4, <1>10 DEF Mark

(* So does a trim with a number after the mark.                            *)
LEMMA TrimMarks ==
  ASSUME TypeOK, CountInv, NEW w \in Writer, Trim(w), Current(writer[w].row),
         NEW mark \in Nat, Awaited(mark), NEW at, at = writer[w].row.seq, at > mark
  PROVE  Mark(at)'
<1>. DEFINE row == writer[w].row
<1>1. /\ At(w, "trimming") /\ count' = count /\ counter' = counter
      /\ rows' = rows \ TooOld(row)
      /\ Live' \subseteq Live /\ RowsOf(Drawn)' = RowsOf(Drawn)
      /\ row \in RowsOf(Pending)
      /\ RowsOf(Pending) \subseteq RowsOf(Pending)' \cup {row}
  BY TrimMoves
<1>2. row \in Row /\ at \in Nat /\ Live \subseteq Row BY <1>1, LiveRows DEF Row
<1>3. \A r \in Live : /\ r.seq \in Nat
                      /\ r.seq > at => r.seq > mark /\ r # row
  BY <1>2 DEF Row
<1>4. Awaited(at)'
  <2>. SUFFICES ASSUME NEW r \in rows', r \in After(at)' PROVE r \in RowsOf(Pending)'
    BY DEF Awaited
  <2>1. r \in Live /\ r \in rows /\ Current(r) /\ r.seq > at
    BY <1>1 DEF After, Current
  <2>2. r \in After(mark) /\ r # row BY <1>3, <2>1 DEF After
  <2>3. r \in RowsOf(Pending) BY <2>1, <2>2 DEF Awaited
  <2>. QED BY <1>1, <2>2, <2>3
<1>5. Late(at)' \subseteq RowsOf(Drawn)
  <2>. SUFFICES ASSUME NEW r \in Late(at)' PROVE r \in RowsOf(Drawn)
    OBVIOUS
  <2>1. r \in Live' /\ r.seq < at - Window BY DEF Late
  <2>2. r \notin rows' BY <1>1, <2>1 DEF TooOld, Window
  <2>. QED BY <1>1, <2>1, <2>2 DEF Live
<1>6. IsFiniteSet(RowsOf(Drawn)) /\ Cardinality(Writer) \in Nat BY Finite
<1>7. /\ Cardinality(Late(at)') \in Nat
      /\ Cardinality(Late(at)') <= Cardinality(RowsOf(Drawn))
      /\ Cardinality(RowsOf(Drawn)) \in Nat
  BY <1>5, <1>6, Part
<1>8. Cardinality(RowsOf(Drawn)) <= Cardinality(Writer) - 1
  BY <1>1, OneAside DEF At
<1>9. Cardinality(Late(at)') <= Cardinality(Writer) - 1 BY <1>6, <1>7, <1>8
<1>10. Trimmed(at)' BY <1>9 DEF Trimmed
<1>. QED BY <1>4, <1>10 DEF Mark

(* Every step leaves a mark.                                               *)
LEMMA MarkStep ==
  TypeOK /\ CountInv /\ MarkInv /\ CountInv' /\ [Next]_vars => MarkInv'
<1>. SUFFICES ASSUME TypeOK, CountInv, MarkInv, CountInv', [Next]_vars PROVE MarkInv'
  OBVIOUS
<1>. PICK mark \in 0 .. Num : Mark(mark) BY DEF MarkInv
<1>0. mark \in Nat /\ Num \in Nat /\ mark <= Num /\ Window \in Nat
  BY LiveRows, CacheAssumption DEF Window
<1>1. ASSUME NEW w \in Writer, Draw(w) PROVE MarkInv'
  <2>1. PICK new \in Row :
           /\ new.seq = Num + 1 /\ new.count = count
           /\ rows' = rows /\ count' = count /\ counter' = Num + 1
           /\ Live' = Live \cup {new}
           /\ RowsOf(Pending)' = RowsOf(Pending)
    BY <1>1, DrawMoves
  <2>2. Num' = Num + 1 BY <1>0, <2>1, CacheAssumption DEF Num
  <2>3. \A r \in Live' \ Live :
          Current(r) /\ r.seq > mark /\ ~(r.seq < mark - Window)
    BY <1>0, <2>1 DEF Current
  <2>4. rows' \cap After(mark)' \subseteq rows \cap After(mark)
    BY <2>1 DEF After, Current, Live
  <2>5. Awaited(mark)' BY <2>1, <2>4 DEF Awaited, Mark
  <2>6. Mark(mark)' BY <2>1, <2>3, <2>5, MarkLasts
  <2>. QED BY <1>0, <2>2, <2>6 DEF MarkInv
<1>2. ASSUME count' = count, counter' = counter, Live' \subseteq Live, Awaited(mark)'
      PROVE  MarkInv'
  <2>1. Mark(mark)' BY <1>2, MarkLasts
  <2>2. Num' = Num BY <1>2 DEF Num
  <2>. QED BY <2>1, <2>2 DEF MarkInv
<1>3. ASSUME NEW w \in Writer, Insert(w) PROVE MarkInv'
  <2>1. /\ count' = count /\ counter' = counter /\ Live' \subseteq Live
        /\ rows' \subseteq rows \cup {writer[w].row}
        /\ RowsOf(Pending)' = RowsOf(Pending) \cup {writer[w].row}
    BY <1>3, InsertMoves
  <2>2. Awaited(mark)' BY <2>1 DEF Awaited, Mark, After, Current
  <2>. QED BY <1>2, <2>1, <2>2
<1>4. ASSUME count' = count, counter' = counter, Live' \subseteq Live,
             rows' \subseteq rows, RowsOf(Pending)' = RowsOf(Pending)
      PROVE  MarkInv'
  <2>1. Awaited(mark)' BY <1>4 DEF Awaited, Mark, After, Current
  <2>. QED BY <1>2, <1>4, <2>1
<1>5. ASSUME NEW w \in Writer, Measure(w) PROVE MarkInv'
  <2>1. /\ count' = count /\ counter' = counter /\ Live' = Live /\ rows' = rows
        /\ Size > CacheMax => RowsOf(Pending)' = RowsOf(Pending)
    BY <1>5, MeasureMoves
  <2>2. CASE Size > CacheMax BY <1>4, <2>1, <2>2
  <2>3. CASE ~(Size > CacheMax)
    <3>1. Mark(Num)' BY <1>5, <2>3, MeasureCalms
    <3>2. Num' = Num BY <2>1 DEF Num
    <3>. QED BY <1>0, <3>1, <3>2 DEF MarkInv
  <2>. QED BY <2>2, <2>3
<1>6. ASSUME NEW w \in Writer, Trim(w) PROVE MarkInv'
  <2>1. /\ count' = count /\ counter' = counter /\ Live' \subseteq Live /\ rows' \subseteq rows
        /\ writer[w].row \in RowsOf(Pending)
        /\ RowsOf(Pending) \subseteq RowsOf(Pending)' \cup {writer[w].row}
    BY <1>6, TrimMoves
  <2>. PICK at : at = writer[w].row.seq OBVIOUS
  <2>2. at \in Nat BY <2>1, LiveRows DEF Row
  <2>3. CASE Current(writer[w].row) /\ at > mark
    <3>1. Mark(at)' BY <1>0, <1>6, <2>3, TrimMarks DEF Mark
    <3>2. Num' = Num /\ at <= Num BY <2>1, <2>3 DEF Num, CountInv
    <3>. QED BY <1>0, <2>2, <3>1, <3>2 DEF MarkInv
  <2>4. CASE ~(Current(writer[w].row) /\ at > mark)
    <3>1. writer[w].row \notin After(mark) BY <2>4 DEF After
    <3>2. Awaited(mark)' BY <2>1, <3>1 DEF Awaited, Mark, After, Current
    <3>. QED BY <1>2, <2>1, <3>2
  <2>. QED BY <2>3, <2>4
<1>7. CASE Flush
  <2>1. /\ rows' = {} /\ Num' = 0 /\ Live' = RowsOf(Drawn)
    BY <1>7, FlushMoves
  <2>2. Awaited(0)' BY <2>1 DEF Awaited
  <2>. PICK S : S = Live' \ After(0)' OBVIOUS
  <2>3. /\ Cardinality(S) \in Nat /\ Cardinality(RowsOf(Drawn)) \in Nat
        /\ Cardinality(S) <= Cardinality(RowsOf(Drawn))
    BY <2>1, Finite, Part
  <2>4. /\ Cardinality(RowsOf(Drawn)) <= Cardinality(Drawn)
        /\ Cardinality(Drawn) <= Cardinality(Writer)
        /\ Cardinality(Drawn) \in Nat /\ Cardinality(Writer) \in Nat
    BY Finite
  <2>5. Cardinality(S) <= CacheMax + Cardinality(Writer) - 1
    BY <2>3, <2>4, CacheAssumption
  <2>6. Calm(0)' BY <2>5 DEF Calm
  <2>. QED BY <2>1, <2>2, <2>6 DEF MarkInv, Mark
<1>8. CASE FlushDataset \/ UNCHANGED vars
  <2>1. /\ count' = count /\ counter' = counter /\ Live' \subseteq Live
        /\ rows' \subseteq rows /\ RowsOf(Pending)' = RowsOf(Pending)
    BY <1>8, FlushDatasetMoves
  <2>. QED BY <1>4, <2>1
<1>. QED BY <1>1, <1>3, <1>5, <1>6, <1>7, <1>8 DEF Next

LEMMA CacheStart == Init => CacheInv
<1>. SUFFICES ASSUME Init PROVE CacheInv OBVIOUS
<1>. USE CacheAssumption
<1>1. TypeOK BY DEF Init, TypeOK, Idle
<1>2. Drawn = {} /\ Pending = {} BY DEF Init, Drawn, Pending, At, Idle
<1>3. rows = {} /\ counter = None /\ Num = 0 BY DEF Init, Num
<1>4. Live = {} /\ RowsOf(Pending) = {} BY <1>2, <1>3 DEF Live, RowsOf
<1>5. IsFiniteSet({}) /\ Cardinality({}) = 0 /\ Cardinality(Writer) \in Nat
  BY FS_EmptySet, FS_CardinalityType
<1>6. CountInv BY <1>3, <1>4, <1>5 DEF CountInv
<1>7. Stale = {} /\ Live \ After(0) = {} BY <1>4 DEF Stale
<1>8. StaleInv BY <1>5, <1>7 DEF StaleInv
<1>9. Awaited(0) BY <1>3 DEF Awaited
<1>10. Calm(0) BY <1>5, <1>7 DEF Calm
<1>. QED BY <1>1, <1>3, <1>6, <1>8, <1>9, <1>10 DEF CacheInv, MarkInv, Mark

LEMMA CacheAlways == Spec => []CacheInv
<1>1. CacheInv /\ [Next]_vars => CacheInv'
  <2>. SUFFICES ASSUME CacheInv, [Next]_vars PROVE CacheInv' OBVIOUS
  <2>1. TypeOK /\ CountInv /\ StaleInv /\ MarkInv BY DEF CacheInv
  <2>2. TypeOK' BY <2>1, TypeStep
  <2>3. CountInv' BY <2>1, CountStep
  <2>4. StaleInv' BY <2>1, StaleStep
  <2>5. MarkInv' BY <2>1, <2>3, MarkStep
  <2>. QED BY <2>2, <2>3, <2>4, <2>5 DEF CacheInv
<1>. QED BY <1>1, CacheStart, PTL DEF Spec

------------------------------------------------------------------------------
(* What the invariant says of the size: stale rows, rows that are awaited, *)
(* and either what a writer found within the limit or, of a table that was *)
(* trimmed, the rows of the window and those that came late.               *)
LEMMA Sizes ==
  ASSUME CacheInv
  PROVE  /\ Cardinality(Writer) \in Nat /\ Cardinality(rows) \in Nat
         /\ \/ Cardinality(rows) <= CacheMax + 2 * Cardinality(Writer) - 1
            \/ /\ Cardinality(Writer) >= 1
               /\ Cardinality(rows) <= 3 * Cardinality(Writer) + Window
<1>. DEFINE W == Cardinality(Writer)
<1>1. TypeOK /\ CountInv /\ StaleInv BY DEF CacheInv
<1>2. PICK mark \in 0 .. Num : Mark(mark) BY DEF CacheInv, MarkInv
<1>3. /\ mark \in Nat /\ Window \in Nat /\ W \in Nat
  BY <1>1, <1>2, LiveRows, Finite, CacheAssumption DEF Window
<1>. DEFINE new == rows \cap After(mark)
<1>4. /\ IsFiniteSet(new) /\ Cardinality(new) \in Nat /\ Cardinality(new) <= W
  <2>1. new \subseteq RowsOf(Pending) BY <1>2 DEF Mark, Awaited
  <2>2. /\ IsFiniteSet(RowsOf(Pending)) /\ Cardinality(Pending) \in Nat
        /\ Cardinality(RowsOf(Pending)) <= Cardinality(Pending)
        /\ Cardinality(Pending) <= W
    BY <1>1, Finite
  <2>3. /\ IsFiniteSet(new) /\ Cardinality(new) \in Nat
        /\ Cardinality(RowsOf(Pending)) \in Nat
        /\ Cardinality(new) <= Cardinality(RowsOf(Pending))
    BY <2>1, <2>2, Part
  <2>. HIDE DEF new, W
  <2>. QED BY <1>3, <2>2, <2>3
<1>5. IsFiniteSet(Live) /\ rows \subseteq Live BY <1>1, Finite DEF Live
<1>. HIDE DEF new
<1>6. CASE Calm(mark)
  <2>. DEFINE old == Live \ After(mark)
  <2>1. /\ IsFiniteSet(old) /\ Cardinality(old) <= CacheMax + W - 1
        /\ rows \subseteq old \cup new
    BY <1>5, <1>6, Part DEF Calm, new
  <2>. HIDE DEF old
  <2>2. /\ Cardinality(old) \in Nat /\ IsFiniteSet(old \cup new)
        /\ Cardinality(old \cup new) \in Nat
        /\ Cardinality(old \cup new) <= Cardinality(old) + Cardinality(new)
    BY <1>4, <2>1, Both
  <2>3. /\ Cardinality(rows) \in Nat
        /\ Cardinality(rows) <= Cardinality(old \cup new)
    BY <2>1, <2>2, Part
  <2>. HIDE DEF W
  <2>4. Cardinality(rows) <= CacheMax + 2 * W - 1
    BY <1>3, <1>4, <2>1, <2>2, <2>3, CacheAssumption
  <2>. QED BY <1>3, <2>3, <2>4 DEF W
<1>7. CASE Trimmed(mark)
  <2>. DEFINE window == {r \in rows : Current(r) /\ r.seq \in (mark - Window) .. mark}
  <2>1. IsFiniteSet(window) /\ Cardinality(window) <= Window + 1
    <3>. DEFINE f == [n \in (mark - Window) .. mark |-> [seq |-> n, count |-> count]]
    <3>1. window \subseteq {f[n] : n \in (mark - Window) .. mark}
      <4>. SUFFICES ASSUME NEW r \in window
                    PROVE  \E n \in (mark - Window) .. mark : f[n] = r
        OBVIOUS
      <4>1. r \in Row BY <1>1 DEF TypeOK
      <4>2. r = [seq |-> r.seq, count |-> count] BY <4>1 DEF Row, Current
      <4>. QED BY <4>2
    <3>2. PICK S : S = (mark - Window) .. mark OBVIOUS
    <3>3. IsFiniteSet(S) /\ Cardinality(S) = Window + 1
      BY <1>3, <3>2, FS_Interval
    <3>. DEFINE T == {f[n] : n \in S}
    <3>4. f \in Surjection(S, T) BY <3>2 DEF Surjection
    <3>. HIDE DEF f
    <3>5. IsFiniteSet(T) /\ Cardinality(T) <= Cardinality(S) BY <3>3, <3>4, FS_Surjection
    <3>6. window \subseteq T BY <3>1, <3>2
    <3>. HIDE DEF T, window
    <3>7. /\ IsFiniteSet(window) /\ Cardinality(window) <= Cardinality(T)
          /\ Cardinality(window) \in Nat /\ Cardinality(T) \in Nat
      BY <3>5, <3>6, Part
    <3>. QED BY <1>3, <3>3, <3>5, <3>7
  <2>2. /\ IsFiniteSet(Stale) /\ Cardinality(Stale) \in Nat /\ Cardinality(Stale) <= W
    <3>1. Stale \subseteq Live BY DEF Stale
    <3>. QED BY <1>1, <1>5, <3>1, Part DEF StaleInv
  <2>3. /\ IsFiniteSet(Late(mark)) /\ Cardinality(Late(mark)) \in Nat
        /\ Cardinality(Late(mark)) <= W - 1
    <3>1. Late(mark) \subseteq Live BY DEF Late
    <3>. QED BY <1>5, <1>7, <3>1, Part DEF Trimmed
  <2>4. rows \subseteq (new \cup window) \cup (Stale \cup Late(mark))
    <3>. SUFFICES ASSUME NEW r \in rows, r \notin Stale, r \notin new, r \notin Late(mark)
                  PROVE  r \in window
      OBVIOUS
    <3>1. r \in Live /\ Current(r) /\ r.seq \in Int
      BY <1>1, <1>5 DEF Stale, TypeOK, Row
    <3>2. ~(r.seq > mark) /\ ~(r.seq < mark - Window)
      BY <3>1 DEF new, After, Late
    <3>. QED BY <1>3, <3>1, <3>2
  <2>. HIDE DEF window
  <2>5. /\ IsFiniteSet(new \cup window) /\ Cardinality(new \cup window) \in Nat
        /\ Cardinality(window) \in Nat
        /\ Cardinality(new \cup window) <= Cardinality(new) + Cardinality(window)
    BY <1>4, <2>1, Both
  <2>6. /\ IsFiniteSet(Stale \cup Late(mark)) /\ Cardinality(Stale \cup Late(mark)) \in Nat
        /\ Cardinality(Stale \cup Late(mark)) <= Cardinality(Stale) + Cardinality(Late(mark))
    BY <2>2, <2>3, Both
  <2>. DEFINE A == new \cup window
  <2>. DEFINE B == Stale \cup Late(mark)
  <2>7. /\ IsFiniteSet(A \cup B) /\ Cardinality(A \cup B) \in Nat
        /\ Cardinality(A \cup B) <= Cardinality(A) + Cardinality(B)
    BY <2>5, <2>6, Both
  <2>8. Cardinality(rows) \in Nat /\ Cardinality(rows) <= Cardinality(A \cup B)
    BY <2>4, <2>7, Part
  <2>9. /\ Cardinality(A) \in Nat /\ Cardinality(A) <= Cardinality(new) + Cardinality(window)
        /\ Cardinality(B) \in Nat
        /\ Cardinality(B) <= Cardinality(Stale) + Cardinality(Late(mark))
    BY <2>5, <2>6
  <2>. HIDE DEF W, A, B
  <2>10. W >= 1 /\ Cardinality(rows) <= 3 * W + Window
    BY <1>3, <1>4, <2>1, <2>2, <2>3, <2>5, <2>7, <2>8, <2>9
  <2>. QED BY <1>3, <2>8, <2>10 DEF W
<1>. QED BY <1>2, <1>6, <1>7 DEF Mark

(* THEOREM 2.  However inserts, measurements, trims and flushes interleave *)
(* (cache_put, trim_cache, flush_cache), the table has at most three rows  *)
(* per request that is storing more than a trim leaves, for every limit    *)
(* and any number of requests.                                             *)
THEOREM StaysBounded == Spec => []Bounded
<1>1. CacheInv => Bounded
  <2>. SUFFICES ASSUME CacheInv PROVE Bounded OBVIOUS
  <2>. PICK W : W = Cardinality(Writer) OBVIOUS
  <2>. PICK R : R = Cardinality(rows) OBVIOUS
  <2>1. /\ W \in Nat /\ R \in Nat /\ Window \in Nat
        /\ \/ R <= CacheMax + 2 * W - 1
           \/ W >= 1 /\ R <= 3 * W + Window
    BY Sizes, CacheAssumption DEF Window
  <2>2. Kept >= CacheMax /\ Kept >= Window + 2 /\ Kept \in Nat
    BY <2>1, CacheAssumption DEF Kept, Window
  <2>3. Size \in Nat /\ (W = 0 => Size = R) /\ Size <= R + 1
    <3>1. W = 0 => counter = None
      BY FS_EmptySet, CacheAssumption DEF CacheInv, CountInv
    <3>. QED BY <2>1, <3>1 DEF Size
  <2>4. Size < Kept + 3 * W BY <2>1, <2>2, <2>3, CacheAssumption
  <2>. QED BY <2>4 DEF Bounded
<1>. QED BY <1>1, CacheAlways, PTL
=============================================================================
