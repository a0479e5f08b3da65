---------------------------- MODULE ResponseCache ----------------------------
(* How the response cache stays bounded.  Requests insert into one ETS     *)
(* table and trim it themselves: each draws a number from a counter that   *)
(* is a row of the table, inserts its rows under that number, and, finding *)
(* the table too large, deletes what has a number well below its own.      *)
(* A reload empties the whole table, the counter's row included, so that   *)
(* numbers start again while writers hold some of the earlier count.       *)
(*                                                                         *)
(* What a row answers is left out (ServePath lets any row be evicted at an *)
(* insert); a row is its number, and the count that number belongs to,     *)
(* which the code does not know.                                           *)
EXTENDS Integers, FiniteSets

CONSTANTS
  Writer,    (* requests that store their answer                           *)
  CacheMax,  (* cache_max_entries                                          *)
  MaxSeq,    (* bounds the counter                                         *)
  MaxFlush,  (* bounds the flushes of the whole table                      *)
  None

ASSUME CacheAssumption ==
  /\ CacheMax \in Nat \ {0} /\ MaxSeq \in Nat \ {0} /\ MaxFlush \in Nat /\ None \notin Nat
  /\ IsFiniteSet(Writer)

VARIABLES
  counter,   (* the row under @cache_seq_key, None while there is none     *)
  rows,      (* the other rows                                             *)
  count,     (* ghost: how often the counter was deleted                   *)
  writer     (* where each writer is in cache_put                          *)

vars == <<counter, rows, count, writer>>

Row  == [seq : 1 .. MaxSeq, count : 0 .. MaxFlush]
Idle == [pc |-> "idle", row |-> None]

At(w, pc) == writer[w].pc = pc
Goes(w, pc) == writer' = [writer EXCEPT ![w].pc = pc]

Size == Cardinality(rows) + (IF counter = None THEN 0 ELSE 1)

(* Rows that are too old for the writer of this one.                       *)
TooOld(row) == {r \in rows : r.seq < row.seq - (CacheMax * 3) \div 4}

------------------------------------------------------------------------------
(* Mutant: the first number is that of the missing row.                    *)
DrawFromZero(w) ==
  /\ At(w, "idle") /\ counter # MaxSeq
  /\ LET seq == IF counter = None THEN 0 ELSE counter + 1
     IN  /\ counter' = seq
         /\ writer' = [writer EXCEPT ![w] =
              [pc |-> "drawn", row |-> [seq |-> seq, count |-> count]]]
  /\ UNCHANGED <<rows, count>>

(* :ets.update_counter, which puts a missing row back.                     *)
Draw(w) ==
  /\ At(w, "idle") /\ counter # MaxSeq
  /\ LET seq == IF counter = None THEN 1 ELSE counter + 1
     IN  /\ counter' = seq
         /\ writer' = [writer EXCEPT ![w] =
              [pc |-> "drawn", row |-> [seq |-> seq, count |-> count]]]
  /\ UNCHANGED <<rows, count>>

(* :ets.insert, of a key the table does not have or in place of a row.     *)
Insert(w) ==
  /\ At(w, "drawn")
  /\ \E old \in {{}} \cup {{r} : r \in rows} :
       rows' = (rows \ old) \cup {writer[w].row}
  /\ Goes(w, "inserted")
  /\ UNCHANGED <<counter, count>>

(* Mutant: only the writer that exceeds the limit by one trims.            *)
MeasureExactly(w) ==
  /\ At(w, "inserted")
  /\ IF Size = CacheMax + 1 THEN Goes(w, "trimming")
                            ELSE writer' = [writer EXCEPT ![w] = Idle]
  /\ UNCHANGED <<counter, rows, count>>

(* :ets.info(table, :size) > max                                           *)
Measure(w) ==
  /\ At(w, "inserted")
  /\ IF Size > CacheMax THEN Goes(w, "trimming")
                        ELSE writer' = [writer EXCEPT ![w] = Idle]
  /\ UNCHANGED <<counter, rows, count>>

(* :ets.select_delete                                                      *)
Trim(w) ==
  /\ At(w, "trimming")
  /\ rows' = rows \ TooOld(writer[w].row)
  /\ writer' = [writer EXCEPT ![w] = Idle]
  /\ UNCHANGED <<counter, count>>

(* flush_cache                                                             *)
Flush ==
  /\ count < MaxFlush
  /\ rows' = {} /\ counter' = None /\ count' = count + 1
  /\ UNCHANGED writer

(* flush_dataset_cache: the rows of one dataset.                           *)
FlushDataset ==
  /\ \E kept \in SUBSET rows : rows' = kept
  /\ UNCHANGED <<counter, count, writer>>

Init ==
  /\ counter = None /\ rows = {} /\ count = 0
  /\ writer = [w \in Writer |-> Idle]

Next ==
  \/ \E w \in Writer : Draw(w) \/ Insert(w) \/ Measure(w) \/ Trim(w)
  \/ Flush \/ FlushDataset

Spec == Init /\ [][Next]_vars

------------------------------------------------------------------------------
(* Every variable holds a value of its kind.                               *)
TypeOK ==
  /\ counter \in 1 .. MaxSeq \cup {None}
  /\ rows \subseteq Row
  /\ count \in 0 .. MaxFlush
  /\ writer \in [Writer -> {Idle} \cup
       [pc : {"drawn", "inserted", "trimming"}, row : Row]]

(* The size a trim leaves behind, or that no trim is made for.             *)
Kept == LET newest == (CacheMax * 3) \div 4 + 2
        IN  IF newest < CacheMax THEN CacheMax ELSE newest

(* The cache stays within its limit but for a few rows per request that is *)
(* storing, however inserts, measurements, trims and flushes interleave: a *)
(* row may come late for a trim, wait for its own, or carry a number of a  *)
(* count that a flush ended ("keep the table bounded", cache_put).         *)
Bounded == Size < Kept + 3 * Cardinality(Writer)
==============================================================================
