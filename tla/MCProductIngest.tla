--------------------------- MODULE MCProductIngest ---------------------------
(***************************************************************************)
(* Small instances of ProductIngest.                                       *)
(***************************************************************************)
EXTENDS ProductIngest, TLC

CONSTANTS i1, i2, e1, e2, f2

(* Three canonical events over two ids: e2 and f2 are versions of one id.  *)
MCIdOf(e) == IF e = e1 THEN i1 ELSE i2

(* The later version happens a day after the other events.                 *)
MCOccurredAt(e) == IF e = f2 THEN 1 ELSE 0

(* A batch, its subset rebatched, and one with a conflicting version.      *)
MCInput == {{e1}, {e1, e2}, {f2}}

(* Two batches that overlap in one event.                                  *)
MCOverlap == {{e1}, {e1, e2}}

MCSymmetry == Permutations(Worker) \union Permutations(Reservation)
                \union Permutations(BatchId) \union Permutations(Cleaner)
=============================================================================
