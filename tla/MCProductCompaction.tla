------------------------- MODULE MCProductCompaction -------------------------
(***************************************************************************)
(* Two small instances of ProductCompaction in one run; long says which    *)
(* one a behaviour is of.  The long one follows one compaction run and a   *)
(* report until segments expire and objects are fenced; the other has two  *)
(* runs that stall and take over from each other, and no report.           *)
(***************************************************************************)
EXTENDS ProductCompaction, TLC

CONSTANTS Rivals, Drafts  \* the compaction runs and merged ids of the other

VARIABLE long

Short == INSTANCE ProductCompaction WITH
  Merged <- Drafts, Compactor <- Rivals, Reader <- {},
  Flight <- 1, Candidate <- 3, Grace <- 3, Retry <- 1, Expiry <- 5,
  Day <- 1, SealLife <- 4, DayEnd <- 1, MaxTime <- 3

ASSUME ShortAssumption == Short!CompactionAssumption

MCInit == \/ long = TRUE /\ Init
          \/ long = FALSE /\ Short!Init
MCNext == /\ UNCHANGED long
          /\ \/ long /\ Next
             \/ ~long /\ Short!Next
MCSpec == MCInit /\ [][MCNext]_<<long, vars>>

MCSymmetry == Permutations(Raw) \union Permutations(Drafts)
                \union Permutations(Rivals)
-----------------------------------------------------------------------------
\* A run whose lease was taken over, or that stalled, never leaves the index
\* without the objects of its segments.
IndexIntact == IF long THEN IndexedIntact ELSE Short!IndexedIntact

\* Every stored object is indexed or on its way to the fence.
Leakless == IF long THEN NothingLeaks ELSE Short!NothingLeaks

\* A day is marked clean only when nothing was sealed into it meanwhile.
Complete == IF long THEN NoMissedSegment ELSE Short!NoMissedSegment

\* No event is in two active segments or in none before it expires.
Once == IF long THEN CountedOnce ELSE Short!CountedOnce

\* A report finds every object of its snapshot (the short one has no report).
Readable == long => SnapshotReadable
=============================================================================
