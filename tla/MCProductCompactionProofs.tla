----------------------- MODULE MCProductCompactionProofs -----------------------
(***************************************************************************)
(* The properties that the composed specification of MCProductCompaction   *)
(* states of both its instances.  Everything about the component is in     *)
(* ProductCompactionProofs; what remains is that the short instance, as    *)
(* MCProductCompaction names it, is the instance P of the module with the  *)
(* proofs: each operator of the two is the same, one lemma for each.       *)
(***************************************************************************)
EXTENDS MCProductCompaction, ProductCompactionProofs

P == INSTANCE ProductCompactionProofs WITH
  Merged <- Drafts, Compactor <- Rivals, Reader <- {},
  Flight <- 1, Candidate <- 3, Grace <- 3, Retry <- 1, Expiry <- 5,
  Day <- 1, SealLife <- 4, DayEnd <- 1, MaxTime <- 3

LEMMA Assumed == P!CompactionAssumption
  BY ShortAssumption, Zenon DEF Short!CompactionAssumption, P!CompactionAssumption

LEMMA SameCard == \A S : Short!Cardinality(S) = P!Cardinality(S)
  BY Zenon DEF Short!Cardinality, P!Cardinality

LEMMA SameInit == Short!Init <=> P!Init
  BY Zenon DEF
    Short!Init, P!Init, Short!Segment, P!Segment, Short!NoSegment,
    P!NoSegment, Short!NoObject, P!NoObject, Short!IdleCompactor,
    P!IdleCompactor, Short!IdleReader, P!IdleReader

LEMMA SameEligible == Short!Eligible = P!Eligible /\ (Short!Old <=> P!Old) /\ Short!Segment = P!Segment
  BY Zenon DEF
    Short!Eligible, P!Eligible, Short!Segment, P!Segment, Short!Active,
    P!Active, Short!Unexpired, P!Unexpired, Short!Old, P!Old

LEMMA SameSelectable == \A rows : Short!Selectable(rows) <=> P!Selectable(rows)
  BY SameEligible, SameCard, Zenon DEF
    Short!Selectable, P!Selectable, Short!SpanBounded, P!SpanBounded

LEMMA SameSelect == \A c : Short!Select(c) <=> P!Select(c)
  BY SameEligible, SameSelectable, Zenon DEF
    Short!Select, P!Select, Short!Active, P!Active

LEMMA SameClaim == \A c : Short!Claim(c) <=> P!Claim(c)
  BY Zenon DEF
    Short!Claim, P!Claim, Short!Ready, P!Ready, Short!Old, P!Old,
    Short!IdleCompactor, P!IdleCompactor

LEMMA SameClean == \A c : Short!Clean(c) <=> P!Clean(c)
  BY Zenon DEF
    Short!Clean, P!Clean, Short!MarkClean, P!MarkClean, Short!Old, P!Old

LEMMA SameReadSources == \A c : Short!ReadSources(c) <=> P!ReadSources(c)
  BY Zenon DEF
    Short!ReadSources, P!ReadSources, Short!Body, P!Body

LEMMA SameTrackCandidate == \A c : Short!TrackCandidate(c) <=> P!TrackCandidate(c)
  BY Zenon DEF
    Short!TrackCandidate, P!TrackCandidate, Short!NoObject, P!NoObject,
    Short!CandidateGc, P!CandidateGc

LEMMA SameStoreCandidate == \A c : Short!StoreCandidate(c) <=> P!StoreCandidate(c)
  BY Zenon DEF
    Short!StoreCandidate, P!StoreCandidate, Short!NoObject, P!NoObject,
    Short!Body, P!Body, Short!MergedEvents, P!MergedEvents

LEMMA SameBind == \A c : Short!Bind(c) <=> P!Bind(c)
  BY Zenon DEF
    Short!Bind, P!Bind

LEMMA SamePublish == \A c : Short!Publish(c) <=> P!Publish(c)
  BY Zenon DEF
    Short!Publish, P!Publish, Short!LeaseHeld, P!LeaseHeld,
    Short!SourcesActive, P!SourcesActive, Short!Active, P!Active,
    Short!Segment, P!Segment, Short!MergedSegment, P!MergedSegment,
    Short!MinOf, P!MinOf, Short!MaxOf, P!MaxOf, Short!MergedEvents,
    P!MergedEvents, Short!GcAfterPublish, P!GcAfterPublish, Short!Collect,
    P!Collect, Short!SourceGc, P!SourceGc, Short!Dirtied, P!Dirtied

LEMMA SameFail == \A c : Short!Fail(c) <=> P!Fail(c)
  BY Zenon DEF
    Short!Fail, P!Fail

LEMMA SameRelease == \A c : Short!Release(c) <=> P!Release(c)
  BY Zenon DEF
    Short!Release, P!Release, Short!Released, P!Released,
    Short!IdleCompactor, P!IdleCompactor

LEMMA SameThrow == \A c : Short!Throw(c) <=> P!Throw(c)
  BY Zenon DEF
    Short!Throw, P!Throw

LEMMA SameDie == \A c : Short!Die(c) <=> P!Die(c)
  BY Zenon DEF
    Short!Die, P!Die, Short!IdleCompactor, P!IdleCompactor

LEMMA SameCompact == \A c : Short!Compact(c) <=> P!Compact(c)
  BY SameSelect, SameClaim, SameClean, SameReadSources, SameTrackCandidate, SameStoreCandidate, SameBind, SamePublish, SameFail, SameRelease, SameThrow, SameDie, Zenon DEF
    Short!Compact, P!Compact

LEMMA SameNext == Short!Next <=> P!Next
  BY SameCompact, Zenon DEF
    Short!Next, P!Next, Short!Cleanup, P!Cleanup, Short!Seal, P!Seal,
    Short!NoObject, P!NoObject, Short!Body, P!Body, Short!Dirtied, P!Dirtied,
    Short!Reseal, P!Reseal, Short!Resealable, P!Resealable, Short!RetireRaw,
    P!RetireRaw, Short!Collect, P!Collect, Short!CleanupSegment,
    P!CleanupSegment, Short!Active, P!Active, Short!Unexpired, P!Unexpired,
    Short!PickGarbage, P!PickGarbage, Short!Fence, P!Fence, Short!Snapshot,
    P!Snapshot, Short!Segment, P!Segment, Short!ReadObject, P!ReadObject,
    Short!FinishRead, P!FinishRead, Short!IdleReader, P!IdleReader,
    Short!Tick, P!Tick

LEMMA SameIndexedIntact == Short!IndexedIntact <=> P!IndexedIntact
  BY Zenon DEF
    Short!IndexedIntact, P!IndexedIntact, Short!Segment, P!Segment,
    Short!Active, P!Active, Short!Body, P!Body

LEMMA SameNothingLeaks == Short!NothingLeaks <=> P!NothingLeaks
  BY Zenon DEF
    Short!NothingLeaks, P!NothingLeaks, Short!Segment, P!Segment

LEMMA SameNoMissedSegment == Short!NoMissedSegment <=> P!NoMissedSegment
  BY Zenon DEF
    Short!NoMissedSegment, P!NoMissedSegment, Short!Segment, P!Segment,
    Short!Active, P!Active

LEMMA SameOnce == Short!CountedOnce <=> P!CountedOnce
  BY SameCard, Zenon DEF
    Short!CountedOnce, P!CountedOnce, Short!Accepted, P!Accepted,
    Short!Segment, P!Segment, Short!Active, P!Active
-----------------------------------------------------------------------------
MCInv == IF long THEN IInv ELSE P!IInv

LEMMA MCInitInv == MCInit => MCInv
  BY InitIInv, Assumed, P!InitIInv, SameInit DEF MCInit, MCInv

LEMMA MCStepInv == MCInv /\ [MCNext]_<<long, vars>> => MCInv'
<1> SUFFICES ASSUME MCInv, [MCNext]_<<long, vars>> PROVE MCInv'
  OBVIOUS
<1>1. long' = long
  BY DEF MCNext
<1>2. CASE long
  <2>1. [Next]_vars
    BY <1>2 DEF MCNext
  <2> QED
    BY <1>1, <1>2, <2>1, StepIInv DEF MCInv
<1>3. CASE ~long
  <2>1. [P!Next]_P!vars
    <3>1. CASE Short!Next
      BY <3>1, SameNext
    <3>2. CASE UNCHANGED vars
      BY <3>2 DEF vars, P!vars
    <3> QED
      BY <1>3, <3>1, <3>2 DEF MCNext
  <2> QED
    BY <1>1, <1>3, <2>1, Assumed, P!StepIInv DEF MCInv
<1> QED
  BY <1>2, <1>3

THEOREM MCInvariant == MCSpec => []MCInv
<1> QED
  BY MCInitInv, MCStepInv, PTL DEF MCSpec

\* No cleanup of a candidate overtakes its publication, in either instance.
THEOREM IndexIntactAlways == MCSpec => []IndexIntact
<1>1. MCInv => IndexIntact
  BY InvIndexed, Assumed, P!InvIndexed, SameIndexedIntact DEF MCInv, IndexIntact
<1> QED
  BY <1>1, MCInvariant, PTL

\* No object escapes both the index and the garbage table, in either instance.
THEOREM LeaklessAlways == MCSpec => []Leakless
<1>1. MCInv => Leakless
  BY InvLeaks, Assumed, P!InvLeaks, SameNothingLeaks DEF MCInv, Leakless
<1> QED
  BY <1>1, MCInvariant, PTL

\* A clean job was cleaned with every active segment in sight, in either.
THEOREM CompleteAlways == MCSpec => []Complete
<1>1. MCInv => Complete
  BY InvMissed, Assumed, P!InvMissed, SameNoMissedSegment DEF MCInv, Complete
<1> QED
  BY <1>1, MCInvariant, PTL

\* An accepted event is in one active segment until its time, in either.
THEOREM OnceAlways == MCSpec => []Once
<1>1. MCInv => Once
  BY InvOnce, Assumed, P!InvOnce, SameOnce DEF MCInv, Once
<1> QED
  BY <1>1, MCInvariant, PTL

\* A report that reads within its deadline finds every object of its snapshot.
THEOREM ReadableAlways == MCSpec => []Readable
<1>1. MCInv => Readable
  BY InvReads DEF MCInv, Readable
<1> QED
  BY <1>1, MCInvariant, PTL
=============================================================================
