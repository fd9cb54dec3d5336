------------------------- MODULE MCProviderJobsProofs -------------------------
(***************************************************************************)
(* The properties that the composed specification of MCProviderJobs states *)
(* of its two instances.  Everything about the component is proved in      *)
(* ProviderJobsProofs; what remains is that the owner's instance, as       *)
(* MCProviderJobs names it, is the instance P of the module with the       *)
(* proofs: each operator of the two is the same, one lemma for each.       *)
(***************************************************************************)
EXTENDS MCProviderJobs, ProviderJobsProofs

P == INSTANCE ProviderJobsProofs WITH
  Pages <- OwnerPages, Filtered <- NoRecord,
  Worker <- One, Failures <- Anything, Routing <- Elsewhere,
  Lease <- 1, Delay <- 0, MaxGen <- 2

LEMMA SameCard == \A S : O!Cardinality(S) = P!Cardinality(S)
  BY Zenon DEF O!Cardinality, P!Cardinality

LEMMA SameFinite == \A S : O!IsFiniteSet(S) <=> P!IsFiniteSet(S)
  BY Zenon DEF O!IsFiniteSet, P!IsFiniteSet

LEMMA Assumed == P!ProviderAssumption /\ P!PagesAssumption
  BY OwnerAssumption, SameFinite, Zenon DEF
    O!ProviderAssumption, P!ProviderAssumption, O!PagesAssumption,
    P!PagesAssumption, O!Job, P!Job, O!Resource, P!Resource, O!Outcome,
    P!Outcome

LEMMA SameInit == O!Init <=> P!Init
  BY Zenon DEF
    O!Init, P!Init, O!Job, P!Job, O!Unborn, P!Unborn, O!Start, P!Start,
    O!Gone, P!Gone, O!Idle, P!Idle, O!Resource, P!Resource

LEMMA SameStartImport == \A j : O!StartImport(j) <=> P!StartImport(j)
  BY SameCard, Zenon DEF
    O!StartImport, P!StartImport, O!Unborn, P!Unborn, O!Start, P!Start,
    O!Gone, P!Gone, O!OpenImports, P!OpenImports, O!Live, P!Live, O!Of, P!Of,
    O!Job, P!Job, O!In, P!In, O!Queued, P!Queued, O!Freed, P!Freed

LEMMA SameAcceptWebhook == \A j : O!AcceptWebhook(j) <=> P!AcceptWebhook(j)
  BY Zenon DEF
    O!AcceptWebhook, P!AcceptWebhook, O!Unborn, P!Unborn, O!Start, P!Start,
    O!Gone, P!Gone, O!Queued, P!Queued, O!Freed, P!Freed, O!Single, P!Single

LEMMA SameCancel == \A j : O!Cancel(j) <=> P!Cancel(j)
  BY Zenon DEF
    O!Cancel, P!Cancel, O!Cancelled, P!Cancelled, O!Freed, P!Freed, O!Gone,
    P!Gone

LEMMA SameResume == \A j : O!Resume(j) <=> P!Resume(j)
  BY Zenon DEF
    O!Resume, P!Resume, O!Active, P!Active, O!Late, P!Late, O!Gone, P!Gone

LEMMA SameDisconnect == \A c : O!Disconnect(c) <=> P!Disconnect(c)
  BY Zenon DEF
    O!Disconnect, P!Disconnect, O!Job, P!Job, O!Severed, P!Severed, O!Of,
    P!Of, O!Live, P!Live, O!Cancelled, P!Cancelled, O!Freed, P!Freed, O!Gone,
    P!Gone

LEMMA SameReplaceCredentials == \A c : O!ReplaceCredentials(c) <=> P!ReplaceCredentials(c)
  BY Zenon DEF
    O!ReplaceCredentials, P!ReplaceCredentials, O!Job, P!Job, O!Revived,
    P!Revived, O!Of, P!Of, O!Live, P!Live, O!Queued, P!Queued, O!Freed,
    P!Freed, O!Gone, P!Gone, O!OpenImports, P!OpenImports, O!Cancelled,
    P!Cancelled

LEMMA SameSaveRouting == \A c : O!SaveRouting(c) <=> P!SaveRouting(c)
  BY Zenon DEF
    O!SaveRouting, P!SaveRouting

LEMMA SameOwner == O!Owner <=> P!Owner
  BY SameStartImport, SameAcceptWebhook, SameCancel, SameResume,
     SameDisconnect, SameReplaceCredentials, SameSaveRouting, Zenon DEF
    O!Owner, P!Owner, O!Job, P!Job

LEMMA SameClaimable == \A j, d : O!Claimable(j, d) <=> P!Claimable(j, d)
  BY SameCard, Zenon DEF
    O!Claimable, P!Claimable, O!Active, P!Active, O!Of, P!Of, O!Job, P!Job,
    O!Busy, P!Busy, O!In, P!In

LEMMA SameClaim == \A w, j : O!Claim(w, j) <=> P!Claim(w, j)
<1> SUFFICES ASSUME NEW w, NEW j PROVE O!Claim(w, j) <=> P!Claim(w, j)
  OBVIOUS
<1>1. O!Idle = P!Idle /\ O!Late = P!Late
  BY Zenon DEF O!Idle, P!Idle, O!Start, P!Start, O!Late, P!Late
<1>2. ASSUME O!Claim(w, j) PROVE P!Claim(w, j)
  BY <1>1, <1>2, SameClaimable, Zenon DEF O!Claim, P!Claim
<1>3. ASSUME P!Claim(w, j) PROVE O!Claim(w, j)
  BY <1>1, <1>3, SameClaimable, Zenon DEF O!Claim, P!Claim
<1> QED
  BY <1>2, <1>3

LEMMA SameOpen == \A w : O!Open(w) <=> P!Open(w)
  BY Zenon DEF
    O!Open, P!Open, O!Current, P!Current, O!Leave, P!Leave, O!Idle, P!Idle,
    O!Start, P!Start

LEMMA SameFetchPage == \A w : O!FetchPage(w) <=> P!FetchPage(w)
  BY Zenon DEF
    O!FetchPage, P!FetchPage, O!Persist, P!Persist, O!Late, P!Late, O!Holds,
    P!Holds, O!Current, P!Current, O!Idle, P!Idle, O!Start, P!Start, O!Leave,
    P!Leave, O!Gone, P!Gone, O!Fails, P!Fails

LEMMA SameEndPage == \A w : O!EndPage(w) <=> P!EndPage(w)
  BY Zenon DEF
    O!EndPage, P!EndPage, O!AfterPage, P!AfterPage, O!NextPage, P!NextPage,
    O!Start, P!Start, O!Done, P!Done, O!Listed, P!Listed, O!Page, P!Page,
    O!Persist, P!Persist, O!Late, P!Late, O!Holds, P!Holds, O!Current,
    P!Current, O!Idle, P!Idle, O!Leave, P!Leave, O!Gone, P!Gone

LEMMA SameEndSlice == \A w : O!EndSlice(w) <=> P!EndSlice(w)
  BY Zenon DEF
    O!EndSlice, P!EndSlice, O!Persist, P!Persist, O!Late, P!Late, O!Holds,
    P!Holds, O!Current, P!Current, O!Idle, P!Idle, O!Start, P!Start, O!Leave,
    P!Leave, O!Gone, P!Gone

LEMMA SameFetchResource == \A w : O!FetchResource(w) <=> P!FetchResource(w)
  BY Zenon DEF
    O!FetchResource, P!FetchResource, O!At, P!At, O!Page, P!Page, O!Listed,
    P!Listed, O!Facts, P!Facts, O!Fails, P!Fails

LEMMA SameLookUp == \A w : O!LookUp(w) <=> P!LookUp(w)
  BY Zenon DEF
    O!LookUp, P!LookUp, O!Transaction, P!Transaction, O!Fact, P!Fact,
    O!Destination, P!Destination

LEMMA SameInsertAssignment == \A w : O!InsertAssignment(w) <=> P!InsertAssignment(w)
  BY Zenon DEF
    O!InsertAssignment, P!InsertAssignment, O!Transaction, P!Transaction,
    O!Fact, P!Fact, O!Fence, P!Fence, O!Current, P!Current, O!RouteStands,
    P!RouteStands

LEMMA SameWriteFact == \A w : O!WriteFact(w) <=> P!WriteFact(w)
  BY Zenon DEF
    O!WriteFact, P!WriteFact, O!Fact, P!Fact, O!Fence, P!Fence, O!Current,
    P!Current, O!Transaction, P!Transaction, O!Go, P!Go, O!Leave, P!Leave,
    O!Idle, P!Idle, O!Start, P!Start

LEMMA SameRemember == \A w : O!Remember(w) <=> P!Remember(w)
  BY Zenon DEF
    O!Remember, P!Remember, O!Fence, P!Fence, O!Current, P!Current, O!Fact,
    P!Fact, O!Leave, P!Leave, O!Idle, P!Idle, O!Start, P!Start

LEMMA SameRememberIssue == \A w : O!RememberIssue(w) <=> P!RememberIssue(w)
  BY Zenon DEF
    O!RememberIssue, P!RememberIssue, O!Fence, P!Fence, O!Current, P!Current,
    O!Fact, P!Fact, O!Go, P!Go, O!Leave, P!Leave, O!Idle, P!Idle, O!Start,
    P!Start

LEMMA SameAdvance == \A w : O!Advance(w) <=> P!Advance(w)
  BY Zenon DEF
    O!Advance, P!Advance, O!Persist, P!Persist, O!Late, P!Late, O!Holds,
    P!Holds, O!Current, P!Current, O!Idle, P!Idle, O!Start, P!Start, O!Leave,
    P!Leave, O!Gone, P!Gone, O!Done, P!Done

LEMMA SameFailed == \A w : O!Failed(w) <=> P!Failed(w)
  BY Zenon DEF
    O!Failed, P!Failed, O!Persist, P!Persist, O!Late, P!Late, O!Holds,
    P!Holds, O!Current, P!Current, O!Idle, P!Idle, O!Start, P!Start, O!Leave,
    P!Leave, O!Gone, P!Gone

LEMMA SameRelease == \A w : O!Release(w) <=> P!Release(w)
  BY Zenon DEF
    O!Release, P!Release, O!Freed, P!Freed, O!Gone, P!Gone, O!Idle, P!Idle,
    O!Start, P!Start

LEMMA SameDie == \A w : O!Die(w) <=> P!Die(w)
  BY Zenon DEF
    O!Die, P!Die, O!Idle, P!Idle, O!Start, P!Start

LEMMA SameSlice == \A w : O!Slice(w) <=> P!Slice(w)
  BY SameClaim, SameOpen, SameFetchPage, SameEndPage, SameEndSlice,
     SameFetchResource, SameLookUp, SameInsertAssignment, SameWriteFact,
     SameRemember, SameRememberIssue, SameAdvance, SameFailed, SameRelease,
     SameDie, Zenon DEF
    O!Slice, P!Slice, O!Job, P!Job

LEMMA SameTick == O!Tick <=> P!Tick
  BY Zenon DEF
    O!Tick, P!Tick, O!Job, P!Job, O!Sooner, P!Sooner, O!Gone, P!Gone

LEMMA SameNext == O!Next <=> P!Next
  BY SameOwner, SameSlice, SameTick, Zenon DEF
    O!Next, P!Next

LEMMA SameNoStrandedJob == O!NoStrandedJob <=> P!NoStrandedJob
  BY Zenon DEF
    O!NoStrandedJob, P!NoStrandedJob, O!Job, P!Job, O!Live, P!Live, O!Active,
    P!Active

LEMMA SameOneDestination == O!OneDestination <=> P!OneDestination
  BY Zenon DEF
    O!OneDestination, P!OneDestination, O!Resource, P!Resource,
    O!Transaction, P!Transaction

LEMMA SameNothingSkipped == O!NothingSkipped <=> P!NothingSkipped
  BY Zenon DEF
    O!NothingSkipped, P!NothingSkipped, O!ListedIn, P!ListedIn
-----------------------------------------------------------------------------
MCInv == IF owner THEN P!IInv ELSE IInv

LEMMA MCInitInv == MCInit => MCInv
  BY InitIInv, Assumed, P!InitIInv, SameInit DEF MCInit, MCInv

LEMMA MCStepInv == MCInv /\ [MCNext]_<<owner, vars>> => MCInv'
<1> SUFFICES ASSUME MCInv, [MCNext]_<<owner, vars>> PROVE MCInv'
  OBVIOUS
<1>1. owner' = owner
  BY DEF MCNext
<1>2. CASE ~owner
  <2>1. [Next]_vars
    BY <1>2 DEF MCNext
  <2> QED
    BY <1>1, <1>2, <2>1, StepKeeps DEF MCInv
<1>3. CASE owner
  <2>1. [P!Next]_P!vars
    <3>1. CASE O!Next
      BY <3>1, SameNext
    <3>2. CASE UNCHANGED vars
      BY <3>2 DEF vars, P!vars
    <3> QED
      BY <1>3, <3>1, <3>2 DEF MCNext
  <2> QED
    BY <1>1, <1>3, <2>1, Assumed, P!StepKeeps DEF MCInv
<1> QED
  BY <1>2, <1>3

\* The inductive invariant of ProviderJobs holds in both instances.
THEOREM MCInvariant == MCSpec => []MCInv
<1> QED
  BY MCInitInv, MCStepInv, PTL DEF MCSpec

\* No refund is on record alone, however late the workers write.
THEOREM OriginalsAlways == MCSpec => []Originals
<1>1. MCInv => Originals
  BY DEF MCInv, Originals, IInv
<1> QED
  BY <1>1, MCInvariant, PTL

\* At most one job of a connection runs under a live lease.
THEOREM LeasedOnceAlways == MCSpec => []LeasedOnce
<1>1. MCInv => LeasedOnce
  BY OneLeaseHolds DEF MCInv, LeasedOnce
<1> QED
  BY <1>1, MCInvariant, PTL

\* No live job is left with a former generation of its connection.
THEOREM NoneStrandedAlways == MCSpec => []NoneStranded
<1>1. MCInv => NoneStranded
  BY SameNoStrandedJob DEF MCInv, NoneStranded, P!IInv
<1> QED
  BY <1>1, MCInvariant, PTL

\* A transaction and its refunds are recorded under one destination.
THEOREM SameDestinationAlways == MCSpec => []SameDestination
<1>1. MCInv => SameDestination
  BY SameOneDestination DEF MCInv, SameDestination, P!IInv
<1> QED
  BY <1>1, MCInvariant, PTL

\* A finished import has recorded or noted all that was listed.
THEOREM NoneSkippedAlways == MCSpec => []NoneSkipped
<1>1. MCInv => NoneSkipped
  BY Assumed, P!NothingSkippedHolds, SameNothingSkipped DEF MCInv, NoneSkipped
<1> QED
  BY <1>1, MCInvariant, PTL
=============================================================================
