----------------------------- MODULE MCProviderJobs ----------------------------
(***************************************************************************)
(* Two small instances of ProviderJobs in one run: one connection with an  *)
(* import and a webhook that names the refund of the first payment.  In    *)
(* the first, two workers take over from each other and statements commit  *)
(* late; the import lists that refund and a payment outside of the window. *)
(* In the other (owner), one worker meets an owner who changes the         *)
(* credentials and the routing and a provider that fails in every way; the *)
(* import lists the payment that the webhook's refund is of.               *)
(***************************************************************************)
EXTENDS ProviderJobs, TLC

CONSTANTS c1, i1, w1, p1, p2, r1, t1, t2, ws, a

VARIABLE owner

MCWorkspace == [c \in Conn |-> ws]
MCConnOf == [j \in Job |-> c1]
MCSubject == [j \in Webhook |-> r1]
MCOriginalOf == [r \in Refund |-> p1]
MCPages == [payments |-> <<<<p2>>>>, refunds |-> <<<<r1>>>>]
MCHome == [c \in Conn |-> t1]

OwnerPages == [payments |-> <<<<p1>>>>, refunds |-> <<<<>>>>]
NoRecord == {}
One == {a}
Elsewhere == {t2}
Anything == {"unresolved", "invalid", "retry", "again", "pause"}
O == INSTANCE ProviderJobs WITH
  Pages <- OwnerPages, Filtered <- NoRecord,
  Worker <- One, Failures <- Anything, Routing <- Elsewhere,
  Lease <- 1, Delay <- 0, MaxGen <- 2

ASSUME OwnerAssumption == O!ProviderAssumption /\ O!PagesAssumption

MCInit == \/ owner = FALSE /\ Init
          \/ owner = TRUE /\ O!Init
MCNext == /\ UNCHANGED owner
          /\ \/ ~owner /\ Next
             \/ owner /\ O!Next
MCSpec == MCInit /\ [][MCNext]_<<owner, vars>>

MCSymmetry == Permutations(Worker)
-----------------------------------------------------------------------------
\* Of the first: no refund is on record alone, however late workers write,
Originals == ~owner => RefundsHaveOriginals

\* and at most one job of a connection runs under a live lease.
LeasedOnce == ~owner => OneLease

\* Of the other: no live job is left with a former generation,
NoneStranded == owner => O!NoStrandedJob

\* a transaction and its refunds are recorded under one destination,
SameDestination == owner => O!OneDestination

\* and a finished import has recorded or reported all that was listed.
NoneSkipped == owner => O!NothingSkipped
=============================================================================
