------------------------------ MODULE MCWorkerStores ------------------------------
(***************************************************************************)
(* A small instance of each of the worker's stores.                        *)
(***************************************************************************)
EXTENDS WorkerStores, TLC

CONSTANTS
  a, b, c, x, y, v, w  \* names: batches and events, facts, people

\* Two that do the same, in every store: runners, attempts, sessions, guests.
Symmetry == Permutations(Request) \union Permutations(Attempt)
-----------------------------------------------------------------------------
\* A batch over two days, and an identity that comes with two sets of facts.
TwoDays ==
  {[id |-> a, facts |-> x, visitor |-> v, days |-> {1}],
   [id |-> a, facts |-> y, visitor |-> w, days |-> {1}],
   [id |-> b, facts |-> x, visitor |-> w, days |-> {1, 2}]}

\* A batch archived twice, one with other facts, one of another day, and a
\* segment larger than a slice.
ThreeSegments ==
  << <<[id |-> c, facts |-> x], [id |-> b, facts |-> x]>>,
     <<[id |-> a, facts |-> x]>>,
     <<[id |-> a, facts |-> x], [id |-> c, facts |-> x], [id |-> b, facts |-> y]>> >>

TwoShards == <<1, 2, 1>>
TwoReceipts == <<[id |-> a, facts |-> x], [id |-> b, facts |-> x]>>

\* Two sessions for one row.
OneScope == [s \in Session |-> a]

\* Two owners, one of them with an app from before; ids that come with one
\* payload, with two, and with the app of either.
AppOfOne == [z \in {a} |-> v]

Asked(id, existing, payload) ==
  [catalog |-> id, existing |-> existing, payload |-> payload]

Imports ==
  {<<Asked(b, a, x)>>, <<Asked(b, None, y)>>,
   <<Asked(c, None, x), Asked(b, a, x)>>}

\* A payment of two amounts and its refunds, which together exceed either, in
\* another currency too, with ids and deliveries that come twice.
Payment(id, amount, currency) ==
  [kind |-> "payment", id |-> id, txn |-> id, amount |-> amount, currency |-> currency,
   at |-> 0, source |-> v]

Refund(id, txn, amount, currency, at) ==
  [kind |-> "refund", id |-> id, txn |-> txn, amount |-> amount, currency |-> currency,
   at |-> at, source |-> None]

ThreePeriods == {<<0, 1>>, <<1, 2>>, <<0, 2>>}

PaymentsAndRefunds ==
  {[delivery |-> 1, fact |-> Payment(a, 3, x)],
   [delivery |-> 2, fact |-> Payment(a, 2, x)],
   [delivery |-> 3, fact |-> Refund(v, a, 1, x, 1)],
   [delivery |-> 7, fact |-> Refund(v, a, 1, x, 1)],
   [delivery |-> 4, fact |-> Refund(w, a, 2, x, 1)],
   [delivery |-> 4, fact |-> Refund(c, a, 2, y, 1)],
   [delivery |-> 8, fact |-> Refund(c, a, 1, x, 0)],
   [delivery |-> 5, fact |-> Payment(b, 1, y)],
   [delivery |-> 6, fact |-> Refund(y, b, 1, y, 1)]}

\* An SDK batch and an OTLP request over two of three environments.
StampOne == [z \in {x, y} |-> 1]

SdkAndOtlp ==
  {[id |-> v, sdk |-> TRUE, groups |-> <<[env |-> a, events |-> {x, y}]>>],
   [id |-> w, sdk |-> FALSE, groups |-> <<[env |-> a, events |-> {x}],
                                          [env |-> b, events |-> {y}]>>]}

\* Batches of two browsers, with a quota for one; of the second one log is stored.
StampZero == [z \in {x, y, c, v} |-> 0]

TwoBrowsers ==
  {[id |-> a, logs |-> {x, c}, stored |-> {x, c}, browser |-> TRUE],
   [id |-> b, logs |-> {y, v}, stored |-> {y}, browser |-> TRUE]}

\* Facts of one instant, of an identity with two meanings, outside the segment,
\* and of two sessions.
Read(key, at, session, matches, entry) ==
  [key |-> key, at |-> at, session |-> session, matches |-> matches, entry |-> entry]

TwoSessions ==
  {Read(1, 0, v, {1}, TRUE), Read(2, 1, v, {1, 2}, TRUE),
   Read(3, 2, v, {1}, TRUE), Read(6, 2, v, {1}, FALSE),
   Read(7, 2, v, {2}, FALSE), Read(4, 3, v, {2, 3}, FALSE),
   Read(4, 4, w, {1}, TRUE), Read(5, 4, v, {3}, TRUE)}
=============================================================================
