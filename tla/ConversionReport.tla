--------------------------- MODULE ConversionReport ---------------------------
(***************************************************************************)
(* The evaluation of conversions over the facts of the archive, as they    *)
(* come: repeated, in any order, and with identities that come with two    *)
(* meanings.  The state is what was read so far; the definitions compute   *)
(* the report from it as the code does, in one pass, and the properties    *)
(* compare that with what the report means.                                *)
(* The steps of a funnel that a fact matches, and whether it satisfies the *)
(* segment and the filters of the query, are given with the fact.          *)
(***************************************************************************)
EXTENDS Integers, FiniteSets, Sequences, FiniteSetsExt

CONSTANTS
  Fact,      \* key, at, session, matches, entry
  Steps,     \* of the funnel
  Within,    \* window_ms of the funnel
  From, To,  \* of the query
  Limit,     \* events that a report takes
  MaxFacts,  \* bound on what is read
  None       \* no session, not reached

ConversionScale ==
  /\ Steps \in Nat \ {0} /\ {Within, From, To, Limit, MaxFacts} \subseteq Nat
  /\ \A f \in Fact : f.key \in Nat /\ f.at \in Nat /\ f.matches \subseteq 1..Steps
                     /\ f.entry \in BOOLEAN
  /\ None \notin Nat

VARIABLE source  \* the facts in the order in which they were read

conversion == <<source>>
-----------------------------------------------------------------------------
Exceeded == [exceeded |-> TRUE]

LastMeaning(o, f) == [o EXCEPT !.facts = {g \in @ : g.key # f.key} \union {f}]

\* An identity with a second meaning loses both, and those that come later.
Conflicting(o, f) ==
  [facts |-> {g \in o.facts : g.key # f.key}, conflicts |-> o.conflicts \union {f.key}]

Bounded(o) ==
  IF Cardinality(o.facts) + Cardinality(o.conflicts) > Limit THEN Exceeded ELSE o

\* One turn of the loop of factsInWindow.
Observe(o, f) ==
  IF o = Exceeded \/ f.at < From \/ f.at >= To \/ f.key \in o.conflicts THEN o
  ELSE IF \E g \in o.facts : g.key = f.key /\ g # f THEN Conflicting(o, f)
  ELSE Bounded([o EXCEPT !.facts = @ \union {f}])

\* What the loop has after each of the facts.
Observed ==
  LET o[n \in 0..Len(source)] ==
        IF n = 0 THEN [facts |-> {}, conflicts |-> {}] ELSE Observe(o[n - 1], source[n])
  IN  o

factsInWindow == Observed[Len(source)]

Earlier(f, g) == f.at < g.at \/ (f.at = g.at /\ f.key < g.key)

\* The facts of F by time and identity: at place i the one with i - 1 before it.
Sorted(F) ==
  [i \in 1..Cardinality(F) |->
     CHOOSE f \in F : Cardinality({g \in F : Earlier(g, f)}) = i - 1]

sessionGroups(F) ==
  [s \in {f.session : f \in F} \ {None} |-> Sorted({f \in F : f.session = s})]
-----------------------------------------------------------------------------
NoProgress ==
  [states |-> [k \in 1..Steps |-> None], previous |-> [k \in 1..Steps |-> None],
   time |-> -1, reached |-> {}, elapsed |-> None]

SnapshotOfNow(x, f) == x.states

\* The progress before the time of f.
Before(x, f) == IF f.at = x.time THEN x.previous ELSE x.states

\* f takes step k.
eligibleProgress(x, f, k) ==
  /\ k \in f.matches
  /\ IF k = 1 THEN f.entry
     ELSE Before(x, f)[k - 1] # None /\ f.at - Before(x, f)[k - 1] <= Within

StartOf(x, f, k) == IF k = 1 THEN f.at ELSE Before(x, f)[k - 1]

EarliestStart(x, f, k) == x.states[k] = None

\* A later start replaces an earlier one.
Improves(x, f, k) == x.states[k] = None \/ x.states[k] <= StartOf(x, f, k)

\* One turn of the loop of sessionProgress.
Progress(x, f) ==
  LET taken == {k \in 1..Steps : eligibleProgress(x, f, k)} IN
  [states |-> [k \in 1..Steps |->
     IF k \in taken /\ Improves(x, f, k) THEN StartOf(x, f, k) ELSE x.states[k]],
   previous |-> Before(x, f),
   time |-> f.at,
   reached |-> x.reached \union taken,
   elapsed |->
     IF Steps \notin taken THEN x.elapsed
     ELSE LET e == f.at - StartOf(x, f, Steps) IN
       IF x.elapsed = None THEN e ELSE Min({x.elapsed, e})]

\* The progress after each of the events.
Progressed(events) ==
  LET p[n \in 0..Len(events)] ==
        IF n = 0 THEN NoProgress ELSE Progress(p[n - 1], events[n])
  IN  p

sessionProgress(events) ==
  LET last == Progressed(events)[Len(events)] IN
  [reached |-> last.reached, elapsed |-> last.elapsed]

\* How many sessions reached each step.
funnelResult(F) ==
  LET groups == sessionGroups(F) IN
  [k \in 1..Steps |->
     Cardinality({s \in DOMAIN groups : k \in sessionProgress(groups[s]).reached})]
-----------------------------------------------------------------------------
Init == source = <<>>

Read(f) == Len(source) < MaxFacts /\ source' = Append(source, f)

Next == \E f \in Fact : Read(f)

Spec == Init /\ [][Next]_conversion
-----------------------------------------------------------------------------
TypeOK == source \in Seq(Fact) /\ Len(source) <= MaxFacts

InWindow == {f \in Range(source) : f.at >= From /\ f.at < To}
Ambiguous == {f.key : f \in {g \in InWindow : \E h \in InWindow : h.key = g.key /\ h # g}}

\* Whatever the order and the repetitions, the facts are those whose identity
\* has one meaning, and the limit is exceeded by identities.
OrderFree ==
  factsInWindow =
    IF Cardinality({f.key : f \in InWindow}) > Limit THEN Exceeded
    ELSE [facts |-> {f \in InWindow : f.key \notin Ambiguous}, conflicts |-> Ambiguous]

\* The ways to take the first k steps with facts of F: later and later, from one
\* that satisfies the segment, within the window.
Ways(F, k) ==
  {c \in [1..k -> F] :
     /\ \A i \in 1..k : i \in c[i].matches
     /\ \A i \in 1..k - 1 : c[i].at < c[i + 1].at
     /\ c[1].entry /\ c[k].at - c[1].at <= Within}

\* One pass that remembers one start per step finds every step that can be
\* reached and the shortest way through, and no step has more sessions than
\* the one before it.
FunnelExact ==
  LET o == factsInWindow IN
  o # Exceeded =>
    /\ \A s \in {f.session : f \in o.facts} \ {None} :
         LET F == {f \in o.facts : f.session = s}
             spans == {c[Steps].at - c[1].at : c \in Ways(F, Steps)} IN
         sessionProgress(sessionGroups(o.facts)[s]) =
           [reached |-> {k \in 1..Steps : Ways(F, k) # {}},
            elapsed |-> IF spans = {} THEN None ELSE Min(spans)]
    /\ \A k \in 2..Steps : funnelResult(o.facts)[k] <= funnelResult(o.facts)[k - 1]
=============================================================================
