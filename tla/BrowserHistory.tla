---------------------------- MODULE BrowserHistory ----------------------------
(***************************************************************************)
(* What the browser archive promises about a batch it has accepted from    *)
(* the queue: the facts it accepted first are the facts of the batch for   *)
(* ever, and they reach the archive and the analytics projection.          *)
(***************************************************************************)
CONSTANTS Batch, Facts, None

VARIABLES
  kept,      \* the facts accepted for a batch
  archived,  \* batches whose facts are in an immutable object
  shown      \* batches handed to the analytics binding

Init ==
  /\ kept = [b \in Batch |-> None]
  /\ archived = {} /\ shown = {}

Kept == {b \in Batch : kept[b] # None}

\* A group of messages is accepted as a whole, except for what is kept.
Keep(S) ==
  /\ S \intersect Kept = {}
  /\ kept' \in [Batch -> Facts \union {None}]
  /\ \A b \in Batch : IF b \in S THEN kept'[b] # None ELSE kept'[b] = kept[b]
  /\ UNCHANGED <<archived, shown>>

Archive(S) ==
  /\ S \subseteq Kept \ archived
  /\ archived' = archived \union S
  /\ UNCHANGED <<kept, shown>>

Show(S) ==
  /\ S \subseteq Kept \ shown
  /\ shown' = shown \union S
  /\ UNCHANGED <<kept, archived>>

Next == \E S \in SUBSET Batch : Keep(S) \/ Archive(S) \/ Show(S)

Spec == Init /\ [][Next]_<<kept, archived, shown>>

Reaches == \A b \in Batch : kept[b] # None ~> b \in archived \intersect shown
FairSpec == Spec /\ Reaches
=============================================================================
