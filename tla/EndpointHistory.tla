--------------------------- MODULE EndpointHistory ---------------------------
(***************************************************************************)
(* What an endpoint report may rely on: a request that was recorded counts *)
(* once in every report of a range that holds its minute, whatever becomes *)
(* of the row it was counted in.  A report shows the state at one moment   *)
(* between its question and its answer, or is refused.                     *)
(***************************************************************************)
EXTENDS Integers, FiniteSetsExt

CONSTANTS
  Query,      \* report requests
  LastMinute  \* the minutes of the series are 0..LastMinute

VARIABLES
  counts,  \* requests recorded per minute
  report   \* per query: what it will answer or has answered

Minute == 0..LastMinute

\* The requests of [from, to) under a per-minute count.
Total(per, from, to) == MapThenSumSet(LAMBDA i : per[i], from..(to - 1))

Idle == [state |-> "idle", value |-> 0]

Init ==
  /\ counts = [i \in Minute |-> 0]
  /\ report = [q \in Query |-> Idle]

Record ==
  /\ UNCHANGED report
  /\ LET per == counts
     IN counts' \in {[per EXCEPT ![i] = @ + 1] : i \in Minute}

Ask(q) ==
  /\ report[q].state # "pending" /\ report'[q].state = "pending"
  /\ LET per == counts
     IN \E from, to \in 0..(LastMinute + 1) :
          /\ from < to
          /\ report' = [report EXCEPT
               ![q] = [state |-> "pending", value |-> Total(per, from, to)]]
  /\ UNCHANGED counts

Answer(q) ==
  /\ report[q].state = "pending"
  /\ report' = [report EXCEPT ![q].state = "answered"]
  /\ UNCHANGED counts

Refuse(q) ==
  /\ report[q].state = "pending"
  /\ report' = [report EXCEPT ![q] = Idle]
  /\ UNCHANGED counts

Next ==
  \/ Record
  \/ \E q \in Query : Ask(q) \/ Answer(q) \/ Refuse(q)

Spec == Init /\ [][Next]_<<counts, report>>
=============================================================================
