---------------------------- MODULE PaymentLedger ----------------------------
(***************************************************************************)
(* The ledger of payments and refunds, twice: in the database, where the   *)
(* triggers of migration 0031 decide, and in the memory of a development   *)
(* server.  One PaymentLedgerStore stands for either, so both are given    *)
(* the same requests here and must answer them alike.                      *)
(* The facts are those of one namespace (app, environment, account, mode); *)
(* the hash of a fact is the fact.                                         *)
(***************************************************************************)
EXTENDS Integers, FiniteSets, FiniteSetsExt

CONSTANTS
  Request,   \* what may be recorded: a fact and the id of its delivery
  Capacity,  \* facts the local ledger holds
  Periods,   \* pairs <<from, to>> that are reported
  Pending    \* the attribution of a refund without an original

VARIABLES
  facts, deliveries,            \* payment_facts and payment_deliveries
  localFacts, localDeliveries,  \* the maps of LocalPaymentLedger
  agreed                        \* both gave the same answer so far

ledger == <<facts, deliveries, localFacts, localDeliveries, agreed>>

LedgerScale ==
  /\ Capacity \in Nat
  /\ \A r \in Request : /\ r.fact.kind \in {"payment", "refund"} /\ r.fact.amount \in Nat
                        /\ r.fact.kind = "payment" => r.fact.id = r.fact.txn

Amount(F) == MapThenSumSet(LAMBDA f : f.amount, F)
Of(F, kind) == {f \in F : f.kind = kind}
SameId(F, f) == {g \in F : g.kind = f.kind /\ g.id = f.id}
Refunds(F, f) == {g \in Of(F, "refund") : g.txn = f.txn}
Original(F, f) == {g \in Of(F, "payment") : g.id = f.txn}
-----------------------------------------------------------------------------
\* payment_facts_conflict and payment_deliveries_conflict.
Conflict(r) ==
  \/ \E g \in SameId(facts, r.fact) : g # r.fact
  \/ \E d \in deliveries : d.id = r.delivery /\ d.fact # r.fact

RefundGuardOnce(f) ==
  /\ f.kind = "refund"
  /\ \E p \in Original(facts, f) : p.currency # f.currency \/ p.amount < f.amount

\* payment_refund_guard: a new refund whose original is there.
RefundGuard(f) ==
  /\ f.kind = "refund" /\ SameId(facts, f) = {}
  /\ \E p \in Original(facts, f) :
       \/ p.currency # f.currency
       \/ p.amount < f.amount + Amount(Refunds(facts, f))

NoGuard(f) == FALSE

\* payment_original_guard: a payment whose refunds were there before it.
OriginalGuard(f) ==
  /\ f.kind = "payment"
  /\ \/ \E g \in Refunds(facts, f) : g.currency # f.currency
     \/ f.amount < Amount(Refunds(facts, f))

Refused(r) == Conflict(r) \/ RefundGuard(r.fact) \/ OriginalGuard(r.fact)

\* Rows that exist are ignored; true when the fact is new.
D1Answer(r) ==
  IF Refused(r) THEN "conflict"
  ELSE IF r.fact \in facts THEN "known" ELSE "recorded"
-----------------------------------------------------------------------------
LocalConflict(r) ==
  \/ \E g \in SameId(localFacts, r.fact) : g # r.fact
  \/ \E d \in localDeliveries : d.id = r.delivery /\ d.fact # r.fact

LocalFull(r) ==
  \/ r.fact \notin localFacts /\ Cardinality(localFacts) >= Capacity
  \/ /\ \A d \in localDeliveries : d.id # r.delivery
     /\ Cardinality(localDeliveries) >= 2 * Capacity

\* validateRefunds, with the original that is there or comes now.
RefundsExceed(f) ==
  LET originals == IF f.kind = "payment" THEN {f} ELSE Original(localFacts, f)
      refunds == Refunds(localFacts, f) \union Of({f}, "refund") IN
  \E p \in originals :
    \/ \E g \in refunds : g.currency # p.currency
    \/ Amount(refunds) > p.amount

LocalAnswer(r) ==
  IF LocalConflict(r) THEN "conflict"
  ELSE IF LocalFull(r) THEN "full"
  ELSE IF r.fact \in localFacts THEN "known"
  ELSE IF RefundsExceed(r.fact) THEN "conflict" ELSE "recorded"
-----------------------------------------------------------------------------
Init ==
  /\ facts = {} /\ deliveries = {}
  /\ localFacts = {} /\ localDeliveries = {}
  /\ agreed = TRUE

Written(F, answer, x) == IF answer \in {"recorded", "known"} THEN F \union {x} ELSE F

\* A request to both, unless the local ledger is full.
record(r) ==
  LET d1 == D1Answer(r)
      local == LocalAnswer(r)
      receipt == [id |-> r.delivery, fact |-> r.fact] IN
  /\ local # "full"
  /\ facts' = Written(facts, d1, r.fact)
  /\ deliveries' = Written(deliveries, d1, receipt)
  /\ localFacts' = Written(localFacts, local, r.fact)
  /\ localDeliveries' = Written(localDeliveries, local, receipt)
  /\ agreed' = (agreed /\ d1 = local)

Next == \E r \in Request : record(r)

Spec == Init /\ [][Next]_ledger
-----------------------------------------------------------------------------
InPeriod(F, p) == {f \in F : f.at >= p[1] /\ f.at < p[2]}

\* paymentReportQuery: the sums of a group of facts, a refund counted once its
\* original is recorded.
HasOriginal(f) == Original(facts, f) # {}

Source(F, f) == IF Original(F, f) = {} THEN Pending
                ELSE (CHOOSE p \in Original(F, f) : TRUE).source

Total(F) ==
  LET paid == Of(F, "payment")
      back == {f \in Of(F, "refund") : HasOriginal(f)}
      wait == Of(F, "refund") \ back IN
  [gross |-> Amount(paid), refunds |-> Amount(back), pending |-> Amount(wait),
   net |-> Amount(paid) - Amount(back)]

Groups(F, p) == {<<f.currency, Source(F, f)>> : f \in InPeriod(F, p)}

Report(p) ==
  [g \in Groups(facts, p) |->
     Total({f \in InPeriod(facts, p) : <<f.currency, Source(facts, f)>> = g})]

\* localRows: every fact is added to the total of its group.
AddFact(f, total) ==
  IF f.kind = "payment"
  THEN [total EXCEPT !.gross = @ + f.amount, !.net = @ + f.amount]
  ELSE IF Original(localFacts, f) # {}
  THEN [total EXCEPT !.refunds = @ + f.amount, !.net = @ - f.amount]
  ELSE [total EXCEPT !.pending = @ + f.amount]

Empty == [gross |-> 0, refunds |-> 0, pending |-> 0, net |-> 0]

LocalReport(p) ==
  [g \in Groups(localFacts, p) |->
     FoldSet(AddFact, Empty,
       {f \in InPeriod(localFacts, p) : <<f.currency, Source(localFacts, f)>> = g})]
-----------------------------------------------------------------------------
TypeOK ==
  /\ facts \subseteq {r.fact : r \in Request}
  /\ {d.fact : d \in deliveries} \subseteq {r.fact : r \in Request}

\* In whatever order payments and refunds arrive, and however often, a payment
\* is never refunded beyond its amount or in another currency, and every fact
\* came with a delivery that keeps naming it.
Covered ==
  /\ \A p \in Of(facts, "payment") :
       /\ Amount(Refunds(facts, p)) <= p.amount
       /\ \A g \in Refunds(facts, p) : g.currency = p.currency
  /\ \A f, g \in facts : f.kind = g.kind /\ f.id = g.id => f = g
  /\ facts = {d.fact : d \in deliveries}
  /\ \A d, e \in deliveries : d.id = e.id => d = e

\* The local ledger answers, holds and reports what the database would.
Alike ==
  /\ agreed /\ localFacts = facts
  /\ \A p \in Periods : Report(p) = LocalReport(p)
=============================================================================
