------------------------------ MODULE WakeChains ------------------------------
(***************************************************************************)
(* The two wake chains for TLC: ProductMaintenance and ProviderWakes.      *)
(* Their rows, queues and actors are different ones, so a behaviour is one *)
(* of one of them; part says which, and what happens in it, and row is the *)
(* job of ProviderWakes.                                                   *)
(***************************************************************************)
EXTENDS ProductMaintenance

CONSTANTS
  Job, Tokens, Owner,  \* as in ProviderWakes
  Drainer              \* the queue invocations that run its jobs

VARIABLE part

Jobs == INSTANCE ProviderWakes WITH
  job <- row, Consumer <- Drainer, Pump <- Cron

ASSUME ChainScales == Jobs!WakeScale

\* Of the product chain either requests call, or something fails; the jobs are
\* several and nothing fails, or there is one.
Product(A) == part \in {"calls", "fails"} /\ A
Provider(A) == part \in {"many", "one"} /\ A
Alone == {j \in Job : row[j].status # "unborn"} \subseteq {CHOOSE j \in Job : TRUE}
Sized ==
  /\ part \in {"calls", "many"} => UNCHANGED faults
  /\ part = "fails" => \A r \in Request : actor'[r] = actor[r]
  /\ part = "one" => Alone'
-----------------------------------------------------------------------------
ChainsInit ==
  \/ Product(Init)
  \/ Provider(Jobs!Init) /\ due = 0 /\ cron = 0 /\ (part = "one" => Alone)

ProductDoes(A) == Product(A) /\ Sized
JobsDo(A) == Provider(A) /\ Sized /\ UNCHANGED <<due, cron>>
ChainsNext ==
  /\ UNCHANGED part
  /\ ProductDoes(Next) \/ JobsDo(Jobs!Next)

\* The fairness of each module's FairSpec.
ChainsSpec ==
  /\ ChainsInit /\ [][ChainsNext]_<<part, vars>>
  /\ \A a \in Consumer : WF_vars(ProductDoes(Works(a)))
  /\ \A a \in Actor : WF_vars(ProductDoes(Maintains(a)))
  /\ \A a \in Drainer : WF_vars(JobsDo(Jobs!Wakes(a) \/ Jobs!Works(a)))
  /\ \A a \in {Owner, Cron} : WF_vars(JobsDo(Jobs!Wakes(a)))
  /\ WF_vars(ProductDoes(Delivers))
  /\ \A j \in Job : SF_vars(JobsDo(Jobs!DeliversOf(j)))
  /\ WF_vars(ProductDoes(CronFires) \/ JobsDo(Jobs!CronFires))
  /\ WF_vars(ProductDoes(Tick) \/ JobsDo(Jobs!Lapses))
-----------------------------------------------------------------------------
\* Two runs of the product archive do not overlap.
OneRun == Product(TRUE) => Exclusive

\* A row never waits for a message nobody carries.
Alive == /\ Product(TRUE) => ChainAlive
         /\ Provider(TRUE) => Jobs!ChainAlive

\* The work gets done, whatever wakes were lost on the way.
Waits == Product(due > 0) \/ Provider(\E j \in Job : Jobs!Live(j))
Done == Waits ~> ~Waits
=============================================================================
