-------------------------------- MODULE Archives --------------------------------
(***************************************************************************)
(* The two archives for TLC: BrowserArchive and EndpointArchive.  They     *)
(* share no table and no object, so a behaviour is one of one of them, and *)
(* the variables of the other keep their initial values.  The fairness is  *)
(* that of the browser's shard; of endpoints only safety is asked.         *)
(***************************************************************************)
EXTENDS BrowserArchive

CONSTANTS
  Query, Compactor, Hour, Day, BusyMinute, Requests  \* as in EndpointArchive

VARIABLES
  part,
  hot, age, partitions, manifests, run, ask

Endpoint == INSTANCE EndpointArchive WITH objects <- partitions

ASSUME PartitionScale == Endpoint!ArchiveScale

endpointVars == <<hot, age, partitions, manifests, run, ask>>
-----------------------------------------------------------------------------
ArchivesInit == part \in {"browser", "endpoint"} /\ Init /\ Endpoint!Init

ArchivesNext ==
  /\ UNCHANGED part
  /\ \/ part = "browser" /\ Next /\ UNCHANGED endpointVars
     \/ part = "endpoint" /\ Endpoint!Next /\ UNCHANGED vars

ArchivesSpec ==
  ArchivesInit /\ [][ArchivesNext]_<<part, vars, endpointVars>> /\ Fairness
-----------------------------------------------------------------------------
\* A manifest of endpoint rows never names an object that was not stored and
\* read back (EndpointArchive, putAndVerifyObject before recordVerifiedManifest).
ManifestsBacked == Endpoint!ManifestsBacked

\* Endpoint!ArchiveInvisible, the refinement of EndpointHistory: no request is
\* lost or counted twice by a retirement, and a report shows the counts of one
\* moment.  The steps of the shard leave what it is about alone.
ArchiveInvisible ==
  /\ Endpoint!History!Init
  /\ [][part = "endpoint" => Endpoint!History!Next]_<<Endpoint!Counts, Endpoint!Reports>>
=============================================================================
