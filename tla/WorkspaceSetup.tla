---------------------------- MODULE WorkspaceSetup ----------------------------
(***************************************************************************)
(* How a workspace comes to be and gets its projects: the requests of an   *)
(* owner's first session, which each create the personal workspace when    *)
(* they find none, and the import of a catalog, one transaction whose      *)
(* triggers refuse a project of somebody else and a second meaning of a    *)
(* catalog id.                                                             *)
(***************************************************************************)
EXTENDS Integers, FiniteSets, Sequences, Functions

CONSTANTS
  Owner,     \* users that own a workspace each, and name it
  First,     \* requests of an owner's first session
  Existing,  \* apps that exist before, with their workspace
  Holds,     \* the workspace of each existing app, or None for a legacy app
  Catalog,   \* catalog ids
  Content,   \* what a project says of itself
  Import,    \* the requests to import: sequences of projects
  MaxImports,\* bound on imports
  None

\* A project of a request: a new one unless it names an app.
Project ==
  [catalog : Catalog, existing : Existing \union {None}, payload : Content]

SetupScale ==
  /\ Holds \in [Existing -> Owner \union {None}]
  /\ Import \subseteq Seq(Project)
  /\ MaxImports \in Nat /\ None \notin Owner

VARIABLES
  first,     \* where each request of each owner's first session is
  workspace, \* the owners that have a workspace
  signups,   \* how often onCreated ran for each
  apps,      \* workspace_apps
  archived,  \* archived apps
  imports,   \* catalog_project_imports
  confirmed, \* what imports that succeeded were asked for
  asked      \* imports so far

setup == <<first, workspace, signups, apps, archived, imports, confirmed, asked>>

\* The app that an import of catalog id c creates in workspace w.
Created(w, c) == <<w, c>>
-----------------------------------------------------------------------------
Init ==
  /\ first = [w \in Owner |-> [r \in First |-> "start"]]
  /\ workspace = {} /\ signups = [w \in Owner |-> 0]
  /\ apps = {[app |-> a, workspace |-> Holds[a]] : a \in {b \in Existing : Holds[b] # None}}
  /\ archived = {} /\ imports = {} /\ confirmed = {} /\ asked = 0

At(w, r, from, to) == first[w][r] = from /\ first' = [first EXCEPT ![w][r] = to]

\* accountIdentity reads the workspace; personalWorkspace reads it again.
readWorkspace(w, r) ==
  /\ \/ At(w, r, "start", IF w \in workspace THEN "done" ELSE "missing")
     \/ At(w, r, "missing", IF w \in workspace THEN "done" ELSE "insert")
  /\ UNCHANGED <<workspace, signups>>

\* INSERT OR IGNORE: owner_id is unique.
insertWorkspace(w, r) ==
  /\ At(w, r, "insert", IF w \in workspace THEN "ignored" ELSE "inserted")
  /\ workspace' = workspace \union {w}
  /\ UNCHANGED signups

InsertedByAnyone(w, r) == first[w][r] \in {"inserted", "ignored"}

\* Whether this request created the workspace.
Inserted(w, r) == first[w][r] = "inserted"

\* The workspace is read once more, and its creation reported.
reportSignup(w, r) ==
  /\ At(w, r, "inserted", "done") \/ At(w, r, "ignored", "done")
  /\ signups' = IF Inserted(w, r) THEN [signups EXCEPT ![w] = @ + 1] ELSE signups
  /\ UNCHANGED workspace

\* The request dies on the way.
Dies(w, r) ==
  /\ first[w][r] # "done" /\ first' = [first EXCEPT ![w][r] = "done"]
  /\ UNCHANGED <<workspace, signups>>
-----------------------------------------------------------------------------
\* A state of the tables that an import reads and writes.
Tables == [apps |-> apps, imports |-> imports]

\* The app of project p, which INSERT OR IGNORE adds unless it exists.
AppOf(w, p) == IF p.existing = None THEN Created(w, p.catalog) ELSE p.existing

WithApp(t, w, p) ==
  IF p.existing # None \/ \E x \in t.apps : x.app = Created(w, p.catalog) THEN t
  ELSE [t EXCEPT !.apps = @ \union {[app |-> Created(w, p.catalog), workspace |-> w]}]

\* The trigger catalog_import_scope lets the project pass.
InScope(t, w, p) ==
  [app |-> AppOf(w, p), workspace |-> w] \in t.apps /\ AppOf(w, p) \notin archived

Same(t, w, p) == {x \in t.imports : x.workspace = w /\ x.catalog = p.catalog}

AnyPayload(t, w, p) == TRUE

\* catalog_import_identity: the payload of an imported id does not change.
SamePayload(t, w, p) == \A x \in Same(t, w, p) : x.payload = p.payload

\* An app of a workspace has one catalog id.
Unbound(t, w, p) ==
  \A x \in t.imports : x.workspace = w /\ x.app = AppOf(w, p) => x.catalog = p.catalog

\* The tables after project p, or None when a trigger aborts the transaction.
Imported(t, w, p) ==
  IF t = None THEN None
  ELSE LET u == WithApp(t, w, p) IN
    IF ~InScope(u, w, p) \/ ~SamePayload(u, w, p) \/ ~Unbound(u, w, p) THEN None
    ELSE IF Same(u, w, p) # {} THEN u
    ELSE [u EXCEPT !.imports = @ \union
            {[workspace |-> w, catalog |-> p.catalog, app |-> AppOf(w, p),
              payload |-> p.payload]}]

\* The tables after each of the projects of a request in turn.
After(w, request) ==
  LET t[k \in 0..Len(request)] ==
        IF k = 0 THEN Tables ELSE Imported(t[k - 1], w, request[k])
  IN  t

importCatalogProjects(w, request) ==
  /\ w \in workspace /\ asked < MaxImports
  /\ asked' = asked + 1
  /\ LET t == After(w, request)[Len(request)] IN
     IF t = None THEN UNCHANGED <<apps, imports, confirmed>>
     ELSE /\ apps' = t.apps /\ imports' = t.imports
          /\ confirmed' = confirmed \union
               {[workspace |-> w, catalog |-> p.catalog, payload |-> p.payload] :
                  p \in Range(request)}
  /\ UNCHANGED archived

\* An app is archived by hand (docs/project-archive.md).
Archive(a) ==
  /\ a \notin archived
  /\ archived' = archived \union {a}
  /\ UNCHANGED <<apps, imports, confirmed, asked>>

Next ==
  \/ /\ \E w \in Owner, r \in First :
          readWorkspace(w, r) \/ insertWorkspace(w, r) \/ reportSignup(w, r) \/ Dies(w, r)
     /\ UNCHANGED <<apps, archived, imports, confirmed, asked>>
  \/ /\ \/ \E w \in Owner, request \in Import : importCatalogProjects(w, request)
        \/ \E a \in {x.app : x \in apps} : Archive(a)
     /\ UNCHANGED <<first, workspace, signups>>

Spec == Init /\ [][Next]_setup
-----------------------------------------------------------------------------
TypeOK == workspace \subseteq Owner /\ asked \in 0..MaxImports

\* However the first requests of an owner meet, the signup is reported at most
\* once, and only for a workspace that is there.
OneSignup ==
  \A w \in Owner : signups[w] <= 1 /\ (signups[w] = 1 => w \in workspace)

\* An import binds a catalog id to one app of its own workspace, for good, and
\* an app to one catalog id; nothing else claims an app.
ImportsBound ==
  /\ \A x \in imports : [app |-> x.app, workspace |-> x.workspace] \in apps
  /\ \A x, y \in imports : x.workspace = y.workspace =>
       (x.catalog = y.catalog <=> x.app = y.app)
  /\ \A x, y \in apps : x.app = y.app => x = y

\* An import that succeeds leaves every project as it was asked for, also when
\* its id was imported before.
ImportedAsAsked ==
  \A q \in confirmed : \E x \in imports :
    q = [workspace |-> x.workspace, catalog |-> x.catalog, payload |-> x.payload]
=============================================================================
