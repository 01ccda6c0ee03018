------------------------------ MODULE Projects ------------------------------
(***************************************************************************)
(* One project directory and the engines that work on it (store/projects.py*)
(* with store/locks.py).  Normally there is one engine; a developer's      *)
(* second one is what project.lock is for.  An engine runs the project     *)
(* routes one after the other on its event loop, and the requests that     *)
(* edit the book beside it in a pool thread (one here; ChapterStore has    *)
(* what several of them do to each other, and the book).                   *)
(*                                                                         *)
(* A file that is unlinked while an engine has it open stays usable for    *)
(* that engine only (POSIX).  A handle is an OpenProject object; the       *)
(* thread keeps the one it was given when the project is closed.           *)
(***************************************************************************)
EXTENDS Naturals, FiniteSets

CONSTANTS Engines,     \* engine processes
          Names,       \* names a project can be given
          None,        \* no file, no handle
          Empty,       \* a database without the row of the project
          Linked,      \* a handle uses project.db itself
          MaxRevision, \* bound: revisions of the book
          MaxCrashes   \* bound: deaths of engines

ASSUME ProjectsAssumption == MaxRevision \in Nat /\ MaxCrashes \in Nat

Manifest == [name : Names, revision : 0..MaxRevision]

\* What a database file holds.
Stored == {None, Empty} \cup 0..MaxRevision

Handle == [manifest : Manifest, db : Stored \cup {Linked}]

ASSUME NoneAssumption == None \notin Manifest \cup Handle \cup Engines
ASSUME RevisionAssumption == {None, Empty} \cap Nat = {}

VARIABLES manifest, \* project.json
          db,       \* project.db: None, Empty (no project row) or its revision
          holder,   \* the engine that holds the lock on project.lock
          born,     \* whether the project was ever created
          open,     \* the handle of each engine: its copy of the manifest, and
                    \* db, Linked or what its unlinked database holds
          loop,     \* the project request each engine is working on
          thread,   \* the edit each engine is working on
          stale,    \* the handle that edit uses once it is closed
          intruded, \* history: a PATCH or DELETE overlapped with another request
                    \* or met a project that another engine had open, or a
                    \* project was closed under an edit
          crashes

vars == <<manifest, db, holder, born, open, loop, thread, stale, intruded, crashes>>

-----------------------------------------------------------------------------
Idle == [op |-> "idle"]

Database(h) == IF h.db = Linked THEN db ELSE h.db

Init == /\ \/ /\ manifest = None /\ db = None /\ born = FALSE
           \/ /\ manifest \in [name : Names, revision : {0}] /\ db = 0 /\ born = TRUE
        /\ holder = None
        /\ open = [e \in Engines |-> None]
        /\ loop = [e \in Engines |-> Idle]
        /\ thread = [e \in Engines |-> Idle]
        /\ stale = [e \in Engines |-> None]
        /\ intruded = FALSE
        /\ crashes = 0

AtWork == \E e \in Engines : loop[e] # Idle \/ thread[e] # Idle

OpenElsewhere(e) == \E f \in Engines \ {e} : open[f] # None

\* A PATCH or DELETE, which take no lock, is in progress.
Unguarded == \E e \in Engines : loop[e].op \in {"patch", "delete"}

\* The event loop of e takes a request.
Begin(e, work) == /\ loop[e] = Idle
                  /\ loop' = [loop EXCEPT ![e] = work]

\* Afterwards open is h; an edit in progress keeps the handle it has.
Reopened(e, h) == /\ open' = [open EXCEPT ![e] = h]
                  /\ stale' = [stale EXCEPT ![e] = IF thread[e] # Idle /\ @ = None
                                                   THEN open[e] ELSE @]

-----------------------------------------------------------------------------
(* POST /projects *)

\* A new identifier, its directories and the manifest ...
Create(e) == /\ ~born
             /\ Begin(e, [op |-> "create"])
             /\ born' = TRUE
             /\ manifest' \in [name : Names, revision : {0}]
             /\ intruded' = (intruded \/ Unguarded)
             /\ UNCHANGED <<db, holder, open, thread, stale, crashes>>

\* ... then the database with its row.  An exception removes the directory.
CreateEnds(e) == /\ loop[e].op = "create"
                 /\ loop' = [loop EXCEPT ![e] = Idle]
                 /\ \/ db' = 0 /\ UNCHANGED manifest
                    \/ db' = None /\ manifest' = None
                 /\ UNCHANGED <<holder, born, open, thread, stale, intruded, crashes>>

-----------------------------------------------------------------------------
(* POST /projects/{id}/open and /close *)

\* The manifest is read before the lock is taken.
OpenRead(e) == /\ manifest # None
               /\ open[e] = None
               /\ Begin(e, [op |-> "open", manifest |-> manifest])
               /\ intruded' = (intruded \/ Unguarded)
               /\ UNCHANGED <<manifest, db, holder, born, open, thread, stale, crashes>>

\* Mutant: the lock is not waited for and not insisted on.
OpenLockAnyway(e) ==
    /\ loop[e].op = "open"
    /\ holder' = e
    /\ loop' = [loop EXCEPT ![e].op = "locked"]
    /\ UNCHANGED <<manifest, db, born, open, thread, stale, intruded, crashes>>

\* ProjectLock.acquire(): a lock held by another handle refuses the request.
OpenLock(e) ==
    /\ loop[e].op = "open"
    /\ IF holder = None
       THEN holder' = e /\ loop' = [loop EXCEPT ![e].op = "locked"]
       ELSE loop' = [loop EXCEPT ![e] = Idle] /\ UNCHANGED holder
    /\ UNCHANGED <<manifest, db, born, open, thread, stale, intruded, crashes>>

\* The lock of e is given up, if it still is the one of project.lock.
Unlocked(e) == IF holder = e THEN None ELSE holder

\* Mutant: a failed open keeps the lock.
OpenEndsLocked(e) ==
    /\ loop[e].op = "locked"
    /\ loop' = [loop EXCEPT ![e] = Idle]
    /\ db' = IF db = None THEN Empty ELSE db
    /\ \/ Reopened(e, [manifest |-> loop[e].manifest, db |-> Linked])
       \/ UNCHANGED <<open, stale>>
    /\ UNCHANGED <<manifest, holder, born, thread, intruded, crashes>>

\* Migrations (which create a missing database, without the project's row) and
\* the reconciliation of the chunks; an exception releases the lock.
OpenEnds(e) ==
    /\ loop[e].op = "locked"
    /\ loop' = [loop EXCEPT ![e] = Idle]
    /\ db' = IF db = None THEN Empty ELSE db
    /\ \/ /\ Reopened(e, [manifest |-> loop[e].manifest, db |-> Linked])
          /\ UNCHANGED holder
       \/ /\ holder' = Unlocked(e)
          /\ UNCHANGED <<open, stale>>
    /\ UNCHANGED <<manifest, born, thread, intruded, crashes>>

\* OpenProject.dispose() releases the lock and closes the connection.  Also
\* the hook that runs on shutdown.
Close(e) == /\ open[e] # None
            /\ loop[e] = Idle
            /\ Reopened(e, None)
            /\ holder' = Unlocked(e)
            /\ intruded' = (intruded \/ Unguarded \/ thread[e] # Idle)
            /\ UNCHANGED <<manifest, db, born, loop, thread, crashes>>

-----------------------------------------------------------------------------
(* PATCH /projects/{id}: never takes the lock. *)

PatchRead(e) == /\ manifest # None
                /\ \E name \in Names, renames, cloud \in BOOLEAN :
                     Begin(e, [op |-> "patch", renames |-> renames, cloud |-> cloud,
                               manifest |-> IF renames THEN [manifest EXCEPT !.name = name]
                                                       ELSE manifest])
                /\ intruded' = (intruded \/ AtWork \/ OpenElsewhere(e))
                /\ UNCHANGED <<manifest, db, holder, born, open, thread, stale, crashes>>

\* The manifest unless only the cloud switch changes, that switch in the
\* database (a session creates a missing file and then fails), and the copy of
\* the open project.
PatchWrite(e) ==
    /\ loop[e].op = "patch"
    /\ loop' = [loop EXCEPT ![e] = Idle]
    /\ manifest' = IF loop[e].renames THEN loop[e].manifest ELSE manifest
    /\ LET here == open[e] # None
           row  == IF here THEN Database(open[e]) ELSE db
       IN  /\ db' = IF loop[e].cloud /\ ~here /\ db = None THEN Empty ELSE db
           /\ open' = IF here /\ (loop[e].cloud => row \in Nat)
                      THEN [open EXCEPT ![e].manifest = loop[e].manifest]
                      ELSE open
    /\ UNCHANGED <<holder, born, thread, stale, intruded, crashes>>

-----------------------------------------------------------------------------
(* DELETE /projects/{id}: never takes the lock either. *)

\* An open project is closed first.  Without its audio the project loses its
\* manifest, database and lock, in this order; rmtree takes any order.
Delete(e) == /\ born
             /\ \E all \in BOOLEAN :
                  Begin(e, [op |-> "delete", all |-> all, todo |-> {"manifest", "db", "lock"}])
             /\ IF open[e] = None THEN UNCHANGED <<open, stale, holder>>
                ELSE Reopened(e, None) /\ holder' = Unlocked(e)
             /\ intruded' = (intruded \/ AtWork \/ OpenElsewhere(e))
             /\ UNCHANGED <<manifest, db, born, thread, crashes>>

\* What a handle holds once the database is unlinked.
Orphaned(h) == IF h # None /\ Database(h) = db /\ db # None THEN [h EXCEPT !.db = db] ELSE h

\* The order in which files are unlinked one by one.
Before(f, g) == <<f, g>> \in {<<"manifest", "db">>, <<"manifest", "lock">>, <<"db", "lock">>}

Unlink(e) ==
    /\ loop[e].op = "delete"
    /\ \E f \in loop[e].todo :
         /\ ~loop[e].all => \A g \in loop[e].todo : ~Before(g, f)
         /\ loop' = [loop EXCEPT ![e].todo = @ \ {f}]
         /\ manifest' = IF f = "manifest" THEN None ELSE manifest
         /\ db' = IF f = "db" THEN None ELSE db
         /\ holder' = IF f = "lock" THEN None ELSE holder
         /\ open' = IF f = "db" THEN [g \in Engines |-> Orphaned(open[g])] ELSE open
    /\ UNCHANGED <<born, thread, stale, intruded, crashes>>

\* rmtree fails when something was written into the directory meanwhile.
DeleteEnds(e) == /\ loop[e].op = "delete" /\ loop[e].todo = {}
                 /\ loop' = [loop EXCEPT ![e] = Idle]
                 /\ UNCHANGED <<manifest, db, holder, born, open, thread, stale, intruded, crashes>>

-----------------------------------------------------------------------------
(* An edit of the book, in a pool thread. *)

\* require_open() and the queries; a project without its row is answered 404.
EditBegin(e) ==
    /\ open[e] # None
    /\ thread[e] = Idle
    /\ Database(open[e]) \in 0..MaxRevision-1
    /\ thread' = [thread EXCEPT ![e] = [op |-> "editing", next |-> Database(open[e]) + 1]]
    /\ intruded' = (intruded \/ Unguarded)
    /\ UNCHANGED <<manifest, db, holder, born, open, loop, stale, crashes>>

\* The manifest is that of handle h with another revision.
Announce(e, revision) ==
    LET h == IF stale[e] # None THEN stale[e] ELSE open[e]
        m == [h.manifest EXCEPT !.revision = revision]
    IN  /\ manifest' = m
        /\ IF stale[e] # None
           THEN stale' = [stale EXCEPT ![e].manifest = m] /\ UNCHANGED open
           ELSE open' = [open EXCEPT ![e].manifest = m] /\ UNCHANGED stale

\* Mutant: the manifest gets the revision the edit started from.
EditManifestBehind(e) ==
    /\ thread[e].op = "editing"
    /\ Announce(e, thread[e].next - 1)
    /\ thread' = [thread EXCEPT ![e].op = "written"]
    /\ UNCHANGED <<db, holder, born, loop, intruded, crashes>>

\* ChapterStore._bump() writes the manifest from the copy of the handle, into a
\* directory it creates if there is none.
EditManifest(e) ==
    /\ thread[e].op = "editing"
    /\ Announce(e, thread[e].next)
    /\ thread' = [thread EXCEPT ![e].op = "written"]
    /\ UNCHANGED <<db, holder, born, loop, intruded, crashes>>

\* The commit needs the connection, which closing the project has closed.
EditEnds(e) ==
    /\ thread[e].op = "written"
    /\ thread' = [thread EXCEPT ![e] = Idle]
    /\ stale' = [stale EXCEPT ![e] = None]
    /\ \/ UNCHANGED <<db, open>>     \* rolled back
       \/ /\ stale[e] = None
          /\ IF open[e].db = Linked
             THEN db' = thread[e].next /\ UNCHANGED open
             ELSE open' = [open EXCEPT ![e].db = thread[e].next] /\ UNCHANGED db
    /\ UNCHANGED <<manifest, holder, born, loop, intruded, crashes>>

-----------------------------------------------------------------------------
\* The engine dies; the system drops its lock.
Crash(e) == /\ crashes < MaxCrashes
            /\ crashes' = crashes + 1
            /\ open' = [open EXCEPT ![e] = None]
            /\ stale' = [stale EXCEPT ![e] = None]
            /\ loop' = [loop EXCEPT ![e] = Idle]
            /\ thread' = [thread EXCEPT ![e] = Idle]
            /\ holder' = Unlocked(e)
            /\ UNCHANGED <<manifest, db, born, intruded>>

Next == \E e \in Engines :
          \/ Create(e) \/ CreateEnds(e)
          \/ OpenRead(e) \/ OpenLock(e) \/ OpenEnds(e) \/ Close(e)
          \/ PatchRead(e) \/ PatchWrite(e)
          \/ Delete(e) \/ Unlink(e) \/ DeleteEnds(e)
          \/ EditBegin(e) \/ EditManifest(e) \/ EditEnds(e)
          \/ Crash(e)

Spec == Init /\ [][Next]_vars

-----------------------------------------------------------------------------
\* locks.py: one process per project, whatever dies, as long as no engine
\* patches or deletes a project that another one has open.
OneOwner == ~intruded => Cardinality({e \in Engines : open[e] # None}) <= 1

\* A lock is held by an engine that has the project open or is opening it:
\* none is left behind by a refused, failed or interrupted request, which would
\* keep the project closed until that engine ends.
LockIsAccountedFor ==
    \A e \in Engines : holder = e => open[e] # None \/ loop[e].op = "locked"

\* Both: the lock is what it is for.
LockIsKept == OneOwner /\ LockIsAccountedFor

\* The Library never shows an older revision than the database has.
ManifestNotBehind == (~intruded /\ manifest # None /\ db \in Nat) => manifest.revision >= db

=============================================================================
