-------------------------- MODULE ReleaseInstaller --------------------------
(***************************************************************************)
(* The release installer (deploy/release/release_installer.py) on its host *)
(* with systemd: runs that stop the service, back up, migrate the schema   *)
(* from 49 to 50, replace the binary and the frontend, start and prove,    *)
(* while any step may fail, a signal ends a run with its clean-up or       *)
(* without, the host restarts, and an operator starts the service or goes  *)
(* back to a backup.                                                       *)
(***************************************************************************)
EXTENDS Naturals

CONSTANTS Runs,    \* starts of the installer, each with its own backup directory
          Builds,  \* what may be released: each expects schema 50
          Old,     \* the build of schema 49
          None     \* no service, no frontend, no build

ASSUME NamesAssumption == Old \notin Builds /\ None \notin Builds \union {Old}

VARIABLES schema,   \* of the database
          binary,   \* the installed build
          dist,     \* the installed frontend, None while it is replaced
          service,  \* the build that runs
          starter,  \* who started it: the "installer" or the "host"
          unsaved,  \* whether data was written since the last dump
          run,      \* per run, its progress
          goose,    \* runs whose migration has not ended
          late      \* history: a migration ended after its installer

vars == <<schema, binary, dist, service, starter, unsaved, run, goose, late>>

NoCopy == [schema |-> 0, binary |-> None, dist |-> None]
NotStarted == [at |-> "new", build |-> None, initial |-> 0, boundary |-> FALSE, copy |-> NoCopy]

Changing == {"migrating", "migrated", "binary", "nodist", "placed"}
Guarded == {"checked", "stopped", "backed", "started"} \union Changing
Living == Guarded \union {"cleaning"}
Ended == {"refused", "verified", "failed", "unclean", "dead"}

AllBuilds == Builds \union {Old}
Copies == [schema : {49, 50}, binary : AllBuilds, dist : AllBuilds \union {None}]
Progress == [at : {"new"} \union Living \union Ended, build : Builds \union {None},
             initial : {0, 49, 50}, boundary : BOOLEAN, copy : Copies \union {NoCopy}]

TypeOK ==
  /\ schema \in {49, 50}
  /\ binary \in AllBuilds
  /\ dist \in AllBuilds \union {None}
  /\ service \in AllBuilds \union {None}
  /\ starter \in {"installer", "host"}
  /\ unsaved \in BOOLEAN
  /\ run \in [Runs -> Progress]
  /\ goose \subseteq Runs
  /\ late \in BOOLEAN

\* The service of schema 49 runs, or a release has been made before.
Init ==
  /\ \/ schema = 49 /\ binary = Old
     \/ schema = 50 /\ binary \in Builds
  /\ dist = binary
  /\ service = binary
  /\ starter = "host"
  /\ unsaved = TRUE
  /\ run = [r \in Runs |-> NotStarted]
  /\ goose = {}
  /\ late = FALSE

installed == <<schema, binary, dist>>
NoneLives == \A r \in Runs : run[r].at \notin Living

-----------------------------------------------------------------------------
(* A run. *)

\* release_lock, which a run that died has freed, and the checks before anything
\* changes; what they found of the database is not asked again before goose.
Preflight(r, b) ==
  /\ run[r].at = "new"
  /\ \/ /\ NoneLives /\ service # None
        /\ run' = [run EXCEPT ![r] = [NotStarted EXCEPT !.at = "checked", !.build = b,
                                        !.initial = schema, !.boundary = (schema = 50)]]
     \/ run' = [run EXCEPT ![r].at = "refused"]
  /\ UNCHANGED <<installed, service, starter, unsaved, goose, late>>

\* mutant: the service is not seen to have stopped
StopServiceUnseen(r) ==
  /\ run[r].at = "checked"
  /\ run' = [run EXCEPT ![r].at = "stopped"]
  /\ service' \in {service, None}
  /\ UNCHANGED <<installed, starter, unsaved, goose, late>>

StopService(r) ==
  /\ run[r].at = "checked"
  /\ run' = [run EXCEPT ![r].at = "stopped"]
  /\ service' = None
  /\ UNCHANGED <<installed, starter, unsaved, goose, late>>

\* The dump, and the binary and frontend found, of which either may be missing.
BackUp(r) ==
  /\ run[r].at = "stopped"
  /\ run' = [run EXCEPT ![r].at = "backed",
                        ![r].copy = [schema |-> schema, binary |-> binary, dist |-> dist]]
  /\ unsaved' = FALSE
  /\ UNCHANGED <<installed, service, starter, goose, late>>

\* mutant: the boundary is marked after goose instead of before
BeginMigrationUnmarked(r) ==
  /\ run[r].at = "backed"
  /\ run' = [run EXCEPT ![r].at = "migrating"]
  /\ goose' = IF run[r].initial = 49 THEN goose \union {r} ELSE goose
  /\ UNCHANGED <<installed, service, starter, unsaved, late>>

\* Goose is invoked, from 49 only.
BeginMigration(r) ==
  /\ run[r].at = "backed"
  /\ run' = [run EXCEPT ![r].at = "migrating", ![r].boundary = TRUE]
  /\ goose' = IF run[r].initial = 49 THEN goose \union {r} ELSE goose
  /\ UNCHANGED <<installed, service, starter, unsaved, late>>

\* What goose leaves: it is given the one migration.
GooseUpAll(s) == {s, 50, 51}   \* mutant: it is given a directory with later ones
GooseUp(s) == {s, 50}

\* Goose commits the migration, finds it made, or fails; its process goes on
\* when the installer is killed.
GooseEnds(r) ==
  /\ r \in goose
  /\ goose' = goose \ {r}
  /\ schema' \in GooseUp(schema)
  /\ late' = (late \/ (run[r].at \notin Living /\ schema' # schema))
  /\ UNCHANGED <<binary, dist, service, starter, unsaved, run>>

\* schema_version and validate_schema_50.
CheckSchema(r) ==
  /\ run[r].at = "migrating" /\ r \notin goose
  /\ schema = 50
  /\ run' = [run EXCEPT ![r].at = "migrated"]
  /\ UNCHANGED <<installed, service, starter, unsaved, goose, late>>

ReplaceBinary(r) ==
  /\ run[r].at = "migrated"
  /\ run' = [run EXCEPT ![r].at = "binary"]
  /\ binary' = run[r].build
  /\ UNCHANGED <<schema, dist, service, starter, unsaved, goose, late>>

\* The frontend is unpacked beside the old one, which is then removed.
RemoveDist(r) ==
  /\ run[r].at = "binary"
  /\ run' = [run EXCEPT ![r].at = "nodist"]
  /\ dist' = None
  /\ UNCHANGED <<schema, binary, service, starter, unsaved, goose, late>>

PlaceDist(r) ==
  /\ run[r].at = "nodist"
  /\ run' = [run EXCEPT ![r].at = "placed"]
  /\ dist' = run[r].build
  /\ UNCHANGED <<schema, binary, service, starter, unsaved, goose, late>>

StartService(r) ==
  /\ run[r].at = "placed"
  /\ run' = [run EXCEPT ![r].at = "started"]
  /\ service' = binary /\ starter' = "installer"
  /\ UNCHANGED <<installed, unsaved, goose, late>>

\* /ready, /health and the entry assets, local and public.
Prove(r) ==
  /\ run[r].at = "started"
  /\ schema = 50 /\ service = run[r].build /\ dist = run[r].build
  /\ run' = [run EXCEPT ![r].at = "verified"]
  /\ UNCHANGED <<installed, service, starter, unsaved, goose, late>>

\* An error, SIGINT or SIGTERM.  A goose that runs is killed, its transaction
\* having been committed or not.
Fail(r) ==
  /\ run[r].at \in Guarded
  /\ run' = [run EXCEPT ![r].at = "cleaning"]
  /\ goose' = goose \ {r}
  /\ schema' \in IF r \in goose THEN GooseUp(schema) ELSE {schema}
  /\ UNCHANGED <<binary, dist, service, starter, unsaved, late>>

\* Whether the service is left stopped.
PastBoundaryIfMigrates(r) == run[r].boundary /\ run[r].initial = 49   \* mutant: a retry has none
PastBoundary(r) == run[r].boundary

\* ensure_service_state: one of "failed" has verified what it left, one of
\* "unclean" reports that it could not.
CleanUp(r) ==
  /\ run[r].at = "cleaning"
  /\ \/ /\ PastBoundary(r)
        /\ \/ service' = None /\ run' = [run EXCEPT ![r].at = "failed"]
           \/ UNCHANGED service /\ run' = [run EXCEPT ![r].at = "unclean"]
        /\ UNCHANGED starter
     \/ /\ ~PastBoundary(r)
        /\ \/ service # None /\ run' = [run EXCEPT ![r].at = "failed"] /\ UNCHANGED <<service, starter>>
           \/ /\ service = None
              /\ \/ /\ service' = binary /\ starter' = "installer"
                    /\ run' = [run EXCEPT ![r].at = "failed"]
                 \/ run' = [run EXCEPT ![r].at = "unclean"] /\ UNCHANGED <<service, starter>>
  /\ UNCHANGED <<installed, unsaved, goose, late>>

\* A signal without a handler, SIGHUP or SIGKILL, or a second one during the
\* clean-up: the run ends as it stands.
Die(r) ==
  /\ run[r].at \in Living
  /\ run' = [run EXCEPT ![r].at = "dead"]
  /\ UNCHANGED <<installed, service, starter, unsaved, goose, late>>

-----------------------------------------------------------------------------
(* The host, its users and its operator. *)

\* Requests are served.
Write ==
  /\ service # None /\ ~unsaved
  /\ unsaved' = TRUE
  /\ UNCHANGED <<installed, service, starter, run, goose, late>>

\* The host restarts: the unit is enabled, so systemd starts what is installed.
Reboot ==
  /\ run' = [r \in Runs |-> IF run[r].at \in Living THEN [run[r] EXCEPT !.at = "dead"] ELSE run[r]]
  /\ goose' = {}
  /\ service' = binary /\ starter' = "host"
  /\ UNCHANGED <<installed, unsaved, late>>

\* The operator starts the service, as every retry requires.
StartByHand ==
  /\ NoneLives
  /\ service = None
  /\ service' = binary /\ starter' = "host"
  /\ UNCHANGED <<installed, unsaved, run, goose, late>>

Release(s, b, d) == b = d /\ (s = 49 <=> b = Old)
Whole(r) == run[r].copy # NoCopy /\ Release(run[r].copy.schema, run[r].copy.binary, run[r].copy.dist)

\* The operator goes back to a backup of one release, with the service stopped.
Restore(r) ==
  /\ NoneLives /\ goose = {}
  /\ service = None
  /\ Whole(r)
  /\ schema' = run[r].copy.schema /\ binary' = run[r].copy.binary /\ dist' = run[r].copy.dist
  /\ unsaved' = FALSE
  /\ UNCHANGED <<service, starter, run, goose, late>>

Run(r) ==
  \/ StopService(r) \/ BackUp(r) \/ BeginMigration(r) \/ GooseEnds(r) \/ CheckSchema(r)
  \/ ReplaceBinary(r) \/ RemoveDist(r) \/ PlaceDist(r) \/ StartService(r) \/ Prove(r)
  \/ Fail(r) \/ CleanUp(r) \/ Die(r)
  \/ \E b \in Builds : Preflight(r, b)

Host == Write \/ Reboot \/ StartByHand \/ \E r \in Runs : Restore(r)

Next == Host \/ \E r \in Runs : Run(r)

Spec == Init /\ [][Next]_vars

-----------------------------------------------------------------------------
\* What the installer puts or leaves in service is one release, whichever steps of
\* this run or of earlier ones failed: binary, frontend and schema belong together,
\* and never is the build of schema 49 put on schema 50.  Only the host does that,
\* when it restarts or is told to, or a migration that outlives its installer.
LeavesOneRelease ==
  service # None /\ starter = "installer" /\ ~late =>
     service = binary /\ Release(schema, binary, dist)

\* A run changes nothing before it has all that was written, and as long as
\* what is installed is not one release there is a backup of one to go back to.
CanGoBack ==
  /\ \A r \in Runs : run[r].at \in Changing => ~unsaved
  /\ ~Release(schema, binary, dist) => \E r \in Runs : Whole(r)
=============================================================================
