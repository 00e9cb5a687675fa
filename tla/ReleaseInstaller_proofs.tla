---------------------- MODULE ReleaseInstaller_proofs ----------------------
(***************************************************************************)
(* Theorems about ReleaseInstaller, for any number of runs and builds.     *)
(***************************************************************************)
EXTENDS ReleaseInstaller, TLAPS

\* One run at a time: release_lock.
OneLives == \A r, q \in Runs : run[r].at \in Living /\ run[q].at \in Living => r = q

\* The build of schema 49 is replaced after the migration only.
OldOn49 == schema = 49 => binary = Old /\ dist = Old

Installing == {"migrated", "binary", "nodist", "placed", "started"}

\* What a run has reached of its own, at each of its stages.
Reached ==
  \A r \in Runs :
    /\ run[r].at \in Living => run[r].build \in Builds
    /\ run[r].at \in Installing => schema = 50
    /\ run[r].at \in {"binary", "nodist", "placed", "started"} => binary = run[r].build
    /\ run[r].at \in {"placed", "started"} => dist = run[r].build

\* While a run changes what is installed nothing is served or written.
Quiet ==
  \A r \in Runs :
    /\ run[r].at \in {"stopped", "backed"} \union Changing => service = None
    /\ run[r].at \in {"backed"} \union Changing => ~unsaved

\* A migration begins after the boundary is marked and the backup made, and before
\* the boundary the schema is as it was found.
Bounded ==
  \A r \in Runs :
    /\ run[r].at \in {"new", "checked", "stopped"} => run[r].copy = NoCopy
    /\ r \in goose => run[r].copy # NoCopy
    /\ r \in goose /\ run[r].at \in Living => run[r].at = "migrating"
    /\ run[r].at \in {"backed", "started"} \union Changing => run[r].copy # NoCopy
    /\ run[r].at \in Changing => run[r].boundary
    /\ run[r].at \in Living /\ ~run[r].boundary => schema = 49 \/ late

\* The first backup of all is of one release, and none is lost.
Backed ==
  ~Release(schema, binary, dist) \/ (\E r \in Runs : run[r].copy # NoCopy) => \E r \in Runs : Whole(r)

IInv == TypeOK /\ OneLives /\ OldOn49 /\ Reached /\ Quiet /\ Bounded /\ Backed /\ LeavesOneRelease

Stages == {"new"} \union Living \union Ended

-----------------------------------------------------------------------------
\* A run that only moves on keeps what it has, and the other runs keep all.
LEMMA MovesOn ==
  ASSUME TypeOK, NEW r \in Runs, NEW x \in Stages, run' = [run EXCEPT ![r].at = x]
  PROVE  /\ run' \in [Runs -> Progress]
         /\ run'[r].at = x
         /\ \A q \in Runs : /\ q # r => run'[q].at = run[q].at
                            /\ run'[q].build = run[q].build
                            /\ run'[q].initial = run[q].initial
                            /\ run'[q].boundary = run[q].boundary
                            /\ run'[q].copy = run[q].copy
<1>1. run \in [Runs -> Progress]  BY DEF TypeOK
<1>2. run' = [run EXCEPT ![r] = [run[r] EXCEPT !.at = x]]  OBVIOUS
<1>3. [run[r] EXCEPT !.at = x] \in Progress  BY <1>1 DEF Progress, Stages
<1> QED  BY <1>1, <1>2, <1>3 DEF Progress

\* A run that backs up has the copy besides.
LEMMA BacksUp ==
  ASSUME TypeOK, NEW r \in Runs, NEW c \in Copies,
         run' = [run EXCEPT ![r].at = "backed", ![r].copy = c]
  PROVE  /\ run' \in [Runs -> Progress]
         /\ run'[r].at = "backed" /\ run'[r].copy = c
         /\ \A q \in Runs : /\ q # r => run'[q].at = run[q].at /\ run'[q].copy = run[q].copy
                            /\ run'[q].build = run[q].build
                            /\ run'[q].initial = run[q].initial
                            /\ run'[q].boundary = run[q].boundary
<1>1. run \in [Runs -> Progress]  BY DEF TypeOK
<1>2. run' = [run EXCEPT ![r] = [run[r] EXCEPT !.at = "backed", !.copy = c]]  BY <1>1
<1>3. [run[r] EXCEPT !.at = "backed", !.copy = c] \in Progress
  <2>1. run[r] \in Progress  BY <1>1
  <2>2. "backed" \in {"new"} \union Living \union Ended  BY DEF Living, Guarded
  <2> QED  BY <2>1, <2>2 DEF Progress
<1> QED  BY <1>1, <1>2, <1>3 DEF Progress

\* A run that migrates has marked the boundary.
LEMMA Marks ==
  ASSUME TypeOK, NEW r \in Runs, run' = [run EXCEPT ![r].at = "migrating", ![r].boundary = TRUE]
  PROVE  /\ run' \in [Runs -> Progress]
         /\ run'[r].at = "migrating" /\ run'[r].boundary = TRUE
         /\ \A q \in Runs : /\ q # r => run'[q].at = run[q].at /\ run'[q].boundary = run[q].boundary
                            /\ run'[q].build = run[q].build
                            /\ run'[q].initial = run[q].initial
                            /\ run'[q].copy = run[q].copy
<1>1. run \in [Runs -> Progress]  BY DEF TypeOK
<1>2. run' = [run EXCEPT ![r] = [run[r] EXCEPT !.at = "migrating", !.boundary = TRUE]]  BY <1>1
<1>3. [run[r] EXCEPT !.at = "migrating", !.boundary = TRUE] \in Progress
  <2>1. run[r] \in Progress  BY <1>1
  <2>2. "migrating" \in {"new"} \union Living \union Ended  BY DEF Living, Guarded, Changing
  <2> QED  BY <2>1, <2>2 DEF Progress
<1>4. [run[r] EXCEPT !.at = "migrating", !.boundary = TRUE].boundary = TRUE
  BY <1>1 DEF Progress
<1>5. /\ run'[r] = [run[r] EXCEPT !.at = "migrating", !.boundary = TRUE]
      /\ \A q \in Runs : q # r => run'[q] = run[q]
  BY <1>1, <1>2
<1>6. /\ run' \in [Runs -> Progress]
      /\ run'[r].boundary = TRUE
  BY <1>1, <1>2, <1>3, <1>4, <1>5
<1>7. /\ run'[r].at = "migrating"
      /\ run'[r].build = run[r].build
      /\ run'[r].initial = run[r].initial
      /\ run'[r].copy = run[r].copy
  BY <1>1, <1>5 DEF Progress
<1> QED  BY <1>5, <1>6, <1>7

\* What the two records of a run are when it begins.
LEMMA Fresh ==
  /\ NotStarted \in Progress
  /\ NotStarted.at = "new" /\ NotStarted.copy = NoCopy
BY DEF NotStarted, Progress

-----------------------------------------------------------------------------
(* Types. *)

\* The initial state is of its types.
LEMMA InitType == Init => TypeOK
<1> SUFFICES ASSUME Init PROVE TypeOK  OBVIOUS
<1>1. run \in [Runs -> Progress]  BY Fresh DEF Init
<1> QED  BY <1>1 DEF Init, TypeOK, AllBuilds

\* Every step keeps the types: what a run installs is a build.
LEMMA NextType == TypeOK /\ Reached /\ [Next]_vars => TypeOK'
<1> SUFFICES ASSUME TypeOK, Reached, [Next]_vars PROVE TypeOK'  OBVIOUS
<1> USE DEF Stages, Living, Guarded, Changing, Ended
<1>1. ASSUME NEW r \in Runs, NEW b \in Builds, Preflight(r, b) PROVE TypeOK'
  <2>1. [NotStarted EXCEPT !.at = "checked", !.build = b, !.initial = schema, !.boundary = (schema = 50)]
          \in Progress
    BY Fresh DEF Progress, NotStarted, TypeOK
  <2>2. run' \in [Runs -> Progress]
    BY <1>1, <2>1, MovesOn DEF Preflight, TypeOK
  <2> QED  BY <1>1, <2>2 DEF Preflight, TypeOK, installed
<1>2. ASSUME NEW r \in Runs, BackUp(r) PROVE TypeOK'
  <2>1. [schema |-> schema, binary |-> binary, dist |-> dist] \in Copies  BY DEF TypeOK, Copies
  <2>2. run' \in [Runs -> Progress]  BY <1>2, <2>1, BacksUp DEF BackUp
  <2> QED  BY <1>2, <2>2 DEF BackUp, TypeOK, installed
<1>3. ASSUME NEW r \in Runs, BeginMigration(r) PROVE TypeOK'
  <2>1. run' \in [Runs -> Progress]  BY <1>3, Marks DEF BeginMigration
  <2> QED  BY <1>3, <2>1 DEF BeginMigration, TypeOK, installed
<1>4. ASSUME NEW r \in Runs, GooseEnds(r) PROVE TypeOK'
  BY <1>4 DEF GooseEnds, GooseUp, TypeOK
<1>5. ASSUME NEW r \in Runs, StopService(r) \/ CheckSchema(r) PROVE TypeOK'
  BY <1>5, MovesOn DEF StopService, CheckSchema, TypeOK, installed
<1>6. ASSUME NEW r \in Runs, ReplaceBinary(r) \/ RemoveDist(r) \/ PlaceDist(r) PROVE TypeOK'
  <2>1. run[r].build \in Builds  BY <1>6 DEF Reached, ReplaceBinary, RemoveDist, PlaceDist
  <2>2. run' \in [Runs -> Progress]  BY <1>6, MovesOn DEF ReplaceBinary, RemoveDist, PlaceDist
  <2> QED  BY <1>6, <2>1, <2>2 DEF ReplaceBinary, RemoveDist, PlaceDist, TypeOK, AllBuilds, installed
<1>7. ASSUME NEW r \in Runs, StartService(r) \/ Prove(r) PROVE TypeOK'
  BY <1>7, MovesOn DEF StartService, Prove, TypeOK, installed
<1>8. ASSUME NEW r \in Runs, Fail(r) \/ Die(r) PROVE TypeOK'
  BY <1>8, MovesOn DEF Fail, Die, GooseUp, TypeOK, installed
<1>9. ASSUME NEW r \in Runs, CleanUp(r) PROVE TypeOK'
  BY <1>9, MovesOn DEF CleanUp, TypeOK, installed
<1>10. CASE Write  BY <1>10 DEF Write, TypeOK, installed
<1>11. CASE Reboot
  <2>1. run' \in [Runs -> Progress]  BY <1>11 DEF Reboot, TypeOK, Progress
  <2> QED  BY <1>11, <2>1 DEF Reboot, TypeOK, installed
<1>12. CASE StartByHand  BY <1>12 DEF StartByHand, TypeOK, installed
<1>13. ASSUME NEW r \in Runs, Restore(r) PROVE TypeOK'
  <2>1. run[r].copy \in Copies  BY <1>13 DEF TypeOK, Progress, Restore, Whole
  <2>2. /\ run[r].copy.schema \in {49, 50}
        /\ run[r].copy.binary \in AllBuilds
        /\ run[r].copy.dist \in AllBuilds \union {None}
    BY <2>1 DEF Copies
  <2> QED  BY <1>13, <2>2 DEF Restore, TypeOK
<1>14. CASE UNCHANGED vars  BY <1>14 DEF vars, TypeOK
<1> QED
  BY <1>1, <1>2, <1>3, <1>4, <1>5, <1>6, <1>7, <1>8, <1>9, <1>10, <1>11, <1>12, <1>13, <1>14
     DEF Next, Run, Host

-----------------------------------------------------------------------------
(* The inductive invariant, one lemma per kind of step. *)

\* Backups that stay are enough when nothing is changed, or one was made before.
LEMMA KeepsBacked ==
  ASSUME Backed, \A q \in Runs : run'[q].copy = run[q].copy,
         UNCHANGED installed \/ \E q \in Runs : run[q].copy # NoCopy
  PROVE  Backed'
BY DEF Backed, Whole, installed

\* The initial state: one release, and no run.
LEMMA InitIInv == Init => IInv
<1> SUFFICES ASSUME Init PROVE IInv  OBVIOUS
<1>1. \A r \in Runs : run[r].at = "new" /\ run[r].copy = NoCopy  BY Fresh DEF Init
<1>2. TypeOK  BY InitType
<1>3. Release(schema, binary, dist)  BY NamesAssumption DEF Init, Release
<1>4. OneLives /\ Reached /\ Quiet
  BY <1>1 DEF OneLives, Reached, Quiet, Living, Guarded, Changing, Installing
<1>5. OldOn49 /\ LeavesOneRelease  BY NamesAssumption DEF Init, OldOn49, LeavesOneRelease
<1>6. Bounded  BY <1>1 DEF Init, Bounded, Living, Guarded, Changing
<1>7. Backed  BY <1>1, <1>3 DEF Backed
<1> QED  BY <1>2, <1>3, <1>4, <1>5, <1>6, <1>7 DEF IInv

\* A run begins when none lives, and is bounded by the schema it finds.
LEMMA PreflightKeeps ==
  ASSUME IInv, NEW r \in Runs, NEW b \in Builds, Preflight(r, b)
  PROVE  /\ OneLives' /\ OldOn49' /\ Reached' /\ Quiet'
         /\ Bounded' /\ Backed' /\ LeavesOneRelease'
<1> USE DEF Living, Guarded, Changing, Installing
<1> DEFINE new == [NotStarted EXCEPT !.at = "checked", !.build = b, !.initial = schema,
                                     !.boundary = (schema = 50)]
<1>1. /\ UNCHANGED <<schema, binary, dist, service, starter, unsaved, goose, late>>
      /\ run[r].at = "new" /\ run[r].copy = NoCopy
  BY DEF Preflight, installed, IInv, Bounded
<1>2. OldOn49' /\ LeavesOneRelease'  BY <1>1 DEF IInv, OldOn49, LeavesOneRelease
<1>3. CASE run' = [run EXCEPT ![r].at = "refused"]
  <2>1. /\ run'[r].at = "refused"
        /\ \A q \in Runs : /\ q # r => run'[q].at = run[q].at
                           /\ run'[q].build = run[q].build
                           /\ run'[q].boundary = run[q].boundary
                           /\ run'[q].copy = run[q].copy
    BY <1>3, MovesOn DEF Stages, Ended, IInv
  <2>2. OneLives' /\ Reached' /\ Quiet'  BY <1>1, <2>1 DEF IInv, OneLives, Reached, Quiet
  <2>3. Bounded'  BY <1>1, <2>1 DEF IInv, Bounded
  <2>4. Backed'  BY <1>1, <2>1, KeepsBacked DEF IInv, installed
  <2> QED  BY <1>2, <2>2, <2>3, <2>4
<1>4. CASE NoneLives /\ run' = [run EXCEPT ![r] = new]
  <2>1. new.at = "checked" /\ new.build = b /\ new.copy = NoCopy  BY DEF NotStarted
  <2>2. new.boundary = (schema = 50)  BY DEF NotStarted
  <2>3. run \in [Runs -> Progress]  BY DEF IInv, TypeOK
  <2> HIDE DEF new
  <2>4. /\ run'[r] = new
        /\ \A q \in Runs : q # r => run'[q] = run[q] /\ run[q].at \notin Living
    BY <1>4, <2>3 DEF NoneLives
  <2>5. OneLives' /\ Reached' /\ Quiet'
    BY <1>1, <2>1, <2>4 DEF IInv, OneLives, Reached, Quiet
  <2>6. ~run'[r].boundary => schema = 49  BY <2>2, <2>4 DEF IInv, TypeOK
  <2>7. r \notin goose  BY <1>1 DEF IInv, Bounded
  <2>8. Bounded'  BY <1>1, <2>1, <2>4, <2>6, <2>7 DEF IInv, Bounded
  <2>9. Backed'
    <3>1. \A q \in Runs : run'[q].copy = run[q].copy  BY <1>1, <2>1, <2>4
    <3> QED  BY <1>1, <3>1, KeepsBacked DEF IInv, installed
  <2> QED  BY <1>2, <2>5, <2>8, <2>9
<1> QED  BY <1>3, <1>4 DEF Preflight

\* The service is stopped.
LEMMA StopServiceKeeps ==
  ASSUME IInv, NEW r \in Runs, StopService(r)
  PROVE  /\ OneLives' /\ OldOn49' /\ Reached' /\ Quiet'
         /\ Bounded' /\ Backed' /\ LeavesOneRelease'
<1> USE DEF Living, Guarded, Changing, Installing
<1>1. /\ run'[r].at = "stopped"
      /\ \A q \in Runs : /\ q # r => run'[q].at = run[q].at
                         /\ run'[q].build = run[q].build
                         /\ run'[q].boundary = run[q].boundary
                         /\ run'[q].copy = run[q].copy
  BY MovesOn DEF Stages, Ended, StopService, IInv
<1>2. \A q \in Runs : q # r => run[q].at \notin Living  BY DEF IInv, OneLives, StopService
<1>3. OneLives' /\ OldOn49' /\ Reached'
  BY <1>1, <1>2 DEF IInv, TypeOK, OneLives, OldOn49, Reached, StopService, installed
<1>4. Quiet'  BY <1>1, <1>2 DEF IInv, Quiet, StopService, installed
<1>5. Bounded'  BY <1>1, <1>2 DEF IInv, Bounded, StopService, installed
<1>6. Backed'  BY <1>1, KeepsBacked DEF IInv, Bounded, StopService, installed
<1>7. LeavesOneRelease'  BY <1>1, NamesAssumption DEF IInv, Reached, Quiet, LeavesOneRelease, Release, StopService, installed
<1> QED  BY <1>3, <1>4, <1>5, <1>6, <1>7

\* The schema is found to be 50.
LEMMA CheckSchemaKeeps ==
  ASSUME IInv, NEW r \in Runs, CheckSchema(r)
  PROVE  /\ OneLives' /\ OldOn49' /\ Reached' /\ Quiet'
         /\ Bounded' /\ Backed' /\ LeavesOneRelease'
<1> USE DEF Living, Guarded, Changing, Installing
<1>1. /\ run'[r].at = "migrated"
      /\ \A q \in Runs : /\ q # r => run'[q].at = run[q].at
                         /\ run'[q].build = run[q].build
                         /\ run'[q].boundary = run[q].boundary
                         /\ run'[q].copy = run[q].copy
  BY MovesOn DEF Stages, Ended, CheckSchema, IInv
<1>2. \A q \in Runs : q # r => run[q].at \notin Living  BY DEF IInv, OneLives, CheckSchema
<1>3. OneLives' /\ OldOn49' /\ Reached'
  BY <1>1, <1>2 DEF IInv, TypeOK, OneLives, OldOn49, Reached, CheckSchema, installed
<1>4. Quiet'  BY <1>1, <1>2 DEF IInv, Quiet, CheckSchema, installed
<1>5. Bounded'  BY <1>1, <1>2 DEF IInv, Bounded, CheckSchema, installed
<1>6. Backed'  BY <1>1, KeepsBacked DEF IInv, Bounded, CheckSchema, installed
<1>7. LeavesOneRelease'  BY <1>1, NamesAssumption DEF IInv, Reached, Quiet, LeavesOneRelease, Release, CheckSchema, installed
<1> QED  BY <1>3, <1>4, <1>5, <1>6, <1>7

\* The build replaces the old one, on schema 50.
LEMMA ReplaceBinaryKeeps ==
  ASSUME IInv, NEW r \in Runs, ReplaceBinary(r)
  PROVE  /\ OneLives' /\ OldOn49' /\ Reached' /\ Quiet'
         /\ Bounded' /\ Backed' /\ LeavesOneRelease'
<1> USE DEF Living, Guarded, Changing, Installing
<1>1. /\ run'[r].at = "binary"
      /\ \A q \in Runs : /\ q # r => run'[q].at = run[q].at
                         /\ run'[q].build = run[q].build
                         /\ run'[q].boundary = run[q].boundary
                         /\ run'[q].copy = run[q].copy
  BY MovesOn DEF Stages, Ended, ReplaceBinary, IInv
<1>2. \A q \in Runs : q # r => run[q].at \notin Living  BY DEF IInv, OneLives, ReplaceBinary
<1>3. OneLives' /\ OldOn49' /\ Reached'
  BY <1>1, <1>2 DEF IInv, TypeOK, OneLives, OldOn49, Reached, ReplaceBinary, installed
<1>4. Quiet'  BY <1>1, <1>2 DEF IInv, Quiet, ReplaceBinary, installed
<1>5. Bounded'  BY <1>1, <1>2 DEF IInv, Bounded, ReplaceBinary, installed
<1>6. Backed'  BY <1>1, KeepsBacked DEF IInv, Bounded, ReplaceBinary, installed
<1>7. LeavesOneRelease'  BY <1>1, NamesAssumption DEF IInv, Reached, Quiet, LeavesOneRelease, Release, ReplaceBinary, installed
<1> QED  BY <1>3, <1>4, <1>5, <1>6, <1>7

\* The old frontend goes.
LEMMA RemoveDistKeeps ==
  ASSUME IInv, NEW r \in Runs, RemoveDist(r)
  PROVE  /\ OneLives' /\ OldOn49' /\ Reached' /\ Quiet'
         /\ Bounded' /\ Backed' /\ LeavesOneRelease'
<1> USE DEF Living, Guarded, Changing, Installing
<1>1. /\ run'[r].at = "nodist"
      /\ \A q \in Runs : /\ q # r => run'[q].at = run[q].at
                         /\ run'[q].build = run[q].build
                         /\ run'[q].boundary = run[q].boundary
                         /\ run'[q].copy = run[q].copy
  BY MovesOn DEF Stages, Ended, RemoveDist, IInv
<1>2. \A q \in Runs : q # r => run[q].at \notin Living  BY DEF IInv, OneLives, RemoveDist
<1>3. OneLives' /\ OldOn49' /\ Reached'
  BY <1>1, <1>2 DEF IInv, TypeOK, OneLives, OldOn49, Reached, RemoveDist, installed
<1>4. Quiet'  BY <1>1, <1>2 DEF IInv, Quiet, RemoveDist, installed
<1>5. Bounded'  BY <1>1, <1>2 DEF IInv, Bounded, RemoveDist, installed
<1>6. Backed'  BY <1>1, KeepsBacked DEF IInv, Bounded, RemoveDist, installed
<1>7. LeavesOneRelease'  BY <1>1, NamesAssumption DEF IInv, Reached, Quiet, LeavesOneRelease, Release, RemoveDist, installed
<1> QED  BY <1>3, <1>4, <1>5, <1>6, <1>7

\* The new frontend comes.
LEMMA PlaceDistKeeps ==
  ASSUME IInv, NEW r \in Runs, PlaceDist(r)
  PROVE  /\ OneLives' /\ OldOn49' /\ Reached' /\ Quiet'
         /\ Bounded' /\ Backed' /\ LeavesOneRelease'
<1> USE DEF Living, Guarded, Changing, Installing
<1>1. /\ run'[r].at = "placed"
      /\ \A q \in Runs : /\ q # r => run'[q].at = run[q].at
                         /\ run'[q].build = run[q].build
                         /\ run'[q].boundary = run[q].boundary
                         /\ run'[q].copy = run[q].copy
  BY MovesOn DEF Stages, Ended, PlaceDist, IInv
<1>2. \A q \in Runs : q # r => run[q].at \notin Living  BY DEF IInv, OneLives, PlaceDist
<1>3. OneLives' /\ OldOn49' /\ Reached'
  BY <1>1, <1>2 DEF IInv, TypeOK, OneLives, OldOn49, Reached, PlaceDist, installed
<1>4. Quiet'  BY <1>1, <1>2 DEF IInv, Quiet, PlaceDist, installed
<1>5. Bounded'  BY <1>1, <1>2 DEF IInv, Bounded, PlaceDist, installed
<1>6. Backed'  BY <1>1, KeepsBacked DEF IInv, Bounded, PlaceDist, installed
<1>7. LeavesOneRelease'  BY <1>1, NamesAssumption DEF IInv, Reached, Quiet, LeavesOneRelease, Release, PlaceDist, installed
<1> QED  BY <1>3, <1>4, <1>5, <1>6, <1>7

\* What is started is the release the run has put together.
LEMMA StartServiceKeeps ==
  ASSUME IInv, NEW r \in Runs, StartService(r)
  PROVE  /\ OneLives' /\ OldOn49' /\ Reached' /\ Quiet'
         /\ Bounded' /\ Backed' /\ LeavesOneRelease'
<1> USE DEF Living, Guarded, Changing, Installing
<1>1. /\ run'[r].at = "started"
      /\ \A q \in Runs : /\ q # r => run'[q].at = run[q].at
                         /\ run'[q].build = run[q].build
                         /\ run'[q].boundary = run[q].boundary
                         /\ run'[q].copy = run[q].copy
  BY MovesOn DEF Stages, Ended, StartService, IInv
<1>2. \A q \in Runs : q # r => run[q].at \notin Living  BY DEF IInv, OneLives, StartService
<1>3. OneLives' /\ OldOn49' /\ Reached'
  BY <1>1, <1>2 DEF IInv, TypeOK, OneLives, OldOn49, Reached, StartService, installed
<1>4. Quiet'  BY <1>1, <1>2 DEF IInv, Quiet, StartService, installed
<1>5. Bounded'  BY <1>1, <1>2 DEF IInv, Bounded, StartService, installed
<1>6. Backed'  BY <1>1, KeepsBacked DEF IInv, Bounded, StartService, installed
<1>7. LeavesOneRelease'  BY <1>1, NamesAssumption DEF IInv, Reached, Quiet, LeavesOneRelease, Release, StartService, installed
<1> QED  BY <1>3, <1>4, <1>5, <1>6, <1>7

\* A run that has proved its release ends.
LEMMA ProveKeeps ==
  ASSUME IInv, NEW r \in Runs, Prove(r)
  PROVE  /\ OneLives' /\ OldOn49' /\ Reached' /\ Quiet'
         /\ Bounded' /\ Backed' /\ LeavesOneRelease'
<1> USE DEF Living, Guarded, Changing, Installing
<1>1. /\ run'[r].at = "verified"
      /\ \A q \in Runs : /\ q # r => run'[q].at = run[q].at
                         /\ run'[q].build = run[q].build
                         /\ run'[q].boundary = run[q].boundary
                         /\ run'[q].copy = run[q].copy
  BY MovesOn DEF Stages, Ended, Prove, IInv
<1>2. \A q \in Runs : q # r => run[q].at \notin Living  BY DEF IInv, OneLives, Prove
<1>3. OneLives' /\ OldOn49' /\ Reached'
  BY <1>1, <1>2 DEF IInv, TypeOK, OneLives, OldOn49, Reached, Prove, installed
<1>4. Quiet'  BY <1>1, <1>2 DEF IInv, Quiet, Prove, installed
<1>5. Bounded'  BY <1>1, <1>2 DEF IInv, Bounded, Prove, installed
<1>6. Backed'  BY <1>1, KeepsBacked DEF IInv, Bounded, Prove, installed
<1>7. LeavesOneRelease'  BY <1>1, NamesAssumption DEF IInv, Reached, Quiet, LeavesOneRelease, Release, Prove, installed
<1> QED  BY <1>3, <1>4, <1>5, <1>6, <1>7

\* A run that dies leaves everything as it stands.
LEMMA DieKeeps ==
  ASSUME IInv, NEW r \in Runs, Die(r)
  PROVE  /\ OneLives' /\ OldOn49' /\ Reached' /\ Quiet'
         /\ Bounded' /\ Backed' /\ LeavesOneRelease'
<1> USE DEF Living, Guarded, Changing, Installing
<1>1. /\ run'[r].at = "dead"
      /\ \A q \in Runs : /\ q # r => run'[q].at = run[q].at
                         /\ run'[q].build = run[q].build
                         /\ run'[q].boundary = run[q].boundary
                         /\ run'[q].copy = run[q].copy
  BY MovesOn DEF Stages, Ended, Die, IInv
<1>2. \A q \in Runs : q # r => run[q].at \notin Living  BY DEF IInv, OneLives, Die
<1>3. OneLives' /\ OldOn49' /\ Reached'
  BY <1>1, <1>2 DEF IInv, TypeOK, OneLives, OldOn49, Reached, Die, installed
<1>4. Quiet'  BY <1>1, <1>2 DEF IInv, Quiet, Die, installed
<1>5. Bounded'  BY <1>1, <1>2 DEF IInv, Bounded, Die, installed
<1>6. Backed'  BY <1>1, KeepsBacked DEF IInv, Bounded, Die, installed
<1>7. LeavesOneRelease'  BY <1>1, NamesAssumption DEF IInv, Reached, Quiet, LeavesOneRelease, Release, Die, installed
<1> QED  BY <1>3, <1>4, <1>5, <1>6, <1>7

\* The backup is of one release, unless an earlier one was.
LEMMA BackUpKeeps ==
  ASSUME IInv, NEW r \in Runs, BackUp(r)
  PROVE  /\ OneLives' /\ OldOn49' /\ Reached' /\ Quiet'
         /\ Bounded' /\ Backed' /\ LeavesOneRelease'
<1> USE DEF Living, Guarded, Changing, Installing
<1> DEFINE c == [schema |-> schema, binary |-> binary, dist |-> dist]
<1>0. /\ c \in Copies /\ c # NoCopy
      /\ c.schema = schema /\ c.binary = binary /\ c.dist = dist
  <2>1. c.schema = schema /\ c.binary = binary /\ c.dist = dist  OBVIOUS
  <2>2. c \in Copies  BY DEF IInv, TypeOK, Copies
  <2>3. schema # 0  BY DEF IInv, TypeOK
  <2>4. NoCopy.schema = 0  BY DEF NoCopy
  <2> QED  BY <2>1, <2>2, <2>3, <2>4
<1>1. /\ run'[r].at = "backed" /\ run'[r].copy = c
      /\ \A q \in Runs : /\ q # r => run'[q].at = run[q].at /\ run'[q].copy = run[q].copy
                         /\ run'[q].build = run[q].build
                         /\ run'[q].boundary = run[q].boundary
  BY <1>0, BacksUp DEF BackUp, IInv
<1>2. \A q \in Runs : q # r => run[q].at \notin Living  BY DEF IInv, OneLives, BackUp
<1> HIDE DEF c
<1>3. OneLives' /\ OldOn49' /\ Reached'
  <2>1. \A q \in Runs : q # r => run'[q].at \notin Living  BY <1>1, <1>2
  <2>2. OneLives'  BY <2>1 DEF OneLives
  <2>3. OldOn49'  BY DEF IInv, OldOn49, BackUp, installed
  <2>4. UNCHANGED installed /\ run[r].at \in Living  BY DEF BackUp
  <2>5. Reached'
    <3>1. ASSUME NEW q \in Runs, q # r
          PROVE  run'[q].at = run[q].at /\ run'[q].build = run[q].build
      BY <1>1, <3>1
    <3>2. run'[r].at = "backed" /\ run'[r].build = run[r].build  BY <1>1
    <3> QED  BY <2>4, <3>1, <3>2 DEF IInv, Reached, installed
  <2> QED  BY <2>2, <2>3, <2>5
<1>4. Quiet'  BY <1>1, <1>2 DEF IInv, Quiet, BackUp, installed
<1>5. Bounded'
  <2>1. goose' = goose /\ schema' = schema /\ late' = late /\ run[r].at = "stopped"
    BY DEF BackUp, installed
  <2>2. run'[r].at = "backed" /\ run'[r].copy # NoCopy /\ run'[r].boundary = run[r].boundary
    BY <1>0, <1>1
  <2>3. r \notin goose  BY <2>1 DEF IInv, Bounded
  <2>4. \A q \in Runs : q # r => /\ run'[q].at = run[q].at /\ run'[q].copy = run[q].copy
                                 /\ run'[q].boundary = run[q].boundary
    BY <1>1
  <2> QED  BY <2>1, <2>2, <2>3, <2>4 DEF IInv, Bounded
<1>6. Backed'
  <2>1. UNCHANGED <<schema, binary, dist>>  BY DEF BackUp, installed
  <2>2. CASE Release(schema, binary, dist)
    <3>1. Whole(r)'  BY <1>0, <1>1, <2>2 DEF Whole
    <3> QED  BY <3>1 DEF Backed
  <2>3. CASE ~Release(schema, binary, dist)
    <3>1. PICK q \in Runs : Whole(q)  BY <2>3 DEF IInv, Backed
    <3>2. CASE q = r
      <4>1. run[r].copy = NoCopy \/ run[r].copy # NoCopy  OBVIOUS
      <4> QED  BY <3>1, <3>2 DEF Whole, IInv, Bounded, BackUp
    <3>3. CASE q # r
      <4>1. Whole(q)'  BY <1>1, <3>1, <3>3 DEF Whole
      <4> QED  BY <4>1 DEF Backed
    <3> QED  BY <3>2, <3>3
  <2> QED  BY <2>2, <2>3
<1>7. LeavesOneRelease'  BY DEF IInv, LeavesOneRelease, BackUp, installed
<1> QED  BY <1>3, <1>4, <1>5, <1>6, <1>7

\* The boundary is marked before goose is invoked.
LEMMA BeginMigrationKeeps ==
  ASSUME IInv, NEW r \in Runs, BeginMigration(r)
  PROVE  /\ OneLives' /\ OldOn49' /\ Reached' /\ Quiet'
         /\ Bounded' /\ Backed' /\ LeavesOneRelease'
<1> USE DEF Living, Guarded, Changing, Installing
<1>1. /\ run'[r].at = "migrating" /\ run'[r].boundary = TRUE
      /\ \A q \in Runs : /\ q # r => run'[q].at = run[q].at /\ run'[q].boundary = run[q].boundary
                         /\ run'[q].build = run[q].build
                         /\ run'[q].copy = run[q].copy
  BY Marks DEF BeginMigration, IInv
<1>2. \A q \in Runs : q # r => run[q].at \notin Living  BY DEF IInv, OneLives, BeginMigration
<1>3. OneLives' /\ OldOn49' /\ Reached'
  <2>0. \A q \in Runs : q # r => run'[q].at \notin Living  BY <1>1, <1>2
  <2>1. OneLives'  BY <2>0 DEF OneLives
  <2>2. OldOn49'  BY DEF IInv, OldOn49, BeginMigration, installed
  <2>3. Reached'
    <3>1. UNCHANGED installed /\ run[r].at \in Living  BY DEF BeginMigration
    <3>2. \A q \in Runs : q # r => run'[q].at = run[q].at /\ run'[q].build = run[q].build
      BY <1>1
    <3>3. run'[r].at = "migrating" /\ run'[r].build = run[r].build  BY Marks DEF BeginMigration, IInv
    <3> QED  BY <3>1, <3>2, <3>3 DEF IInv, Reached, installed
  <2> QED  BY <2>1, <2>2, <2>3
<1>4. Quiet'  BY <1>1, <1>2 DEF IInv, Quiet, BeginMigration, installed
<1>5. Bounded'
  <2>1. /\ goose' \in {goose, goose \union {r}} /\ schema' = schema /\ late' = late
        /\ run[r].at = "backed"
    BY DEF BeginMigration, installed
  <2>2. run'[r].at = "migrating" /\ run'[r].copy = run[r].copy /\ run'[r].boundary
    BY <1>1, Marks DEF BeginMigration, IInv
  <2>3. run[r].copy # NoCopy  BY <2>1 DEF IInv, Bounded
  <2>4. \A q \in Runs : q # r => /\ run'[q].at = run[q].at /\ run'[q].copy = run[q].copy
                                 /\ run'[q].boundary = run[q].boundary
    BY <1>1
  <2> QED  BY <2>1, <2>2, <2>3, <2>4 DEF IInv, Bounded
<1>6. Backed'  BY <1>1, KeepsBacked DEF IInv, BeginMigration, installed
<1>7. LeavesOneRelease'  BY DEF IInv, LeavesOneRelease, BeginMigration, installed
<1> QED  BY <1>3, <1>4, <1>5, <1>6, <1>7

\* A migration that ends changes the schema with the service stopped, or is late.
LEMMA GooseEndsKeeps ==
  ASSUME IInv, NEW r \in Runs, GooseEnds(r)
  PROVE  /\ OneLives' /\ OldOn49' /\ Reached' /\ Quiet'
         /\ Bounded' /\ Backed' /\ LeavesOneRelease'
<1> USE DEF Living, Guarded, Changing, Installing
<1>1. /\ UNCHANGED <<binary, dist, service, starter, unsaved, run>>
      /\ schema' = schema \/ schema' = 50
      /\ goose' = goose \ {r} /\ r \in goose
      /\ late => late'
  BY DEF GooseEnds, GooseUp
<1>2. \/ late' \/ schema' = schema
      \/ run[r].at = "migrating" /\ service = None
  BY DEF GooseEnds, IInv, Bounded, Quiet
<1>3. OneLives' /\ OldOn49' /\ Reached'  BY <1>1 DEF IInv, TypeOK, OneLives, OldOn49, Reached
<1>4. Quiet'  BY <1>1 DEF IInv, Quiet
<1>5. Bounded'
  <2>1. \A q \in Runs : run[q].at \in Living /\ ~run[q].boundary => schema' = 49 \/ late'
    <3>1. SUFFICES ASSUME NEW q \in Runs, run[q].at \in Living, ~run[q].boundary, ~late'
                   PROVE  schema' = 49
      OBVIOUS
    <3>2. schema = 49  BY <1>1, <3>1 DEF IInv, Bounded
    <3>3. CASE schema' = schema  BY <3>2, <3>3
    <3>4. CASE schema' # schema
      <4>1. run[r].at \in Living  BY <3>1, <3>4 DEF GooseEnds
      <4>2. q = r  BY <3>1, <4>1 DEF IInv, OneLives
      <4>3. run[r].at = "migrating"  BY <1>1, <4>1 DEF IInv, Bounded
      <4> QED  BY <3>1, <4>2, <4>3 DEF IInv, Bounded
    <3> QED  BY <3>3, <3>4
  <2> QED  BY <1>1, <2>1 DEF IInv, Bounded
<1>6. Backed'
  <2>1. run[r].copy # NoCopy  BY <1>1 DEF IInv, Bounded
  <2> QED  BY <1>1, <2>1, KeepsBacked DEF IInv
<1>7. LeavesOneRelease'  BY <1>1, <1>2 DEF IInv, LeavesOneRelease
<1> QED  BY <1>3, <1>4, <1>5, <1>6, <1>7

\* A failure may commit the migration it interrupts, with the service stopped.
LEMMA FailKeeps ==
  ASSUME IInv, NEW r \in Runs, Fail(r)
  PROVE  /\ OneLives' /\ OldOn49' /\ Reached' /\ Quiet'
         /\ Bounded' /\ Backed' /\ LeavesOneRelease'
<1> USE DEF Living, Guarded, Changing, Installing
<1>1. /\ run'[r].at = "cleaning"
      /\ \A q \in Runs : /\ q # r => run'[q].at = run[q].at
                         /\ run'[q].build = run[q].build
                         /\ run'[q].boundary = run[q].boundary
                         /\ run'[q].copy = run[q].copy
  BY MovesOn DEF Stages, Ended, Fail, IInv
<1>2. \A q \in Runs : q # r => run[q].at \notin Living  BY DEF IInv, OneLives, Fail
<1>a. /\ UNCHANGED <<binary, dist, service, starter, unsaved, late>>
      /\ schema' = schema \/ (schema' = 50 /\ r \in goose)
      /\ goose' = goose \ {r}
  BY DEF Fail, GooseUp
<1>b. r \in goose => run[r].at = "migrating" /\ service = None /\ run[r].boundary
  BY DEF IInv, Bounded, Quiet, Fail
<1>3. OneLives' /\ OldOn49' /\ Reached'
  BY <1>1, <1>2, <1>a DEF IInv, TypeOK, OneLives, OldOn49, Reached, Fail
<1>4. Quiet'  BY <1>1, <1>2, <1>a DEF IInv, Quiet
<1>5. Bounded'  BY <1>1, <1>2, <1>a, <1>b DEF IInv, Bounded, Fail
<1>6. Backed'  BY <1>1, <1>a, KeepsBacked DEF IInv, Bounded, installed
<1>7. LeavesOneRelease'  BY <1>a, <1>b DEF IInv, LeavesOneRelease
<1> QED  BY <1>3, <1>4, <1>5, <1>6, <1>7

\* The clean-up starts the service only before the boundary, where it is of schema 49.
LEMMA CleanUpKeeps ==
  ASSUME IInv, NEW r \in Runs, CleanUp(r)
  PROVE  /\ OneLives' /\ OldOn49' /\ Reached' /\ Quiet'
         /\ Bounded' /\ Backed' /\ LeavesOneRelease'
<1> USE DEF Living, Guarded, Changing, Installing
<1>1. /\ run'[r].at = "failed" \/ run'[r].at = "unclean"
      /\ \A q \in Runs : /\ q # r => run'[q].at = run[q].at
                         /\ run'[q].build = run[q].build
                         /\ run'[q].boundary = run[q].boundary
                         /\ run'[q].copy = run[q].copy
  BY MovesOn DEF Stages, Ended, CleanUp, IInv
<1>2. \A q \in Runs : q # r => run[q].at \notin Living  BY DEF IInv, OneLives, CleanUp
<1>a. /\ UNCHANGED <<schema, binary, dist, unsaved, goose, late>>
      /\ \/ UNCHANGED <<service, starter>>
         \/ service' = None
         \/ service' = binary /\ ~run[r].boundary /\ run[r].at = "cleaning"
  BY DEF CleanUp, installed, PastBoundary
<1>3. OneLives' /\ OldOn49' /\ Reached'
  BY <1>1, <1>2, <1>a DEF IInv, OneLives, OldOn49, Reached
<1>4. Quiet'  BY <1>1, <1>2, <1>a DEF IInv, Quiet
<1>5. Bounded'  BY <1>1, <1>2, <1>a DEF IInv, Bounded
<1>6. Backed'  BY <1>1, <1>a, KeepsBacked DEF IInv, installed
<1>7. LeavesOneRelease'
  <2>1. CASE service' = binary /\ ~run[r].boundary /\ run[r].at = "cleaning"
    <3>1. late \/ schema = 49  BY <2>1 DEF IInv, Bounded
    <3> QED  BY <1>a, <2>1, <3>1, NamesAssumption DEF IInv, OldOn49, LeavesOneRelease, Release
  <2> QED  BY <1>a, <2>1 DEF IInv, LeavesOneRelease
<1> QED  BY <1>3, <1>4, <1>5, <1>6, <1>7

\* Requests are served only by a service that no run has stopped.
LEMMA WriteKeeps ==
  ASSUME IInv, Write
  PROVE  /\ OneLives' /\ OldOn49' /\ Reached' /\ Quiet'
         /\ Bounded' /\ Backed' /\ LeavesOneRelease'
<1> USE DEF Living, Guarded, Changing, Installing
<1>1. UNCHANGED <<schema, binary, dist, service, starter, run, goose, late>> /\ service # None
  BY DEF Write, installed
<1>3. OneLives' /\ OldOn49' /\ Reached'  BY <1>1 DEF IInv, OneLives, OldOn49, Reached
<1>4. Quiet'  BY <1>1 DEF IInv, Quiet
<1>5. Bounded'  BY <1>1 DEF IInv, Bounded
<1>6. Backed'  BY <1>1, KeepsBacked DEF IInv, installed
<1>7. LeavesOneRelease'  BY <1>1 DEF IInv, LeavesOneRelease
<1> QED  BY <1>3, <1>4, <1>5, <1>6, <1>7

\* A restart of the host ends every run.
LEMMA RebootKeeps ==
  ASSUME IInv, Reboot
  PROVE  /\ OneLives' /\ OldOn49' /\ Reached' /\ Quiet'
         /\ Bounded' /\ Backed' /\ LeavesOneRelease'
<1> USE DEF Living, Guarded, Changing, Installing
<1>1. \A q \in Runs : /\ run'[q].at \notin Living
                      /\ run'[q].at = "dead" \/ run'[q].at = run[q].at
                      /\ run'[q].copy = run[q].copy
  <2> SUFFICES ASSUME NEW q \in Runs
               PROVE  /\ run'[q].at \notin Living
                      /\ run'[q].at = "dead" \/ run'[q].at = run[q].at
                      /\ run'[q].copy = run[q].copy
    OBVIOUS
  <2>1. run[q] \in Progress  BY DEF IInv, TypeOK
  <2>2. CASE run[q].at \in Living
    <3>1. run'[q] = [run[q] EXCEPT !.at = "dead"]  BY <2>2 DEF Reboot
    <3>2. run'[q].at = "dead" /\ run'[q].copy = run[q].copy  BY <2>1, <3>1 DEF Progress
    <3> QED  BY <2>2, <3>2
  <2>3. CASE run[q].at \notin Living
    <3>1. run'[q] = run[q]  BY <2>3 DEF Reboot
    <3> QED  BY <2>3, <3>1
  <2> QED  BY <2>2, <2>3
<1>2. /\ UNCHANGED <<schema, binary, dist, unsaved, late>>
      /\ goose' = {} /\ starter' = "host"
  BY DEF Reboot, installed
<1>a. \A q \in Runs : run'[q].at \notin Living  BY <1>1
<1>3. OneLives' /\ OldOn49' /\ Reached'
  <2>1. OneLives'  BY <1>a DEF OneLives
  <2>2. OldOn49'  BY <1>2 DEF IInv, OldOn49
  <2>3. Reached'  BY <1>a DEF Reached
  <2> QED  BY <2>1, <2>2, <2>3
<1>4. Quiet'  BY <1>a DEF Quiet
<1>5. Bounded'
  <2>1. \A q \in Runs : run'[q].at \in {"new", "checked", "stopped"} => run'[q].copy = NoCopy
    BY <1>1 DEF IInv, Bounded
  <2> QED  BY <1>2, <1>a, <2>1 DEF Bounded
<1>6. Backed'  BY <1>1, <1>2, KeepsBacked DEF IInv, installed
<1>7. LeavesOneRelease'  BY <1>2 DEF LeavesOneRelease
<1> QED  BY <1>3, <1>4, <1>5, <1>6, <1>7

\* The operator starts the service while no run lives.
LEMMA StartByHandKeeps ==
  ASSUME IInv, StartByHand
  PROVE  /\ OneLives' /\ OldOn49' /\ Reached' /\ Quiet'
         /\ Bounded' /\ Backed' /\ LeavesOneRelease'
<1> USE DEF Living, Guarded, Changing, Installing
<1>1. /\ UNCHANGED <<schema, binary, dist, unsaved, run, goose, late>>
      /\ starter' = "host" /\ \A r \in Runs : run[r].at \notin Living
  BY DEF StartByHand, installed, NoneLives
<1>3. OneLives' /\ OldOn49' /\ Reached'  BY <1>1 DEF IInv, OneLives, OldOn49, Reached
<1>4. Quiet'  BY <1>1 DEF IInv, Quiet
<1>5. Bounded'  BY <1>1 DEF IInv, Bounded
<1>6. Backed'  BY <1>1, KeepsBacked DEF IInv, installed
<1>7. LeavesOneRelease'  BY <1>1 DEF LeavesOneRelease
<1> QED  BY <1>3, <1>4, <1>5, <1>6, <1>7

\* The operator goes back to a backup of one release.
LEMMA RestoreKeeps ==
  ASSUME IInv, NEW r \in Runs, Restore(r)
  PROVE  /\ OneLives' /\ OldOn49' /\ Reached' /\ Quiet'
         /\ Bounded' /\ Backed' /\ LeavesOneRelease'
<1> USE DEF Living, Guarded, Changing, Installing
<1>1. /\ UNCHANGED <<service, starter, run, goose, late>>
      /\ service = None /\ Whole(r) /\ \A q \in Runs : run[q].at \notin Living
      /\ schema' = run[r].copy.schema /\ binary' = run[r].copy.binary /\ dist' = run[r].copy.dist
  BY DEF Restore, NoneLives
<1>3. OneLives' /\ OldOn49' /\ Reached'
  <2>1. Release(schema, binary, dist)'  BY <1>1 DEF Whole
  <2> QED  BY <1>1, <2>1 DEF OneLives, OldOn49, Reached, Release
<1>4. Quiet'  BY <1>1 DEF Quiet
<1>5. Bounded'  BY <1>1 DEF IInv, Bounded
<1>6. Backed'  BY <1>1, KeepsBacked DEF IInv, Whole
<1>7. LeavesOneRelease'  BY <1>1 DEF LeavesOneRelease
<1> QED  BY <1>3, <1>4, <1>5, <1>6, <1>7

-----------------------------------------------------------------------------
(* The theorems. *)

\* The inductive invariant, of every reachable state.
THEOREM Inductive == Spec => []IInv
<1>1. IInv /\ [Next]_vars => IInv'
  <2> SUFFICES ASSUME IInv, [Next]_vars PROVE IInv'  OBVIOUS
  <2>1. TypeOK'  BY NextType DEF IInv
  <2>2. ASSUME NEW r \in Runs, Run(r)
        PROVE  /\ OneLives' /\ OldOn49' /\ Reached' /\ Quiet'
               /\ Bounded' /\ Backed' /\ LeavesOneRelease'
    BY <2>2, PreflightKeeps, StopServiceKeeps, BackUpKeeps, BeginMigrationKeeps, GooseEndsKeeps,
       CheckSchemaKeeps, ReplaceBinaryKeeps, RemoveDistKeeps, PlaceDistKeeps, StartServiceKeeps,
       ProveKeeps, FailKeeps, CleanUpKeeps, DieKeeps
       DEF Run
  <2>3. CASE Host  BY <2>1, <2>3, WriteKeeps, RebootKeeps, StartByHandKeeps, RestoreKeeps DEF Host, IInv
  <2>4. CASE UNCHANGED vars
    BY <2>1, <2>4 DEF vars, IInv, OneLives, OldOn49, Reached, Quiet, Bounded, Backed, Whole,
                      LeavesOneRelease
  <2> QED  BY <2>1, <2>2, <2>3, <2>4 DEF Next, IInv
<1> QED  BY InitIInv, <1>1, PTL DEF Spec

\* Every reachable state is of its types.
THEOREM TypeCorrect == Spec => []TypeOK
BY Inductive, PTL DEF IInv

\* What the installer starts or leaves running is one release (main's boundary,
\* release_installer.py).
THEOREM OneRelease == Spec => []LeavesOneRelease
BY Inductive, PTL DEF IInv

\* There is always a release to go back to: the one installed or one backed up.
THEOREM AlwaysBack == Spec => []CanGoBack
<1>1. IInv => CanGoBack  BY DEF IInv, Quiet, Backed, CanGoBack
<1> QED  BY Inductive, <1>1, PTL

\* A backup is made once and never written over, by its run or by another, and a run
\* that ended does nothing more; its goose, if it outlived it, is the one exception
\* and changes no run (main, release_installer.py).
BackupsKept ==
  [][\A r \in Runs : /\ run[r].copy # NoCopy => run'[r].copy = run[r].copy
                     /\ run[r].at \in Ended => run'[r].at = run[r].at]_vars

\* A run reported as verified leaves one release of schema 50 in service, the one it
\* was started with, in place of whatever was
\* there, with a backup of one release to go back to (the proofs at the end of main).
VerifiedIsInstalled ==
  [][\A r \in Runs : run[r].at # "verified" /\ run'[r].at = "verified" =>
        /\ run[r].build \in Builds
        /\ schema' = 50 /\ service' = run[r].build
        /\ binary' = run[r].build /\ dist' = run[r].build
        /\ \E q \in Runs : Whole(q)']_vars

\* What one step of a run does to the progress of the runs.
LEMMA RunSteps ==
  ASSUME IInv, NEW r \in Runs, Run(r)
  PROVE  \A q \in Runs : /\ run[q].copy # NoCopy => run'[q].copy = run[q].copy
                         /\ run[q].at \in Ended => run'[q].at = run[q].at
                         /\ run[q].at # "verified" /\ run'[q].at = "verified" => q = r /\ Prove(r)
<1> DEFINE Good == \A q \in Runs :
             /\ run[q].copy # NoCopy => run'[q].copy = run[q].copy
             /\ run[q].at \in Ended => run'[q].at = run[q].at
             /\ run[q].at # "verified" /\ run'[q].at = "verified" => q = r /\ Prove(r)
<1> USE DEF Stages, Living, Guarded, Changing, Ended
<1>0. TypeOK /\ run \in [Runs -> Progress]  BY DEF IInv, TypeOK
<1>1. ASSUME NEW x \in Stages, run' = [run EXCEPT ![r].at = x], run[r].at \notin Ended,
             x = "verified" => Prove(r)
      PROVE  Good
  <2>1. /\ run'[r].at = x /\ run'[r].copy = run[r].copy
        /\ \A q \in Runs \ {r} : run'[q].at = run[q].at /\ run'[q].copy = run[q].copy
    BY <1>0, <1>1, MovesOn
  <2> QED  BY <1>1, <2>1
<1>2. CASE StopService(r)  BY <1>1, <1>2 DEF StopService
<1>3. CASE CheckSchema(r)  BY <1>1, <1>3 DEF CheckSchema
<1>4. CASE ReplaceBinary(r)  BY <1>1, <1>4 DEF ReplaceBinary
<1>5. CASE RemoveDist(r)  BY <1>1, <1>5 DEF RemoveDist
<1>6. CASE PlaceDist(r)  BY <1>1, <1>6 DEF PlaceDist
<1>7. CASE StartService(r)  BY <1>1, <1>7 DEF StartService
<1>8. CASE Prove(r)
  <2>1. run' = [run EXCEPT ![r].at = "verified"] /\ run[r].at = "started"  BY <1>8 DEF Prove
  <2> QED  BY <1>1, <1>8, <2>1
<1>9. CASE Fail(r)
  <2>1. run[r].at \in Guarded /\ run' = [run EXCEPT ![r].at = "cleaning"]  BY <1>9 DEF Fail
  <2>2. run[r].at \notin Ended  BY <2>1
  <2>3. "cleaning" \in Stages  OBVIOUS
  <2> QED  BY <1>1, <2>1, <2>2, <2>3
<1>10. CASE CleanUp(r)
  <2>1. /\ run[r].at = "cleaning"
        /\ \E x \in {"failed", "unclean"} : run' = [run EXCEPT ![r].at = x]
    BY <1>10 DEF CleanUp
  <2> QED  BY <1>1, <2>1
<1>11. CASE Die(r)  BY <1>1, <1>11 DEF Die
<1>12. CASE GooseEnds(r)
  <2>1. run' = run  BY <1>12 DEF GooseEnds
  <2> QED  BY <2>1
<1>13. CASE BackUp(r)
  <2> DEFINE c == [schema |-> schema, binary |-> binary, dist |-> dist]
  <2>1. c \in Copies  BY <1>0 DEF TypeOK, Copies
  <2>2. run[r].at = "stopped" /\ run' = [run EXCEPT ![r].at = "backed", ![r].copy = c]
    BY <1>13 DEF BackUp
  <2>3. run[r].copy = NoCopy  BY <2>2 DEF IInv, Bounded
  <2> HIDE DEF c
  <2>4. /\ run'[r].at = "backed"
        /\ \A q \in Runs \ {r} : run'[q].at = run[q].at /\ run'[q].copy = run[q].copy
    BY <1>0, <2>1, <2>2, BacksUp
  <2> QED  BY <2>2, <2>3, <2>4
<1>14. CASE BeginMigration(r)
  <2>1. run[r].at = "backed" /\ run' = [run EXCEPT ![r].at = "migrating", ![r].boundary = TRUE]
    BY <1>14 DEF BeginMigration
  <2>2. /\ run'[r].at = "migrating" /\ run'[r].copy = run[r].copy
        /\ \A q \in Runs \ {r} : run'[q].at = run[q].at /\ run'[q].copy = run[q].copy
    BY <1>0, <2>1, Marks
  <2> QED  BY <2>1, <2>2
<1>15. ASSUME NEW b \in Builds, Preflight(r, b) PROVE Good
  <2>1. run[r].at = "new"  BY <1>15 DEF Preflight
  <2>2. run[r].copy = NoCopy  BY <2>1 DEF IInv, Bounded
  <2>3. CASE run' = [run EXCEPT ![r].at = "refused"]  BY <1>1, <2>1, <2>3
  <2>4. ASSUME NEW bd, run' = [run EXCEPT ![r] = [NotStarted EXCEPT !.at = "checked", !.build = b,
                                                   !.initial = schema, !.boundary = bd]]
        PROVE  Good
    <3> DEFINE n == [NotStarted EXCEPT !.at = "checked", !.build = b, !.initial = schema,
                                       !.boundary = bd]
    <3>1. n.at = "checked"  BY DEF NotStarted
    <3> HIDE DEF n
    <3>2. run' = [run EXCEPT ![r] = n]  BY <2>4 DEF n
    <3>3. run'[r] = n /\ \A q \in Runs \ {r} : run'[q] = run[q]  BY <1>0, <3>2
    <3> QED  BY <2>1, <2>2, <3>1, <3>3
  <2> QED  BY <1>15, <2>3, <2>4 DEF Preflight
<1> QED
  BY <1>2, <1>3, <1>4, <1>5, <1>6, <1>7, <1>8, <1>9, <1>10, <1>11, <1>12, <1>13, <1>14, <1>15 DEF Run

\* A step of the host makes no run, ends those that live and takes no backup.
LEMMA HostSteps ==
  ASSUME IInv, Host
  PROVE  \A q \in Runs : /\ run'[q].copy = run[q].copy
                         /\ run[q].at \in Ended => run'[q].at = run[q].at
                         /\ run'[q].at = "verified" => run[q].at = "verified"
<1> USE DEF Living, Guarded, Changing, Ended
<1>1. CASE Reboot
  <2> SUFFICES ASSUME NEW q \in Runs
               PROVE  /\ run'[q].copy = run[q].copy
                      /\ run[q].at \in Ended => run'[q].at = run[q].at
                      /\ run'[q].at = "verified" => run[q].at = "verified"
    OBVIOUS
  <2>1. run[q] \in Progress  BY DEF IInv, TypeOK
  <2>2. CASE run[q].at \in Living
    <3>1. run'[q] = [run[q] EXCEPT !.at = "dead"]  BY <1>1, <2>2 DEF Reboot
    <3>2. run'[q].at = "dead" /\ run'[q].copy = run[q].copy  BY <2>1, <3>1 DEF Progress
    <3> QED  BY <2>2, <3>2
  <2>3. CASE run[q].at \notin Living
    <3>1. run'[q] = run[q]  BY <1>1, <2>3 DEF Reboot
    <3> QED  BY <3>1
  <2> QED  BY <2>2, <2>3
<1>2. CASE Write \/ StartByHand \/ \E r \in Runs : Restore(r)
  <2>1. run' = run  BY <1>2 DEF Write, StartByHand, Restore
  <2> QED  BY <2>1
<1> QED  BY <1>1, <1>2 DEF Host

\* No backup is lost (BackupsKept), whatever fails or is retried.
THEOREM NoBackupLost == Spec => BackupsKept
<1> DEFINE Step == \A r \in Runs : /\ run[r].copy # NoCopy => run'[r].copy = run[r].copy
                                   /\ run[r].at \in Ended => run'[r].at = run[r].at
<1>1. IInv /\ [Next]_vars => [Step]_vars
  <2> SUFFICES ASSUME IInv, Next PROVE Step  OBVIOUS
  <2> QED  BY RunSteps, HostSteps DEF Next
<1>2. Spec => [][Step]_vars  BY <1>1, Inductive, PTL DEF Spec
<1> QED  BY <1>2 DEF BackupsKept

\* A verified release is installed as a whole (VerifiedIsInstalled): the binary, which
\* the proofs of the installer do not look at, is the one that serves.
THEOREM VerifiedHolds == Spec => VerifiedIsInstalled
<1> DEFINE Step == \A r \in Runs : run[r].at # "verified" /\ run'[r].at = "verified" =>
              /\ run[r].build \in Builds
              /\ schema' = 50 /\ service' = run[r].build
              /\ binary' = run[r].build /\ dist' = run[r].build
              /\ \E q \in Runs : Whole(q)'
<1>1. IInv /\ IInv' /\ [Next]_vars => [Step]_vars
  <2> SUFFICES ASSUME IInv, IInv', Next, NEW r \in Runs,
                      run[r].at # "verified", run'[r].at = "verified"
               PROVE  /\ run[r].build \in Builds
                      /\ schema' = 50 /\ service' = run[r].build
                      /\ binary' = run[r].build /\ dist' = run[r].build
                      /\ \E q \in Runs : Whole(q)'
    OBVIOUS
  <2>1. Prove(r)
    <3>1. ~Host  BY HostSteps
    <3>2. PICK q \in Runs : Run(q)  BY <3>1 DEF Next
    <3> QED  BY <3>2, RunSteps
  <2>2. /\ run[r].at = "started" /\ run[r].build \in Builds /\ binary = run[r].build
    BY <2>1 DEF Prove, IInv, Reached, Living, Guarded
  <2>3. /\ schema' = 50 /\ service' = run[r].build
        /\ binary' = run[r].build /\ dist' = run[r].build
    BY <2>1, <2>2 DEF Prove, installed
  <2>4. \E q \in Runs : Whole(q)'
    <3>1. run[r].copy # NoCopy  BY <2>2 DEF IInv, Bounded
    <3>2. run'[r].copy # NoCopy  BY <2>1, <3>1, RunSteps DEF Run
    <3> QED  BY <3>2 DEF IInv, Backed
  <2> QED  BY <2>2, <2>3, <2>4
<1>2. Spec => [][Step]_vars  BY <1>1, Inductive, PTL DEF Spec
<1> QED  BY <1>2 DEF VerifiedIsInstalled
=============================================================================
