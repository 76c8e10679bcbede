----------------------- MODULE RequestPreparation_proofs -----------------------
(***************************************************************************)
(* Proofs about RequestPreparation, for any number of commands, any files  *)
(* and any number of replacements, kills and damages between their steps.  *)
(***************************************************************************)
EXTENDS RequestPreparation, WellFoundedInduction, TLAPS

Storing == {"rename", "remove", "renameAgain"}
Loading == {"identities", "openIdentities", "inventory", "candidates", "matrix",
            "evidence", "sources", "done"}
Opened == {"store"} \cup Storing \cup Loading
Hashed == {"open"} \cup Opened
Decoded == {"cache", "hash"} \cup Hashed
Ways == {"request", "failed", "killed"} \cup Decoded
Stages == {"decode", "readDatabase", "checkDatabase", "decodeRows", "parseMatrix",
           "decodeAgain", "matrixAgain", "openAgain"} \cup Ways

Prepares(p) == kind[p].command = "prepare"

\* The files and what each command keeps are functions of the paths.
Shaped ==
  /\ DOMAIN files = Paths
  /\ DOMAIN temporary = Processes
  /\ pc \in [Processes -> Stages]
  /\ DOMAIN error = Processes
  /\ DOMAIN used = Processes /\ DOMAIN hashed = Processes
  /\ \A p \in Processes : DOMAIN used[p] = Paths /\ DOMAIN hashed[p] = Paths

\* An identity somebody has seen, and a content it may stand for: the one on
\* disk if it is the identity of that one.
Observed(identity) == identity \in {NoIdentity} \cup 0..files.database.version
Names(identity, content) ==
  identity = files.database.version => content = files.database

\* A cache that can be used holds what its identity names.
IsTrue(c) ==
  /\ "whole" \in DOMAIN c
  /\ c.whole /\ c.version = CacheVersion =>
       /\ c.identity \in 0..files.database.version
       /\ Names(c.identity, c.library)
       /\ Names(c.identity, c.sha)

Disk ==
  /\ files.database.version \in Nat
  /\ Observed(files.request.database.identity)
  /\ cacheFile # Absent => IsTrue(cacheFile) /\ (~damaged => cacheFile.whole)

\* Only a preparation asks the cache; it reads everything once, and refills the
\* cache where it missed that of an identified database.
OneWay(p) ==
  /\ Prepares(p) => pc[p] \in Ways
  /\ pc[p] \in {"cache", "hash", "open"} \/ cacheState[p] # "none" => Prepares(p)
  /\ pc[p] \in {"decodeAgain", "matrixAgain", "openAgain"} => kind[p].command = "score"
  /\ pc[p] \in {"request", "cache"} => cacheState[p] = "none"
  /\ pc[p] = "store" => cacheState[p] = "miss"
  /\ cacheState[p] = "miss" => Request(p).database.identity # NoIdentity

Stores(p) == pc[p] \in Storing => IsTrue(temporary[p]) /\ temporary[p].whole

\* A preparation works with the database its request's identity names.
WorksWithTheNamed(p) ==
  Prepares(p) =>
    /\ pc[p] \in Decoded => Observed(Request(p).database.identity)
    /\ pc[p] \in Hashed => Names(Request(p).database.identity, hashed[p].database)
    /\ pc[p] \in Opened => Names(Request(p).database.identity, used[p].database)

Reports(p) ==
  Prepares(p) =>
    \A path \in Paths \ {"database", "identities"} :
      used[p][path] = hashed[p][path]

Good(p) == OneWay(p) /\ Stores(p) /\ WorksWithTheNamed(p) /\ Reports(p)

IInv == TypeOK /\ Shaped /\ Disk /\ \A p \in Processes : Good(p)

-----------------------------------------------------------------------------
\* A step of a command changes what that command keeps and, of the rest, at
\* most the cache file.
LEMMA StepIsLocal ==
  ASSUME IInv, NEW p \in Processes, Step(p)
  PROVE  /\ UNCHANGED <<world, kind>>
         /\ TypeOK' /\ Shaped'
         /\ \A q \in Processes \ {p} :
              /\ pc'[q] = pc[q] /\ used'[q] = used[q] /\ hashed'[q] = hashed[q]
              /\ temporary'[q] = temporary[q] /\ cacheState'[q] = cacheState[q]
              /\ error'[q] = error[q]
<1> USE DEF IInv, TypeOK, Shaped, Good, OneWay, Stages, Ways, Decoded, Hashed,
            Opened, Storing, Loading, Goto, Check, Use, Hash, world, cache, Paths
<1>1. CASE PrepareRequest(p)
  BY <1>1 DEF PrepareRequest
<1>2. CASE HashRequest(p)
  BY <1>2 DEF HashRequest
<1>3. CASE DecodeRequest(p)
  BY <1>3 DEF DecodeRequest
<1>4. CASE LoadLibraryCache(p)
  BY <1>4 DEF LoadLibraryCache
<1>5. CASE HashDatabase(p)
  BY <1>5 DEF HashDatabase
<1>6. CASE OpenDatabase(p)
  BY <1>6 DEF OpenDatabase
<1>7. CASE ReadDatabase(p)
  BY <1>7 DEF ReadDatabase
<1>8. CASE CheckDatabase(p)
  BY <1>8 DEF CheckDatabase
<1>9. CASE DecodeValidationLibrary(p)
  BY <1>9 DEF DecodeValidationLibrary
<1>10. CASE WriteTemporary(p)
  BY <1>10 DEF WriteTemporary
<1>11. CASE RenameTemporary(p)
  BY <1>11 DEF RenameTemporary, MoveTemporary
<1>12. CASE RemoveDestination(p)
  BY <1>12 DEF RemoveDestination
<1>13. CASE RenameAgain(p)
  BY <1>13 DEF RenameAgain, MoveTemporary
<1>14. CASE HashTrackIdentities(p)
  BY <1>14 DEF HashTrackIdentities, IdentitiesState, PastIdentities
<1>15. CASE OpenTrackIdentities(p)
  BY <1>15 DEF OpenTrackIdentities, IdentitiesState, PastIdentities
<1>16. CASE LoadLocalCandidateInventory(p)
  BY <1>16 DEF LoadLocalCandidateInventory, ReadStage
<1>17. CASE LoadCandidateIdentities(p)
  BY <1>17 DEF LoadCandidateIdentities, ReadStage
<1>18. CASE LoadMatrix(p)
  BY <1>18 DEF LoadMatrix, ReadStage
<1>19. CASE HashMatrix(p)
  BY <1>19 DEF HashMatrix
<1>20. CASE ParseMatrix(p)
  BY <1>20 DEF ParseMatrix
<1>21. CASE LoadSemanticEvidence(p)
  BY <1>21 DEF LoadSemanticEvidence, ReadStage
<1>22. CASE ValidateSemanticEvidence(p)
  BY <1>22 DEF ValidateSemanticEvidence, ReadStage
<1>23. CASE ResolveSources(p)
  BY <1>23 DEF ResolveSources
<1>24. CASE ValidateSources(p)
  BY <1>24 DEF ValidateSources
<1>25. CASE DecodeAgain(p)
  BY <1>25 DEF DecodeAgain
<1>26. CASE MatrixAgain(p)
  BY <1>26 DEF MatrixAgain
<1>27. CASE OpenAgain(p)
  BY <1>27 DEF OpenAgain
<1> QED
  BY <1>1, <1>2, <1>3, <1>4, <1>5, <1>6, <1>7, <1>8, <1>9, <1>10, <1>11, <1>12,
     <1>13, <1>14, <1>15, <1>16, <1>17, <1>18, <1>19, <1>20, <1>21, <1>22,
     <1>23, <1>24, <1>25, <1>26, <1>27
     DEF Step, PrepareStep, ValidateStep, ScoreStep, SharedStep

\* ... and what it keeps stays good, and so does the cache file.
LEMMA StepKeepsGood ==
  ASSUME IInv, NEW p \in Processes, Step(p)
  PROVE  Disk' /\ Good(p)'
<1>1. IInv /\ Good(p) /\ kind[p] \in Kinds
  BY DEF IInv, TypeOK
<1> USE <1>1, NoIdentityAssumption
        DEF IInv, Shaped, Good, OneWay, Stores, WorksWithTheNamed, Reports,
            Disk, IsTrue, Names, Observed, Prepares, Request, Ways, Decoded, Hashed,
            Opened, Storing, Loading, Goto, Check, Use, Hash, world, cache, Paths
<1>2. CASE PrepareRequest(p)
  BY <1>2 DEF PrepareRequest
<1>3. CASE HashRequest(p)
  BY <1>3 DEF HashRequest
<1>4. CASE DecodeRequest(p)
  BY <1>4 DEF DecodeRequest
<1>5. CASE LoadLibraryCache(p)
  <2>0. Prepares(p)
    BY <1>5 DEF LoadLibraryCache
  <2>1. CASE kind[p].caching /\ Usable(Request(p).database, cacheFile)
    <3>1. /\ cacheFile # Absent /\ cacheFile.whole /\ cacheFile.version = CacheVersion
          /\ cacheFile.identity = Request(p).database.identity
      BY <2>1 DEF Usable
    <3>2. /\ Names(Request(p).database.identity, cacheFile.library)
          /\ Names(Request(p).database.identity, cacheFile.sha)
      BY <3>1
    <3>3. /\ pc[p] = "cache" /\ pc'[p] = "identities" /\ UNCHANGED <<world, cache, kind>>
          /\ cacheState'[p] = "hit"
      BY <1>5, <2>1 DEF LoadLibraryCache, TypeOK
    <3>4. /\ used'[p].database = cacheFile.library /\ hashed'[p].database = cacheFile.sha
          /\ \A path \in Paths \ {"database"} :
               used'[p][path] = used[p][path] /\ hashed'[p][path] = hashed[p][path]
      BY <1>5, <2>1 DEF LoadLibraryCache
    <3> QED
      BY <2>0, <2>1, <3>2, <3>3, <3>4
  <2>2. CASE ~(kind[p].caching /\ Usable(Request(p).database, cacheFile))
    <3>1. pc'[p] = "hash" /\ pc[p] = "cache" /\ UNCHANGED <<world, cache, kind, used, hashed>>
      BY <1>5, <2>2 DEF LoadLibraryCache
    <3>2. /\ cacheState'[p] \in {"miss", "disabled"}
          /\ cacheState'[p] = "miss" =>
               kind[p].caching /\ Request(p).database.identity # NoIdentity
      BY <1>5, <2>2 DEF LoadLibraryCache, TypeOK
    <3> QED
      BY <2>0, <3>1, <3>2
  <2> QED
    BY <2>1, <2>2
<1>6. CASE HashDatabase(p)
  BY <1>6 DEF HashDatabase
<1>7. CASE OpenDatabase(p)
  BY <1>7 DEF OpenDatabase
<1>8. CASE ReadDatabase(p)
  BY <1>8 DEF ReadDatabase
<1>9. CASE CheckDatabase(p)
  BY <1>9 DEF CheckDatabase
<1>10. CASE DecodeValidationLibrary(p)
  BY <1>10 DEF DecodeValidationLibrary
<1>11. CASE WriteTemporary(p)
  BY <1>11 DEF WriteTemporary, NewCache
<1>12. CASE RenameTemporary(p)
  BY <1>12 DEF RenameTemporary, MoveTemporary
<1>13. CASE RemoveDestination(p)
  BY <1>13 DEF RemoveDestination
<1>14. CASE RenameAgain(p)
  BY <1>14 DEF RenameAgain, MoveTemporary
<1>15. CASE HashTrackIdentities(p)
  BY <1>15 DEF HashTrackIdentities, IdentitiesState, PastIdentities
<1>16. CASE OpenTrackIdentities(p)
  BY <1>16 DEF OpenTrackIdentities, IdentitiesState, PastIdentities
<1>17. CASE LoadLocalCandidateInventory(p)
  BY <1>17 DEF LoadLocalCandidateInventory, ReadStage
<1>18. CASE LoadCandidateIdentities(p)
  BY <1>18 DEF LoadCandidateIdentities, ReadStage
<1>19. CASE LoadMatrix(p)
  BY <1>19 DEF LoadMatrix, ReadStage
<1>20. CASE HashMatrix(p)
  BY <1>20 DEF HashMatrix
<1>21. CASE ParseMatrix(p)
  BY <1>21 DEF ParseMatrix
<1>22. CASE LoadSemanticEvidence(p)
  BY <1>22 DEF LoadSemanticEvidence, ReadStage
<1>23. CASE ValidateSemanticEvidence(p)
  BY <1>23 DEF ValidateSemanticEvidence, ReadStage
<1>24. CASE ResolveSources(p)
  BY <1>24 DEF ResolveSources
<1>25. CASE ValidateSources(p)
  BY <1>25 DEF ValidateSources
<1>26. CASE DecodeAgain(p)
  BY <1>26 DEF DecodeAgain
<1>27. CASE MatrixAgain(p)
  BY <1>27 DEF MatrixAgain
<1>28. CASE OpenAgain(p)
  BY <1>28 DEF OpenAgain
<1> QED
  BY <1>2, <1>3, <1>4, <1>5, <1>6, <1>7, <1>8, <1>9, <1>10, <1>11, <1>12,
     <1>13, <1>14, <1>15, <1>16, <1>17, <1>18, <1>19, <1>20, <1>21, <1>22,
     <1>23, <1>24, <1>25, <1>26, <1>27, <1>28
     DEF Step, PrepareStep, ValidateStep, ScoreStep, SharedStep

-----------------------------------------------------------------------------
LEMMA InitIInv == Init => IInv
<1> SUFFICES ASSUME Init PROVE IInv
  OBVIOUS
<1>1. files \in Worlds /\ cacheFile \in InitialCaches(files)
  BY DEF Init
<1>2. TypeOK /\ Shaped
  BY <1>1, WorldsAssumption DEF Init, TypeOK, Shaped, Stages, Ways
<1>3. Disk
  <2>1. files.database.version \in Nat /\ Observed(files.request.database.identity)
    BY <1>1, WorldsAssumption DEF Observed
  <2>2. ASSUME cacheFile # Absent PROVE IsTrue(cacheFile) /\ cacheFile.whole
    BY <1>1, <2>1, <2>2, CachesAssumption DEF IsTrue, Names
  <2> QED
    BY <2>1, <2>2 DEF Disk
<1>4. ASSUME NEW p \in Processes PROVE Good(p)
  BY DEF Init, Good, OneWay, Stores, WorksWithTheNamed, Reports, Paths, Ways,
         Decoded, Hashed, Opened, Storing, Loading
<1> QED
  BY <1>2, <1>3, <1>4 DEF IInv

\* The larger identity of a new database leaves every older one without a name.
LEMMA ReplaceKeeps ==
  ASSUME IInv, NEW path \in Paths, Replace(path)
  PROVE  IInv'
<1>1. PICK content \in Replacements[path] \ seen :
        /\ path = "request" =>
             content.database.identity \in {NoIdentity, files.database.version}
        /\ path = "database" => content.version > files.database.version
        /\ files' = [files EXCEPT ![path] = content]
  BY DEF Replace
<1>2. /\ disturbances' \in Nat /\ replaced' = TRUE
      /\ UNCHANGED <<damaged, cache, kind, pc, used, hashed, cacheState, identityState, error>>
  BY DEF Replace, Disturb, IInv, TypeOK
<1>3. TypeOK' /\ Shaped'
  BY <1>1, <1>2 DEF IInv, TypeOK, Shaped, cache
<1>4. /\ files.database.version \in Nat /\ files'.database.version \in Nat
      /\ files.database.version <= files'.database.version
      /\ \/ files'.database.version > files.database.version
         \/ files'.database = files.database
  BY <1>1, ReplacementsAssumption DEF IInv, Disk, Shaped, Paths
<1>5. /\ \A identity : Observed(identity) => Observed(identity)'
      /\ \A identity, library :
           /\ identity \in {NoIdentity} \cup 0..files.database.version
           /\ Names(identity, library)
           => Names(identity, library)'
  BY <1>4, NoIdentityAssumption DEF Observed, Names
<1>6. \A c : IsTrue(c) => IsTrue(c)'
  BY <1>4, <1>5 DEF IsTrue
<1>7. Disk'
  <2>1. Observed(files.request.database.identity)'
    <3>1. CASE path = "request"
      BY <1>1, <1>4, <3>1 DEF IInv, Shaped, Paths, Observed
    <3>2. CASE path # "request"
      BY <1>1, <1>5, <3>2 DEF IInv, Shaped, Disk, Paths
    <3> QED
      BY <3>1, <3>2
  <2> QED
    BY <1>2, <1>4, <1>6, <2>1 DEF IInv, Disk, cache
<1>8. ASSUME NEW p \in Processes PROVE Good(p)'
  <2>1. Good(p)
    BY DEF IInv
  <2>2. OneWay(p)' /\ Reports(p)'
    BY <1>2, <2>1 DEF Good, OneWay, Reports, Prepares, Request
  <2>3. Stores(p)'
    BY <1>2, <1>6, <2>1 DEF Good, Stores, cache
  <2>4. WorksWithTheNamed(p)'
    BY <1>2, <1>5, <2>1 DEF Good, WorksWithTheNamed, Prepares, Request, Observed,
       Decoded, Hashed
  <2> QED
    BY <2>2, <2>3, <2>4 DEF Good
<1> QED
  BY <1>3, <1>7, <1>8 DEF IInv

LEMMA NextIInv == IInv /\ [Next]_vars => IInv'
<1> SUFFICES ASSUME IInv, [Next]_vars PROVE IInv'
  OBVIOUS
<1>1. ASSUME NEW p \in Processes, Step(p) PROVE IInv'
  <2>1. /\ UNCHANGED <<world, kind>> /\ TypeOK' /\ Shaped'
        /\ \A q \in Processes \ {p} :
             /\ pc'[q] = pc[q] /\ used'[q] = used[q] /\ hashed'[q] = hashed[q]
             /\ temporary'[q] = temporary[q] /\ cacheState'[q] = cacheState[q]
    BY <1>1, StepIsLocal
  <2>2. Disk' /\ Good(p)'
    BY <1>1, StepKeepsGood
  <2>3. ASSUME NEW q \in Processes \ {p} PROVE Good(q)'
    BY <2>1 DEF IInv, Good, OneWay, Stores, WorksWithTheNamed, Reports, IsTrue, Names,
       Observed, Prepares, Request, world
  <2> QED
    BY <2>1, <2>2, <2>3 DEF IInv
<1>2. ASSUME NEW p \in Processes, Kill(p) PROVE IInv'
  <2>1. TypeOK' /\ Shaped' /\ Disk'
    BY <1>2 DEF IInv, Kill, Disturb, Goto, TypeOK, Shaped, Stages, Ways, Disk, IsTrue, Names,
       Observed, cache
  <2>2. ASSUME NEW q \in Processes PROVE Good(q)'
    BY <1>2 DEF IInv, Kill, Disturb, Goto, Shaped, Good, OneWay, Stores, WorksWithTheNamed,
       Reports, IsTrue, Names, Observed, Prepares, Request, cache, Ways, Decoded, Hashed,
       Opened, Storing, Loading
  <2> QED
    BY <2>1, <2>2 DEF IInv
<1>3. ASSUME NEW path \in Paths, Replace(path) PROVE IInv'
  BY <1>3, ReplaceKeeps
<1>4. CASE Damage
  <2>1. "whole" \in DOMAIN cacheFile
    BY <1>4 DEF Damage, IInv, Disk, IsTrue
  <2>2. PICK d : cacheFile' = [[cacheFile EXCEPT !["whole"] = FALSE] EXCEPT !["library"] = d]
    BY <1>4 DEF Damage
  <2>3. "whole" \in DOMAIN cacheFile' /\ ~cacheFile'.whole
    BY <2>1, <2>2
  <2>4. TypeOK' /\ Shaped' /\ Disk'
    BY <1>4, <2>3 DEF IInv, Damage, Disturb, TypeOK, Shaped, Disk, IsTrue, Names, Observed
  <2>5. ASSUME NEW q \in Processes PROVE Good(q)'
    BY <1>4 DEF IInv, Damage, Good, OneWay, Stores, WorksWithTheNamed, Reports, IsTrue,
       Names, Observed, Prepares, Request
  <2> QED
    BY <2>4, <2>5 DEF IInv
<1>5. CASE UNCHANGED vars
  BY <1>5 DEF vars, world, cache, IInv, TypeOK, Shaped, Disk, Good, OneWay, Stores,
     WorksWithTheNamed, Reports, IsTrue, Names, Observed, Prepares, Request
<1> QED
  BY <1>1, <1>2, <1>3, <1>4, <1>5 DEF Next, Stopped

\* The invariant the next theorems rest on: see the parts of Good and Disk.
THEOREM Invariance == Spec => []IInv
  BY InitIInv, NextIInv, PTL DEF Spec

\* A command whose caller saw the same database before and after the job worked
\* with that database and reports its hash (prepare_runtime_request and the two
\* halves of the library cache), whatever other commands wrote to the cache,
\* whoever was killed or failed while writing it, and whatever was replaced.
THEOREM UnchangedDatabaseIsUsed == Spec => []PreparationSound
<1>1. IInv => PreparationSound
  BY DEF IInv, Good, WorksWithTheNamed, Names, Prepares, Prepared, PreparationSound,
     UnchangedDatabaseIsTheOneUsed, Hashed, Opened, Loading
<1> QED
  BY <1>1, Invariance, PTL

\* Concurrent writers, kills between any two of their steps and failed renames
\* leave a whole cache file, an old one or none.
THEOREM CacheIsNeverTorn == Spec => []CacheIsWholeOrAbsent
<1>1. IInv => CacheIsWholeOrAbsent
  BY DEF IInv, Disk, CacheIsWholeOrAbsent
<1> QED
  BY <1>1, Invariance, PTL

-----------------------------------------------------------------------------
(***************************************************************************)
(* That no report is false of a file that is still there: a hash is of a   *)
(* content some file has had, and no content comes back.                   *)
(***************************************************************************)
\* The stages between the hash of a file and its use.
Between ==
  {<<"request", "decode">>, <<"database", "open">>, <<"database", "checkDatabase">>,
   <<"identities", "openIdentities">>, <<"matrix", "parseMatrix">>}

Seen == seen \cup {Absent}

\* What a hash says of the content used with it, while the file is there.
HashIsTrue(path, hash, content) == hash = files[path] => content = files[path]

CacheIsTrue(c) ==
  c.whole /\ c.version = CacheVersion =>
    c.sha \in Seen /\ HashIsTrue("database", c.sha, c.library)

Truthful(p) ==
  \A path \in Paths :
    /\ hashed[p][path] \in Seen
    /\ pc[p] \notin {"failed", "killed"} /\ <<path, pc[p]>> \notin Between =>
         HashIsTrue(path, hashed[p][path], used[p][path])

TInv ==
  /\ \A path \in Paths : files[path] \in seen /\ files[path] # Absent
  /\ cacheFile # Absent => CacheIsTrue(cacheFile)
  /\ \A p \in Processes :
       /\ Truthful(p)
       /\ pc[p] \in Storing => CacheIsTrue(temporary[p])

\* A step hashes what it uses, or what the next one will use, or uses what
\* there is.
LEMMA StepIsTruthful ==
  ASSUME IInv, TInv, NEW p \in Processes, Step(p)
  PROVE  Truthful(p)'
<1>1. /\ files' = files /\ seen' = seen
      /\ Truthful(p)
      /\ \A path \in Paths : files[path] \in seen
      /\ cacheFile # Absent => CacheIsTrue(cacheFile)
  BY StepIsLocal DEF world, TInv
<1>2. /\ DOMAIN pc = Processes /\ DOMAIN used = Processes /\ DOMAIN hashed = Processes
      /\ DOMAIN used[p] = Paths /\ DOMAIN hashed[p] = Paths
  BY DEF IInv, Shaped
<1> USE <1>1, <1>2 DEF Truthful, HashIsTrue, Seen, Between, Goto, Check, Use, Hash, Paths,
            Storing
<1>3. CASE PrepareRequest(p)
  BY <1>3 DEF PrepareRequest
<1>4. CASE HashRequest(p)
  BY <1>4 DEF HashRequest
<1>5. CASE DecodeRequest(p)
  BY <1>5 DEF DecodeRequest
<1>6. CASE LoadLibraryCache(p)
  <2>1. CASE kind[p].caching /\ Usable(Request(p).database, cacheFile)
    <3>1. cacheFile.sha \in Seen /\ HashIsTrue("database", cacheFile.sha, cacheFile.library)
      BY <2>1 DEF Usable, CacheIsTrue
    <3> QED
      BY <1>6, <2>1, <3>1 DEF LoadLibraryCache
  <2>2. CASE ~(kind[p].caching /\ Usable(Request(p).database, cacheFile))
    BY <1>6, <2>2 DEF LoadLibraryCache
  <2> QED
    BY <2>1, <2>2
<1>7. CASE HashDatabase(p)
  BY <1>7 DEF HashDatabase
<1>8. CASE OpenDatabase(p)
  BY <1>8 DEF OpenDatabase
<1>9. CASE ReadDatabase(p)
  BY <1>9 DEF ReadDatabase
<1>10. CASE CheckDatabase(p)
  BY <1>10 DEF CheckDatabase
<1>11. CASE DecodeValidationLibrary(p)
  BY <1>11 DEF DecodeValidationLibrary
<1>12. CASE WriteTemporary(p)
  BY <1>12 DEF WriteTemporary
<1>13. CASE RenameTemporary(p)
  BY <1>13 DEF RenameTemporary, MoveTemporary
<1>14. CASE RemoveDestination(p)
  BY <1>14 DEF RemoveDestination
<1>15. CASE RenameAgain(p)
  BY <1>15 DEF RenameAgain, MoveTemporary
<1>16. CASE HashTrackIdentities(p)
  BY <1>16 DEF HashTrackIdentities, IdentitiesState, PastIdentities
<1>17. CASE OpenTrackIdentities(p)
  BY <1>17 DEF OpenTrackIdentities, IdentitiesState, PastIdentities
<1>18. CASE LoadLocalCandidateInventory(p)
  BY <1>18 DEF LoadLocalCandidateInventory, ReadStage
<1>19. CASE LoadCandidateIdentities(p)
  BY <1>19 DEF LoadCandidateIdentities, ReadStage
<1>20. CASE LoadMatrix(p)
  BY <1>20 DEF LoadMatrix, ReadStage
<1>21. CASE HashMatrix(p)
  BY <1>21 DEF HashMatrix
<1>22. CASE ParseMatrix(p)
  BY <1>22 DEF ParseMatrix
<1>23. CASE LoadSemanticEvidence(p)
  BY <1>23 DEF LoadSemanticEvidence, ReadStage
<1>24. CASE ValidateSemanticEvidence(p)
  BY <1>24 DEF ValidateSemanticEvidence, ReadStage
<1>25. CASE ResolveSources(p)
  BY <1>25 DEF ResolveSources
<1>26. CASE ValidateSources(p)
  BY <1>26 DEF ValidateSources
<1>27. CASE DecodeAgain(p)
  BY <1>27 DEF DecodeAgain
<1>28. CASE MatrixAgain(p)
  BY <1>28 DEF MatrixAgain
<1>29. CASE OpenAgain(p)
  BY <1>29 DEF OpenAgain
<1> QED
  BY <1>3, <1>4, <1>5, <1>6, <1>7, <1>8, <1>9, <1>10, <1>11, <1>12, <1>13,
     <1>14, <1>15, <1>16, <1>17, <1>18, <1>19, <1>20, <1>21, <1>22, <1>23,
     <1>24, <1>25, <1>26, <1>27, <1>28, <1>29
     DEF Step, PrepareStep, ValidateStep, ScoreStep, SharedStep

LEMMA StepKeepsCacheTrue ==
  ASSUME IInv, TInv, NEW p \in Processes, Step(p)
  PROVE  /\ cacheFile' # Absent => CacheIsTrue(cacheFile)'
         /\ pc'[p] \in Storing => CacheIsTrue(temporary[p])'
<1>1. /\ files' = files /\ seen' = seen
      /\ Truthful(p)
      /\ cacheFile # Absent => CacheIsTrue(cacheFile)
      /\ pc[p] \in Storing => CacheIsTrue(temporary[p])
      /\ DOMAIN pc = Processes /\ DOMAIN temporary = Processes
  BY StepIsLocal DEF IInv, TInv, world, Shaped
<1>2. \A c : CacheIsTrue(c)' <=> CacheIsTrue(c)
  BY <1>1 DEF CacheIsTrue, HashIsTrue, Seen
<1> USE <1>1, <1>2 DEF Storing, Goto, Check
<1>3. CASE WriteTemporary(p)
  <2>1. pc[p] = "store" /\ UNCHANGED <<cacheFile, used, hashed>>
    BY <1>3 DEF WriteTemporary
  <2>2. CacheIsTrue(NewCache(p))
    BY <2>1 DEF Truthful, CacheIsTrue, Between, Paths, NewCache
  <2>3. pc'[p] \in Storing => temporary'[p] = NewCache(p)
    BY <1>3, <2>1 DEF WriteTemporary
  <2>4. cacheFile' # Absent => CacheIsTrue(cacheFile)'
    BY <2>1 DEF CacheIsTrue, HashIsTrue, Seen
  <2>5. pc'[p] \in Storing => CacheIsTrue(temporary[p])'
    BY <2>2, <2>3 DEF CacheIsTrue, HashIsTrue, Seen
  <2> QED
    BY <2>4, <2>5
<1>4. CASE RenameTemporary(p) \/ RemoveDestination(p) \/ RenameAgain(p)
  <2>1. \/ cacheFile' = Absent \/ cacheFile' = cacheFile
        \/ pc[p] \in Storing /\ cacheFile' = temporary[p]
    BY <1>4 DEF RenameTemporary, RemoveDestination, RenameAgain, MoveTemporary, cache
  <2>2. pc'[p] \in Storing => pc[p] \in Storing /\ temporary'[p] = temporary[p]
    BY <1>4 DEF RenameTemporary, RemoveDestination, RenameAgain, MoveTemporary, cache
  <2> QED
    BY <2>1, <2>2 DEF CacheIsTrue, HashIsTrue, Seen
<1>5. CASE UNCHANGED cache /\ pc'[p] \notin Storing
  BY <1>5 DEF cache, CacheIsTrue, HashIsTrue, Seen
<1>6. CASE PrepareRequest(p) \/ HashRequest(p) \/ DecodeRequest(p)
  BY <1>5, <1>6 DEF PrepareRequest, HashRequest, DecodeRequest
<1>7. CASE LoadLibraryCache(p) \/ HashDatabase(p) \/ OpenDatabase(p)
  BY <1>5, <1>7 DEF LoadLibraryCache, HashDatabase, OpenDatabase
<1>8. CASE ReadDatabase(p) \/ CheckDatabase(p) \/ DecodeValidationLibrary(p)
  BY <1>5, <1>8 DEF ReadDatabase, CheckDatabase, DecodeValidationLibrary
<1>9. CASE HashTrackIdentities(p) \/ OpenTrackIdentities(p)
  BY <1>5, <1>9 DEF HashTrackIdentities, OpenTrackIdentities, IdentitiesState, PastIdentities
<1>10. CASE LoadLocalCandidateInventory(p) \/ LoadCandidateIdentities(p)
  BY <1>5, <1>10 DEF LoadLocalCandidateInventory, LoadCandidateIdentities, ReadStage
<1>11. CASE LoadMatrix(p) \/ HashMatrix(p) \/ ParseMatrix(p)
  BY <1>5, <1>11 DEF LoadMatrix, HashMatrix, ParseMatrix, ReadStage
<1>12. CASE LoadSemanticEvidence(p) \/ ValidateSemanticEvidence(p)
  BY <1>5, <1>12 DEF LoadSemanticEvidence, ValidateSemanticEvidence, ReadStage
<1>13. CASE ResolveSources(p) \/ ValidateSources(p)
  BY <1>5, <1>13 DEF ResolveSources, ValidateSources
<1>14. CASE DecodeAgain(p) \/ MatrixAgain(p) \/ OpenAgain(p)
  BY <1>5, <1>14 DEF DecodeAgain, MatrixAgain, OpenAgain
<1> QED
  BY <1>3, <1>4, <1>5, <1>6, <1>7, <1>8, <1>9, <1>10, <1>11, <1>12, <1>13, <1>14
     DEF Step, PrepareStep, ValidateStep, ScoreStep, SharedStep

LEMMA InitTInv == Init => TInv
<1> SUFFICES ASSUME Init PROVE TInv
  OBVIOUS
<1>1. files \in Worlds /\ cacheFile \in InitialCaches(files)
  BY DEF Init
<1>2. \A path \in Paths : files[path] \in seen /\ files[path] # Absent
  BY <1>1, WorldsAssumption DEF Init
<1>3. ASSUME cacheFile # Absent PROVE CacheIsTrue(cacheFile)
  <2>1. cacheFile.sha \in seen
    BY <1>3 DEF Init
  <2>2. cacheFile.version = CacheVersion =>
          HashIsTrue("database", cacheFile.sha, cacheFile.library)
    BY <1>1, <1>3, CachesAssumption DEF HashIsTrue
  <2> QED
    BY <2>1, <2>2 DEF CacheIsTrue, Seen
<1>4. ASSUME NEW p \in Processes PROVE Truthful(p) /\ pc[p] \notin Storing
  BY <1>2 DEF Init, Truthful, HashIsTrue, Seen, Storing
<1> QED
  BY <1>2, <1>3, <1>4 DEF TInv

\* A new content has no hash yet.
LEMMA ReplaceKeepsTruth ==
  ASSUME IInv, TInv, NEW path \in Paths, Replace(path)
  PROVE  TInv'
<1>1. PICK content \in Replacements[path] \ seen :
        /\ files' = [files EXCEPT ![path] = content]
        /\ seen' = seen \cup {content}
  BY DEF Replace
<1>2. UNCHANGED <<cacheFile, temporary, pc, used, hashed>>
  BY DEF Replace, cache
<1>3. content \notin Seen /\ content # Absent /\ DOMAIN files = Paths
  BY <1>1, ReplacementsAssumption DEF Seen, IInv, Shaped
<1>4. ASSUME NEW q \in Paths, NEW hash \in Seen, NEW c, HashIsTrue(q, hash, c)
      PROVE  hash \in Seen' /\ HashIsTrue(q, hash, c)'
  BY <1>1, <1>3, <1>4 DEF HashIsTrue, Seen
<1>5. \A q \in Paths : files'[q] \in seen' /\ files'[q] # Absent
  BY <1>1, <1>3 DEF TInv
<1>6. ASSUME NEW c, CacheIsTrue(c) PROVE CacheIsTrue(c)'
  BY <1>4, <1>6 DEF CacheIsTrue, Paths
<1>7. ASSUME NEW p \in Processes PROVE Truthful(p)'
  <2>1. Truthful(p)
    BY DEF TInv
  <2>2. SUFFICES ASSUME NEW q \in Paths
                 PROVE  /\ hashed'[p][q] \in Seen'
                        /\ pc'[p] \notin {"failed", "killed"} /\ <<q, pc'[p]>> \notin Between =>
                             HashIsTrue(q, hashed[p][q], used[p][q])'
    BY DEF Truthful
  <2>3. hashed[p][q] \in Seen
    BY <2>1 DEF Truthful
  <2>4. CASE pc[p] \in {"failed", "killed"} \/ <<q, pc[p]>> \in Between
    BY <1>1, <1>2, <2>3, <2>4 DEF Seen
  <2>5. CASE pc[p] \notin {"failed", "killed"} /\ <<q, pc[p]>> \notin Between
    <3>1. HashIsTrue(q, hashed[p][q], used[p][q])
      BY <2>1, <2>5 DEF Truthful
    <3> QED
      BY <1>2, <1>4, <2>3, <3>1 DEF HashIsTrue
  <2> QED
    BY <2>4, <2>5
<1>8. ASSUME NEW p \in Processes, pc'[p] \in Storing PROVE CacheIsTrue(temporary[p])'
  <2>1. CacheIsTrue(temporary[p])
    BY <1>2, <1>8 DEF TInv
  <2>2. \A c : CacheIsTrue(c) => CacheIsTrue(c)'
    BY <1>6
  <2> QED
    BY <1>2, <2>1, <2>2 DEF CacheIsTrue, HashIsTrue
<1>9. cacheFile' # Absent => CacheIsTrue(cacheFile)'
  BY <1>2, <1>6 DEF TInv, CacheIsTrue, HashIsTrue
<1> QED
  BY <1>5, <1>7, <1>8, <1>9 DEF TInv

LEMMA NextTInv == IInv /\ TInv /\ [Next]_vars => TInv'
<1> SUFFICES ASSUME IInv, TInv, [Next]_vars PROVE TInv'
  OBVIOUS
<1>1. ASSUME NEW p \in Processes, Step(p) PROVE TInv'
  <2>1. /\ files' = files /\ seen' = seen
        /\ \A q \in Processes \ {p} :
             /\ pc'[q] = pc[q] /\ used'[q] = used[q] /\ hashed'[q] = hashed[q]
             /\ temporary'[q] = temporary[q]
    BY <1>1, StepIsLocal DEF world
  <2>2. /\ Truthful(p)'
        /\ cacheFile' # Absent => CacheIsTrue(cacheFile)'
        /\ pc'[p] \in Storing => CacheIsTrue(temporary[p])'
    BY <1>1, StepIsTruthful, StepKeepsCacheTrue
  <2>3. ASSUME NEW q \in Processes \ {p}
        PROVE  Truthful(q)' /\ (pc'[q] \in Storing => CacheIsTrue(temporary[q])')
    <3>1. Truthful(q) /\ (pc[q] \in Storing => CacheIsTrue(temporary[q]))
      BY DEF TInv
    <3> QED
      BY <2>1, <3>1 DEF Truthful, CacheIsTrue, HashIsTrue, Seen
  <2> QED
    BY <2>1, <2>2, <2>3 DEF TInv
<1>2. ASSUME NEW p \in Processes, Kill(p) PROVE TInv'
  <2>1. /\ UNCHANGED <<files, seen, cacheFile, temporary, used, hashed>>
        /\ pc' = [pc EXCEPT ![p] = "killed"]
        /\ DOMAIN pc = Processes
    BY <1>2 DEF Kill, Goto, cache, IInv, Shaped
  <2>2. ASSUME NEW q \in Processes
        PROVE  Truthful(q)' /\ (pc'[q] \in Storing => CacheIsTrue(temporary[q])')
    <3>1. Truthful(q) /\ (pc[q] \in Storing => CacheIsTrue(temporary[q]))
      BY DEF TInv
    <3>2. pc'[q] = IF q = p THEN "killed" ELSE pc[q]
      BY <2>1
    <3> QED
      BY <2>1, <3>1, <3>2 DEF Truthful, CacheIsTrue, HashIsTrue, Seen, Storing
  <2> QED
    BY <2>1, <2>2 DEF TInv, CacheIsTrue, HashIsTrue, Seen
<1>3. ASSUME NEW path \in Paths, Replace(path) PROVE TInv'
  BY <1>3, ReplaceKeepsTruth
<1>4. CASE Damage
  <2>1. UNCHANGED <<files, seen, temporary, pc, used, hashed>>
    BY <1>4 DEF Damage
  <2>2. "whole" \in DOMAIN cacheFile
    BY <1>4 DEF Damage, IInv, Disk, IsTrue
  <2>3. PICK d : cacheFile' = [[cacheFile EXCEPT !["whole"] = FALSE] EXCEPT !["library"] = d]
    BY <1>4 DEF Damage
  <2>4. ~cacheFile'.whole
    BY <2>2, <2>3
  <2>5. ASSUME NEW q \in Processes
        PROVE  Truthful(q)' /\ (pc'[q] \in Storing => CacheIsTrue(temporary[q])')
    BY <2>1 DEF TInv, Truthful, CacheIsTrue, HashIsTrue, Seen
  <2> QED
    BY <2>1, <2>4, <2>5 DEF TInv, CacheIsTrue
<1>5. CASE UNCHANGED vars
  BY <1>5 DEF vars, world, cache, TInv, Truthful, CacheIsTrue, HashIsTrue, Seen
<1> QED
  BY <1>1, <1>2, <1>3, <1>4, <1>5 DEF Next, Stopped

\* The hash a finished command reports of a file that is still there names what
\* it worked with, although `validate`, the database and the identities read it
\* twice, `score` a third time, and the cache may hold what an earlier command
\* read while the database was replaced; of the files a prepared job reads once
\* it does so whatever is replaced.
THEOREM ReportsStayTrue == Spec => []ReportsAreTrue
<1>1. IInv => ReportNamesItsInputs
  BY DEF IInv, Good, Reports, Prepares, Prepared, ReportNamesItsInputs
<1>2. TInv => ReportsOfPresentFilesAreTrue
  BY DEF TInv, Truthful, HashIsTrue, Between, ReportsOfPresentFilesAreTrue
<1>3. IInv /\ TInv => ReportsAreTrue
  BY <1>1, <1>2 DEF ReportsAreTrue
<1>4. Spec => []TInv
  BY Invariance, InitTInv, NextTInv, PTL DEF Spec
<1> QED
  BY <1>3, <1>4, Invariance, PTL

-----------------------------------------------------------------------------
(***************************************************************************)
(* That the commands agree, while no file is replaced: the codes of the    *)
(* checks on the files there are, in the order the commands go through     *)
(* them, and what a command knows of them at each of its stages.  Where    *)
(* `route` and `bridge` have a check of their own and `validate` another,  *)
(* the code depends on the command.                                        *)
(***************************************************************************)
Asked == files.request
Library == files.database

RequestCode(k) ==
  IF k.command = "prepare" THEN RequestError(k, Asked) ELSE ValidationRequestError(Asked)
HashCode == Fails(~VerifyArtifactHash(Asked.database, Library), "ARTIFACT_HASH_MISMATCH")
OpenCode ==
  Fails("open" \in Library.faults, "DATABASE_INVALID")
  ?? Fails("integrity" \in Library.faults, "DATABASE_INTEGRITY_FAILED")
RowsCode(k) ==
  Fails(/\ k.command = "prepare" \/ Supplied(Asked.inventory)
        /\ "rows" \in Library.faults,
        "DATABASE_QUERY_FAILED")
InventoryCode(k) == InventoryError(k, Asked, Library.rows, files.inventory)
CandidatesCode(k) ==
  IF k.command = "prepare"
  THEN CandidateIdentitiesError(Asked, Library.rows, files.candidates, files.inventory.rows)
  ELSE "none"
MatrixCode == MatrixError(Asked, files.matrix)
EvidenceCode(k) ==
  IF k.command = "prepare" THEN EvidenceError(k, Asked, files.evidence)
  ELSE ValidationEvidenceError(Asked, files.evidence)
SourcesCode(k) ==
  IF k.command = "prepare" THEN SourcesError(Asked, Library.rows)
  ELSE ValidatedSourcesError(Asked, Library)

Codes(k) ==
  {RequestCode(k), HashCode, OpenCode, RowsCode(k), InventoryCode(k), CandidatesCode(k),
   MatrixCode, EvidenceCode(k), SourcesCode(k)}

PastSources == {"done"}
PastEvidence == {"sources"} \cup PastSources
PastMatrix == {"evidence"} \cup PastEvidence
PastCandidates == {"matrix", "parseMatrix"} \cup PastMatrix
PastInventory == {"candidates"} \cup PastCandidates
PastRows == {"inventory"} \cup PastInventory
PastOpen == {"store", "identities", "openIdentities", "decodeRows"} \cup
            Storing \cup PastRows
PastHash == {"open", "checkDatabase"} \cup PastOpen
PastRequest == {"cache", "hash", "readDatabase"} \cup PastHash

\* What a preparation or a validation has used is what there is, the checks it
\* has passed pass, and it failed for one that does not.
Judged(p) ==
  /\ pc[p] \in {"failed"} \cup PastRequest => Request(p) = Asked
  /\ pc[p] \in PastRequest => RequestCode(kind[p]) = "none"
  /\ pc[p] \in {"open", "store"} => hashed[p].database = Library
  /\ pc[p] \in PastHash => HashCode = "none"
  /\ pc[p] \in PastOpen => used[p].database = Library /\ OpenCode = "none"
  /\ pc[p] \in PastRows \/ (Prepares(p) /\ pc[p] \in PastOpen) => RowsCode(kind[p]) = "none"
  /\ pc[p] \in PastInventory => InventoryCode(kind[p]) = "none"
  /\ pc[p] = "candidates" =>
       Prepares(p) /\ (Supplied(Asked.inventory) => used[p].inventory = files.inventory)
  /\ pc[p] \in PastCandidates => CandidatesCode(kind[p]) = "none"
  /\ pc[p] = "parseMatrix" =>
       Supplied(Asked.matrix) /\ VerifyArtifactHash(Asked.matrix, files.matrix)
  /\ pc[p] \in PastMatrix => MatrixCode = "none"
  /\ pc[p] \in PastEvidence => EvidenceCode(kind[p]) = "none"
  /\ pc[p] \in PastSources => SourcesCode(kind[p]) = "none"
  /\ pc[p] = "failed" => error[p] \in Codes(kind[p])

\* A command the claim is about.
Judges(p) == kind[p].command # "score" /\ UsesPresentLibrary(p)

\* A usable cache of the present identity holds the database there is, and
\* that one can be opened and read.
Current(c) ==
  c.whole /\ c.version = CacheVersion /\ c.identity = Library.version =>
    c.library = Library /\ c.sha = Library /\ DatabaseError(Library) = "none"

JInv ==
  ~replaced =>
    /\ files \in Worlds
    /\ cacheFile # Absent => Current(cacheFile)
    /\ \A p \in Processes :
         /\ pc[p] \in Storing => Current(temporary[p])
         /\ Judges(p) => Judged(p)

LEMMA CodesStay ==
  ASSUME files' = files
  PROVE  /\ Asked' = Asked /\ Library' = Library
         /\ \A k : RequestCode(k)' = RequestCode(k)
         /\ HashCode' = HashCode /\ OpenCode' = OpenCode
         /\ \A k : RowsCode(k)' = RowsCode(k)
         /\ \A k : InventoryCode(k)' = InventoryCode(k)
         /\ \A k : CandidatesCode(k)' = CandidatesCode(k)
         /\ MatrixCode' = MatrixCode
         /\ \A k : EvidenceCode(k)' = EvidenceCode(k)
         /\ \A k : SourcesCode(k)' = SourcesCode(k)
         /\ \A k : Codes(k)' = Codes(k)
  BY DEF Asked, Library, RequestCode, HashCode, OpenCode, RowsCode, InventoryCode,
     CandidatesCode, MatrixCode, EvidenceCode, SourcesCode, Codes

\* A command the claim is about was one before its step: only the cache stage
\* and the decoding of the request change what decides it, and before them
\* nothing has come from the cache.
LEMMA JudgesBefore ==
  ASSUME IInv, JInv, ~replaced, NEW p \in Processes, Step(p), Judges(p)'
  PROVE  Judges(p)
<1>1. /\ UNCHANGED <<files, kind>>
      /\ OneWay(p)
      /\ DOMAIN used = Processes /\ DOMAIN used[p] = Paths
      /\ cacheState \in [Processes -> {"none", "hit", "miss", "disabled"}]
  BY StepIsLocal DEF IInv, Good, world, Shaped, TypeOK
<1> USE <1>1 DEF Judges, UsesPresentLibrary, Request, OneWay, Prepares, Goto, Use, Paths
<1>2. CASE PrepareRequest(p)
  BY <1>2 DEF PrepareRequest
<1>3. CASE HashRequest(p)
  BY <1>3 DEF HashRequest
<1>4. CASE DecodeRequest(p)
  <2>1. pc[p] = "decode" /\ UNCHANGED cacheState
    BY <1>4 DEF DecodeRequest
  <2>2. cacheState[p] = "none"
    BY <2>1 DEF Ways, Decoded, Hashed, Opened, Storing, Loading
  <2> QED
    BY <2>1, <2>2
<1>5. CASE LoadLibraryCache(p)
  BY <1>5 DEF LoadLibraryCache
<1>6. CASE HashDatabase(p)
  BY <1>6 DEF HashDatabase
<1>7. CASE OpenDatabase(p)
  BY <1>7 DEF OpenDatabase
<1>8. CASE ReadDatabase(p)
  BY <1>8 DEF ReadDatabase
<1>9. CASE CheckDatabase(p)
  BY <1>9 DEF CheckDatabase
<1>10. CASE DecodeValidationLibrary(p)
  BY <1>10 DEF DecodeValidationLibrary
<1>11. CASE WriteTemporary(p)
  BY <1>11 DEF WriteTemporary
<1>12. CASE RenameTemporary(p)
  BY <1>12 DEF RenameTemporary, MoveTemporary
<1>13. CASE RemoveDestination(p)
  BY <1>13 DEF RemoveDestination
<1>14. CASE RenameAgain(p)
  BY <1>14 DEF RenameAgain, MoveTemporary
<1>15. CASE HashTrackIdentities(p)
  BY <1>15 DEF HashTrackIdentities
<1>16. CASE OpenTrackIdentities(p)
  BY <1>16 DEF OpenTrackIdentities
<1>17. CASE LoadLocalCandidateInventory(p)
  BY <1>17 DEF LoadLocalCandidateInventory, ReadStage
<1>18. CASE LoadCandidateIdentities(p)
  BY <1>18 DEF LoadCandidateIdentities, ReadStage
<1>19. CASE LoadMatrix(p)
  BY <1>19 DEF LoadMatrix, ReadStage
<1>20. CASE HashMatrix(p)
  BY <1>20 DEF HashMatrix
<1>21. CASE ParseMatrix(p)
  BY <1>21 DEF ParseMatrix
<1>22. CASE LoadSemanticEvidence(p)
  BY <1>22 DEF LoadSemanticEvidence, ReadStage
<1>23. CASE ValidateSemanticEvidence(p)
  BY <1>23 DEF ValidateSemanticEvidence, ReadStage
<1>24. CASE ResolveSources(p)
  BY <1>24 DEF ResolveSources
<1>25. CASE ValidateSources(p)
  BY <1>25 DEF ValidateSources
<1>26. CASE DecodeAgain(p)
  BY <1>26 DEF DecodeAgain
<1>27. CASE MatrixAgain(p)
  BY <1>27 DEF MatrixAgain
<1>28. CASE OpenAgain(p)
  BY <1>28 DEF OpenAgain
<1> QED
  BY <1>2, <1>3, <1>4, <1>5, <1>6, <1>7, <1>8, <1>9, <1>10, <1>11, <1>12,
     <1>13, <1>14, <1>15, <1>16, <1>17, <1>18, <1>19, <1>20, <1>21, <1>22,
     <1>23, <1>24, <1>25, <1>26, <1>27, <1>28
     DEF Step, PrepareStep, ValidateStep, ScoreStep, SharedStep

LEMMA StepKeepsJudged ==
  ASSUME IInv, JInv, ~replaced, NEW p \in Processes, Judges(p)', Step(p)
  PROVE  Judged(p)'
<1>1. /\ UNCHANGED <<files, kind>>
      /\ Judged(p) /\ OneWay(p)
      /\ pc[p] \in Stages
      /\ cacheFile # Absent => Current(cacheFile)
      /\ kind[p].command \in {"prepare", "validate"}
      /\ Judges(p)'
  BY StepIsLocal, JudgesBefore DEF IInv, JInv, Good, TypeOK, world, Shaped, Judges, Kinds
<1>2. /\ DOMAIN pc = Processes /\ DOMAIN error = Processes
      /\ DOMAIN used = Processes /\ DOMAIN hashed = Processes
      /\ DOMAIN used[p] = Paths /\ DOMAIN hashed[p] = Paths
      /\ DOMAIN cacheState = Processes
  BY DEF IInv, Shaped, TypeOK
<1>3. /\ Asked' = Asked /\ Library' = Library
      /\ \A k : RequestCode(k)' = RequestCode(k)
      /\ HashCode' = HashCode /\ OpenCode' = OpenCode
      /\ \A k : RowsCode(k)' = RowsCode(k)
      /\ \A k : InventoryCode(k)' = InventoryCode(k)
      /\ \A k : CandidatesCode(k)' = CandidatesCode(k)
      /\ MatrixCode' = MatrixCode
      /\ \A k : EvidenceCode(k)' = EvidenceCode(k)
      /\ \A k : SourcesCode(k)' = SourcesCode(k)
      /\ \A k : Codes(k)' = Codes(k)
  BY <1>1, CodesStay
<1>4. \A k : /\ RequestCode(k) \in Codes(k) /\ HashCode \in Codes(k)
             /\ OpenCode \in Codes(k) /\ RowsCode(k) \in Codes(k)
             /\ InventoryCode(k) \in Codes(k)
             /\ CandidatesCode(k) \in Codes(k) /\ MatrixCode \in Codes(k)
             /\ EvidenceCode(k) \in Codes(k) /\ SourcesCode(k) \in Codes(k)
  BY DEF Codes
<1> USE <1>1, <1>2, <1>3, <1>4 DEF Judged, OneWay, Prepares, Request, PastRequest, PastHash,
            PastOpen, PastRows, PastInventory, PastCandidates, PastMatrix, PastEvidence,
            PastSources, Storing, Goto, Check, Use, Hash, Paths, Asked, Library
<1>5. pc[p] \in {"decode", "readDatabase", "checkDatabase", "decodeRows"} =>
        kind[p].command = "validate"
  BY DEF Ways, Decoded, Hashed, Opened, Loading
<1> USE <1>5
<1>6. CASE PrepareRequest(p)
  BY <1>6 DEF PrepareRequest, RequestCode
<1>7. CASE HashRequest(p)
  BY <1>7 DEF HashRequest
<1>8. CASE DecodeRequest(p)
  BY <1>8 DEF DecodeRequest, RequestCode
<1>9. CASE LoadLibraryCache(p)
  <2>1. CASE kind[p].caching /\ Usable(Request(p).database, cacheFile)
    <3>1. /\ cacheState'[p] = "hit" /\ Request(p)' = Request(p) /\ Request(p) = Asked
          /\ pc[p] = "cache"
      BY <1>9, <2>1 DEF LoadLibraryCache
    <3>2. Asked.database.identity = Library.version
      BY <3>1 DEF Judges, UsesPresentLibrary
    <3>3. /\ VerifyArtifactHash(Asked.database, cacheFile.sha)
          /\ cacheFile.library = Library /\ cacheFile.sha = Library
          /\ DatabaseError(Library) = "none"
      BY <2>1, <3>1, <3>2 DEF Usable, Current
    <3>4. HashCode = "none" /\ OpenCode = "none" /\ RowsCode(kind[p]) = "none"
      BY <3>3 DEF HashCode, OpenCode, RowsCode, DatabaseError, Fails, ??
    <3> QED
      BY <1>9, <2>1, <3>3, <3>4 DEF LoadLibraryCache
  <2>2. CASE ~(kind[p].caching /\ Usable(Request(p).database, cacheFile))
    BY <1>9, <2>2 DEF LoadLibraryCache
  <2> QED
    BY <2>1, <2>2
<1>10. CASE HashDatabase(p)
  BY <1>10 DEF HashDatabase, HashCode
<1>11. CASE OpenDatabase(p)
  <2>1. Prepares(p)
    BY <1>11 DEF OpenDatabase
  <2>2. DatabaseError(Library) = (OpenCode ?? RowsCode(kind[p]))
    BY <2>1 DEF DatabaseError, OpenCode, RowsCode, Fails, ??
  <2>3. DatabaseError(Library) \in Codes(kind[p])
    BY <2>2 DEF ??
  <2>4. DatabaseError(Library) = "none" => OpenCode = "none" /\ RowsCode(kind[p]) = "none"
    BY <2>2 DEF ??
  <2> QED
    BY <1>11, <2>1, <2>3, <2>4 DEF OpenDatabase
<1>12. CASE ReadDatabase(p)
  BY <1>12 DEF ReadDatabase, HashCode
<1>13. CASE CheckDatabase(p)
  BY <1>13 DEF CheckDatabase, OpenCode
<1>14. CASE DecodeValidationLibrary(p)
  <2>1. Fails(Supplied(Request(p).inventory) /\ "rows" \in used[p].database.faults,
              "DATABASE_QUERY_FAILED") = RowsCode(kind[p])
    BY <1>14 DEF DecodeValidationLibrary, RowsCode, Fails
  <2> QED
    BY <1>14, <2>1 DEF DecodeValidationLibrary
<1>15. CASE WriteTemporary(p)
  BY <1>15 DEF WriteTemporary
<1>16. CASE RenameTemporary(p)
  BY <1>16 DEF RenameTemporary, MoveTemporary
<1>17. CASE RemoveDestination(p)
  BY <1>17 DEF RemoveDestination
<1>18. CASE RenameAgain(p)
  BY <1>18 DEF RenameAgain, MoveTemporary
<1>19. CASE HashTrackIdentities(p)
  BY <1>19 DEF HashTrackIdentities, IdentitiesState, PastIdentities
<1>20. CASE OpenTrackIdentities(p)
  BY <1>20 DEF OpenTrackIdentities, IdentitiesState, PastIdentities
<1>21. CASE LoadLocalCandidateInventory(p)
  BY <1>21 DEF LoadLocalCandidateInventory, ReadStage, InventoryCode, CandidatesCode, Rows
<1>22. CASE LoadCandidateIdentities(p)
  BY <1>22 DEF LoadCandidateIdentities, ReadStage, CandidatesCode, CandidateIdentitiesError,
     Supplied, Rows
<1>23. CASE LoadMatrix(p)
  BY <1>23 DEF LoadMatrix, ReadStage, MatrixCode
<1>24. CASE HashMatrix(p)
  BY <1>24 DEF HashMatrix, MatrixCode, MatrixError, Fails, ??
<1>25. CASE ParseMatrix(p)
  BY <1>25 DEF ParseMatrix, MatrixCode, MatrixError, Fails, ??
<1>26. CASE LoadSemanticEvidence(p)
  BY <1>26 DEF LoadSemanticEvidence, ReadStage, EvidenceCode
<1>27. CASE ValidateSemanticEvidence(p)
  BY <1>27 DEF ValidateSemanticEvidence, ReadStage, EvidenceCode
<1>28. CASE ResolveSources(p)
  BY <1>28 DEF ResolveSources, SourcesCode, Rows
<1>29. CASE ValidateSources(p)
  BY <1>29 DEF ValidateSources, SourcesCode
<1>30. CASE DecodeAgain(p)
  BY <1>30 DEF DecodeAgain
<1>31. CASE MatrixAgain(p)
  BY <1>31 DEF MatrixAgain
<1>32. CASE OpenAgain(p)
  BY <1>32 DEF OpenAgain
<1> QED
  BY <1>6, <1>7, <1>8, <1>9, <1>10, <1>11, <1>12, <1>13, <1>14, <1>15, <1>16,
     <1>17, <1>18, <1>19, <1>20, <1>21, <1>22, <1>23, <1>24, <1>25, <1>26,
     <1>27, <1>28, <1>29, <1>30, <1>31, <1>32
     DEF Step, PrepareStep, ValidateStep, ScoreStep, SharedStep

\* A command stores the database it has checked, and moves what it has stored.
LEMMA StepKeepsCurrent ==
  ASSUME IInv, JInv, ~replaced, NEW p \in Processes, Step(p)
  PROVE  /\ cacheFile' # Absent => Current(cacheFile)'
         /\ pc'[p] \in Storing => Current(temporary[p])'
<1>1. /\ UNCHANGED <<files, kind>>
      /\ OneWay(p) /\ (Judges(p) => Judged(p))
      /\ cacheFile # Absent => Current(cacheFile)
      /\ pc[p] \in Storing => Current(temporary[p])
      /\ DOMAIN pc = Processes /\ DOMAIN temporary = Processes
  BY StepIsLocal DEF IInv, JInv, Good, world, Shaped
<1>2. \A c : Current(c)' <=> Current(c)
  BY <1>1 DEF Current, Library, DatabaseError
<1> USE <1>1, <1>2 DEF Storing, Goto, Check
<1>3. CASE WriteTemporary(p)
  <2>1. pc[p] = "store" /\ Prepares(p) /\ UNCHANGED cacheFile /\ cacheState[p] = "miss"
    BY <1>3 DEF WriteTemporary, OneWay
  <2>2. Judged(p)
    BY <2>1 DEF Judges, UsesPresentLibrary, Prepares
  <2>3. /\ used[p].database = Library /\ hashed[p].database = Library
        /\ OpenCode = "none" /\ RowsCode(kind[p]) = "none"
    BY <2>1, <2>2 DEF Judged, PastOpen
  <2>4. DatabaseError(Library) = "none"
    BY <2>1, <2>3 DEF OpenCode, RowsCode, DatabaseError, Prepares, Fails, ??
  <2>5. Current(NewCache(p))
    BY <2>3, <2>4 DEF Current, NewCache
  <2>6. pc'[p] \in Storing => temporary'[p] = NewCache(p)
    BY <1>3, <2>1 DEF WriteTemporary
  <2>7. pc'[p] \in Storing => Current(temporary[p])'
    BY <2>5, <2>6 DEF Current, Library, DatabaseError
  <2>8. cacheFile' # Absent => Current(cacheFile)'
    BY <2>1 DEF Current, Library, DatabaseError
  <2> QED
    BY <2>7, <2>8
<1>4. CASE RenameTemporary(p) \/ RemoveDestination(p) \/ RenameAgain(p)
  <2>1. \/ cacheFile' = Absent \/ cacheFile' = cacheFile
        \/ pc[p] \in Storing /\ cacheFile' = temporary[p]
    BY <1>4 DEF RenameTemporary, RemoveDestination, RenameAgain, MoveTemporary, cache
  <2>2. pc'[p] \in Storing => pc[p] \in Storing /\ temporary'[p] = temporary[p]
    BY <1>4 DEF RenameTemporary, RemoveDestination, RenameAgain, MoveTemporary, cache
  <2> QED
    BY <2>1, <2>2 DEF Current, Library, DatabaseError
<1>5. CASE UNCHANGED cache /\ pc'[p] \notin Storing
  BY <1>5 DEF cache, Current, Library, DatabaseError
<1>6. CASE PrepareRequest(p) \/ HashRequest(p) \/ DecodeRequest(p)
  BY <1>5, <1>6 DEF PrepareRequest, HashRequest, DecodeRequest
<1>7. CASE LoadLibraryCache(p) \/ HashDatabase(p) \/ OpenDatabase(p)
  BY <1>5, <1>7 DEF LoadLibraryCache, HashDatabase, OpenDatabase
<1>8. CASE ReadDatabase(p) \/ CheckDatabase(p) \/ DecodeValidationLibrary(p)
  BY <1>5, <1>8 DEF ReadDatabase, CheckDatabase, DecodeValidationLibrary
<1>9. CASE HashTrackIdentities(p) \/ OpenTrackIdentities(p)
  BY <1>5, <1>9 DEF HashTrackIdentities, OpenTrackIdentities, IdentitiesState, PastIdentities
<1>10. CASE LoadLocalCandidateInventory(p) \/ LoadCandidateIdentities(p)
  BY <1>5, <1>10 DEF LoadLocalCandidateInventory, LoadCandidateIdentities, ReadStage
<1>11. CASE LoadMatrix(p) \/ HashMatrix(p) \/ ParseMatrix(p)
  BY <1>5, <1>11 DEF LoadMatrix, HashMatrix, ParseMatrix, ReadStage
<1>12. CASE LoadSemanticEvidence(p) \/ ValidateSemanticEvidence(p)
  BY <1>5, <1>12 DEF LoadSemanticEvidence, ValidateSemanticEvidence, ReadStage
<1>13. CASE ResolveSources(p) \/ ValidateSources(p)
  BY <1>5, <1>13 DEF ResolveSources, ValidateSources
<1>14. CASE DecodeAgain(p) \/ MatrixAgain(p) \/ OpenAgain(p)
  BY <1>5, <1>14 DEF DecodeAgain, MatrixAgain, OpenAgain
<1> QED
  BY <1>3, <1>4, <1>5, <1>6, <1>7, <1>8, <1>9, <1>10, <1>11, <1>12, <1>13, <1>14
     DEF Step, PrepareStep, ValidateStep, ScoreStep, SharedStep

LEMMA InitJInv == Init => JInv
<1> SUFFICES ASSUME Init PROVE JInv
  OBVIOUS
<1>1. files \in Worlds /\ cacheFile \in InitialCaches(files)
  BY DEF Init
<1>2. ASSUME cacheFile # Absent PROVE Current(cacheFile)
  <2>1. cacheFile.version = CacheVersion /\ cacheFile.identity = Library.version =>
          cacheFile.library = Library /\ cacheFile.sha = Library /\ Library.faults = {}
    BY <1>1, <1>2, CachesAssumption DEF Library
  <2>2. Library.faults = {} => DatabaseError(Library) = "none"
    BY DEF DatabaseError, Fails, ??
  <2> QED
    BY <2>1, <2>2 DEF Current
<1>3. ASSUME NEW p \in Processes PROVE pc[p] \notin Storing /\ Judged(p)
  BY DEF Init, Judged, Storing, PastRequest, PastHash, PastOpen, PastRows, PastInventory,
     PastCandidates, PastMatrix, PastEvidence, PastSources
<1> QED
  BY <1>1, <1>2, <1>3 DEF JInv

\* What is known of a command depends on the files and on what it keeps.
LEMMA KnownStays ==
  ASSUME NEW p \in Processes, files' = files, kind' = kind, pc'[p] = pc[p],
         used'[p] = used[p], hashed'[p] = hashed[p], error'[p] = error[p],
         cacheState'[p] = cacheState[p], Judges(p) => Judged(p)
  PROVE  Judges(p)' => Judged(p)'
<1>1. Judges(p)' <=> Judges(p)
  BY DEF Judges, UsesPresentLibrary, Request
<1>2. Judged(p) => Judged(p)'
  BY CodesStay DEF Judged, Request, Prepares
<1> QED
  BY <1>1, <1>2

LEMMA NextJInv == IInv /\ JInv /\ [Next]_vars => JInv'
<1> SUFFICES ASSUME IInv, JInv, [Next]_vars, ~replaced' PROVE JInv'
  BY DEF JInv
<1>1. ASSUME NEW p \in Processes, Step(p) PROVE JInv'
  <2>1. /\ UNCHANGED <<world, kind>>
        /\ \A q \in Processes \ {p} :
             /\ pc'[q] = pc[q] /\ used'[q] = used[q] /\ hashed'[q] = hashed[q]
             /\ temporary'[q] = temporary[q] /\ cacheState'[q] = cacheState[q]
             /\ error'[q] = error[q]
    BY <1>1, StepIsLocal
  <2>2. ~replaced /\ files' = files
    BY <2>1 DEF world
  <2>3. ASSUME NEW q \in Processes
        PROVE  /\ pc'[q] \in Storing => Current(temporary[q])'
               /\ Judges(q)' => Judged(q)'
    <3>1. CASE q = p
      BY <1>1, <2>2, <3>1, StepKeepsCurrent, StepKeepsJudged
    <3>2. CASE q # p
      <4>1. Current(temporary[q]) => Current(temporary[q])'
        BY <2>1, <2>2, <3>2 DEF Current, Library, DatabaseError
      <4>2. Judges(q) => Judged(q)
        BY <2>2 DEF JInv
      <4>3. Judges(q)' => Judged(q)'
        BY <2>1, <2>2, <3>2, <4>2, KnownStays
      <4> QED
        BY <2>1, <2>2, <3>2, <4>1, <4>3 DEF JInv
    <3> QED
      BY <3>1, <3>2
  <2>4. cacheFile' # Absent => Current(cacheFile)'
    BY <1>1, <2>2, StepKeepsCurrent
  <2> QED
    BY <2>2, <2>3, <2>4 DEF JInv
<1>2. ASSUME NEW p \in Processes, Kill(p) PROVE JInv'
  <2>1. /\ files' = files /\ ~replaced
        /\ UNCHANGED <<cacheFile, temporary, kind, used, hashed, error, cacheState>>
        /\ pc' = [pc EXCEPT ![p] = "killed"]
        /\ DOMAIN pc = Processes
    BY <1>2 DEF Kill, Goto, cache, IInv, Shaped
  <2>2. ASSUME NEW q \in Processes
        PROVE  /\ pc'[q] \in Storing => Current(temporary[q])'
               /\ Judges(q)' => Judged(q)'
    <3>1. CASE q = p
      BY <2>1, <3>1 DEF Storing, Judged, PastRequest, PastHash, PastOpen, PastRows,
         PastInventory, PastCandidates, PastMatrix, PastEvidence, PastSources
    <3>2. CASE q # p
      <4>1. pc'[q] = pc[q] /\ (Judges(q) => Judged(q))
        BY <2>1, <3>2 DEF JInv
      <4>2. Judges(q)' => Judged(q)'
        BY <2>1, <4>1, KnownStays
      <4> QED
        BY <2>1, <4>1, <4>2 DEF JInv, Current, Library, DatabaseError
    <3> QED
      BY <3>1, <3>2
  <2>3. cacheFile' # Absent => Current(cacheFile)'
    BY <2>1 DEF JInv, Current, Library, DatabaseError
  <2> QED
    BY <2>1, <2>2, <2>3 DEF JInv
<1>3. ASSUME NEW path \in Paths, Replace(path) PROVE JInv'
  BY <1>3 DEF Replace
<1>4. CASE Damage
  <2>1. /\ files' = files /\ ~replaced
        /\ UNCHANGED <<temporary, kind, pc, used, hashed, error, cacheState>>
    BY <1>4 DEF Damage
  <2>2. "whole" \in DOMAIN cacheFile
    BY <1>4 DEF Damage, IInv, Disk, IsTrue
  <2>3. PICK d : cacheFile' = [[cacheFile EXCEPT !["whole"] = FALSE] EXCEPT !["library"] = d]
    BY <1>4 DEF Damage
  <2>4. ~cacheFile'.whole
    BY <2>2, <2>3
  <2>5. ASSUME NEW q \in Processes
        PROVE  Judges(q)' => Judged(q)'
    <3>1. Judges(q) => Judged(q)
      BY <2>1 DEF JInv
    <3> QED
      BY <2>1, <3>1, KnownStays
  <2> QED
    BY <2>1, <2>4, <2>5 DEF JInv, Current, Library, DatabaseError
<1>5. CASE UNCHANGED vars
  <2>1. files' = files /\ ~replaced
        /\ UNCHANGED <<cacheFile, temporary, kind, pc, used, hashed, error, cacheState>>
    BY <1>5 DEF vars, world, cache
  <2>2. ASSUME NEW q \in Processes
        PROVE  Judges(q)' => Judged(q)'
    <3>1. Judges(q) => Judged(q)
      BY <2>1 DEF JInv
    <3> QED
      BY <2>1, <3>1, KnownStays
  <2> QED
    BY <2>1, <2>2 DEF JInv, Current, Library, DatabaseError
<1> QED
  BY <1>1, <1>2, <1>3, <1>4, <1>5 DEF Next, Stopped

-----------------------------------------------------------------------------
\* A nonempty set of naturals has a least element, which Min chooses.
LEMMA MinIsMember ==
  ASSUME NEW S \in SUBSET Nat, S # {}
  PROVE  Min(S) \in S
<1> DEFINE Smaller == {ss \in Nat \X Nat : ss[1] < ss[2]}
<1>1. IsWellFoundedOn(Smaller, Nat)
  BY NatLessThanWellFounded DEF OpToRel
<1>2. \A x, y \in Nat : <<y, x>> \in Smaller <=> y < x
  OBVIOUS
<1> HIDE DEF Smaller
<1>3. PICK m \in S : \A n \in S : ~(<<n, m>> \in Smaller)
  BY <1>1, WFMin
<1>4. ASSUME NEW n \in S PROVE m <= n
  <2>1. m \in Nat /\ n \in Nat /\ ~(<<n, m>> \in Smaller)
    BY <1>3
  <2>2. ~(n < m)
    BY <1>2, <2>1
  <2> QED
    BY <2>1, <2>2
<1> QED
  BY <1>3, <1>4 DEF Min

\* What a failing entry of the candidate identities can fail for.
LEMMA EntryCodes ==
  ASSUME NEW rows, NEW entries, NEW allowed
  PROVE  EntriesError(rows, entries, allowed) \in PlanningErrors \cup {"none"}
<1>1. ASSUME NEW i
      PROVE  EntryError(rows, entries, i, allowed) \in PlanningErrors \cup {"none"}
  BY DEF EntryError, Fails, ??, PlanningErrors
<1> QED
  BY <1>1 DEF EntriesError, FirstOf, Fails, ??, PlanningErrors

\* Both ways of resolving a track fail alike, but for the lookup of its row.
LEMMA TracksDiffer ==
  ASSUME NEW database, NEW tracks, NEW i, NEW unique \in BOOLEAN
  PROVE  \/ /\ TrackError(database.rows, tracks, i, unique)
                = ValidatedTrackError(database, tracks, i, unique)
            /\ TrackError(database.rows, tracks, i, unique) # "none"
         \/ /\ TrackError(database.rows, tracks, i, unique)
                = Fails(tracks[i].file \notin database.rows, "TRACK_NOT_ANALYZED")
            /\ ValidatedTrackError(database, tracks, i, unique)
                = RowError(database, tracks[i].file)
<1> DEFINE before == 1..(i - 1)
           earlier == {tracks[k] : k \in before}
<1>1. tracks[i].id \in {t.id : t \in earlier} <=> \E k \in before : tracks[k].id = tracks[i].id
  <2>1. tracks[i].id \in {t.id : t \in earlier} <=> \E t \in earlier : tracks[i].id = t.id
    OBVIOUS
  <2>2. (\E t \in earlier : tracks[i].id = t.id) <=> \E k \in before : tracks[i].id = tracks[k].id
    OBVIOUS
  <2> QED
    BY <2>1, <2>2
<1>2. tracks[i].file \in {t.file : t \in earlier}
        <=> \E k \in before : tracks[k].file = tracks[i].file
  <2>1. tracks[i].file \in {t.file : t \in earlier} <=> \E t \in earlier : tracks[i].file = t.file
    OBVIOUS
  <2>2. (\E t \in earlier : tracks[i].file = t.file)
          <=> \E k \in before : tracks[i].file = tracks[k].file
    OBVIOUS
  <2> QED
    BY <2>1, <2>2
<1> DEFINE sameId == \E k \in before : tracks[k].id = tracks[i].id
           sameFile == \E k \in before : tracks[k].file = tracks[i].file
           first == Fails(unique /\ sameId, "DUPLICATE_SOURCE_TRACK")
           second == Fails(tracks[i].file = "none", "TRACK_IDENTITY_INCOMPLETE")
           third == Fails(unique /\ sameFile, "DUPLICATE_SOURCE_TRACK")
           bulk == Fails(tracks[i].file \notin database.rows, "TRACK_NOT_ANALYZED")
           single == RowError(database, tracks[i].file)
<1>3. TrackError(database.rows, tracks, i, unique) = (((first ?? second) ?? third) ?? bulk)
  <2>1. /\ Fails(unique /\ tracks[i].id \in {t.id : t \in earlier}, "DUPLICATE_SOURCE_TRACK")
             = first
        /\ Fails(unique /\ tracks[i].file \in {t.file : t \in earlier}, "DUPLICATE_SOURCE_TRACK")
             = third
    <3> HIDE DEF before, earlier
    <3> QED
      BY <1>1, <1>2 DEF Fails
  <2>2. TrackError(database.rows, tracks, i, unique) =
          (((Fails(unique /\ tracks[i].id \in {t.id : t \in earlier}, "DUPLICATE_SOURCE_TRACK")
             ?? second)
            ?? Fails(unique /\ tracks[i].file \in {t.file : t \in earlier},
                     "DUPLICATE_SOURCE_TRACK"))
           ?? bulk)
    BY DEF TrackError
  <2> QED
    BY <2>1, <2>2
<1>4. ValidatedTrackError(database, tracks, i, unique) = (((first ?? second) ?? third) ?? single)
  BY DEF ValidatedTrackError
<1> HIDE DEF first, second, third, bulk, single
<1>5. CASE ((first ?? second) ?? third) = "none"
  BY <1>3, <1>4, <1>5 DEF ??, bulk, single
<1>6. CASE ((first ?? second) ?? third) # "none"
  BY <1>3, <1>4, <1>6 DEF ??
<1> QED
  BY <1>5, <1>6

\* What the single queries accept, the bulk query refuses only for a row it
\* does not return.
LEMMA BulkDiffers ==
  ASSUME NEW database, NEW tracks, NEW unique \in BOOLEAN, Len(tracks) \in Nat,
         ValidatedTracksError(database, tracks, unique) = "none"
  PROVE  LET code == TracksError(database.rows, tracks, unique) IN
         code # "none" =>
           /\ code = "TRACK_NOT_ANALYZED"
           /\ \E i \in 1..Len(tracks) :
                /\ tracks[i].file \notin database.rows
                /\ RowError(database, tracks[i].file) = "none"
<1> DEFINE failing == {i \in 1..Len(tracks) :
                         TrackError(database.rows, tracks, i, unique) # "none"}
           refused == {i \in 1..Len(tracks) :
                         ValidatedTrackError(database, tracks, i, unique) # "none"}
           m == Min(failing)
<1>1. TracksError(database.rows, tracks, unique)
        = IF failing = {} THEN "none" ELSE TrackError(database.rows, tracks, m, unique)
  BY DEF TracksError, FirstOf
<1>2. ValidatedTracksError(database, tracks, unique)
        = IF refused = {} THEN "none"
          ELSE ValidatedTrackError(database, tracks, Min(refused), unique)
  BY DEF ValidatedTracksError, FirstOf
<1>3. refused = {}
  <2>1. SUFFICES ASSUME refused # {} PROVE FALSE
    OBVIOUS
  <2>2. Min(refused) \in refused
    <3>1. refused \in SUBSET Nat
      OBVIOUS
    <3> HIDE DEF refused
    <3> QED
      BY <2>1, <3>1, MinIsMember
  <2> QED
    BY <1>2, <2>1, <2>2
<1>4. CASE failing = {}
  BY <1>1, <1>4
<1>5. CASE failing # {}
  <2>1. m \in failing
    <3>1. failing \in SUBSET Nat
      OBVIOUS
    <3> HIDE DEF failing
    <3> QED
      BY <1>5, <3>1, MinIsMember
  <2> HIDE DEF m
  <2>2. m \in 1..Len(tracks) /\ TrackError(database.rows, tracks, m, unique) # "none"
    BY <2>1
  <2>3. ValidatedTrackError(database, tracks, m, unique) = "none"
    BY <1>3, <2>2
  <2>4. /\ TrackError(database.rows, tracks, m, unique)
             = Fails(tracks[m].file \notin database.rows, "TRACK_NOT_ANALYZED")
        /\ RowError(database, tracks[m].file) = "none"
    BY <2>2, <2>3, TracksDiffer
  <2>5. /\ TrackError(database.rows, tracks, m, unique) = "TRACK_NOT_ANALYZED"
        /\ tracks[m].file \notin database.rows
    BY <2>2, <2>4 DEF Fails
  <2>6. TracksError(database.rows, tracks, unique) = "TRACK_NOT_ANALYZED"
    BY <1>1, <1>5, <2>5
  <2> QED
    BY <2>2, <2>4, <2>5, <2>6
<1> QED
  BY <1>4, <1>5

\* What the bulk query returns, a single query refuses only for a row it does
\* not find or cannot ask for.
LEMMA SinglesDiffer ==
  ASSUME NEW database, NEW tracks, NEW unique \in BOOLEAN, Len(tracks) \in Nat,
         TracksError(database.rows, tracks, unique) = "none"
  PROVE  LET code == ValidatedTracksError(database, tracks, unique) IN
         code # "none" =>
           \E i \in 1..Len(tracks) :
             /\ tracks[i].file \in database.rows
             /\ RowError(database, tracks[i].file) = code
<1> DEFINE failing == {i \in 1..Len(tracks) :
                         TrackError(database.rows, tracks, i, unique) # "none"}
           refused == {i \in 1..Len(tracks) :
                         ValidatedTrackError(database, tracks, i, unique) # "none"}
           m == Min(refused)
<1>1. TracksError(database.rows, tracks, unique)
        = IF failing = {} THEN "none"
          ELSE TrackError(database.rows, tracks, Min(failing), unique)
  BY DEF TracksError, FirstOf
<1>2. ValidatedTracksError(database, tracks, unique)
        = IF refused = {} THEN "none" ELSE ValidatedTrackError(database, tracks, m, unique)
  BY DEF ValidatedTracksError, FirstOf
<1>3. failing = {}
  <2>1. SUFFICES ASSUME failing # {} PROVE FALSE
    OBVIOUS
  <2>2. Min(failing) \in failing
    <3>1. failing \in SUBSET Nat
      OBVIOUS
    <3> HIDE DEF failing
    <3> QED
      BY <2>1, <3>1, MinIsMember
  <2> QED
    BY <1>1, <2>1, <2>2
<1>4. CASE refused = {}
  BY <1>2, <1>4
<1>5. CASE refused # {}
  <2>1. m \in refused
    <3>1. refused \in SUBSET Nat
      OBVIOUS
    <3> HIDE DEF refused
    <3> QED
      BY <1>5, <3>1, MinIsMember
  <2> HIDE DEF m
  <2>2. m \in 1..Len(tracks) /\ ValidatedTrackError(database, tracks, m, unique) # "none"
    BY <2>1
  <2>3. TrackError(database.rows, tracks, m, unique) = "none"
    BY <1>3, <2>2
  <2>4. /\ Fails(tracks[m].file \notin database.rows, "TRACK_NOT_ANALYZED") = "none"
        /\ ValidatedTrackError(database, tracks, m, unique) = RowError(database, tracks[m].file)
    BY <2>3, TracksDiffer
  <2>5. tracks[m].file \in database.rows
    BY <2>4 DEF Fails
  <2>6. ValidatedTracksError(database, tracks, unique) = RowError(database, tracks[m].file)
    BY <1>2, <1>5, <2>4
  <2> QED
    BY <2>2, <2>5, <2>6
<1> QED
  BY <1>4, <1>5

-----------------------------------------------------------------------------
\* Two preparations with the same trust have the same codes.
LEMMA SameCodes ==
  ASSUME NEW k, NEW l, k.command = l.command, k.trusted = l.trusted
  PROVE  Codes(k) = Codes(l)
<1>1. RequestCode(k) = RequestCode(l) /\ RowsCode(k) = RowsCode(l)
  BY DEF RequestCode, RequestError, RowsCode, ValidateContracts
<1>2. InventoryCode(k) = InventoryCode(l)
  BY DEF InventoryCode, InventoryError, ValidateContracts
<1>3. CandidatesCode(k) = CandidatesCode(l) /\ SourcesCode(k) = SourcesCode(l)
  BY DEF CandidatesCode, SourcesCode
<1>4. EvidenceCode(k) = EvidenceCode(l)
  BY DEF EvidenceCode, EvidenceError, ValidateContracts
<1> QED
  BY <1>1, <1>2, <1>3, <1>4 DEF Codes

\* Trust skips the contract of the inventory and its rows.
LEMMA TrustedInventory ==
  ASSUME NEW k, NEW l, InventoryCode(k) = "none"
  PROVE  /\ ~k.trusted => InventoryCode(l) = "none"
         /\ InventoryCode(l) \in {"none", "INVALID_REQUEST", "CANDIDATE_INVENTORY_UNKNOWN_ROW"}
<1> DEFINE document(m) ==
             DocumentError(files.inventory, ValidateContracts(m), "CANDIDATE_INVENTORY_INVALID")
           unknown(m) ==
             Fails(ValidateContracts(m) /\ ~(files.inventory.rows \subseteq Library.rows),
                   "CANDIDATE_INVENTORY_UNKNOWN_ROW")
           early == Fails(Asked.inventory.schema # "lms-local-candidate-inventory-v1",
                          "CANDIDATE_INVENTORY_SCHEMA_MISMATCH")
                    ?? Fails(Asked.database.identity = NoIdentity,
                             "CANDIDATE_INVENTORY_DATABASE_IDENTITY_REQUIRED")
                    ?? Fails(~VerifyArtifactHash(Asked.inventory, files.inventory),
                             "ARTIFACT_HASH_MISMATCH")
           schema == Fails("schema" \in files.inventory.faults,
                           "CANDIDATE_INVENTORY_SCHEMA_MISMATCH")
           bound == Fails(files.inventory.identity # Asked.database.identity,
                          "CANDIDATE_INVENTORY_DATABASE_MISMATCH")
<1>1. \A m : InventoryCode(m) =
              IF ~Supplied(Asked.inventory) THEN "none"
              ELSE early ?? document(m) ?? schema ?? bound ?? unknown(m)
  BY DEF InventoryCode, InventoryError
<1>2. /\ document(k) = "none" => document(l) \in {"none", "INVALID_REQUEST"}
      /\ document(k) = "none" /\ ~k.trusted => document(l) = "none"
  BY DEF DocumentError, ContractError, ValidateContracts, Fails, ??
<1>3. /\ unknown(l) \in {"none", "CANDIDATE_INVENTORY_UNKNOWN_ROW"}
      /\ unknown(k) = "none" /\ ~k.trusted => unknown(l) = "none"
  BY DEF ValidateContracts, Fails
<1> HIDE DEF early, document, schema, bound, unknown
<1>4. CASE ~Supplied(Asked.inventory)
  BY <1>1, <1>4
<1>5. CASE Supplied(Asked.inventory)
  <2>1. early = "none" /\ document(k) = "none" /\ schema = "none" /\ bound = "none"
        /\ unknown(k) = "none"
    BY <1>1, <1>5 DEF ??
  <2>2. InventoryCode(l) = (document(l) ?? unknown(l))
    BY <1>1, <1>5, <2>1 DEF ??
  <2> QED
    BY <1>2, <1>3, <2>1, <2>2 DEF ??
<1> QED
  BY <1>4, <1>5

\* What passes without trust passes with it.
LEMMA TrustOnlySkips ==
  ASSUME NEW k, NEW l, k.command = "prepare", l.command = "prepare",
         \/ ~k.trusted /\ l.trusted
         \/ k.trusted = l.trusted,
         Codes(k) = {"none"}
  PROVE  Codes(l) = {"none"}
<1>1. CASE k.trusted = l.trusted
  BY <1>1, SameCodes
<1>2. CASE ~k.trusted /\ l.trusted
  <2>1. RequestCode(l) = "none"
    BY <1>2 DEF Codes, RequestCode, RequestError, DocumentError, ContractError,
       ValidateContracts, Fails, ??
  <2>2. InventoryCode(l) = "none"
    BY <1>2, TrustedInventory DEF Codes
  <2>3. EvidenceCode(l) = "none"
    BY <1>2 DEF Codes, EvidenceCode, EvidenceError, DocumentError, ContractError,
       ValidateContracts, Fails, ??
  <2>4. CandidatesCode(l) = "none"
    BY DEF Codes, CandidatesCode
  <2>5. SourcesCode(l) = "none"
    BY DEF Codes, SourcesCode
  <2>6. RowsCode(l) = "none"
    BY DEF Codes, RowsCode, Fails
  <2>7. HashCode = "none" /\ OpenCode = "none" /\ MatrixCode = "none"
    BY DEF Codes
  <2> QED
    BY <2>1, <2>2, <2>3, <2>4, <2>5, <2>6, <2>7 DEF Codes
<1> QED
  BY <1>1, <1>2

\* What passes with trust fails without it only for a contract or for a row of
\* the inventory.
LEMMA TrustSkipsContracts ==
  ASSUME NEW k, NEW l, k.command = "prepare", l.command = "prepare",
         k.trusted, ~l.trusted, Codes(k) = {"none"},
         NEW code \in Codes(l), code # "none"
  PROVE  code \in {"INVALID_REQUEST", "CANDIDATE_INVENTORY_UNKNOWN_ROW"}
<1> DEFINE Skipped == {"none", "INVALID_REQUEST", "CANDIDATE_INVENTORY_UNKNOWN_ROW"}
<1>1. RequestCode(l) \in Skipped
  BY DEF Codes, RequestCode, RequestError, DocumentError, ContractError,
     ValidateContracts, Fails, ??
<1>2. InventoryCode(l) \in Skipped
  BY TrustedInventory DEF Codes
<1>3. EvidenceCode(l) \in Skipped
  BY DEF Codes, EvidenceCode, EvidenceError, DocumentError, ContractError,
     ValidateContracts, Fails, ??
<1>4. CandidatesCode(l) = "none"
  BY DEF Codes, CandidatesCode
<1>5. SourcesCode(l) = "none"
  BY DEF Codes, SourcesCode
<1>6. RowsCode(l) = "none"
  BY DEF Codes, RowsCode, Fails
<1>7. HashCode = "none" /\ OpenCode = "none" /\ MatrixCode = "none"
  BY DEF Codes
<1> QED
  BY <1>1, <1>2, <1>3, <1>4, <1>5, <1>6, <1>7 DEF Codes

\* The tracks of the request that is asked for.
LEMMA TracksAre ==
  ASSUME NEW request
  PROVE  /\ \A i \in 1..Len(request.sources) : request.sources[i] \in Tracks(request)
         /\ \A i \in 1..Len(request.history) : request.history[i] \in Tracks(request)
  BY DEF Tracks

\* What the single queries accept of a request, the bulk query refuses only
\* for a row it does not return.
LEMMA BulkSourcesDiffer ==
  ASSUME NEW request, NEW database,
         Len(request.sources) \in Nat, Len(request.history) \in Nat,
         ValidatedSourcesError(request, database) = "none"
  PROVE  LET code == SourcesError(request, database.rows) IN
         code # "none" =>
           /\ code = "TRACK_NOT_ANALYZED"
           /\ \E track \in Tracks(request) :
                track.file \notin database.rows /\ RowError(database, track.file) = "none"
<1>1. /\ ValidatedTracksError(database, request.sources, TRUE) = "none"
      /\ ValidatedTracksError(database, request.history, FALSE) = "none"
  BY DEF ValidatedSourcesError, ??
<1>2. CASE TracksError(database.rows, request.sources, TRUE) # "none"
  <2>1. SourcesError(request, database.rows) = TracksError(database.rows, request.sources, TRUE)
    BY <1>2 DEF SourcesError, ??
  <2>2. /\ TracksError(database.rows, request.sources, TRUE) = "TRACK_NOT_ANALYZED"
        /\ \E i \in 1..Len(request.sources) :
             /\ request.sources[i].file \notin database.rows
             /\ RowError(database, request.sources[i].file) = "none"
    BY <1>1, <1>2, BulkDiffers
  <2> QED
    BY <2>1, <2>2, TracksAre
<1>3. CASE TracksError(database.rows, request.sources, TRUE) = "none"
  <2>1. SourcesError(request, database.rows) = TracksError(database.rows, request.history, FALSE)
    BY <1>3 DEF SourcesError, ??
  <2>2. SUFFICES ASSUME TracksError(database.rows, request.history, FALSE) # "none"
                 PROVE  /\ TracksError(database.rows, request.history, FALSE) = "TRACK_NOT_ANALYZED"
                        /\ \E track \in Tracks(request) :
                             /\ track.file \notin database.rows
                             /\ RowError(database, track.file) = "none"
    BY <2>1
  <2>3. /\ TracksError(database.rows, request.history, FALSE) = "TRACK_NOT_ANALYZED"
        /\ \E i \in 1..Len(request.history) :
             /\ request.history[i].file \notin database.rows
             /\ RowError(database, request.history[i].file) = "none"
    BY <1>1, <2>2, BulkDiffers
  <2> QED
    BY <2>3, TracksAre
<1> QED
  BY <1>2, <1>3

\* ... and what the bulk query returns, a single query refuses only for a row
\* it does not find or cannot ask for.
LEMMA SingleSourcesDiffer ==
  ASSUME NEW request, NEW database,
         Len(request.sources) \in Nat, Len(request.history) \in Nat,
         SourcesError(request, database.rows) = "none"
  PROVE  LET code == ValidatedSourcesError(request, database) IN
         code # "none" =>
           \E track \in Tracks(request) :
             track.file \in database.rows /\ RowError(database, track.file) = code
<1>1. /\ TracksError(database.rows, request.sources, TRUE) = "none"
      /\ TracksError(database.rows, request.history, FALSE) = "none"
  BY DEF SourcesError, ??
<1>2. CASE ValidatedTracksError(database, request.sources, TRUE) # "none"
  <2>1. ValidatedSourcesError(request, database)
          = ValidatedTracksError(database, request.sources, TRUE)
    BY <1>2 DEF ValidatedSourcesError, ??
  <2>2. \E i \in 1..Len(request.sources) :
          /\ request.sources[i].file \in database.rows
          /\ RowError(database, request.sources[i].file)
               = ValidatedTracksError(database, request.sources, TRUE)
    BY <1>1, <1>2, SinglesDiffer
  <2> QED
    BY <2>1, <2>2, TracksAre
<1>3. CASE ValidatedTracksError(database, request.sources, TRUE) = "none"
  <2>1. ValidatedSourcesError(request, database)
          = ValidatedTracksError(database, request.history, FALSE)
    BY <1>3 DEF ValidatedSourcesError, ??
  <2>2. ValidatedTracksError(database, request.history, FALSE) # "none" =>
          \E i \in 1..Len(request.history) :
            /\ request.history[i].file \in database.rows
            /\ RowError(database, request.history[i].file)
                 = ValidatedTracksError(database, request.history, FALSE)
    BY <1>1, SinglesDiffer
  <2> QED
    BY <2>1, <2>2, TracksAre
<1> QED
  BY <1>2, <1>3

\* What a validation passes a preparation refuses only for what it alone
\* checks, for a bulk query the validation did not make, or for its rows.
LEMMA PreparationChecksMore ==
  ASSUME NEW k, NEW l, k.command = "validate", ~k.trusted, l.command = "prepare",
         PreflightError(Asked) \in PreflightErrors \cup {"none"},
         Len(Asked.sources) \in Nat, Len(Asked.history) \in Nat,
         Codes(k) = {"none"}, NEW code \in Codes(l), code # "none"
  PROVE  \/ code \in PlanningErrors
         \/ /\ code = "ARTIFACT_HASH_MISMATCH"
            /\ Supplied(Asked.candidates)
            /\ ~VerifyArtifactHash(Asked.candidates, files.candidates)
         \/ /\ code = "DATABASE_QUERY_FAILED"
            /\ "rows" \in Library.faults /\ ~Supplied(Asked.inventory)
         \/ /\ code = "TRACK_NOT_ANALYZED"
            /\ \E track \in Tracks(Asked) :
                 track.file \notin Library.rows /\ RowError(Library, track.file) = "none"
<1>1. RequestCode(l) \in PlanningErrors \cup {"none"}
  BY DEF Codes, RequestCode, RequestError, ValidationRequestError, DocumentError,
     ContractError, Fails, ??, PlanningErrors, PreflightErrors
<1>2. InventoryCode(l) = "none"
  BY TrustedInventory DEF Codes
<1>3. EvidenceCode(l) \in PlanningErrors \cup {"none"}
  BY DEF Codes, EvidenceCode, EvidenceError, ValidationEvidenceError, DocumentError,
     ContractError, Fails, ??, PlanningErrors
<1>4. \/ CandidatesCode(l) \in PlanningErrors \cup {"none"}
      \/ /\ CandidatesCode(l) = "ARTIFACT_HASH_MISMATCH"
         /\ Supplied(Asked.candidates)
         /\ ~VerifyArtifactHash(Asked.candidates, files.candidates)
  BY EntryCodes
     DEF CandidatesCode, CandidateIdentitiesError, Fails, ??, PlanningErrors
<1>5. \/ RowsCode(l) = "none"
      \/ /\ RowsCode(l) = "DATABASE_QUERY_FAILED"
         /\ "rows" \in Library.faults /\ ~Supplied(Asked.inventory)
  BY DEF Codes, RowsCode, Fails
<1>6. \/ SourcesCode(l) = "none"
      \/ /\ SourcesCode(l) = "TRACK_NOT_ANALYZED"
         /\ \E track \in Tracks(Asked) :
              track.file \notin Library.rows /\ RowError(Library, track.file) = "none"
  <2>1. ValidatedSourcesError(Asked, Library) = "none"
    BY DEF Codes, SourcesCode
  <2>2. SourcesCode(l) = SourcesError(Asked, Library.rows)
    BY DEF SourcesCode
  <2> QED
    BY <2>1, <2>2, BulkSourcesDiffer
<1>7. HashCode = "none" /\ OpenCode = "none" /\ MatrixCode = "none"
  BY DEF Codes
<1> QED
  BY <1>1, <1>2, <1>3, <1>4, <1>5, <1>6, <1>7 DEF Codes

\* ... and the other way round.
LEMMA ValidationAsksAgain ==
  ASSUME NEW k, NEW l, k.command = "prepare", ~k.trusted, l.command = "validate", ~l.trusted,
         Len(Asked.sources) \in Nat, Len(Asked.history) \in Nat,
         Codes(k) = {"none"}, NEW code \in Codes(l), code # "none"
  PROVE  \E track \in Tracks(Asked) :
           track.file \in Library.rows /\ RowError(Library, track.file) = code
<1>1. RequestCode(l) = "none"
  BY DEF Codes, RequestCode, RequestError, ValidationRequestError, ValidateContracts,
     DocumentError, ContractError, Fails, ??
<1>2. InventoryCode(l) = "none"
  BY TrustedInventory DEF Codes
<1>3. EvidenceCode(l) = "none"
  BY DEF Codes, EvidenceCode, EvidenceError, ValidationEvidenceError, ValidateContracts,
     DocumentError, ContractError, Fails, ??
<1>4. CandidatesCode(l) = "none"
  BY DEF CandidatesCode
<1>5. RowsCode(l) = "none"
  BY DEF Codes, RowsCode, Fails
<1>6. HashCode = "none" /\ OpenCode = "none" /\ MatrixCode = "none"
  BY DEF Codes
<1>7. SourcesCode(l) # "none" =>
        \E track \in Tracks(Asked) :
          track.file \in Library.rows /\ RowError(Library, track.file) = SourcesCode(l)
  <2>1. SourcesError(Asked, Library.rows) = "none"
    BY DEF Codes, SourcesCode
  <2>2. SourcesCode(l) = ValidatedSourcesError(Asked, Library)
    BY DEF SourcesCode
  <2> QED
    BY <2>1, <2>2, SingleSourcesDiffer
<1> QED
  BY <1>1, <1>2, <1>3, <1>4, <1>5, <1>6, <1>7 DEF Codes

\* While no file is replaced, `validate`, `route` and `bridge` judge a request
\* alike, trusted or not, with the cache or without it, whatever an earlier run
\* left there and however their steps interleave, but for what is listed: what
\* only one of validate_request and prepare_runtime_request checks, the two
\* kinds of queries they resolve tracks with, and what trust skips.
THEOREM CommandsJudgeAlike == Spec => []CommandsAgree
<1>1. ASSUME IInv, JInv, ~replaced
      PROVE  /\ PreflightError(Asked) \in PreflightErrors \cup {"none"}
             /\ Len(Asked.sources) \in Nat /\ Len(Asked.history) \in Nat
  BY <1>1, PreflightAssumption, WorldsAssumption DEF JInv, Asked
<1>2. ASSUME IInv, JInv, ~replaced, NEW p \in Processes, pc[p] = "done",
             kind[p].command # "score", UsesPresentLibrary(p)
      PROVE  Codes(kind[p]) = {"none"}
  <2>1. Judged(p) /\ kind[p].command \in {"prepare", "validate"}
    BY <1>2 DEF JInv, Judges, IInv, TypeOK, Kinds
  <2> QED
    BY <1>2, <2>1 DEF Judged, Codes, PastRequest, PastHash, PastOpen, PastRows, PastInventory,
       PastCandidates, PastMatrix, PastEvidence, PastSources
<1>3. ASSUME IInv, JInv, ~replaced, NEW p \in Processes, pc[p] = "failed",
             kind[p].command # "score", UsesPresentLibrary(p)
      PROVE  error[p] \in Codes(kind[p]) /\ error[p] # "none" /\ Request(p) = Asked
  BY <1>3 DEF JInv, Judges, Judged, IInv, TypeOK
<1>4. ASSUME IInv, NEW p \in Processes, kind[p].command = "validate"
      PROVE  UsesPresentLibrary(p) /\ ~kind[p].trusted
  BY <1>4 DEF IInv, Good, OneWay, Prepares, UsesPresentLibrary, TypeOK, Kinds
<1>5. IInv /\ JInv => ValidatedIsPrepared
  <2> SUFFICES ASSUME IInv, JInv, ~replaced, NEW p \in Processes, NEW q \in Processes,
                      kind[p].command = "validate", pc[p] = "done",
                      kind[q].command = "prepare", pc[q] = "failed", UsesPresentLibrary(q)
               PROVE  \/ error[q] \in PlanningErrors
                      \/ error[q] = "ARTIFACT_HASH_MISMATCH" /\ CandidateHashDiffers(q)
                      \/ /\ error[q] = "DATABASE_QUERY_FAILED"
                         /\ "rows" \in files.database.faults /\ ~Supplied(Request(q).inventory)
                      \/ error[q] = "TRACK_NOT_ANALYZED" /\ FoundButNotReturned(q)
    BY DEF ValidatedIsPrepared
  <2>1. Codes(kind[p]) = {"none"} /\ ~kind[p].trusted
    BY <1>2, <1>4
  <2>2. error[q] \in Codes(kind[q]) /\ error[q] # "none" /\ Request(q) = Asked
    BY <1>3
  <2>3. \/ error[q] \in PlanningErrors
        \/ /\ error[q] = "ARTIFACT_HASH_MISMATCH"
           /\ Supplied(Asked.candidates)
           /\ ~VerifyArtifactHash(Asked.candidates, files.candidates)
        \/ /\ error[q] = "DATABASE_QUERY_FAILED"
           /\ "rows" \in Library.faults /\ ~Supplied(Asked.inventory)
        \/ /\ error[q] = "TRACK_NOT_ANALYZED"
           /\ \E track \in Tracks(Asked) :
                track.file \notin Library.rows /\ RowError(Library, track.file) = "none"
    BY <1>1, <2>1, <2>2, PreparationChecksMore
  <2>4. (\E track \in Tracks(Asked) :
           track.file \notin Library.rows /\ RowError(Library, track.file) = "none")
        => FoundButNotReturned(q)
    BY <2>2 DEF FoundButNotReturned, RowError, Library, Fails, ??
  <2> QED
    BY <2>2, <2>3, <2>4 DEF CandidateHashDiffers, Library
<1>6. IInv /\ JInv => PreparedIsValid
  <2> SUFFICES ASSUME IInv, JInv, ~replaced, NEW p \in Processes, NEW q \in Processes,
                      kind[p].command = "prepare", pc[p] = "done", ~kind[p].trusted,
                      UsesPresentLibrary(p),
                      kind[q].command = "validate", pc[q] = "failed"
               PROVE  /\ error[q] \in {"DATABASE_QUERY_FAILED", "TRACK_NOT_ANALYZED"}
                      /\ \E track \in Tracks(Request(q)) :
                           /\ track.file \in files.database.rows
                           /\ RowError(files.database, track.file) = error[q]
    BY DEF PreparedIsValid, Prepared
  <2>1. Codes(kind[p]) = {"none"} /\ ~kind[q].trusted /\ UsesPresentLibrary(q)
    BY <1>2, <1>4
  <2>2. error[q] \in Codes(kind[q]) /\ error[q] # "none" /\ Request(q) = Asked
    BY <1>3, <2>1
  <2>3. \E track \in Tracks(Asked) :
          track.file \in Library.rows /\ RowError(Library, track.file) = error[q]
    BY <1>1, <2>1, <2>2, ValidationAsksAgain
  <2>4. \A file : RowError(Library, file) \in
          {"none", "DATABASE_QUERY_FAILED", "TRACK_NOT_ANALYZED"}
    BY DEF RowError, Fails, ??
  <2> QED
    BY <2>2, <2>3, <2>4 DEF Library
<1>7. IInv /\ JInv => TrustAndCacheChangeNothingElse
  <2> SUFFICES ASSUME IInv, JInv, ~replaced, NEW p \in Processes, NEW q \in Processes,
                      kind[p].command = "prepare", pc[p] = "done", UsesPresentLibrary(p),
                      kind[q].command = "prepare", pc[q] = "failed", UsesPresentLibrary(q)
               PROVE  /\ kind[p].trusted /\ ~kind[q].trusted
                      /\ error[q] \in {"INVALID_REQUEST", "CANDIDATE_INVENTORY_UNKNOWN_ROW"}
    BY DEF TrustAndCacheChangeNothingElse, Prepared
  <2>1. Codes(kind[p]) = {"none"}
    BY <1>2
  <2>2. error[q] \in Codes(kind[q]) /\ error[q] # "none"
    BY <1>3
  <2>3. kind[p].trusted \in BOOLEAN /\ kind[q].trusted \in BOOLEAN
    BY DEF IInv, TypeOK, Kinds
  <2>4. kind[p].trusted /\ ~kind[q].trusted
    BY <2>1, <2>2, <2>3, TrustOnlySkips
  <2> QED
    BY <2>1, <2>2, <2>4, TrustSkipsContracts
<1>8. Spec => []JInv
  BY Invariance, InitJInv, NextJInv, PTL DEF Spec
<1>9. IInv /\ JInv => CommandsAgree
  BY <1>5, <1>6, <1>7 DEF CommandsAgree
<1> QED
  BY <1>8, <1>9, Invariance, PTL
=============================================================================
