-------------------------- MODULE RequestPreparation --------------------------
(***************************************************************************)
(* What every command does before it plans (src/src/main.rs): the request  *)
(* is read and checked, the library comes from the decoded-library cache   *)
(* or from the database, and every artifact the request names is hashed,   *)
(* decoded and bound to the database.  `route` and `bridge` prepare;       *)
(* `validate` has a hand-written sequence of its own, which `score` begins *)
(* with.  The two sequences share what the functions of the code share     *)
(* (the identities and the inventory) and are otherwise written twice, as  *)
(* there: they need not check the same.                                    *)
(*                                                                         *)
(* Commands run at the same time, share the cache directory, may be killed *)
(* between any two steps, and the files they read may be replaced while    *)
(* they run.  A file is replaced as a whole; its hash is its content.      *)
(* Contents are records, and what JSON, the schemas, SQLite and the parser *)
(* of matrices say of one is data.  The `faults` of a JSON document are    *)
(* among "json", "contract", "decode" and "schema"; those of a database    *)
(* among "open", "integrity" and "rows", where a bulk query fails.  The    *)
(* `rows` of a database are what the bulk query returns; its `answers` are *)
(* what a query for a single file says of it.  The library that asks them  *)
(* is not part of the repository, so the two need not fit together.        *)
(***************************************************************************)
EXTENDS Naturals, Sequences, FiniteSets, FiniteSetsExt

CONSTANTS
  Processes,
  Worlds,            \* the files a run may start with: records of contents
  Replacements,      \* path |-> the contents a writer may put there
  Disturbances(_),   \* bound: how much may happen to a world from outside
  InitialCaches(_),  \* what the cache directory may hold before, by world
  CacheVersion,      \* LIBRARY_CACHE_VERSION
  Absent,            \* no cache file, or no content
  NoIdentity,        \* a database artifact without cache_identity
  PreflightError(_)  \* the two repeat preflights, see Preflight

Paths == {"request", "database", "identities", "inventory", "candidates",
          "matrix", "evidence"}

\* A run starts with every file present, and with a request whose caller has
\* seen the database at some time.  The identity of a database is its caller's
\* `device:inode:size:mtime`: the later content has the larger one.
ASSUME WorldsAssumption ==
  \A w \in Worlds :
    /\ DOMAIN w = Paths
    /\ \A path \in Paths : w[path] # Absent
    /\ w.database.version \in Nat
    /\ w.request.database.identity \in {NoIdentity} \cup 0..w.database.version
    /\ Len(w.request.sources) \in Nat /\ Len(w.request.history) \in Nat
    /\ Disturbances(w) \in Nat

\* The codes of the two preflights.
PreflightErrors ==
  {"DESTINATION_ROUTE_BUDGET_UNSATISFIABLE", "FIXED_GAP_SOURCE_REPEAT_CONFLICT",
   "EXACT_COUNT_SOURCE_REPEAT_CONFLICT"}

ASSUME PreflightAssumption ==
  \A w \in Worlds : PreflightError(w.request) \in PreflightErrors \cup {"none"}

ASSUME ReplacementsAssumption ==
  /\ \A path \in Paths : Absent \notin Replacements[path]
  /\ \A content \in Replacements["database"] : content.version \in Nat

ASSUME NoIdentityAssumption == NoIdentity \notin Nat

\* A cache some earlier run left is whole.  One of this version, whatever its
\* identity, names a database some caller has seen; the run has hashed the
\* database before it read it, and has stored it without faults.
ASSUME CachesAssumption ==
  \A w \in Worlds : \A c \in InitialCaches(w) \ {Absent} :
    /\ "whole" \in DOMAIN c
    /\ c.whole
    /\ c.version = CacheVersion =>
         /\ c.identity \in 0..w.database.version
         /\ c.sha = w.database => c.library = w.database
         /\ c.identity = w.database.version =>
              c.library = w.database /\ c.sha = w.database /\ w.database.faults = {}

VARIABLES
  files,       \* the file system outside the cache directory
  disturbances, \* how much may still happen from outside: a file replaced, a
               \* process killed, the cache file damaged
  replaced,    \* a file was replaced
  seen,        \* history: the contents files have had, and the cache's hash
  cacheFile,   \* library-<key>.bin: Absent or the cache it holds
  temporary,   \* the tmp-<pid> file of each process
  damaged,     \* somebody else damaged the cache file
  kind,        \* [command, trusted, caching] of each process
  pc,
  used,        \* the contents a process works with, by path
  hashed,      \* the contents its hashes name, by path
  cacheState,  \* database_cache: "none", "hit", "miss" or "disabled"
  identityState, \* track_identities_state
  error

world == <<files, disturbances, replaced, seen, damaged>>
cache == <<cacheFile, temporary>>
vars == <<world, cache, kind, pc, used, hashed, cacheState, identityState, error>>

Kinds ==
  [command : {"prepare"}, trusted : BOOLEAN, caching : BOOLEAN] \cup
  [command : {"validate", "score"}, trusted : {FALSE}, caching : {FALSE}]

Request(p) == used[p].request
Rows(p) == used[p].database.rows

Init ==
  /\ files \in Worlds
  /\ disturbances = Disturbances(files)
  /\ replaced = FALSE
  /\ cacheFile \in InitialCaches(files)
  /\ seen = {files[path] : path \in Paths} \cup
            (IF cacheFile = Absent THEN {} ELSE {cacheFile.sha})
  /\ temporary = [p \in Processes |-> Absent]
  /\ damaged = FALSE
  /\ kind \in [Processes -> Kinds]
  /\ pc = [p \in Processes |-> "request"]
  /\ used = [p \in Processes |-> [path \in Paths |-> Absent]]
  /\ hashed = [p \in Processes |-> [path \in Paths |-> Absent]]
  /\ cacheState = [p \in Processes |-> "none"]
  /\ identityState = [p \in Processes |-> "none"]
  /\ error = [p \in Processes |-> "none"]

-----------------------------------------------------------------------------
Goto(p, stage) == pc' = [pc EXCEPT ![p] = stage] /\ UNCHANGED error

\* A check fails with its code, or the command goes on to the next stage.
Check(p, code, stage) ==
  IF code = "none" THEN Goto(p, stage)
  ELSE /\ pc' = [pc EXCEPT ![p] = "failed"]
       /\ error' = [error EXCEPT ![p] = code]

Use(p, path, content) == used' = [used EXCEPT ![p][path] = content]
Hash(p, path, content) == hashed' = [hashed EXCEPT ![p][path] = content]

\* A check that fails with a code if a condition holds, and the checks of a
\* sequence: the first code that is not "none".
Fails(condition, code) == IF condition THEN code ELSE "none"
first ?? second == IF first # "none" THEN first ELSE second

\* A declared SHA-256 is compared; an undeclared one is not.
VerifyArtifactHash(artifact, content) ==
  artifact.sha \subseteq {content}

Supplied(artifact) == artifact # Absent

\* parse_json and, unless a caller is trusted, validate_json.
ContractError(document, checked) ==
  Fails("json" \in document.faults, "INVALID_JSON")
  ?? Fails(checked /\ "contract" \in document.faults, "INVALID_REQUEST")

\* ... and the conversion to the types of the program.
DocumentError(document, checked, code) ==
  ContractError(document, checked)
  ?? Fails("decode" \in document.faults, code)

ValidateContracts(k) == ~k.trusted
-----------------------------------------------------------------------------
\* The fields of the extension that repeat-window repair and automatic
\* improvement both refuse.
RefusedFields ==
  {"additional_track_count", "target_track_count", "max_tracks_per_gap",
   "tracks_per_gap", "allow_opening_track", "allow_closing_track",
   "destination_mode", "min_added_tracks", "direct_transition_caution",
   "search_effort"}

RepairFieldsInvalid(extension) ==
  /\ extension.mode = "repeat_window_repair"
  /\ extension.present \cap (RefusedFields \cup {"trigger_percentile"}) # {}

Goals == {"satisfy_repeat_windows", "smooth_transitions"}

AutomaticImprovementInvalid(extension) ==
  IF extension.mode # "automatic_improvement"
  THEN extension.present \cap Goals # {}
  ELSE \/ ~(Goals \subseteq extension.present)
       \/ extension.enabled = {}
       \/ "max_added_tracks" \notin extension.present
       \/ /\ "smooth_transitions" \in extension.enabled
          /\ "trigger_percentile" \notin extension.present
       \/ "trigger_percentile" \in extension.present /\ ~extension.percentileInRange
       \/ extension.present \cap RefusedFields # {}

\* What the request alone decides, for `route` and `bridge`.
RequestError(k, request) ==
  DocumentError(request, ValidateContracts(k), "INVALID_REQUEST")
  ?? Fails(RepairFieldsInvalid(request.extension), "REPEAT_WINDOW_REPAIR_FIELDS_INVALID")
  ?? Fails(AutomaticImprovementInvalid(request.extension), "AUTOMATIC_IMPROVEMENT_INVALID")
  ?? PreflightError(request)
  ?? Fails(request.database.schema \notin {"none", "TracksV2", "current"},
           "DATABASE_SCHEMA_MISMATCH")

\* ... and for `validate`.
ValidationRequestError(request) ==
  DocumentError(request, TRUE, "INVALID_REQUEST")
  ?? Fails(request.database.schema \notin {"none", "TracksV2", "current"},
           "DATABASE_SCHEMA_MISMATCH")

\* `route` and `bridge` read the request once.
PrepareRequest(p) ==
  /\ kind[p].command = "prepare"
  /\ pc[p] = "request"
  /\ Use(p, "request", files.request)
  /\ Hash(p, "request", files.request)
  /\ Check(p, RequestError(kind[p], files.request), "cache")
  /\ UNCHANGED <<world, cache, kind, cacheState, identityState>>

\* `validate` hashes one read and decodes another; `score` decodes a third.
HashRequest(p) ==
  /\ kind[p].command # "prepare"
  /\ pc[p] = "request"
  /\ Hash(p, "request", files.request)
  /\ Goto(p, "decode")
  /\ UNCHANGED <<world, cache, kind, used, cacheState, identityState>>

DecodeRequest(p) ==
  /\ pc[p] = "decode"
  /\ Use(p, "request", files.request)
  /\ Check(p, ValidationRequestError(files.request), "readDatabase")
  /\ UNCHANGED <<world, cache, kind, hashed, cacheState, identityState>>

-----------------------------------------------------------------------------
\* The cache a job with this database artifact can use.
\* Mutant: the identity is not compared.
UsableWhateverIdentity(artifact, c) ==
  /\ artifact.identity # NoIdentity
  /\ c # Absent
  /\ c.whole
  /\ c.version = CacheVersion
  /\ VerifyArtifactHash(artifact, c.sha)

Usable(artifact, c) ==
  /\ artifact.identity # NoIdentity
  /\ c # Absent
  /\ c.whole
  /\ c.version = CacheVersion
  /\ c.identity = artifact.identity
  /\ VerifyArtifactHash(artifact, c.sha)

LoadLibraryCache(p) ==
  /\ pc[p] = "cache"
  /\ IF kind[p].caching /\ Usable(Request(p).database, cacheFile)
     THEN /\ Use(p, "database", cacheFile.library)
          /\ Hash(p, "database", cacheFile.sha)
          /\ cacheState' = [cacheState EXCEPT ![p] = "hit"]
          /\ Goto(p, "identities")
     ELSE /\ cacheState' =
               [cacheState EXCEPT ![p] =
                  IF kind[p].caching /\ Request(p).database.identity # NoIdentity
                  THEN "miss" ELSE "disabled"]
          /\ Goto(p, "hash")
          /\ UNCHANGED <<used, hashed>>
  /\ UNCHANGED <<world, cache, kind, identityState>>

HashDatabase(p) ==
  /\ pc[p] = "hash"
  /\ Hash(p, "database", files.database)
  /\ Check(p, Fails(~VerifyArtifactHash(Request(p).database, files.database),
                    "ARTIFACT_HASH_MISMATCH"), "open")
  /\ UNCHANGED <<world, cache, kind, used, cacheState, identityState>>

\* Opening, the integrity check and the bulk query of all rows go through one
\* connection and see one content; `route` and `bridge` always ask for the rows.
DatabaseError(database) ==
  Fails("open" \in database.faults, "DATABASE_INVALID")
  ?? Fails("integrity" \in database.faults, "DATABASE_INTEGRITY_FAILED")
  ?? Fails("rows" \in database.faults, "DATABASE_QUERY_FAILED")

OpenDatabase(p) ==
  /\ pc[p] = "open"
  /\ Use(p, "database", files.database)
  /\ Check(p, DatabaseError(files.database),
           IF cacheState[p] = "miss" THEN "store" ELSE "identities")
  /\ UNCHANGED <<world, cache, kind, hashed, cacheState, identityState>>

\* `validate` hashes one read of the database and opens another.
ReadDatabase(p) ==
  /\ pc[p] = "readDatabase"
  /\ Hash(p, "database", files.database)
  /\ Check(p, Fails(~VerifyArtifactHash(Request(p).database, files.database),
                    "ARTIFACT_HASH_MISMATCH"), "checkDatabase")
  /\ UNCHANGED <<world, cache, kind, used, cacheState, identityState>>

CheckDatabase(p) ==
  /\ pc[p] = "checkDatabase"
  /\ Use(p, "database", files.database)
  /\ Check(p, Fails("open" \in files.database.faults, "DATABASE_INVALID")
              ?? Fails("integrity" \in files.database.faults, "DATABASE_INTEGRITY_FAILED"),
           "identities")
  /\ UNCHANGED <<world, cache, kind, hashed, cacheState, identityState>>

\* It asks for all rows only to hold an inventory against them, later and
\* through the connection it has.
DecodeValidationLibrary(p) ==
  /\ pc[p] = "decodeRows"
  /\ Check(p, Fails(Supplied(Request(p).inventory) /\ "rows" \in used[p].database.faults,
                    "DATABASE_QUERY_FAILED"), "inventory")
  /\ UNCHANGED <<world, cache, kind, used, hashed, cacheState, identityState>>

NewCache(p) ==
  [whole |-> TRUE, version |-> CacheVersion,
   identity |-> Request(p).database.identity, sha |-> hashed[p].database,
   library |-> used[p].database]

\* The file is created, then filled; a failure to write is ignored.
WriteTemporary(p) ==
  /\ pc[p] = "store"
  /\ \/ /\ temporary[p] = Absent
        /\ temporary' = [temporary EXCEPT ![p] = [NewCache(p) EXCEPT !.whole = FALSE]]
        /\ UNCHANGED <<pc, error>>
     \/ /\ temporary[p] # Absent
        /\ temporary' = [temporary EXCEPT ![p] = NewCache(p)]
        /\ Goto(p, "rename")
     \/ Goto(p, "identities") /\ UNCHANGED temporary
  /\ UNCHANGED <<world, cacheFile, kind, used, hashed, cacheState, identityState>>

MoveTemporary(p) ==
  /\ cacheFile' = temporary[p]
  /\ temporary' = [temporary EXCEPT ![p] = Absent]
  /\ Goto(p, "identities")

\* Mutant: the cache file itself is opened and written.
WriteInPlace(p) ==
  /\ pc[p] = "rename"
  /\ \/ cacheFile' = [temporary[p] EXCEPT !.whole = FALSE] /\ UNCHANGED <<pc, error, temporary>>
     \/ MoveTemporary(p)
  /\ UNCHANGED <<world, kind, used, hashed, cacheState, identityState>>

\* A failed rename is retried once, after the old cache file is removed.
RenameTemporary(p) ==
  /\ pc[p] = "rename"
  /\ \/ MoveTemporary(p)
     \/ Goto(p, "remove") /\ UNCHANGED cache
  /\ UNCHANGED <<world, kind, used, hashed, cacheState, identityState>>

RemoveDestination(p) ==
  /\ pc[p] = "remove"
  /\ cacheFile' \in {Absent, cacheFile}
  /\ Goto(p, "renameAgain")
  /\ UNCHANGED <<world, temporary, kind, used, hashed, cacheState, identityState>>

RenameAgain(p) ==
  /\ pc[p] = "renameAgain"
  /\ \/ MoveTemporary(p)
     \/ Goto(p, "identities") /\ UNCHANGED cache
  /\ UNCHANGED <<world, kind, used, hashed, cacheState, identityState>>

-----------------------------------------------------------------------------
\* Stable artist identities are optional: whatever is wrong with them leaves
\* the job on exact Bliss artist credits.
IdentitiesState(p, state) ==
  identityState' = [identityState EXCEPT ![p] = state]

PastIdentities(p) ==
  Goto(p, IF kind[p].command = "prepare" THEN "inventory" ELSE "decodeRows")

HashTrackIdentities(p) ==
  /\ pc[p] = "identities"
  /\ LET artifact == Request(p).identities
         unused(state) == /\ IdentitiesState(p, state)
                          /\ PastIdentities(p)
                          /\ UNCHANGED hashed
     IN IF ~Supplied(artifact) THEN unused("not_supplied")
        ELSE IF artifact.schema # "lyrion-track-identities-v1"
        THEN unused("fallback_schema_mismatch")
        ELSE IF ~VerifyArtifactHash(artifact, files.identities)
        THEN unused("fallback_artifact_invalid")
        ELSE /\ Hash(p, "identities", files.identities)
             /\ Goto(p, "openIdentities")
             /\ UNCHANGED identityState
  /\ UNCHANGED <<world, cache, kind, used, cacheState>>

OpenTrackIdentities(p) ==
  /\ pc[p] = "openIdentities"
  /\ Use(p, "identities", files.identities)
  /\ IdentitiesState(p, IF files.identities.sound THEN "loaded"
                        ELSE "fallback_snapshot_invalid")
  /\ PastIdentities(p)
  /\ UNCHANGED <<world, cache, kind, hashed, cacheState>>

-----------------------------------------------------------------------------
\* A stage whose artifact is read once; what it reads is used and hashed.
ReadStage(p, path, supplied, code, next) ==
  /\ IF supplied /\ code = "none"
     THEN Use(p, path, files[path]) /\ Hash(p, path, files[path])
     ELSE UNCHANGED <<used, hashed>>
  /\ Check(p, code, next)
  /\ UNCHANGED <<world, cache, kind, cacheState, identityState>>

InventoryError(k, request, rows, inventory) ==
  IF ~Supplied(request.inventory) THEN "none"
  ELSE
    Fails(request.inventory.schema # "lms-local-candidate-inventory-v1",
          "CANDIDATE_INVENTORY_SCHEMA_MISMATCH")
    ?? Fails(request.database.identity = NoIdentity,
             "CANDIDATE_INVENTORY_DATABASE_IDENTITY_REQUIRED")
    ?? Fails(~VerifyArtifactHash(request.inventory, inventory),
             "ARTIFACT_HASH_MISMATCH")
    ?? DocumentError(inventory, ValidateContracts(k), "CANDIDATE_INVENTORY_INVALID")
    ?? Fails("schema" \in inventory.faults, "CANDIDATE_INVENTORY_SCHEMA_MISMATCH")
    ?? Fails(inventory.identity # request.database.identity,
             "CANDIDATE_INVENTORY_DATABASE_MISMATCH")
    ?? Fails(ValidateContracts(k) /\ ~(inventory.rows \subseteq rows),
             "CANDIDATE_INVENTORY_UNKNOWN_ROW")

LoadLocalCandidateInventory(p) ==
  /\ pc[p] = "inventory"
  /\ ReadStage(p, "inventory", Supplied(Request(p).inventory),
               InventoryError(kind[p], Request(p), Rows(p), files.inventory),
               IF kind[p].command = "prepare" THEN "candidates" ELSE "matrix")

\* Candidate identities name every row of the inventory exactly once.  An
\* entry is a [row, id, named] of the artifact, `named` when it has a URLMD5.
EntryError(rows, entries, i, allowed) ==
  LET entry == entries[i]
      earlier == {entries[k] : k \in 1..(i - 1)}
  IN Fails(\/ entry.id \in {e.id : e \in earlier}
           \/ entry.row \in {e.row : e \in earlier},
           "CANDIDATE_IDENTITIES_DUPLICATE")
     ?? Fails(entry.id # entry.row, "CANDIDATE_IDENTITIES_ROW_MISMATCH")
     ?? Fails(entry.row \notin allowed, "CANDIDATE_IDENTITIES_NONLOCAL_ROW")
     ?? Fails(entry.row \notin rows, "CANDIDATE_IDENTITIES_UNKNOWN_ROW")
     ?? Fails(~entry.named, "CANDIDATE_IDENTITIES_URLMD5_REQUIRED")

\* The code of the first of n items that fails.
FirstOf(n, code(_)) ==
  LET failing == {i \in 1..n : code(i) # "none"}
  IN IF failing = {} THEN "none" ELSE code(Min(failing))

EntriesError(rows, entries, allowed) ==
  FirstOf(Len(entries), LAMBDA i : EntryError(rows, entries, i, allowed))
  ?? Fails(Len(entries) # Cardinality(allowed), "CANDIDATE_IDENTITIES_INCOMPLETE")

CandidateIdentitiesError(request, rows, candidates, allowed) ==
  IF ~Supplied(request.candidates) THEN "none"
  ELSE IF ~Supplied(request.inventory)
  THEN "CANDIDATE_IDENTITIES_LOCAL_INVENTORY_REQUIRED"
  ELSE
    Fails(request.candidates.schema # "eligible-candidate-identities-v1",
          "CANDIDATE_IDENTITIES_SCHEMA_MISMATCH")
    ?? Fails(request.database.identity = NoIdentity,
             "CANDIDATE_IDENTITIES_DATABASE_IDENTITY_REQUIRED")
    ?? Fails(~VerifyArtifactHash(request.candidates, candidates),
             "ARTIFACT_HASH_MISMATCH")
    ?? Fails({"json", "decode"} \cap candidates.faults # {}, "CANDIDATE_IDENTITIES_INVALID")
    ?? Fails("schema" \in candidates.faults, "CANDIDATE_IDENTITIES_SCHEMA_MISMATCH")
    ?? Fails(candidates.identity # request.database.identity,
             "CANDIDATE_IDENTITIES_DATABASE_MISMATCH")
    ?? EntriesError(rows, candidates.entries, allowed)

LoadCandidateIdentities(p) ==
  /\ pc[p] = "candidates"
  /\ ReadStage(p, "candidates", Supplied(Request(p).candidates),
               CandidateIdentitiesError(Request(p), Rows(p), files.candidates,
                                        used[p].inventory.rows),
               "matrix")

-----------------------------------------------------------------------------
MatrixError(request, matrix) ==
  IF ~Supplied(request.matrix)
  THEN Fails(request.algorithm = "learned_matrix", "MATRIX_REQUIRED")
  ELSE Fails(~VerifyArtifactHash(request.matrix, matrix), "ARTIFACT_HASH_MISMATCH")
       ?? Fails(~matrix.sound, "MATRIX_INVALID")

LoadMatrix(p) ==
  /\ pc[p] = "matrix"
  /\ kind[p].command = "prepare"
  /\ ReadStage(p, "matrix", Supplied(Request(p).matrix),
               MatrixError(Request(p), files.matrix), "evidence")

\* Mutant: the file is loaded first and hashed afterwards.
HashMatrixAfterLoading(p) ==
  LET supplied == Supplied(Request(p).matrix)
  IN /\ kind[p].command # "prepare"
     /\ \/ /\ pc[p] = "matrix"
           /\ IF supplied THEN Use(p, "matrix", files.matrix) ELSE UNCHANGED used
           /\ Check(p, Fails(supplied /\ ~files.matrix.sound, "MATRIX_INVALID"), "hashMatrix")
           /\ UNCHANGED hashed
        \/ /\ pc[p] = "hashMatrix"
           /\ IF supplied THEN Hash(p, "matrix", files.matrix) ELSE UNCHANGED hashed
           /\ Goto(p, "evidence")
           /\ UNCHANGED used
     /\ UNCHANGED <<world, cache, kind, cacheState, identityState>>

\* `validate` hashes the file and has the library load it again.
HashMatrix(p) ==
  LET artifact == Request(p).matrix
  IN /\ pc[p] = "matrix"
     /\ kind[p].command # "prepare"
     /\ IF ~Supplied(artifact)
        THEN /\ Check(p, Fails(Request(p).algorithm = "learned_matrix", "MATRIX_REQUIRED"),
                      "evidence")
             /\ UNCHANGED hashed
        ELSE /\ Hash(p, "matrix", files.matrix)
             /\ Check(p, Fails(~VerifyArtifactHash(artifact, files.matrix),
                               "ARTIFACT_HASH_MISMATCH"), "parseMatrix")
     /\ UNCHANGED <<world, cache, kind, used, cacheState, identityState>>

ParseMatrix(p) ==
  /\ pc[p] = "parseMatrix"
  /\ Use(p, "matrix", files.matrix)
  /\ Check(p, Fails(~files.matrix.sound, "MATRIX_INVALID"), "evidence")
  /\ UNCHANGED <<world, cache, kind, hashed, cacheState, identityState>>

\* `route` and `bridge` also decode the bundle and look into it.
EvidenceError(k, request, evidence) ==
  Fails(request.evidence.schema \notin {"none", "semantic-evidence-v1"},
        "SEMANTIC_SCHEMA_MISMATCH")
  ?? Fails(~VerifyArtifactHash(request.evidence, evidence), "ARTIFACT_HASH_MISMATCH")
  ?? DocumentError(evidence, ValidateContracts(k), "SEMANTIC_EVIDENCE_INVALID")
  ?? Fails(~evidence.sound, "SEMANTIC_EVIDENCE_INVALID")

LoadSemanticEvidence(p) ==
  /\ pc[p] = "evidence"
  /\ kind[p].command = "prepare"
  /\ ReadStage(p, "evidence", TRUE,
               EvidenceError(kind[p], Request(p), files.evidence), "sources")

\* `validate` stops at the schema.
ValidationEvidenceError(request, evidence) ==
  Fails(request.evidence.schema \notin {"none", "semantic-evidence-v1"},
        "SEMANTIC_SCHEMA_MISMATCH")
  ?? Fails(~VerifyArtifactHash(request.evidence, evidence), "ARTIFACT_HASH_MISMATCH")
  ?? ContractError(evidence, TRUE)

ValidateSemanticEvidence(p) ==
  /\ pc[p] = "evidence"
  /\ kind[p].command # "prepare"
  /\ ReadStage(p, "evidence", TRUE,
               ValidationEvidenceError(Request(p), files.evidence), "sources")

-----------------------------------------------------------------------------
\* A track is a [id, file] of the request; file "none" is a missing one.  `route`
\* and `bridge` look files up in the library they have, decoded or cached.
TrackError(rows, tracks, i, unique) ==
  LET track == tracks[i]
      earlier == {tracks[k] : k \in 1..(i - 1)}
  IN Fails(unique /\ track.id \in {t.id : t \in earlier}, "DUPLICATE_SOURCE_TRACK")
     ?? Fails(track.file = "none", "TRACK_IDENTITY_INCOMPLETE")
     ?? Fails(unique /\ track.file \in {t.file : t \in earlier},
              "DUPLICATE_SOURCE_TRACK")
     ?? Fails(track.file \notin rows, "TRACK_NOT_ANALYZED")

TracksError(rows, tracks, unique) ==
  FirstOf(Len(tracks), LAMBDA i : TrackError(rows, tracks, i, unique))

SourcesError(request, rows) ==
  TracksError(rows, request.sources, TRUE)
  ?? TracksError(rows, request.history, FALSE)

ResolveSources(p) ==
  /\ pc[p] = "sources"
  /\ kind[p].command = "prepare"
  /\ Check(p, SourcesError(Request(p), Rows(p)), "done")
  /\ UNCHANGED <<world, cache, kind, used, hashed, cacheState, identityState>>

\* What usable_row_id_for_file and raw_metrics say of a file: "failed", "absent",
\* "unreadable" and "unmeasured" (of the metrics only), or "usable".
Answer(database, file) ==
  IF file \in DOMAIN database.answers THEN database.answers[file] ELSE "absent"

RowError(database, file) ==
  Fails(Answer(database, file) = "failed", "DATABASE_QUERY_FAILED")
  ?? Fails(Answer(database, file) = "absent", "TRACK_NOT_ANALYZED")

\* `validate` asks the database for one file after the other.
ValidatedTrackError(database, tracks, i, unique) ==
  LET track == tracks[i]
      before == 1..(i - 1)
  IN Fails(unique /\ \E k \in before : tracks[k].id = track.id, "DUPLICATE_SOURCE_TRACK")
     ?? Fails(track.file = "none", "TRACK_IDENTITY_INCOMPLETE")
     ?? Fails(unique /\ \E k \in before : tracks[k].file = track.file,
              "DUPLICATE_SOURCE_TRACK")
     ?? RowError(database, track.file)

ValidatedTracksError(database, tracks, unique) ==
  FirstOf(Len(tracks), LAMBDA i : ValidatedTrackError(database, tracks, i, unique))

\* Mutant: the history is not looked up.
ValidatedSourcesOnlyError(request, database) ==
  ValidatedTracksError(database, request.sources, TRUE)

ValidatedSourcesError(request, database) ==
  ValidatedTracksError(database, request.sources, TRUE)
  ?? ValidatedTracksError(database, request.history, FALSE)

ValidateSources(p) ==
  /\ pc[p] = "sources"
  /\ kind[p].command # "prepare"
  /\ Check(p, ValidatedSourcesError(Request(p), used[p].database),
           IF kind[p].command = "score" THEN "decodeAgain" ELSE "done")
  /\ UNCHANGED <<world, cache, kind, used, hashed, cacheState, identityState>>

\* `score` decodes the request a third time, loads the matrix by its path and
\* opens the database once more; none of this is hashed.
ScoringRequestError(request) ==
  DocumentError(request, TRUE, "INVALID_REQUEST")
  ?? Fails(request.algorithm \notin {"adaptive", "static"},
           "SCORING_ALGORITHM_UNSUPPORTED")
  ?? Fails(~request.adaptive, "ADAPTIVE_SETTINGS_REQUIRED")

DecodeAgain(p) ==
  /\ pc[p] = "decodeAgain"
  /\ Use(p, "request", files.request)
  /\ Check(p, ScoringRequestError(files.request), "matrixAgain")
  /\ UNCHANGED <<world, cache, kind, hashed, cacheState, identityState>>

\* A matrix must come with the hash of the validation, or the program panics;
\* without one, or for static scoring, the weights of the request are used.
EffectiveMatrixError(request, hash) ==
  IF Supplied(request.matrix) /\ request.algorithm # "static"
  THEN Fails(hash = Absent, "PANIC")
  ELSE Fails(~request.weightsValid, "STATIC_WEIGHTS_INVALID")

MatrixAgain(p) ==
  /\ pc[p] = "matrixAgain"
  /\ IF Supplied(Request(p).matrix)
     THEN /\ Use(p, "matrix", files.matrix)
          /\ Check(p, Fails(~files.matrix.sound, "MATRIX_INVALID")
                      ?? EffectiveMatrixError(Request(p), hashed[p].matrix), "openAgain")
     ELSE /\ Check(p, EffectiveMatrixError(Request(p), hashed[p].matrix), "openAgain")
          /\ UNCHANGED used
  /\ UNCHANGED <<world, cache, kind, hashed, cacheState, identityState>>

\* Each source row is looked up again and its features are read.
ScoreError(request, database) ==
  Fails("open" \in database.faults, "DATABASE_INVALID")
  ?? FirstOf(Len(request.sources),
             LAMBDA i : LET file == request.sources[i].file
                        IN Fails(file = "none", "TRACK_IDENTITY_INCOMPLETE")
                           ?? RowError(database, file)
                           ?? Fails(Answer(database, file) = "unreadable",
                                    "DATABASE_QUERY_FAILED")
                           ?? Fails(Answer(database, file) = "unmeasured",
                                    "TRACK_METRICS_MISSING"))

OpenAgain(p) ==
  /\ pc[p] = "openAgain"
  /\ Use(p, "database", files.database)
  /\ Check(p, ScoreError(Request(p), files.database), "done")
  /\ UNCHANGED <<world, cache, kind, hashed, cacheState, identityState>>

-----------------------------------------------------------------------------
Disturb == disturbances > 0 /\ disturbances' = disturbances - 1

\* The process is killed; what it wrote stays.
Kill(p) ==
  /\ Disturb
  /\ pc[p] \notin {"done", "failed", "killed"}
  /\ Goto(p, "killed")
  /\ UNCHANGED <<files, replaced, seen, damaged, cache, kind, used, hashed, cacheState,
                 identityState>>

\* Another program replaces a file.  A caller writes the identity of the
\* database it sees into its request; no content and no identity comes back.
Replace(path) ==
  /\ Disturb
  /\ replaced' = TRUE
  /\ \E content \in Replacements[path] \ seen :
       /\ path = "request" =>
            content.database.identity \in {NoIdentity, files.database.version}
       /\ path = "database" => content.version > files.database.version
       /\ files' = [files EXCEPT ![path] = content]
       /\ seen' = seen \cup {content}
  /\ UNCHANGED <<damaged, cache, kind, pc, used, hashed, cacheState, identityState, error>>

\* The cache file is damaged by something else.
Damage ==
  /\ Disturb
  /\ cacheFile # Absent
  /\ ~damaged
  /\ damaged' = TRUE
  /\ cacheFile' = [cacheFile EXCEPT !.whole = FALSE, !.library = Absent]
  /\ UNCHANGED <<files, replaced, seen, temporary, kind, pc, used, hashed, cacheState,
                 identityState, error>>

Stopped ==
  /\ \A p \in Processes : pc[p] \in {"done", "failed", "killed"}
  /\ UNCHANGED vars

\* The sequence of `route` and `bridge` ...
PrepareStep(p) ==
  \/ PrepareRequest(p)
  \/ LoadLibraryCache(p) \/ HashDatabase(p) \/ OpenDatabase(p)
  \/ WriteTemporary(p) \/ RenameTemporary(p) \/ RemoveDestination(p) \/ RenameAgain(p)
  \/ LoadCandidateIdentities(p) \/ LoadMatrix(p)
  \/ LoadSemanticEvidence(p) \/ ResolveSources(p)

\* ... that of `validate`, which is also the beginning of `score` ...
ValidateStep(p) ==
  \/ HashRequest(p) \/ DecodeRequest(p)
  \/ ReadDatabase(p) \/ CheckDatabase(p) \/ DecodeValidationLibrary(p)
  \/ HashMatrix(p) \/ ParseMatrix(p)
  \/ ValidateSemanticEvidence(p) \/ ValidateSources(p)

\* ... its end, and what `route`, `bridge` and `validate` share.
ScoreStep(p) == DecodeAgain(p) \/ MatrixAgain(p) \/ OpenAgain(p)

SharedStep(p) ==
  HashTrackIdentities(p) \/ OpenTrackIdentities(p) \/ LoadLocalCandidateInventory(p)

Step(p) == PrepareStep(p) \/ ValidateStep(p) \/ ScoreStep(p) \/ SharedStep(p)

Next ==
  \/ \E p \in Processes : Step(p) \/ Kill(p)
  \/ \E path \in Paths : Replace(path)
  \/ Damage
  \/ Stopped

Spec == Init /\ [][Next]_vars

-----------------------------------------------------------------------------
\* Every variable has its type.
TypeOK ==
  /\ disturbances \in Nat
  /\ replaced \in BOOLEAN
  /\ damaged \in BOOLEAN
  /\ kind \in [Processes -> Kinds]
  /\ cacheState \in [Processes -> {"none", "hit", "miss", "disabled"}]
  /\ identityState \in
       [Processes -> {"none", "not_supplied", "fallback_schema_mismatch",
                      "fallback_artifact_invalid", "fallback_snapshot_invalid",
                      "loaded"}]
  /\ \A p \in Processes : pc[p] = "failed" <=> error[p] # "none"

Prepared(p) == kind[p].command = "prepare" /\ pc[p] = "done"

\* The caller observed its database identity before the job and sees it
\* unchanged after it: identities name contents, so the job then worked with
\* that database and reports its hash, whatever the cache directory holds and
\* whoever wrote, damaged or left it behind (the cache lookup and its refill,
\* main.rs:2311-2373 and 2767-2837).
UnchangedDatabaseIsTheOneUsed ==
  \A p \in Processes :
    (Prepared(p) /\ Request(p).database.identity = files.database.version) =>
      /\ used[p].database = files.database
      /\ hashed[p].database = files.database

\* The hashes a prepared job reports for everything but the two databases name
\* the contents the job works with, also when a file is replaced while it runs
\* (read_artifact and decode_request_once read a file once).
ReportNamesItsInputs ==
  \A p \in Processes :
    Prepared(p) =>
      \A path \in Paths \ {"database", "identities"} :
        used[p][path] = hashed[p][path]

\* The hash a finished command reports of a file that is still there names what
\* the command worked with, although most files are hashed in one read and used
\* in another: the hash comes first (main.rs:2775/2785, 3088/3095, 3105/3106,
\* 3144/3145 and 3434/3450), so a file replaced in between no longer has it.
\* This also holds of a database and a hash from the cache.
ReportsOfPresentFilesAreTrue ==
  \A p \in Processes :
    pc[p] = "done" =>
      \A path \in Paths :
        hashed[p][path] = files[path] => used[p][path] = files[path]

\* What a command reports of its inputs is what it used: always where the code
\* reads a file once, and while the file is there wherever it reads it twice.
ReportsAreTrue == ReportNamesItsInputs /\ ReportsOfPresentFilesAreTrue

\* Writers, kills and failed renames never leave a half-written cache under
\* the cache's name (store_library_cache).
CacheIsWholeOrAbsent ==
  cacheFile # Absent /\ ~damaged => cacheFile.whole

\* The codes only `route` and `bridge` check for.
PlanningErrors ==
  PreflightErrors \cup
  {"REPEAT_WINDOW_REPAIR_FIELDS_INVALID", "AUTOMATIC_IMPROVEMENT_INVALID",
   "SEMANTIC_EVIDENCE_INVALID"} \cup
  {"CANDIDATE_IDENTITIES_LOCAL_INVENTORY_REQUIRED",
   "CANDIDATE_IDENTITIES_SCHEMA_MISMATCH",
   "CANDIDATE_IDENTITIES_DATABASE_IDENTITY_REQUIRED", "CANDIDATE_IDENTITIES_INVALID",
   "CANDIDATE_IDENTITIES_DATABASE_MISMATCH",
   "CANDIDATE_IDENTITIES_DUPLICATE", "CANDIDATE_IDENTITIES_ROW_MISMATCH",
   "CANDIDATE_IDENTITIES_NONLOCAL_ROW", "CANDIDATE_IDENTITIES_UNKNOWN_ROW",
   "CANDIDATE_IDENTITIES_URLMD5_REQUIRED", "CANDIDATE_IDENTITIES_INCOMPLETE"}

CandidateHashDiffers(p) ==
  LET artifact == Request(p).candidates
  IN Supplied(artifact) /\ ~VerifyArtifactHash(artifact, files.candidates)

\* A library from the cache counts as the database only under the identity the
\* database has: a caller that names an older one gets the older library.
UsesPresentLibrary(p) ==
  cacheState[p] = "hit" => Request(p).database.identity = files.database.version

\* A file the single queries find and the bulk query does not return.
Tracks(request) ==
  {request.sources[i] : i \in 1..Len(request.sources)} \cup
  {request.history[i] : i \in 1..Len(request.history)}

FoundButNotReturned(p) ==
  \E track \in Tracks(Request(p)) :
    /\ track.file \notin files.database.rows
    /\ Answer(files.database, track.file) \notin {"failed", "absent"}

\* A request `validate` accepts is refused by `route` and `bridge` only for what
\* they check beyond it, for the bulk query `validate` makes only when it has an
\* inventory (main.rs:2799 and 3117-3121), and for a row only the query for a
\* single file finds (main.rs:2990 and 3195), with the cache or without it, as
\* long as the files stay as they are: validate_request and
\* prepare_runtime_request are two hand-written sequences of checks.
ValidatedIsPrepared ==
  \A p, q \in Processes :
    /\ ~replaced
    /\ kind[p].command = "validate" /\ pc[p] = "done"
    /\ kind[q].command = "prepare" /\ pc[q] = "failed" /\ UsesPresentLibrary(q)
    => \/ error[q] \in PlanningErrors
       \/ error[q] = "ARTIFACT_HASH_MISMATCH" /\ CandidateHashDiffers(q)
       \/ /\ error[q] = "DATABASE_QUERY_FAILED"
          /\ "rows" \in files.database.faults /\ ~Supplied(Request(q).inventory)
       \/ error[q] = "TRACK_NOT_ANALYZED" /\ FoundButNotReturned(q)

\* The other way round: a request that is prepared without a caller's trust is
\* refused by `validate` only where a query for a single file does not find the
\* row the bulk query returned, or fails.
PreparedIsValid ==
  \A p, q \in Processes :
    /\ ~replaced
    /\ Prepared(p) /\ ~kind[p].trusted /\ UsesPresentLibrary(p)
    /\ kind[q].command = "validate" /\ pc[q] = "failed"
    => /\ error[q] \in {"DATABASE_QUERY_FAILED", "TRACK_NOT_ANALYZED"}
       /\ \E track \in Tracks(Request(q)) :
            /\ track.file \in files.database.rows
            /\ RowError(files.database, track.file) = error[q]

\* A caller's trust replaces the contracts and the inventory's rows, nothing
\* else, and the cache replaces nothing: two preparations of the same files
\* end alike, but for what trust skips.
TrustAndCacheChangeNothingElse ==
  \A p, q \in Processes :
    /\ ~replaced
    /\ Prepared(p) /\ UsesPresentLibrary(p)
    /\ kind[q].command = "prepare" /\ pc[q] = "failed" /\ UsesPresentLibrary(q)
    => /\ kind[p].trusted /\ ~kind[q].trusted
       /\ error[q] \in {"INVALID_REQUEST", "CANDIDATE_INVENTORY_UNKNOWN_ROW"}

\* `validate` checks the declared hashes of the artifacts a request names.
ValidatedHashesMatch ==
  \A p \in Processes :
    (~replaced /\ kind[p].command = "validate" /\ pc[p] = "done") =>
      ~CandidateHashDiffers(p)

\* The bookkeeping is well-formed, and whatever the cache directory holds, an
\* unchanged database is the one a prepared job works with.
PreparationSound == TypeOK /\ UnchangedDatabaseIsTheOneUsed

\* All ways through the checks agree on which requests are good, but for what
\* one of them does not check and for the two kinds of queries.
CommandsAgree ==
  ValidatedIsPrepared /\ PreparedIsValid /\ TrustAndCacheChangeNothingElse
=============================================================================
