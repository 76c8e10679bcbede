------------------------- MODULE MCRequestPreparation -------------------------
(***************************************************************************)
(* Two commands over one request and one cache directory.  A world is the  *)
(* sound world with one or two of its files, or parts of its request,      *)
(* exchanged; one of the files may be replaced while the commands run.     *)
(***************************************************************************)
EXTENDS RequestPreparation, TLC

CONSTANTS a, b

Database(version, rows) ==
  [version |-> version, faults |-> {}, rows |-> rows,
   answers |-> [row \in rows |-> "usable"]]
OldDatabase == Database(1, {"x", "y"})
NewDatabase == Database(2, {"x"})
Part(n, sound) == [version |-> n, sound |-> sound]
Identities == Part(1, TRUE)
Matrix == Part(1, TRUE)
Evidence == [version |-> 1, sound |-> TRUE, faults |-> {}]
Inventory == [identity |-> 1, rows |-> {"x", "y"}, faults |-> {}]
Entry(row) == [row |-> row, id |-> row, named |-> TRUE]
Candidates == [identity |-> 1, entries |-> <<Entry("x"), Entry("y")>>, faults |-> {}]
Other == [version |-> 9]
Track(file) == [id |-> file, file |-> file]

Extension == [mode |-> "fixed_source", present |-> {}, enabled |-> {},
              percentileInRange |-> TRUE]
SoundRequest ==
  [faults |-> {}, extension |-> Extension, preflight |-> "none",
   database |-> [schema |-> "current", identity |-> 1, sha |-> {OldDatabase}],
   identities |-> [schema |-> "lyrion-track-identities-v1", sha |-> {}],
   inventory |-> [schema |-> "lms-local-candidate-inventory-v1", sha |-> {}],
   candidates |-> [schema |-> "eligible-candidate-identities-v1", sha |-> {}],
   matrix |-> [sha |-> {}], evidence |-> [schema |-> "none", sha |-> {}],
   algorithm |-> "adaptive", adaptive |-> TRUE, weightsValid |-> TRUE,
   sources |-> <<Track("x"), Track("y")>>, history |-> <<Track("x")>>]

\* The request a caller makes once it has seen the new database.
NewRequest ==
  [SoundRequest EXCEPT !.database.identity = 2, !.database.sha = {},
                       !.inventory = Absent, !.candidates = Absent,
                       !.sources = <<Track("x")>>]

SoundWorld ==
  [request |-> SoundRequest, database |-> OldDatabase, identities |-> Identities,
   inventory |-> Inventory, candidates |-> Candidates, matrix |-> Matrix,
   evidence |-> Evidence]

Swap == Permutations(Processes)

MCPreflightError(request) == request.preflight

Improvement(present, enabled) ==
  [mode |-> "automatic_improvement", present |-> present, enabled |-> enabled,
   percentileInRange |-> TRUE]
SmoothFields == Goals \cup {"max_added_tracks", "trigger_percentile"}

RequestVariants ==
  LET R == SoundRequest IN
  { R,
    [R EXCEPT !.faults = {"json"}],
    [R EXCEPT !.faults = {"contract"}],
    [R EXCEPT !.faults = {"decode"}],
    [R EXCEPT !.preflight = "FIXED_GAP_SOURCE_REPEAT_CONFLICT"],
    [R EXCEPT !.extension = Improvement(SmoothFields, {"smooth_transitions"})],
    [R EXCEPT !.extension = Improvement(SmoothFields, {})],
    [R EXCEPT !.extension.present = {"smooth_transitions"}],
    [R EXCEPT !.extension.mode = "repeat_window_repair",
              !.extension.present = {"trigger_percentile"}],
    [R EXCEPT !.database.schema = "other"],
    [R EXCEPT !.database.sha = {}],
    [R EXCEPT !.database.sha = {}, !.inventory = Absent, !.candidates = Absent],
    [R EXCEPT !.database.identity = NoIdentity],
    [R EXCEPT !.database.identity = NoIdentity, !.inventory = Absent,
              !.candidates = Absent],
    [R EXCEPT !.inventory = Absent],
    [R EXCEPT !.inventory.schema = "other"],
    [R EXCEPT !.candidates.schema = "other"],
    [R EXCEPT !.candidates.sha = {Other}],
    [R EXCEPT !.identities = Absent],
    [R EXCEPT !.identities.sha = {Other}],
    [R EXCEPT !.identities.schema = "other"],
    [R EXCEPT !.matrix.sha = {Other}],
    [R EXCEPT !.matrix = Absent, !.algorithm = "learned_matrix"],
    [R EXCEPT !.matrix = Absent],
    [R EXCEPT !.matrix = Absent, !.adaptive = FALSE],
    [R EXCEPT !.matrix = Absent, !.weightsValid = FALSE],
    [R EXCEPT !.evidence.schema = "other"],
    [R EXCEPT !.sources[2].id = "x"],
    [R EXCEPT !.history[1].file = "none"],
    [R EXCEPT !.history[1].file = "z"],
    [R EXCEPT !.inventory.sha = {Other}, !.evidence.sha = {Other}] }

FileVariants ==
  LET W == SoundWorld IN
  { W,
    [W EXCEPT !.database.faults = {"open"}, !.request.database.sha = {}],
    [W EXCEPT !.database.faults = {"integrity"}, !.request.database.sha = {}],
    [W EXCEPT !.database.faults = {"rows"}, !.request.database.sha = {}],
    [W EXCEPT !.database.faults = {"rows"}, !.request.database.sha = {},
              !.request.inventory = Absent, !.request.candidates = Absent],
    [W EXCEPT !.database = NewDatabase],
    [W EXCEPT !.database = NewDatabase, !.request.database.sha = {}],
    [W EXCEPT !.identities.sound = FALSE],
    [W EXCEPT !.matrix.sound = FALSE],
    [W EXCEPT !.evidence.sound = FALSE],
    [W EXCEPT !.evidence.faults = {"json"}],
    [W EXCEPT !.evidence.faults = {"contract"}],
    [W EXCEPT !.evidence.faults = {"decode"}],
    [W EXCEPT !.inventory.faults = {"contract"}],
    [W EXCEPT !.inventory.faults = {"decode"}],
    [W EXCEPT !.inventory.faults = {"schema"}],
    [W EXCEPT !.inventory.identity = 2],
    [W EXCEPT !.inventory.rows = {"x", "z"}],
    [W EXCEPT !.candidates.faults = {"json"}],
    [W EXCEPT !.candidates.faults = {"schema"}],
    [W EXCEPT !.candidates.identity = 2],
    [W EXCEPT !.candidates.entries = <<Entry("x")>>],
    [W EXCEPT !.candidates.entries = <<Entry("x"), Entry("x")>>],
    [W EXCEPT !.candidates.entries[2].id = "x2"],
    [W EXCEPT !.candidates.entries[2].named = FALSE],
    [W EXCEPT !.candidates.entries = <<Entry("z")>>] }

\* What the query for the file y answers, and whether the bulk query returns it.
QueryVariants ==
  { [SoundWorld EXCEPT !.database.answers["y"] = answer, !.database.rows = rows,
                       !.request.database.sha = {}, !.request.inventory = Absent,
                       !.request.candidates = Absent] :
      answer \in {"failed", "absent", "unreadable", "unmeasured", "usable"},
      rows \in {{"x"}, {"x", "y"}} }

MCWorlds ==
  {[SoundWorld EXCEPT !.request = r] : r \in RequestVariants} \cup
  FileVariants \cup QueryVariants

MCDisturbances(w) ==
  CASE w = [SoundWorld EXCEPT !.request.database.sha = {}] -> 2
    [] w = SoundWorld -> 1
    [] w = [SoundWorld EXCEPT !.request.matrix = Absent] -> 1
    [] OTHER -> 0

MCReplacements ==
  [path \in Paths |->
     CASE path = "request" -> {NewRequest}
       [] path = "database" -> {NewDatabase}
       [] path = "matrix" -> {Part(2, TRUE)}
       [] path = "identities" -> {}
       [] path = "inventory" -> {[Inventory EXCEPT !.rows = {"x"}]}
       [] path = "candidates" -> {}
       [] path = "evidence" -> {[Evidence EXCEPT !.version = 2]}]

CacheOf(identity, database) ==
  [whole |-> TRUE, version |-> CacheVersion, identity |-> identity,
   sha |-> database, library |-> database]

\* An absent cache; one of an older program; and, of this program, one stored
\* from the database there is and one stored from another under an identity the
\* database no longer has.
MCInitialCaches(w) ==
  {Absent, [CacheOf(1, Database(0, {"x"})) EXCEPT !.version = CacheVersion - 1]} \cup
  (IF w.database.faults = {} THEN {CacheOf(w.database.version, w.database)} ELSE {}) \cup
  (IF w.database.version = 2 THEN {CacheOf(1, OldDatabase)} ELSE {})
=============================================================================
