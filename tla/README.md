# Verification of bliss-playlist-optimizer

TLA+ models of the command-line playlist optimizer in this repository
(`src/src/*.rs`), model-checked with TLC and, where stated, proved with TLAPS.
Every definition is translated from the source; `PROJECT.json` gives the lines
each one stands for.  Run a model with `tlc -config X.cfg M`, a proof with
`tlapm M.tla`.

## 1. The system

The program reads one JSON request, loads a library of tracks from SQLite or
from its cache, orders or extends a source playlist and writes one JSON
artifact.  Commands: `version`, `validate`, `score`, `route`, `bridge`.  Almost
all of it is a sequential computation over a route of tracks; a heartbeat
thread, a thread pool for the searches and addon processes run beside it, and
several commands may share one cache directory.

| Component | State it keeps | Operations | Made correct by |
|---|---|---|---|
| repeat policy (`route.rs`, `bridge.rs`, `anchored_path.rs`) | none; artist keys, album key, windows | `artists_repeat`, `repeat_windows_safe_at`, `position_repeat_safe`, `repeat_violations` | all implementations agreeing on the same pairs at the same distances |
| anchored path search (`anchored_path.rs`) | beam of partial paths, options per count | validate, direct option, layer, close, select | soundness of every option, exactness when nothing is pruned, no leak between counts |
| multi-gap planner (`multi_gap.rs`) | beam of partial routes, total budget | spacing lower bound, gap crossing, retained beams, final proof, selection | lower bound exact, least number of additions, pair-by-pair soundness of the finished route |
| duration membership (`duration_membership.rs`) | DFS stack, combinations seen, node and result budgets | visit, prune, stop | relevance order, honest `search_limited` flag |
| progress sidecar (`main.rs` 1834-1977) | published file, temporary file, heartbeat thread | `update`, start heartbeat, drop guard | readers never see torn, missing or older documents; the command returns |
| guidance host (`guidance.rs`) | one session per addon, diagnostics, queued answers | start, describe, prepare, score, close, fail | answers match requests, one addon's failure is neutral to the others, termination |
| route search (`route.rs`) | a route per task, counter and snapshot of all | greedy start, local search, choice of the route | keeps every track and the windows, strictly improving, terminating, honest progress |
| bridge evaluation (`bridge.rs`, ranking in `preview.rs`) | evaluation per candidate, frozen reference population | context, percentile, shortlist, evaluate, rank, shuffle | repeat safety around an insertion, one context per evaluation |
| bridge selection (`preview.rs`) | evolving route, beam, used tracks | automatic, exact-count, several per gap, endpoints, destination, planned | evaluations that hold in the final route, insertions that keep the windows |
| library cache (`main.rs` 2306-2373, 2773) | cache file keyed by the request's database identity | identify, load, store | a library is never used under another's identity, a cache file is whole |
| request preparation (`main.rs` 2624-3325) | validated request, hashes, bound artifacts | read, check, hash, decode, bind | reported hashes are those of the contents used; the hand-written copies of the checks judge alike |
| fixed-source extension (`main.rs` 3713-4369) | pool, counts per key, attempts, failures | resolve target, order pool, select or search members, route, check | relevance order, refusals that are necessary, admissible results |
| bridge command (`main.rs` 4640-7968) | everything above | base route, gaps, choice of the branch, proof, artifact | order of phases, shared budget, refusals that are justified |
| contextual scoring, semantic evidence (`contextual.rs`, `lib.rs`, `semantic.rs`) | none | distance, evidence matching | numeric and textual; inputs of the models |

Interactions: the planner calls the path search once per gap and beam state and
relies on its options being repeat-safe against the *prefix* it passes; both
rely on the repeat policy.  Bridge selection calls either planner and evaluates
the result again gap by gap.  The bridge command chooses a selection, may run
two of them one on the result of the other, and proves the result.  The
extension calls the membership search with a filter over repeat capacities,
then the route search.  The main thread and the heartbeat share a snapshot
(mutex), a stop flag (atomic) and the temporary file name (nothing).  The host
and an addon share a pipe each way and a channel the reader thread fills.
Commands share the cache file and nothing that guards it.

Hard behaviours, listed line by line as `hazards` in `PROJECT.json`: two threads
writing one temporary file; a file replaced between its hash and its use; a kill
between the steps of a cache refill; answers that arrive after their timeout;
writes that can fail half way; beams that prune a state a later repeat needs;
evaluations made in one route and reported for another; checks written twice;
capacity and window arithmetic at its boundaries.

## 2. Modules

`RepeatWindows` is the shared vocabulary of everything that handles routes,
`Orders` the selection by a sort key.

```
RepeatWindows, Orders
   +-- RepeatSpacing  <-  RepeatSpacing_proofs
   +-- AnchoredPath  <-  Operators_proofs (lemmas)
   |       +-- AnchoredPathSearch, MultiGapPlanner  <-  MultiGapPlanner_proofs
   |       +-- DestinationRoute  <-  DestinationRoute_proofs
   +-- RouteSearch  <-  RouteSearch_proofs
   +-- BridgeEvaluation  <-  BridgeSelection  <-  BridgeCommand
   +-- FixedSourceExtension           (INSTANCE DurationMembership)
RequestPreparation  <-  RequestPreparation_proofs
ProgressSidecar  <-  ProgressSidecar_proofs      (INSTANCE ProgressFile)
GuidanceHost  <-  GuidanceHost_proofs
```

`A <- B` is "B extends A".  The proof modules of these, without the last three,
also extend `Operators_proofs`.  What is proved about `AnchoredPathSearch` stands
in `MultiGapPlanner_proofs`; its actions and properties therefore have names of
their own (`SearchInit`, `SearchSpec`, `stage`).

* **RepeatWindows** - tracks as `[artist, repeatKeys, album]`, windows as
  `[artist, album, track]`, `RepeatWindowsSafeAt` and `PositionRepeatSafe` as in
  the code, `PairSafe` as the pairwise meaning, and the recurrence of
  `minimum_repeat_spacing_additions` as the recursive function
  `MinimumRepeatSpacing` the planner and the bridge command use.
* **RepeatSpacing** - the same function as the two nested loops that compute
  it: `AdvanceRight` enters the next member and lets it inherit its
  predecessor's total, `RelaxLeft` is one inner iteration.
* **Orders** - lexicographic comparison of keys.  A vector that is sorted by a
  total order and truncated is a set with `Least(set, n, key)`.  `Total` adds up
  a sequence, in its order.
* **AnchoredPath** - the search between two anchors as operators over a request
  record: which candidates a layer may append (`MayExtend`), the pruning with
  the right anchor in view (`ConflictsWithDestination`,
  `MinimumDestinationIntermediates`), closing, the varied selection and
  `AnchoredPaths`, the whole result.  Beside it stands the reference, `GoodPaths`
  and `BestPaths`: all paths, judged pair by pair; `IsRequest` says what a request
  consists of.
* **AnchoredPathSearch** - the same search as steps: `Validate`, `Direct`,
  `Layer`, `Select`, `Finish`.  Its invariants compare with the reference.
* **MultiGapPlanner** - `Begin` computes the spacing bound and the first budget,
  `CrossGap` expands the beam through one gap with `AnchoredPaths`, `RejectGap`
  is the inner search turning a gap down, `Prove` is the final proof and
  selection.  `NoCompleteRoute` moves on to the next budget or fails.
* **RouteSearch** - the primary and the arc search (`phase`), each a set of tasks
  that threads take up: `TakeFixed` and `TakeGreedy`/`Grow` build the start,
  `Pass`, `Report` and `Improve` are one turn of the loop of `improve_route`
  (all reversals and relocations, `BestOfPass`), `Count` and `ReportEnd` the end
  of a task that found a route.  The counter and the snapshot of the caller are
  the shared state, each access a step of its own.  Random picks are an input,
  the same for both searches because their seeds are.  The number of
  local-search passes, which is only displayed, and the score caches, private to
  a task, are left out.
* **BridgeEvaluation** - a candidate's two legs, scored in the context of the
  route as it is and in the matrix of its gap, compared with a frozen population
  and checked against the windows; shortlist, ranking, guidance, variation.
  Distances are a constant operator over the seeds of the matrix, the recent
  tracks and the candidate.
* **BridgeSelection** - `AutomaticGap` decides one gap of the growing route,
  `ExpandGap` is one gap of the beam (one or several bridges), `FinishExact`
  ends a search, puts endpoints on and judges every bridge again,
  `SelectVariant` chooses among the uses of the endpoints.
* **BridgeCommand** - the branches of the bridge command over these: `Refuse`
  collects the preflight for fixed gaps, the conflict of an immutable order and
  the bounds a repair is held to; `Plan` is a plan over all gaps and its final
  decisions; `Smoothed` turns a repaired route into the next selection's gaps,
  candidates and budget; `Prove` is the independent proof.  The planner is
  known by its promise (`SoundPlans`, what `PlannerSound` says of
  `MultiGapPlanner`): it returns some sound plan or none.
* **DestinationRoute** - the route into a locked block of tracks and back:
  `Preflight`, the validation, `SearchOutward` and `SearchReturn` (the return
  searches of the outward options run in parallel and end in any order),
  `Collect`, which keeps the best route of each count, and the choice:
  `ChooseExact`, or in the automatic modes `CompareOption`, option by option
  against an incumbent, and `ChooseFallback`.
* **DurationMembership** - the explicit-stack enumeration, one `Visit` per node,
  with `MaxWord` for `u64::MAX`.
* **FixedSourceExtension** - resolving the goal, the guided order of the
  candidates, selection under the capacities per artist and album, and the loop
  over attempts (counts in increasing size, or the memberships of the duration
  search, whose steps are steps of this module), each placed or routed and
  checked.  Routing is what `RouteSearch` guarantees.
* **RequestPreparation** - one action per read, hash, check and cache operation
  of a command, in the order of the code: `PrepareStep` is the sequence of
  `route` and `bridge`, `ValidateStep` that of `validate` and the beginning of
  `score`, `ScoreStep` its end, `SharedStep` the two functions both call.  What
  the code writes twice is modelled twice: the checks of the request, of the
  database, of the evidence and of the tracks.  A preparation always asks for
  all rows in one query and looks its tracks up in the result (or in the cached
  one); `validate` makes that query only for an inventory and asks for each
  track by itself.  Both queries belong to `bliss-mixer-core`, which is not in
  the repository, so a database has `rows` and `answers` that need not fit
  together, and either query may fail.  Writers replace files at any time, a
  process is killed at any step, a cache file is damaged.  `seen` is a history
  variable: no content comes back.
* **ProgressSidecar** - `update` as open/write/rename/remove/rename-again steps
  of either thread; the heartbeat loop; the guard's stop and join.  A command is
  its sequence of progress operations: `RouteJob`, `ExtensionJob`, `BridgeJob`
  (several updates in a row without a heartbeat count as one).  A descriptor
  follows its file through renames, as on the platforms that allow them.
* **ProgressFile** - what the sidecar promises to whoever polls it, in two
  actions: `Replace` by a whole document of no earlier progress, and `Vanish`
  where renaming may fail.  `Promised` in `ProgressSidecar` is the refinement
  mapping: a reader sees whether there is a file, whether it is whole, and its
  rank.
* **Operators_proofs** - lemmas about the operators of `Orders`,
  `RepeatWindows` and `AnchoredPath`, for the proofs of the modules that take steps with them.
* **GuidanceHost** - the host's phases over the addons in turn; `Write`,
  `Written`, `NoAnswer`, `Receive` are `Session::request`, with `Accept` the
  handlers and `Fail` the error path.  `Read`, `Answer`, `Die` are the addon and
  the pipe, external to the repository: an addon answers a request at most once,
  at any time, usably or not, or dies.

`MC*` modules only give the constants values.  Operators marked `Mutant` above
the definition they change are plausible mistakes; each property is paired with
one that violates it.  A property of a run may be the conjunction of named
parts; the parts are defined, with their comments, just before it.

## 3. What is checked

All runs are finite by their inputs; none needs a state constraint.

| Run | Instance | Shows |
|---|---|---|
| `repeat_spacing` | every route of 0-4 members over 3 tracks, one of which may be missing from the table; 3 tables (shared keys, various artists, empty keys), 3 window settings; placements up to position 9 | the bound is a lower bound on, and attained by, admissible placements; the loops compute the recurrence |
| `anchored_path_search` | 7 tracks, all artist patterns of six of them, 2 windows, 2 distance tables (ties; unreachable legs), 2 histories, exempt prefix 0 and 2, limits that keep everything and that prune to 1 or 2, up to 3 intermediates, invalid requests | options are sound under any pruning (`SearchSound`); exact when wide; the steps compute the function |
| `multi_gap_planner` | 2 gaps, all artist patterns of 3 sources, competing candidate lists, history or none, both policies, budgets 1 and 3, wide and narrow limits, plus a returning source, equal neighbours, invalid requests, variation | plans are sound; only the first track fails late; a repair that prunes nothing spends its budget; wide planning finds the least and best plan |
| `bridge_selection` | routes of 2-4 tracks, 3 candidates, 3 feature vectors, rolling and frozen contexts; automatic budgets 1-3, exact counts 0-3 with 1 or 2 per gap, with opening and closing tracks, beams that keep all or one state, guidance and variation; base routes with repeating artists and albums for repairs, fixed gaps and improvements with every goal | results keep route, windows and budget, a plan that was found is not lost again, refusals before the search are justified (`CommandSound`); reported evaluations are those of the final route (`ReportedBridgesHold`); the wide single-bridge search is best |
| `destination_route` | a start, a block of 1 or 2, with and without a rejoin track, 4 candidates, history, 4 casts, 3 windows, budgets up to 3, exact and automatic modes with every caution, 2 distance models, legs without a length, unusable anchors | the preflight refuses only the infeasible and judges what is searched; routes are safe and no search fails after it found a route; the automatic choice is the one its settings ask for; wide searches return the best option of every count |
| `fixed_source_extension` | 3 sources, 3 candidates, 16 artist patterns with joint credits and various artists, own and shared albums, 2 settings of the windows, counts and durations, preserved and routed orders, guidance with and without target shares, budgets of the search that bind | results are admissible; members are the most relevant that fit; a membership's capacities are judged the same way twice; the search is exhaustive unless it says not |
| `request_preparation` | 2 commands of all kinds (trusted or not, with or without cache), some sixty worlds (sound, or with one or two parts of request or artifacts wrong; the bulk query failing or not returning a row, the query for a row failing, not finding it or finding it incomplete), in the sound ones one or two disturbances: a file replaced, a kill, a damaged cache; a cache that is absent, of another version, of the present database, or left under an identity the database no longer has | a job uses the database it names; the report names what was used where the code reads once, and wherever it reads twice it is true of the files still there (`ReportsAreTrue`); the cache file is whole or absent while nobody damages it; `validate`, `route` and `bridge` judge a request alike, trusted or not, cached or not, but for the differences `CommandsAgree` lists |
| `progress_sidecar` | extension and bridge commands, without faults, with writes that may stop after any cell, and with renames that may also be refused | the published file is whole (`SidecarSound`) and implements `ProgressFile`, so progress is monotone (`KeepsPromise`); the command returns; the file never goes missing while renames work and ends "completed" while nothing fails |
| `guidance_host` | 2 addons, 2 score rounds, answers with 0 or 1 signals, score requests that may not fit the pipe | no late answer is taken for another's; rounds are complete; diagnostics are current; only a write can keep the host from finishing, with fairness of the host alone |
| `route_search` | 4 tracks in 4 artist patterns with and without a shared album, 2 windows, one or two tracks of context, transitions that favour the order of the caller or are all equal; no restart, or one with 2 sequences of picks; 2 threads; refused requests | the search ends, keeps the windows, matches the order of the caller, reports no progress it has not made |
| `extension_unnamed_albums` | 3 sources without albums, album window 1, targets 4 and 5, both orders | **violation**: the capacity check refuses a playlist that has a valid order |
| `guidance_pipe` | 1 addon, 1 round, score requests may not fit | **violation**: the host hangs in a write |

Why the bounds suffice.  Repeat conflicts are between pairs, so four members
with windows up to three contain every overlap of two windows; a third
intermediate is the first that can conflict with a first one while the second
stands between them, and that meets the right anchor's window from inside.  Two
gaps are the least number between which tracks, budgets and repeats compete; the
third gap of the selection runs is the first whose context no longer holds the
opening of the route, so that an insertion in gap one changes gap two but not
three.  Two cells per document are the least that can be torn, and each job has
every kind of operation before and after a heartbeat.  Two addons show
interference, two rounds a late answer.  Two commands and one file exchanged in
between are the least that disagree about a cache; every check of the
preparation has a world in which it alone fails.  Four tracks are the least with
an order that two moves, but not one, make valid; the arc search has three fixed
starts, so two threads already hold back a task, and a restart adds a fourth.

Deadlock is checked where a module has a stuttering step for a system that has
ended (`Stopped`, `CommandStopped`); `CHECK_DEADLOCK FALSE` is set for the
searches, the analysis, the sidecar and the host, whose models end in a state
without a successor when the function or the command returns.

### Fairness

`ProgressSidecar` assumes weak fairness of each thread: the operating system
schedules both, `thread::sleep` ends and file operations return.  `GuidanceHost`
assumes it of the host only; addons may stop for ever.  `NoAnswer` is part of
the host because `recv_timeout` returns after its timeout.  When a request fits
into the pipe the write returns whatever the addon does; when it does not, the
write waits for the addon's `Read`, which is not fair, and this is what
`guidance_pipe` shows.

`RouteSearch` assumes only that some thread runs: tasks never wait for each
other.  Its fairness is weak fairness of `Next`, spelt with the phases in which
`Next` is enabled (the deadlock check shows that it is); evaluating `ENABLED`
over the local search would be too slow.  The other models state no liveness:
they are sequences of bounded loops, and where deadlock is checked it shows that
they stop nowhere but at their end.

### Findings

1. *Tracks without an album share a capacity* (`main.rs:4148`, run
   `extension_unnamed_albums`).  The extension counts the empty album key like
   an album and refuses a source playlist with more such tracks than one album
   may have; `repeat_violations` (`route.rs:665`) passes over empty keys.
2. *A guidance request is written without a timeout* (`guidance.rs:392`, run
   `guidance_pipe`), while the module comment (`guidance.rs:3-5`) treats
   timeouts as neutral.

Known divergences without a run of their own.  The first seven have a
configuration that TLC refutes, kept beside the runs:

* `MCAnchoredPathVariation.cfg` (module `MCAnchoredPathSearch`): variation
  leaves its quality band (`anchored_path.rs:580`, the same text at
  `multi_gap.rs:837`).  Paths within both limits are counted, and as many are
  taken from the front of an order that only respects the first;
  `docs/ARCHITECTURE.md:446-448` promises 2% and 5%.
* `MCRoutePublishedIsWhole.cfg` and `MCRouteEndsCompleted.cfg`
  (`MCProgressSidecar`): the heartbeat guard of the route command lives to the
  end of the function (`main.rs:4534`), so its later updates run beside the
  heartbeat through one temporary file name: an unfinished document may be
  published, and a heartbeat may replace "completed" (`main.rs:4635`).
  `docs/ARCHITECTURE.md:90` calls the file atomically replaced, the test at
  `main.rs:9167` expects "completed".
* `MCRouteInfeasible.cfg` (`MCRouteSearch`): "No route satisfies the configured
  repeat windows" (`route.rs:138`) is said when the local search found none
  (`route.rs:367`); for the artists a, b, b, c and window 2, without restarts,
  it misses b, a, c, b.
* `MCValidatedHashes.cfg` (`MCRequestPreparation`): `validate` reports no hash
  for the candidate identities it checked (`main.rs:3241`),
  `docs/ARCHITECTURE.md:156` says all artifacts are bound by hash.
* `MCImprovedLegs.cfg` (`MCBridgeSelection`): in an automatic improvement the
  spacing bridges are judged, and their percentiles reported, before smoothing
  (`main.rs:6398`); smoothing bridges in front of one change its context, and in
  the published route its leg may exceed the limit that
  `docs/ARCHITECTURE.md:545-547` requires of every leg of a repair.
* `MCNarrowBeam.cfg` (`MCMultiGapPlanner`): there is one beam for every number
  of additions (`multi_gap.rs:787`), but a state that a smaller budget could not
  afford may push another out of the beam, and with it the one that stood in the
  way of the plan.  So the budget a repair first succeeds with need not be spent,
  and a plan with fewer additions is found only with a budget for more;
  `RepairSpendsItsBudget` is therefore about limits that prune nothing.
* A late rejection in the search with several bridges per gap is an error
  (`preview.rs:1185`), where `docs/ARCHITECTURE.md:323-330` describes the
  not-found result; the same holds for fixed gaps, whose plan is found by legs
  and then judged by detour (`preview.rs:290`).
* Automatic bridging compares with the direct distance of the original route
  (`preview.rs:996`); `docs/ARCHITECTURE.md:311` says every score includes the
  earlier bridges.
* The destination search keeps one way out per count, so "not found" may be
  said of a request that has a route.  A conflict of the locked context is
  refused by the preflight (`main.rs:411-551`) although
  `docs/ARCHITECTURE.md:470-473` says it does not prevent insertion
  (`ContextConflictIsNoObstacle`).
* A request `validate` accepts may be refused by `route` and `bridge` with
  `DATABASE_QUERY_FAILED` (`main.rs:2799`): without an inventory `validate` never
  makes the bulk query (`main.rs:3117`).  The two also resolve tracks with
  different queries (`main.rs:2990`, `main.rs:3195`).  `CommandsAgree` names both
  as differences and shows there is no other beyond the checks that only planning
  makes.
* A repair or fixed-gap request may ask for frozen contexts (`main.rs:7899-7905`),
  but its artifact names the rolling policy (`main.rs:7521-7556`).

## 4. What is proved

The theorems hold for every value of the constants that meets the named
assumptions; they say for all instances what the runs show on small ones.

| Module proved about | Theorems (the property of a run they state) |
|---|---|
| `RepeatSpacing` | `TypeCorrect`, `MinimumIsLowerBound` (`LowerBound`), `MinimumIsAttained` (`Attained`), `LoopsComputeRecurrence` (`ComputesRecurrence`) |
| `AnchoredPathSearch` | `OptionsAreSound` (`SearchSound`), `StepsAreTheFunction` (`SearchIsAFunction`), `WideSearchLosesNothing` (`WideSearchIsExact`) |
| `MultiGapPlanner` | `ReturnedPlansAreSound` (`PlannerSound`), `FinalProofOnlyTestsFirstTrack` (`OnlyFirstTrackFailsLate`), `WideRepairsSpendTheirBudget` (`RepairSpendsItsBudget`), `WidePlansAreBest` (`WidePlanIsBest`) |
| `DestinationRoute` | `PreflightRefusesOnlyTheImpossible` (`PreflightIsRight`), `DestinationsAreSound` (`DestinationSound`), `AutomaticChoiceIsRight` (`AutomaticOutcome`), `WideOptionsAreTheBest` (`WideOptionsAreBest`) |
| `RouteSearch` | `ProgressNeverAhead` (`ProgressIsTrue`), `AppendRuleIsExact`, `RoutesAreOrderings` (`TypeOK`), `NoTaskLosesGround` (`NeverWorseThanStart`), `ReturnedRoutesAreSafe` (`ResultIsSafe`), `SourceOrderMatched` (`SourceOrderIsMatched`) |
| `ProgressSidecar` | `PublishedFileIsWhole` (`SidecarSound`), `SidecarKeepsPromise` (`KeepsPromise`, the refinement of `ProgressFile`), `FileNeverGoesMissing` (`NeverMissing`), `ProgressNeverRunsBack`, `CompletedIsLast` (`EndsCompleted`) |
| `RequestPreparation` | `UnchangedDatabaseIsUsed` (`PreparationSound`), `CacheIsNeverTorn` (`CacheIsWholeOrAbsent`), `ReportsStayTrue` (`ReportsAreTrue`), `CommandsJudgeAlike` (`CommandsAgree`) |
| `GuidanceHost` | `TypeCorrect`, `AnswersAreMatched` (`AnswersMatchRequests`), `RoundsAreComplete` (`RoundIsComplete`), `DiagnosticsStayCurrent` (`DiagnosticsAreCurrent`) |

The type invariants of `RepeatSpacing` and `GuidanceHost`, the monotony of the
sidecar and the append rule are only proved; no run repeats them.

### The spacing bound

For every set of source routes, track tables and natural windows
(`SpacingAssumption`), the bound on which the repair budgets rest is exact.
Neither direction is inductive.  `IInv` adds to the type invariant and to two
facts about where the loops are:

* `Monotone` - totals never decrease over the members entered so far (members
  inherit their predecessor's total), so the last one is the largest;
* `Relaxed` - every pair the loops have visited is apart by its requirement:
  at the end this is admissibility of `TightPlacement`;
* `Bounded` - no admissible placement has inserted less before any entered
  member: at the end this is the lower bound.

`AdvanceRight` keeps `Bounded` because a placement is increasing, `RelaxLeft`
because an admissible pair stands beyond its window (`SafeIsBeyondWindow`), and
`Relaxed` because a total only grows while its member is the right one.
`BeyondWindowIsSafe` turns the one window the code computes into the three
separate tests of `PairSafe`.

`EInv` adds `Earned`: a total is inherited, or demanded by one of the member's
repeats.  With `Relaxed` it makes every total the maximum the recurrence takes,
so the loops and the recursive function agree, member by member.

### The path search

`Operators_proofs` proves about the operators, for every request that
`IsRequest` admits, that whatever a layer appends and a close accepts passes
each pair of the reference: `PartialPath` is what a path of the frontier
satisfies, and closing makes a `GoodPaths` member of it.  `SearchInv` of the
search says that the frontier holds partial paths and the
options are sound; `FunctionInv` adds `FollowsFunction`, that frontier and options are those of
the function at the same layer and count, so leaving a count early, when its
frontier is empty, is harmless.

That a wide search is exact goes the other way.  By `LayerIsWide`, a layer whose
limits keep everything holds every beginning of every good path: a beginning is
appended (its pairs are pairs of the whole), and no pruning drops it, because the
path itself is the witness that the right anchor can still be met in time.
`FirstCount`, the lower bound on the count, drops only counts that no good path
has.

`IsRequest` asks for distances that are naturals or `Unreachable`, integral
guidance, finite candidate sets, natural limits and an exempt prefix that lies
inside the route searched from.  The last holds for both callers:
`anchored_path.rs:363` passes 0, and the return search passes the length of the
history and the route up to the start (`preview.rs:1774`).

### The planner

`BeamInv` says of every state in the beam that it is `Filled`:

* `FillsGaps`, `FillsAreAllowed` - the route is the source so far with one fill
  per gap crossed, distinct tracks that the gap's candidates allow, no track twice
  and none of the source;
* `MeasuresRoute` - its sum, bottleneck and guidance are those of exactly this
  route;
* `StaysApart` - every pair behind the first track, history included, is apart;
* `KeepsSource`, `StaysInBudget`.

`JoinedIsFilled` is its step: the option of the path search is a good path for
the request the planner builds (`AnchoredPathsAreGood`), and
joining it keeps each part.  `StaysApart` is where both searches meet: pairs with
an inserted track and pairs with the right anchor are judged by the path search
against the prefix it was given, which is the history and the route so far.  Only
the first track is never a right anchor.  Hence `FirstTrackDecides`: the final
proof of a route that crossed all gaps fails exactly if the first track repeats
the history, and then every other route of the request fails as well.  The
planner's late rejection is reached for no other reason.

Two theorems are about limits that drop nothing (`WidePlan`).  They say the
opposite of soundness, that nothing is lost, and every cut of the code has to be
shown harmless for them: the lower bound the budgets start from, the additions
reserved for later gaps, the candidate limit, the beams of the path search and of
the planner.  `WideInv` adds to `BeamInv`, phase by phase:

* `NoPlanIsCheaper` - no good filling needs fewer additions than the present
  budget.  At the start this is the spacing bound, carried over to routes by
  `SpacingIsNeeded`; at the next budget it is that the last one failed for good;
* `BeamKeepsPlans` - the first gaps of every good filling the budget affords are
  a state of the beam.  `CrossGap` keeps this by `CrossingKeepsPlans`: the fill of
  the next gap is a path for the request built for this state (`NextFillIsPath`,
  `NextFillIsSafe`, `NextFillIsReachable`), it fits what the reserve leaves
  (`NextFillHasRoom`: `RestNeedsRoom` says that the gaps to come do need the
  reserve), so a wide path search offers it (`NextFillIsOffered`), and no beam has
  to choose (`BeamKeepsAll`);
* `FailedForGood` - if planning fails although the request is valid and no two
  neighbours of the source are equal, there is no good filling at all.  A beam
  that runs empty, a gap turned down and a final proof nobody passes each refute
  every filling of that budget (`GivenUpRightly`, `FailureIsForGood`);
* `PoolIsBest` - what the final proof leaves is exactly the good plans of the
  budget.

Without `BeamKeepsPlans` the step to the next budget says nothing about the plans
of the last one, and without `NoPlanIsCheaper` success says nothing about plans
with fewer additions.  TLC checked `WideInv` before it was proved.  The attempt
found that the width first stated was not enough: one beam state per *complete*
filling does not hold all *unfinished* fills of a gap, and the path search, whose
beam holds those, could drop the only plan.  `WidePlan` now counts `Crossings`,
the ways to cross the first gaps with the last one perhaps unfinished, and that is
all the two theorems assume of the limits.

`PlanRequestsAssumption` is `IsRequest` for the planner's own request and says
nothing about its validity; invalid requests are refused by `Begin`.

### Destination routes

`Laid` says where the members of a route stand: the source up to the start, the
tracks of the way out, the block, those of the way back, the rejoin track.  It is
equivalent to being one of the reference's routes (`RouteIsLaid`,
`LaidIsUnique`), and all four theorems count positions with it.

*The preflight.*  If a route of the reference has `out` tracks in front of the
block, every fixed pair across them is further apart than its window
(`SafePairIsBeyondWindow`), so `out` is at least what the arithmetic asks for
that pair (`OutwardIsMet`, likewise `ReturnIsMet`): a refused budget has no route
(`RejectionIsRight`).  `ValidIsJudged` shows that the validation's shape implies
the preflight's.

*The search.*  Each half is a path search, so `AnchoredPathsAreGood` applies with
what that half has been given (`BoundaryOptions`).  The return search does not
know the eligible tracks the way out could have used, only those it did use, and
does not compare the rejoin track with what was heard up to the start; `Combined`
tests the joined route again.  `RejoinedRouteIsLaid` and `OpenRouteIsLaid` put the
halves together - distinct tracks, within the common budget - and `LaidIsGood`
shows that the tests of the two searches and of `Combined` cover every pair the
reference judges.  That a final decision never fails (`BoundaryIsFinal`,
`CompleteIsFinal`) is the statement that it looks at no pair that has not been
judged with the same distance before.  `FoundIsSound` is then inductive, in any
order in which the return searches end.

*The choice.*  `Comparing` is what each comparison keeps: the options that are
left have growing counts, every rival of the best by count is either left or
`Passed` (it misses the target, and the incumbent is no worse), and the incumbent
`IsWorthIt`.  `BestByCountIsRanking` shows that sorting the best options of all
counts yields each of them once, in order; it needs that options are finite in
number and their keys integers (`GoodOptionsAreFinite`, `GoodOptionIsMeasured`).

*The wide search.*  With one destination and no way back (`OneWay`), an exact
count and limits that drop nothing (`CutsNothing`), the option of every count is
the best good route.  The prefilter admits everything that may be spent
(`NothingIsPrefiltered`), so the paths of the search are the routes of the
reference: the checks of the search and the pairs of the reference are the same
ones, counted from different ends (`OneWaySafe`), and so are the legs, which the
search and `CompleteOption` measure each for itself (`OneWayLegs`,
`OneWayMeasure`).  The search offers the best path of a count
(`OutwardIsBest`, from the theorem about wide path searches), the checks behind it drop
none (`OneWayCombined`), and ranking by count keeps it (`WideRankingIsBest`).
`Gathering` is the invariant: what is found and what the pending searches will
contribute is always everything.  Stating it for all distances corrected the
property: a route with a leg of no length satisfies the windows but is no path,
so the reference compares only routes that are `Travelled`; the run now has such
legs.

`JobsAssumption` says what data a request comes with (`IsJob`) and nothing about
its validity: anchors that are missing, doubled or out of order are refused by
`Preflight` and `Validate`.

### The route search

For every number of restarts and threads.  `IInv` is about progress: the counter
equals the number of tasks that have counted themselves (`Exact`), what a task
has read is not more than it says now, and so neither is the snapshot
(`Reported`).  `RInv` adds what each task holds and what has been found: a route
under construction has no track twice (`TaskTyped`), a complete one is an
ordering that has come from its start by smaller and smaller keys, so with at
most its repeats, and with as many at most its score (`TaskImproves`); the
candidates are safe, and a fixed start without repeats bounds the primary one,
the arc one by its 8% (`FoundHolds`).  It rests on lemmas about reversal and
relocation, about `Best` (a finite set of integer keys has a least one, by the
well-foundedness of the naturals) and about the greedy pick.
`AppendRuleIsExact` shows that looking back through a window from the end of a
route agrees with counting repeats over all pairs.

`RequestsAssumption` gives the types of a request (natural distances and windows,
integral intensities, `byIntensity` sorted as `IntensityOrder` says, one pick for
each position); `GreedyWidthAssumption` says that the constant of the program is
positive.

### The sidecar

Under `AllGuarded`: each command drops its heartbeat before it reports again
itself, and its last report is "completed".  The extension and the bridge command
do (TLC evaluates `Guarded` for their jobs), the route command does not, and
section 3 names what happens then.  `IInv` explains why one temporary name is
enough: the threads take `Turns`, so the temporary file a thread renames is
`Filled` by its own document, and `PublishedIsOld`: what is published has no
higher rank than anything that may still be.  The refinement maps each step to
`Replace`, to `Vanish` or to a stutter.

### The preparation

For any number of commands, replaced files, kills and failed writes.  An identity
that has been seen either belongs to the past of the database or names the
database on disk (`Observed`, `Names`); `IInv` carries this along the way of each
command (`WorksWithTheNamed`) and through the cache file and the temporary files
(`IsTrue`).  Hence a hit under the current identity is the current database.

`ReportsStayTrue` needs another invariant, `TInv`, since `validate` reads
most files twice and a preparation the database and the identities: a command
hashes first and uses afterwards (`Between` names the stages in the middle), so
what it uses either is the content it hashed or came later.  Every hash is of a
content that some file has had (`seen`) and a new content has none yet, so a
replaced file no longer bears out the report.  The same holds of the hash a cache
keeps (`CacheIsTrue`), which its writer took before it read the rows.

`CommandsJudgeAlike` adds `JInv`: while nothing is replaced, where a command is
tells which checks it has passed (`Judged`), each with the code it would fail
with on the files there are.  `Codes` depends on the command, because the two
sequences have copies of their own; the lemmas under it compare the copies, and
`TracksDiffer` the lookups of a track.  The claim is about commands that work
with the database there is: a preparation that hits the cache under an older
identity, as its caller asked, is left out (`UsesPresentLibrary`).

Assumed of the surroundings: every file is there, versions of the database only
grow with its content (`WorldsAssumption`, `ReplacementsAssumption`; `Replace`
raises the version, as every write changes the size or the times the code takes
the identity from, and brings back no content), and a cache that is there at the
start was stored by some earlier run, of any version and under any identity
(`CachesAssumption`): what an earlier run knew of the database when it stored the
cache, namely that it had hashed it before it read it and found no fault in what
it read.  `PreflightAssumption` lists the codes of the preflights.

### The guidance host

For every finite number of addons and score rounds (`HostAssumption`).  `IInv`
explains why answers need no identification: an enabled session has nothing
outstanding, in its pipe or in its channel, outside the exchange it is in
(`Exchange`), so answers that come late exist only at sessions that are disabled
or closed.  `Talking`, `Spawning`, `Collected` and `Counted` say where the loops
are; `Collected` turns into `RoundIsComplete` when a round ends.  `DInv` adds the
`Fate` of each addon: at most one entry of each kind in the log, there exactly
when what it reports has happened, with the counts of the session.

### How recursion and induction are handled

A theorem of the library that takes an operator as a parameter cannot be
instantiated here.  Induction is done by a least counterexample instead
(`LeastNatural`, from the well-foundedness of the naturals, over a set, not an
operator).  The recursive definitions are recursive functions; a lemma states
their one step, and what follows from it for all arguments is proved by least
counterexample.

### What is only model-checked

* `ExtensionSound`, `SelectionFollowsRelevance`, `DurationMembershipsHold`,
  `MembershipSearchIsExact` of the extension.
* `CommandSound` (`BridgeCommand`), `ReportedBridgesHold` and
  `WideExactSearchIsBest` (`BridgeSelection`): the last depends on a beam over
  whole gaps like the planner's.
* Liveness (`CommandReturns`, `OnlyWritesBlock`, `SearchEnds`) and the two
  violations: fairness and `ENABLED` are beyond the prover.

## 5. Not modelled, and the plan

Feature vectors, contextual distances and semantic evidence are data: the models
take distances and guidance as given.  Integer distances stand for floats, so
NaN and rounding are out; `Unreachable` is the non-finite distance.  Search
statistics, progress events of the planner, error texts and JSON are left out.

* *Semantic evidence* (`semantic.rs`) is text normalisation and set joins over
  provider data; its effect on a selection is the order of candidates.  The
  places it reserves in a shortlist (`main.rs` 5490-5540) are not modelled.
* *Contextual scoring* (`contextual.rs`, `lib.rs`) is linear algebra in floats.
* *Guidance aggregation* (`guidance.rs` 131-270, 811-864) is floating-point
  arithmetic over answers; its results enter `FixedSourceExtension` and
  `BridgeEvaluation` as adjustments, weights and the set of supported
  candidates.
* *Artifacts* are records of what the models compute; their wording and the
  timing report are left out.  `DestinationRoute` assumes that the metadata of
  the request, which the preflight reads, agrees with the library's, which the
  search reads.
* The error "needs at least N additions" of the extension (`main.rs:3754-3763`)
  and the case of `destination_prefilter` with a limit of one
  (`main.rs:8125-8132`) cannot be reached with the program's own constants.

Theorems to add: bounds and soundness of `DurationMembership` and with them
`DurationMembershipsHold`; the insertion lemma of the bridges, that inserting a
safe track keeps all pairs of a route safe.
