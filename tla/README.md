# VeriFact Intake in TLA+

VeriFact Intake turns documents into an ontology: it extracts text, compiles it
into assertions, has a deterministic policy accept them or send them to a human
review queue, promotes what passes to versioned effective facts, and issues an
operation contract to a downstream agent once every required fact is effective.
Each step goes into a hash-chained ledger, and SQLite is the authority.

This directory holds TLA+ modules of that system, translated from the Python
source, the TLC runs that check them, and theorems whose proofs TLAPS checks.
`PROJECT.json` maps each definition to the lines it models. Paths below are
relative to `src/verifact_intake/` unless they begin with a top-level directory.

## The system

| Part | State it keeps | Operations |
|---|---|---|
| Trust policy, `domain/policies.py` | none | `assess`: conflicts and statuses of new assertions |
| Promotion policy, `domain/promotion.py` | none | `promote`: which keys get a new fact version from the reviews so far |
| Ledger, `domain/audit.py` | none; a tuple of events is passed along | `append_audit_event`, `verify_audit_chain` |
| Run aggregate, `domain/run.py` | assertions, conflicts, reviews, facts, events (immutable) | `open_review_count` |
| Repository, `adapters/sqlite_repository.py` | four tables | `save` (one transaction), `get`, `list` |
| Intake service, `application/service.py` | none of its own | `create_run`, `resolve`, `get_run`, `list_runs` |
| Agent gate, `application/agent_gate.py` | none | `build_agent_execution_gate` |
| Nutrient adapter, `adapters/nutrient.py` | request lock, calls and credits used; a cache directory that outlives the process | `extract` |
| HTTP API, `api.py` | the service, built on first use behind `lru_cache` | one endpoint per operation, export |
| Compiler, `application/compiler.py` | none | `compile`: rules, evidence, typed claims |
| Benchmark, `application/benchmark.py` | none | varies the fixtures, scores the policies, reviews by the book |
| Fixture adapter, settings | none | reading files |
| Web client, `web/app.js` | the run it shows, its panels and buttons | asks, renders, reviews |

How they interact. `create_demo_run` is a coroutine: it awaits `extract` for
each document in turn, and from the last document on runs without an await to
the save of the new run. `resolve_review` is a plain function, so the web
framework runs each call in a thread of a pool: it reads the run, computes the
next run from what it read, and saves it, with no lock, version check or open
transaction in between. The gate and the export read the saved run. `get_service`
is a plain function too, and runs in the pool. The page is an event loop of its
own, whose handlers overlap at each `await`.

### What is hard, and what makes each part correct

- *Overlapping reviews.* The second `save` overwrites the projection with a run
  that never saw the first review, while `INSERT OR IGNORE` leaves the other
  tables with some rows of each. The run that survives must still be justified,
  numbered and recorded; what the tables hold beyond it must be backed.
- *Failure between read and save.* SQLite gives up after five seconds on a
  locked database, and the process may die: nothing of the review may remain.
- *Order by wall clock.* The decision that counts is the one with the latest
  `created_at`, ties going to the later one in the tuple; clocks tick coarsely
  and may be set back.
- *Two kinds of equality.* Conflicts are found by canonical JSON, "already
  effective" by Python's `==`, for which `True == 1`.
- *Long sequences of legal reviews*: changed minds, corrections, reviews of keys
  whose decisions `_select` never reads.
- *Money.* The lock is held across a network call with many ways to fail;
  answers are charged, then lost, unmappable or not storable; the budget is
  process-local; two first requests may each build an adapter.
- *Files that change* between the moments they are hashed and read.
- *Text with values in it.* Blocks come in any order, a pattern matches on several
  pages or on none, a number is in words or in digits: what the compiler makes of
  it decides what contradicts what.
- *A page across awaits.* A run is shown before its gate has been asked for;
  requests fail after they were served; answers overtake each other.

`PROJECT.json` lists each hazard at its line with the properties aimed at it.

## The modules

| Module | What it models |
|---|---|
| `TrustKernel` | `domain/models.py`, `policies.py`, `promotion.py`, as operators |
| `AuditChain` | `domain/audit.py`, as operators |
| `AgentGate` | `application/agent_gate.py`, as operators |
| `RunRepository` | the tables and `save`; EXTENDS the kernel and the chain |
| `IntakeService` | `create_run` and `resolve` over the repository: the state machine |
| `IntakeProperties` | what it promises |
| `ReviewedOntology` | what the service promises a reader: the abstract specification that `IntakeService` implements (`IntakeProperties!ImplementsOntology`) |
| `PromotionInputs` | the promotion policy alone, under inputs that its port allows and the service does not make; the code's loop, as the reference |
| `AuditLedger` | a ledger edited behind the service's back |
| `NutrientExtractor` | the adapter, the extraction loop and the service singleton |
| `Compiler` | a rule's search for evidence and the conversion of what it captures, as operators; EXTENDS the kernel, whose policy judges the claims |
| `CompilerLoop` | `compile`, one rule after the other |
| `Benchmark` | the benchmark over compiler and kernel: variations, score, baseline, reviews |
| `WebClient` | the page over the endpoints: clicks, requests, answers, panels |
| `DomainProofs` | lemmas about the kernel and the chain, for the modules below |
| `PromotionInputsProofs`, `AuditLedgerProofs`, `NutrientProofs`, `WebClientProofs` | the theorems of the module each is named after |
| `ApplicationProofs` | the theorems of the compiler and, upon them, of the benchmark |
| `IntakeServiceProofs` | the service: sound, settled, and an implementation of the ontology |
| `IntakeHistoryProofs` | the service: ledger, conflicts, gate and tables |
| `MC*` | small constants for TLC |

How state and actions correspond to the code:

- An assertion is its position in the run's tuple; the UUID of a decision or a
  fact is the number `op` of the call that made it, with the assertion or key.
- `facts` is kept per key, in the order of promotion: no rule reads the order
  between keys, except the one that the ledger records new facts in, which is
  the order of first candidates (`PromotedHeads`).
- A fingerprint is the triple it is computed from, and the hash of an event is
  the sequence of contents it covers: SHA-256 is taken to be collision-free.
- `CreateRun` is `create_run` from the compiled assertions on. `Intakes` is what
  the compiler may produce. `ReadRun(w)` is `resolve` up to its last check,
  `SaveReview(w)` all the rest, `SaveFails(w)` the same with a rolled-back
  transaction, `Restart` the death of the process. `pending[w]` is what the
  thread has on its stack.
- `Save` writes the four tables in one step, as the transaction does; a row whose
  key is taken is dropped without an error, as `INSERT OR IGNORE` does.
- In `NutrientExtractor` a step runs from one `await` to the next. `Submit` is
  `_extract_serialized` up to the post; `Answer`, `AnswerLost` and
  `VendorRefuses` are what comes after it; `Replay` and `Refuse` are the ways
  through the lock without an await. `waiting` is the queue of `asyncio.Lock`,
  which is first come, first served. `service` is what `lru_cache` keeps: nothing
  at the start of a process, so that the first requests may build one each.
  The vendor's side is one action, `VendorAccepts`: it reads and charges. The
  charge is booked on the bytes that were uploaded, which the adapter reads again
  after it has hashed the file, and at the upload, also when the vendor makes it later:
  `bills` may run ahead of the vendor and never behind. `Unreadable` is every
  way for a file to end a request that holds the lock without an await: the
  document to be hashed, its cache entry, the document to be hashed again.
- `ReviewedOntology` knows contested keys, decided keys and facts per key, and
  drafts. `OntologyOf` maps the row and each pending run to it; `SaveReview` maps
  to `Amend`, `ReadRun` to `Read`, a failed save to `Abandon`.
- In `Compiler` a text is named by what it states. `Captures` is the table of
  what each pattern captures in it, `IntegerLiterals` what `int()` accepts; the
  rest of the search and the conversion is the code's. Two exceptions are not
  caught by the loop and leave it at once (`Break`): a group `value` that takes no
  part in the match (`NoGroup`), and a match that `EvidenceLocator` refuses to
  quote (`Unquotable`). No profile in `data/` can meet either. A block's
  confidence outside of 0 to 1 never gets so far: `ExtractedBlock` refuses it in
  the adapter, where it is one of the answers that are not usable.
- `Benchmark` runs on the profile, fixtures and golden file of the repository,
  transcribed in `MCBenchmark`. `RunCase` is one pass of the loop, `Raise` its
  ways to fail. `BuildReviews` makes one decision per assertion under review, so
  that their order is immaterial: it is that of the assertions.
- In `WebClient` a run is the sequence of candidates chosen, and a handler's
  `task` is what it awaits. `Fail` is a request that ends in an error at any of
  its moments, so that what it asked for may or may not have been done, or is
  still to come: a request to create or review that the browser has given up is
  `abandoned` and may be served at any later time (`ServeLate`), while the handler
  has shown its error and given its button back. Reviews
  are served one at a time (overlapping ones are `IntakeService`'s), and the page
  is not loaded anew. `hasty` remembers that a click came while a handler was at
  work or a request that was given up was still with the service.
- A definition whose comment begins with `Mutant:` is a plausible mistake in the
  definition that follows it; nothing uses it. `PROJECT.json` pairs each with a
  property that TLC finds violated when it takes the definition's place.

## The runs

| Run | Instance | Shows |
|---|---|---|
| `concurrent_reviews` | 2 threads, 3 reviews, 2 clock readings, 3 intakes, 1 correction; 82,945 states | a saved run is sound by itself, whatever overlaps, fails or restarts, and the service implements the abstract ontology |
| `serial_reviews` | 1 thread, 3 reviews, 2 corrections, clock free to step back; 179,221 states | without overlap, tables and projection agree, history only grows, conflicts read what has happened |
| `promotion_inputs` | every tuple of up to 3 decisions; 191,956 states | operators equal the code's loop; stale and reordered decisions |
| `altered_ledger` | 3 events, 2 payloads, 2 edits; 131,545 states | what verification notices |
| `extraction` | 2 requests, 2 documents, 4 settings, no service built yet, 1 restart or edit; 551,316 states | lock, cache and budget, and that every request ends |
| `compile` | 3 rules, documents of up to 1 and 3 blocks on 2 pages; 126,701 states | what is read, what fails, what is accepted, what contradicts |
| `benchmark` | the checked-in data, 0, 1, 30, 60 and 61 cases; 172 states | what is claimed of 30 cases holds of any number |
| `page` | 2 handlers, 3 clicks, 2 runs, any request failing, before or after it is served, or served after it failed; 184,360 states | stale panels, answers out of order, dead buttons |
| `lost_decision`, `doubled_submission`, `stale_artifact_hash`, `stale_gate` | two actors, or one and an edit or an error | where the code and its documentation part (below) |

Each finishes within three minutes with two workers.

### The properties

Of a saved run, whatever overlaps: `FactsJustified` (each fact cites assertions
of its key, and its value is one the policy accepted unopposed or a reviewer let
pass), `ConflictNeedsReview` (no fact over contradicting sources before each has
been decided on), `VersionsContiguous`, `LedgerMatchesRun` (the ledger replays
and records the intake, each decision and each fact once), `PromotionSettled`
(nothing that is due is held back), `QueueClearedMeansPromoted`,
`ConflictStatusTruthful`, `LatestChoiceEffective`, `GateHonoursConflicts`; and of
the other tables `TableRowsBacked`. Without overlap also `TablesMirrorProjection`
and `HistoryAppendOnly`.

`LatestChoiceEffective` holds only up to Python's equality and only while the
clock does not step back: with an earlier timestamp, the reviewer's new decision
loses to the old one. `ConflictStatusTruthful` and `PromotionSettled` hold for a
clock that steps back too.

`ImplementsOntology`: each review amends the one key it is about, of the run it
has read, by at most one version, and every other key stays as it was read.

Of the policy alone: `LatestReviewIsLoop`, `StaleReviewsInert`,
`ArrivalOrderInert`, `ConflictHasOneSurvivor`, `SelectionDetermined`. Of the
ledger: `VerifiedIsGenuine`, `HeadHashNamesLedger`. Of extraction:
`BudgetBoundsPosts` and `OneFlightPerExtractor` (of each extractor, however many
there are), `NeverPaidTwice` (while one extractor does the work, which is what
the cache and the lock protect, and uploads what it has looked up: a document that
is replaced between its hash and its upload is paid for whatever the cache holds
of its new content), `EveryRequestEnds`.

Of the compiler: `ClaimsAreRead` (each claim is the typed reading of a block of
its source, of the declared page if one matches there), `AllOrNothing`,
`AcceptedIsWellRead` and `ConflictMeansDisagreement` (with the trust policy: what
passes without a reviewer was legible, and numbers and truth values contradict
each other exactly when a reader, `Means`, takes them for different things). Of the benchmark:
`EveryConflictDetected`, `NoUnsafePromotion`, `ReviewLeadsToTruth` (which also
has each expected fact counted once, as promoted at once or as a review task),
`FailsOnlyWithoutEvidence`. Of the page: `ReviewOfItsOwnRun` and
`ButtonsComeBack` whatever overlaps; `QuietPageIsCurrent` and
`SecondDecisionOnlyAfterError` for a user who waits for each answer.

### The bounds, and why they are enough

- Two keys: one under review and one that is not, which is all that `resolve`
  tells apart. Two candidates per key: chosen and rejected. The three intakes
  have a conflict beside an accepted key, a key with an accepted and an
  unaccepted source (whose review changes nothing), and agreeing but unsure
  sources, on both sides of either threshold.
- Three reviews: one, one that overlaps it, and one after the overlap; or a
  choice, its change, and the change back. Two clock readings: equal and later.
- `true` and `1` are two values of one class under `PyClass`. The correction `1`
  is of the wrong type for the contract and equal to `true`; the other, in the
  runs with one thread, is a value that a source has too.
- Three decisions in `promotion_inputs`: two with equal times around one that is
  earlier, and one for each of two candidates beside a stale one.
- Two documents: one behind the other in the queue. Credits for two calls where
    three are allowed: the credits run out first. One restart or one edit; the
  theorems hold for any number of both.
- Three blocks in a document: one that matches on the declared page, one on
  another, and one that does not match or does not convert. The other document
  has at most one block, which may break the loop in either way.
- The variations of the benchmark have periods 3, 4 and 5: sixty cases are all
  combinations, 61 begins again, and 0 is refused.
- Two handlers on the page, the first of them `loadLatestRun`; three clicks: a
  new run beside two reviews, or a review that is sent again after an error.
- Deadlock is not checked where the number of reviews, events or decisions is
  bounded (the service then idles); the extraction run checks it.
- Symmetry is declared for the two threads, in a run without liveness.

### The fairness assumed

`EveryRequestEnds` assumes weak fairness of `Proceed(r)`, one request at a time:
the event loop runs whatever is ready, pool threads finish, and a post ends
after the 60 seconds the client is given (`adapters/nutrient.py:96`), so that
`VendorRefuses` is what happens when nothing else does. The vendor's answer is
under no fairness. `ButtonsComeBack` assumes the same of `Proceed(h)` of the
page: a `fetch` ends in an answer or an error, and the browser runs the handler
on. Which of the two it is, and in which order answers come, is left open; clicks
are under no fairness. No other property rests on fairness.

### Where code and documentation part

- `lost_decision`: "Every decision is appended rather than overwritten"
  (`docs/DEVPOST_DRAFT.md:36`). Two overlapping reviews: the later save drops the
  earlier reviewer's decisions from the run, its facts and its queue.
- `doubled_submission`: the comment at `adapters/nutrient.py:59` holds of one
  extractor. `lru_cache` lets two first requests each build one, with a lock and
  a budget of its own.
- `stale_artifact_hash`: "A `SourceArtifact` is immutable and content-addressed"
  (`docs/ARCHITECTURE.md:37`). `create_run` hashes the file again after awaiting
  its extraction, so a file replaced meanwhile lends its hash to assertions that
  came from another.
- `stale_gate`: "The downstream agent gate is visibly blocked before those
  decisions" (`docs/DEMO.md:42`). `renderRun` shows the new run before it asks
  for its gate: if that request fails, the READY gate of the run before stays.

Of the same causes, and not runs of their own: the overlapping reviews of
`lost_decision` number their ledger events alike, so that the ledger table drops
the later ones (`docs/VIDEO_SCRIPT.md:77` has every review recorded); the
extractors of `doubled_submission` each have a whole budget
(`docs/NUTRIENT_DWS.md:43` gives one per process); and of two reviews clicked one
after the other, the page may end up showing the answer to the first
(`docs/VIDEO_SCRIPT.md:62` has the queue shrink). The benchmark's baseline
chooses for the conflicting keys, not "for every fact key"
(`docs/BENCHMARK.md:9`).

## What is proved

For every value of the constants (any keys, values, intakes, threads, bounds and
clock), from the assumptions named `...Assumption` in the modules, which TLC
evaluates in the runs:

| Theorem | States |
|---|---|
| `IntakeServiceProofs!TypeCorrect` | `Spec => []TypeOK` |
| `EveryFactJustified` | `Spec => []FactsJustified` |
| `NoConflictPromotedUnreviewed` | `Spec => []ConflictNeedsReview` |
| `VersionsWithoutGaps` | `Spec => []VersionsContiguous` |
| `SavedLedgerVerifies` | every saved ledger verifies |
| `NothingDueHeldBack` | `Spec => []PromotionSettled` |
| `ServiceImplementsOntology` | `Spec => ImplementsOntology` |
| `ContestedKeysAwaitDecisions` | of the abstract specification: no fact on a contested key before a decision on it |
| `ServiceKeepsTheBoundary` | so of the service, by the two theorems before |
| `IntakeHistoryProofs!LedgerRecordsTheRun` | `Spec => []LedgerMatchesRun` |
| `ConflictStatusIsTruthful` | `Spec => []ConflictStatusTruthful` |
| `EmptyQueueMeansPromoted` | `Spec => []QueueClearedMeansPromoted` |
| `LastWordIsEffective` | `MonotoneClock => (Spec => []LatestChoiceEffective)` |
| `GateHonoursOpenConflicts` | `Spec => []GateHonoursConflicts` |
| `RowsAreBacked` | `Spec => []TableRowsBacked` |
| `SerialTablesMirror` | with one worker, `Spec => []TablesMirrorProjection` |
| `SerialHistoryStays` | with one worker, `Spec => HistoryAppendOnly` |
| `SerialDecisionsStay` | with one worker, `Spec => []EveryDecisionAppended` |
| `PromotionInputsProofs!KernelKeepsWhatTheLoopKeeps` | `Spec => []LatestReviewIsLoop` |
| `StaleReviewsHaveNoEffect` | `Spec => []StaleReviewsInert` |
| `StorageOrderHasNoEffect` | `Spec => []ArrivalOrderInert` |
| `SelectionIsDetermined` | `Spec => []SelectionDetermined` |
| `ConflictEndsWithOneSurvivor` | `Spec => []ConflictHasOneSurvivor` |
| `DomainProofs!HeadHashDeterminesLedger` | verified ledgers with one head hash are one ledger |
| `AppendKeepsVerified`, `BeginningVerifies` | appending to a verified ledger, and beginnings of one |
| `AuditLedgerProofs!HeadHashIsALedgersName` | `Spec => []HeadHashNamesLedger` |
| `VerifiedLedgersAreGenuine` | `Spec => []VerifiedIsGenuine` |
| `ApplicationProofs!NothingManufactured` | `Spec => []ClaimsAreRead` |
| `CompilationIsAllOrNothing` | `Spec => []AllOrNothing` |
| `AutoAcceptanceIsWellRead` | `Spec => []AcceptedIsWellRead` |
| `DisagreementIsMeant` | `Spec => []ConflictMeansDisagreement` |
| `ContestedNeverPromoted` | `BenchmarkSpec => []NoUnsafePromotion` |
| `RecallIsWhole` | `BenchmarkSpec => []EveryConflictDetected` |
| `BookReviewEndsInTruth` | `BenchmarkSpec => []ReviewLeadsToTruth` |
| `ReviewerHasOneChoice` | `BenchmarkSpec => []FailsOnlyWithoutEvidence` |
| `NutrientProofs!BudgetHolds` | `Spec => []BudgetBoundsPosts` |
| `OneFlight` | `Spec => []OneFlightPerExtractor` |
| `CachedIsNotPaidAgain` | `Spec => NeverPaidTwice` |
| `ExtractorTyped` | `Spec => []TypeOK` |
| `OneExtractorSubmitsOnce` | `Spec => [](OneExtractor => SingleFlight)` |
| `ArtifactsNameTheirSource` | `Spec /\ EditedAtRest => []ArtifactHashNamesSource` |
| `NobodyWaitsForNothing` | who waits for a lock waits for a post under way, or for one whose turn it is |
| `WebClientProofs!PageTyped` | `Spec => []TypeOK` |
| `ReviewsGoToTheirRun` | `Spec => []ReviewOfItsOwnRun` |
| `PageAtRestIsCurrent` | `Spec => []QuietPageIsCurrent` |
| `NoHiddenSecondDecision` | `Spec => SecondDecisionOnlyAfterError` |
| `GateBlockedUnlessError` | of a user who waits, and was shown no error, `GateBlockedBeforeReview` |
| `DeadButtonsAreAwaited` | a disabled button belongs to a handler that awaits an answer |

Two hypotheses stand beside the named assumptions. `MonotoneClock` is a constant:
a clock that steps back makes `LatestChoiceEffective` false, and the theorem
says that nothing else does. `OneWorker` says that reviews do not overlap, which
is what `lost_decision` shows to be needed.

*The four disagreements.* Each promise that a run refutes has a theorem that says
when it holds, and so what the code would have to see to. Decisions are only
appended while reviews do not overlap (`SerialDecisionsStay`). A document is
submitted once while one extractor of the process sends anything
(`OneExtractorSubmitsOnce`). An artifact's hash is that of the document its blocks
come from when documents are replaced only while no run is being created
(`ArtifactsNameTheirSource`, whose hypothesis `EditedAtRest` is about the steps;
restarts, overlaps and cached answers are left free). The gate is blocked before
review for a user who waits for each answer, unless the last notice was an error
(`GateBlockedUnlessError`): the request that fails is the one thing that leaves an
old gate beside a new list.

*The service.* The properties of the row are not inductive: a save publishes a
run computed from one that was read any number of steps ago. `IInv` therefore
says of every run an unfinished review holds what it says of the row (`RunOK`:
typed, justified, reviewed where contradicted, numbered, ledger verifying, and
`SourcesAgree`, that statuses mark conflicts as the assessment did). The lemmas
go up the policy: what `SoleApproval` and `AutoAcceptance` yield is justified,
hence what `Select` does, hence a new fact; `NextVersion` is one more than the
length of a contiguous history; adding new facts to a sound run keeps it sound,
since facts, decisions and versions only grow. The step proof then has one lemma
per action, and only `CreateRun`, `ReadRun` and `SaveReview` change anything
`IInv` looks at.

*The ontology.* That a review touches one key only is not obvious: `promote`
looks at every key again. `SettledInv` adds to `IInv` that in the row, and in
every run under review, nothing that is due is held back; then a review can
bring a new fact to its own key alone, since the candidates, decisions and facts
of the others are as they were, and `NewFact` of them is empty still. That is the
step from `SaveReview` to `Amend`; the other actions map to `Publish`, `Read`,
`Abandon` or a stutter.

*What a run remembers.* `HistoryInv` adds `HistoryOK` to `SettledInv`, of the row
and of every run under review, in four parts. `ReviewsOK`: a review decides on
every candidate of its key once, on the assertion as it is, and lets one through;
reviews are ordered by `op`. `LedgerOK`: the events are as many as it takes, and
the payloads of each type are those of the decisions and the facts. That nothing
is recorded twice is then a matter of counting, for which the enumerations of
`Ascending` must be shown to cover their sets. `ConflictsOK` ties a conflict's
status to the decided keys, and `DecidedHaveFacts` a decided key to a fact: the
first review of a key lets one candidate through, so that `Select` has a value
for it, which is effective or is promoted; later reviews take no fact away. That
is why a conflict may be marked resolved without a look at the promotion, and
why a clock that steps back cannot spoil it. Such a clock does spoil the *last*
choice: `LastWordIsEffective` needs the times of later reviews to be no earlier
(`ReviewsInOrder`).

*The tables.* `TablesInv` relates a review under way to the tables as they have
become since it was read: its decisions are in the review table for good, and
the table holds none of its own number. A fact is backed by the decisions it was
computed from, which `INSERT OR IGNORE` never removes; that its rows are written
in the same transaction is what the step proof uses. With one worker, the run a
review holds is the row itself (`SerialInv`), no key of a new row is taken, and
tables and run grow by the same.

*The policy alone.* The kernel's `LatestReview` is a set of latest decisions, the
code a stable sort and a loop that overwrites. The proof goes through what a
fold does: `FoldExists` shows that the function by which the library defines
`FoldLeft` exists, and with it that the result is the end of a run of steps, one
per element (`SortedRuns`, `LoopRuns`, `ValidRuns`). Along that run
`Arranges` says that what is sorted so far is a permutation of the prefix that
ascends by time and keeps equals in order, and `Holds` that the dictionary has
the last valid decision of each assertion. Both are inductions: the set of
lengths at which they hold contains zero and with each number its successor
(`CountingUp`, from the least number of the complement). The three other
properties of the tuple follow from one lemma (`LatestOfSameOrder`): an embedding
of one tuple in another that keeps `SortedAfter` and leaves out only what does
not count has the same latest reviews.

*The ledger.* A chain that verifies is the replay of its own entries, so that its
head hash is the sequence of its contents and determines it. Under alterations
the strengthening is `NoForgedHash`: an edit can put hashes of genuine events in
other places, and no other hash; a chain that verifies and carries only genuine
hashes ends in the hash of some genuine event, and equals the genuine beginning
that ends there.

*The compiler.* `LoopInv`: each rule behind the loop has a reason among the
missing or its claim in place, claims and rules are in step while nothing is
missing, and what breaks off stands at a rule without a claim. `ApplicationProofs` goes from there to the trust policy: an assertion that
is accepted has the confidence of a rule's claim, which is the least of the
rule's and the block's. `DisagreementIsMeant` assumes of a reader
(`MeaningAssumption`) that captures which state a number or a truth value are
taken for it, in words or in digits, and of JSON that different numbers have
different texts; that the conversion keeps the two in step, through the evidence
the search has found, is the theorem.

*The benchmark.* What it claims is a fact about one profile, its fixtures and its
golden file, and false of others: the theorems say of which. `OracleAssumption`
has the golden file right about the profile and the fixtures: of the rules for a
key, one reads the expected value and the others read different ones, in
whatever wording the variations give the blocks, and the expected conflicts are
the keys with several rules. `FixtureAssumption` has a document for each source.
TLC evaluates both for the files of the repository; no step of the loop is
computed by the prover. From them comes `Told` of whatever a case compiles to: one
claim per key is true. A key with two rules is then a conflict, which the policy
does not accept; each key under review has one expected candidate, which review
by the book approves and the others of which it rejects, so that `Select` has one
value for it; and the facts are as many as the keys, by the bijection between
them, before the review (for the keys nobody has to see) as after it. `BenchmarkInv` sums these equalities over the cases. The number of
cases is free, and the proof looks neither at the periods of the variations nor at
the confidences they set.

*The extractor.* `FlightInv`: whoever has a post under way has reserved it, holds
the lock of its extractor and, while no other extractor of the process has
reserved a call, has looked for what it posts in the cache in vain. That this is
what is uploaded is the hypothesis `AsLookedUp` of `NeverPaidTwice`. The end of a post writes to the
cache and lets the lock go: within one extractor nobody else is under way, and
two extractors under way have both reserved. For the types `LineInv` adds that
whoever is queued is in the line, so that the lock is only passed on to someone,
and that an extractor still being built has no users. `QueueInv` is the converse:
who is in a line wants its lock and is in it once, and who holds a lock has a post
under way. Together they leave no request waiting for a lock that is neither held
nor free for the first in line, which is the safety half of `EveryRequestEnds`.
`OriginInv`, for the hashes, says that answers are kept under the hash of the
document they were computed from.

*The page.* `PageInv`: a handler that awaits something awaits it of a run that
exists, what it sends is about the run of the list it was clicked in, also when
it is served after it was given up, and one handler at most is creating a run,
since the button is dead meanwhile.
`PatientInv` says of a user who has waited: one handler at most is at work, and
what it has in hand is the present state of its run, whether that is the answer,
the panels or the gate and ledger that it has fetched so far. That is what makes
the page current when it comes to rest, and a key undecided when a review of it
is sent, unless the last notice was an error. `DeadButtonsAwaited` is inductive
beside `PageInv` and needs no patience: it is the safety half of
`ButtonsComeBack`.

## What is only model-checked

- Liveness (`EveryRequestEnds`, `ButtonsComeBack`): fairness and ENABLED are out
  of the prover's reach. That nothing is in the way of either is proved
  (`NobodyWaitsForNothing`, `DeadButtonsAreAwaited`).
- The four disagreements between code and documentation: each is a behaviour
  that TLC exhibits.

## What is not modelled

The fixture adapter (reads one JSON file), the command-line scripts beside the
generation of documents (one-shot, without state), `loadBenchmark` of the page
(fills a panel of its own once), and styles. Of the modelled parts: several runs
in one database (every statement is keyed by the run), the reading endpoints, the
append-only triggers (the code issues no statement they would stop), cancelled
requests, the fraction of a credit, quotes (but for those that are refused) and
bounding boxes, the ratios of the benchmark's report,
wording, URLs, and names. Regular expressions and Python's `int()` are tables,
and SHA-256 does not collide.

## The plan

Done, the most important behaviour first: the way from a document to a fact
through the trust boundary (kernel, chain, gate, repository, service, and their
proofs), the extraction adapter, the abstract ontology and its refinement, the
compiler, the page, the benchmark, and the proofs named above, which cover every
safety and action property of the passing runs.

Left, in this order:

1. The page beside the service with overlapping reviews, in one composition.
2. `EveryRequestEnds` from `NobodyWaitsForNothing`, by hand along the number of
   documents left and the places in line, when a prover handles fairness.
