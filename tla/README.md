# A verification development of rag-boilerplate

TLA+ modules, TLC configurations and TLAPS proofs about the two services of this
repository: RAG Core (`src/services/core-rag-api`) and the Embedding API
(`src/services/embedding-api`). Each module says at its top what it abstracts from;
`PROJECT.json` maps each definition to the lines it stands for. Paths below are
relative to the repository, and the short names are

| short | file |
|---|---|
| COL | `services/core-rag-api/src/rag_core/application/collections.py` |
| CAT | `.../rag_core/adapters/catalog/qdrant.py` |
| VS, QH, FIL | `.../rag_core/adapters/vector_store/qdrant.py`, `_http.py`, `_filters.py` |
| RAG, VAL | `.../rag_core/application/rag.py`, `validation.py` |
| CH | `.../rag_core/domain/chunking.py` |
| EH | `.../rag_core/adapters/embedding/http.py` |
| HT, FK | `.../rag_core/transport/http.py`, `adapters/fakes.py` |
| EM, ST, ETH | `services/embedding-api/src/embedding_api/application/embed.py`, `adapters/sentence_transformer.py`, `transport/http.py` |

## 1. Inventory

RAG Core is one asyncio process. A request is a coroutine that runs without
interruption between awaits, so the hard part is what happens *at* the awaits: another
request runs, a call to Qdrant or to the Embedding API fails before or after it took
effect, a timeout cancels it, or the process dies.

| component | state | operations | what makes it correct |
|---|---|---|---|
| Lifecycle service (COL) | none of its own; a request's locals | `create`, `provision_generation`, `activate`, `retire`; `list`, `inspect` only read | one active generation; a cutover replaces what the caller expected; nothing half-built is served; a failure is recorded; alias and catalog agree; nothing comes back that nobody revalidated |
| Catalog adapter (CAT) | one Qdrant point per generation; `_state_lock`; `_initialized` and `_initialize_lock` | `add_generation`, `get_active`, `update_state`, `set_active`, `retire_logical`, `list_logical`, `ready`, and `_ensure_catalog` before each | each compare-and-set is atomic; a failed generation stays failed and a retired one until it is revalidated; nothing runs before the collection and its indexes exist; listings neither repeat nor skip |
| Vector store adapter (VS, QH, FIL) | physical collections, aliases, points, a schema marker in each collection | build, verify, `activate_alias`, `retire_alias`, `upsert`, `search`, both deletions | a replay repairs a partial write; a search stays within tenant and record type |
| RAG service (RAG, VAL) | none; a request's locals | `ingest`, `delete`, `retrieve` | a document is never lost while it is replaced; success means stored; hits are the best matching chunks |
| Chunking (CH) | the loop's window | `normalize_text`, `chunk_text` | it ends, loses no text, keeps size and overlap |
| Embedding gateway (EH) | attempts of the current batch | `embed`, `ready` | each chunk gets its own vector; retries are bounded |
| Idempotency (HT 541-552, FK 195-242) | a map from key to hash and response, in memory | `begin`, `complete`, `abandon` | one execution per key, faithful replays, no key held for ever |
| HTTP transport (HT) | none; a readiness request's outcomes | routes, deadlines, readiness, mapping of errors | requests end; readiness tells the truth |
| Embedding API (EM, ST, ETH) | the loaded model | `POST /v1/embeddings`, `ready` | limits in order; no input is truncated |
| Settings, errors, telemetry | configuration | | nothing a property depends on |

**Interaction.** HTTP executes a handler, inside `_idempotent` where the route takes an
Idempotency-Key. The lifecycle service calls the catalog and the vector store; the RAG
service reads the active generation from the catalog once, then calls the gateway and the
vector store with that generation's physical name. All of it shares one Qdrant and
nothing else: the catalog's `_state_lock` covers `update_state`, `set_active` and
`retire_logical`, not `add_generation`, the alias, or any document. Every catalog
operation first passes `_ensure_catalog`, which creates the private collection under
`_initialize_lock`; a request that holds the state lock may wait for that one and never
the other way round, so the two cannot block each other. `GET /health/ready` asks the
gateway, the vector store and the catalog at once and cancels what does not answer.

**Hard behaviours.** Interleavings at awaits; a read that is stale when it is used; calls
that fail after taking effect, or take effect after they failed; crashes between steps
(nothing at start-up repairs anything); retries with and without a key; limits met
exactly; two layers that validate the same value with code of their own. `PROJECT.json`
lists each at its line, with the properties that would catch it going wrong.

## 2. Modules

| module | models |
|---|---|
| `GenerationCatalog` | what the catalog promises: atomic add, ready, failed, cutover, retirement and revalidation over a map from generations to states |
| `CollectionLifecycle` | COL with CAT and the lifecycle half of VS; refines `GenerationCatalog` |
| `DocumentIngestion` | `ingest`, `delete`, `retrieve` on the points of one collection, while `GenerationCatalog` moves its generations |
| `ServedCollection` | `CollectionLifecycle` and `DocumentIngestion` at once, on one catalog; a theorem says that it refines `DocumentIngestion` |
| `IdempotentRequests` | `_idempotent` with `InMemoryIdempotencyStore` |
| `TextNormalization`, `Chunking` | `normalize_text`, `chunk_text` |
| `EmbeddingService`, `EmbeddingCalls` | the Embedding API's answer to one batch; the gateway and the batch loop of `ingest` |
| `Retrieval` | metadata and filter validation, filter translation, Qdrant's matching, score, rank and cut |
| `CatalogAccess` | `_ensure_catalog`, `list_logical` over several scrolls and pages, `ready` of the catalog |
| `Readiness` | `GET /health/ready` on top of `CatalogAccess`, which it refines |
| `MC...` | sets and symmetry for TLC |
| `...Proofs` | theorems; one module each, one for `GenerationCatalog` and `CollectionLifecycle` together, one for `TextNormalization` and `Chunking`, one for `EmbeddingService` and `EmbeddingCalls`, one for `CatalogAccess` and `Readiness` |

**CollectionLifecycle.** `pc[h]` is the call handler `h` makes next, `req[h]` its local
variables, `catalog`, `physical` and `alias` what Qdrant keeps, `lock` one `_state_lock`
per replica, `late` the catalog writes that timed out and are still under way. A step is
one awaited call with everything the coroutine does until the next await. Actions and
code: `BeginCreate` and `BeginProvisionGeneration` to `VerifyCollection` and the pair
`MarkReady`, `CommitReady` (a read and a write of `update_state`) are `create`,
`provision_generation` and `_provision`; `Recover`, `MarkFailed` and `CommitFailed` their
`except` paths; `BeginActivate`, `RequireActive`, `ActivateAlias`, `SetActive`,
`ReadTarget`, `CommitActive` and `Confirm` are `activate`, the last five also the end of
`create`; `BeginRetire`, `RetireLogical`, `ListGenerations`, `CommitRetired` and
`RetireAlias` are `retire`.

`BeginRevalidate` and `Revalidate` are a *rollback*, retired to ready to active, which
`docs/architecture/rag-core-api-decisions.md` 292 defines, and which
`docs/impl/rag-core-implementation.md` 178-182 and two tests
(`test_collections_application.py` 121, `test_qdrant_integration.py` 90) make by calling
`update_state(RETIRED, READY)` on the catalog and then `activate`. No route does so: the
caller is an operator, modelled as one more request of a handler, which takes the same
lock (an operator with a catalog of his own is another `Replica`). That he has seen the
collection to be complete before he revalidates it is what "explicitly revalidated" is
taken to mean, an assumption about him. `update_state` itself compares whatever two
states it is given (`CompareState`, and `UpdateState` of the port); building to ready,
building to failed and retired to ready are the pairs used anywhere in the repository.

A write by the catalog is a batch that maps generations to states; it is applied whole,
because it is a single upsert of one point for each generation of the collection, which
Qdrant logs as one operation, and an unanswered one is applied, lost, or (`LateWrites`, at most
`MaxLate` of them at a time) applied later. `AtMostOneActive` and
`OnlyRetirementDeactivates` rest on that. Documents are given the weaker assumption
(below), since an ingest upserts as many points as the document has chunks. A listing is one step here and several in
`CatalogAccess`, which in turn keeps of a record only whether it is active.

**DocumentIngestion.** A point is a generation, document, version and chunk number. An
upsert and a deletion by filter are single calls of Qdrant that may, when they fail,
have been applied to any subset (`Unreliable`) and may land later (`LateCalls`).
`Exclusive` is not in the code: it restricts the *clients* to one write of a document at
a time, and to wait, after a request that timed out, until its calls can no longer land.
Its value in a configuration says which question is being asked. Embedding changes no
point and is the step from `BeginIngest` to `Upsert`. The environment takes every step
of the abstract catalog, from any state (`Start`). `activated` only observes: it remembers
which generations have been active, since a rollback makes ready a generation that
rightly holds documents.

**ServedCollection.** `app.state.collections` and `app.state.rag` work on the same catalog
and the same vector store (HT 213-214), so a step is one of `CollectionLifecycle`
(`Manage`) or one of a request for documents (`Serve`). They share `catalog`; what
`Serve` reads of it is the active generation. The check of the physical collection in
`_active_verified` (RAG 205-208) is left out of `Begin`, in which a request may therefore
go on where the code would refuse: `DocumentsAreIndexed` says that it never has to.

**IdempotentRequests.** A record is unbound, reserved (hash, no response) or completed.
The execution may have an effect and then fail. `complete` and `abandon` do not suspend
with the in-memory store; the model gives each a step of its own, so it has a few more
interleavings than the program. A restart empties the store and keeps the work.

**Chunking.** Characters are kinds (letter, space, newline, other whitespace; six kinds
before normalization), a chunk is the set of positions it was cut from, so that loss and
overlap can be stated. `Documents` are the normalizations of what clients send (`Raw`)
that are not blank. Every step of `normalize_text` drops characters or replaces them one
by one: it is the set of positions it keeps (`Keep`) and, for newlines and tabs, a
replacement. Unicode composition and the hashes that become ids are left out.

**EmbeddingCalls.** A chunk is its size in bytes and tokens; a vector is the number of
the chunk it was computed from and how many of its tokens it reflects, so that a
truncated or a swapped one shows. The answering service is the Embedding API with a
configuration like RAG Core's or another one, or a *foreign* one, of which all that is
assumed is that an item carries the vector of the input its index names. Time is in
ticks. An httpx timeout limits each wait (connect, send, each part of the answer), not
their sum, hence `Waits`. Start-up and warm-up of the service are posts that fail.

**Retrieval.** A filter is a tree as `RagService.retrieve` receives it (HTTP cannot even
build a `not` with several clauses), given as a function from paths to nodes; the
recursions over it (`Visit`, `Satisfies`, `Means`) are recursive functions on the paths; a value is a type and a number; a document has one
chunk, there is one query, and the similarity of each chunk is arbitrary. Rounding is
integer division. Another tenant's chunk is there because `trusted_tenant_id` is
configuration (VS 94), and two instances may share a Qdrant. A search asks for that tenant
(`Trusted`) *and* for the one that RAG 184 names (`Local`); `create_app` leaves the
configuration at its default, and only this case, in which the two are the same, is
modelled. Euclidean scores (negated
and decoded) are left out, and so are the range checks of `top_k` and `minimum_score`,
which HTTP makes first.

**CatalogAccess.** `collection`, `indexes` and `records` are what Qdrant keeps,
`initialized` and `lock` the double-checked flag of each replica, `pc[h]` the call a
request makes next. `late` holds the creations that will still take effect although
nobody waits for them; conflicts (another replica was first) are passed over, as in
CAT 330. Actions and code: `EnterLock` to `Initialize` are `_ensure_catalog`, `Scroll`
and `Sort` are `list_logical`, `ReadyZ` to `Probe` with `Cancel` are `ready`; a request
that changes a record is `BeginWrite` and `Write`, whose outcomes are those
`CollectionLifecycle` allows. `BeginList`, `NextPage` and `Return` are a *client*, who
keeps the cursor, asks again for a page that failed, and may change the page size. Two
variables only observe: `steady`, the generations active since the client began, and
`once`, those active at some time of its current request. The three payload indexes are
`Indexes`, the page of 256 and the limit of 10 000 points are `PageSize`, `MaxResults`.
The details the route adds to each item of a page (HT 402) are read later and are not
part of what is claimed.

**Readiness.** `checks` are the outcomes of the gateway and the vector store, which may
answer, refuse or hang; the catalog's is the probe of `CatalogAccess`, which it extends.
Each bound is a cancellation that may come at any time: the catalog's own (`Cancel`) and
the total (`TotalTimeout`), which forgets the answers already given (HT 326-327).

## 3. Runs

| run | instance | shows |
|---|---|---|
| `ServedCollection` | 3 generations, 2 lifecycle handlers, 1 replica, 1 document handler that ingests 1 document of one chunk, rollbacks, crashes, failures, late calls for documents, `Exclusive` | one active generation, expected cutovers, no accidental deactivation, nothing restored but by a rollback, complete retirements, refinement of `GenerationCatalog`; documents only reach finished collections |
| `LifecycleWeakest` | 2 generations, 2 handlers, a late write, rollbacks, failures, crashes, fairness | only what is built is served; failures are recorded; every request is answered |
| `LifecycleAliasRace` | 3 generations, 2 handlers, no failure | **violated**: the alias and the catalog disagree at rest |
| `IngestionSerialized` | 2 generations, 1 document, three versions, of 2 and of 1 chunk, 2 handlers, partial failures, late calls, cutovers, rollbacks, `Exclusive` | a document never vanishes while it is replaced; acknowledged means stored; only generations that are or were active are written |
| `IngestionRace` | 1 document, 2 versions, no failure | **violated**: two ingests erase each other's version |
| `IngestionSearchMix` | the same, one writer and one search | **violated**: a search returns two versions |
| `Idempotency` | 2 keys, 2 bodies, 2 executions, 2 handlers, restarts | one execution per key, faithful answers, no key held for ever |
| `Chunking` | texts that 6 arbitrary characters normalize to, all normalized texts up to 8, sizes 1-4, overlaps 0-4 | nothing lost, sizes, overlaps, termination, normalization is stable |
| `EmbeddingCalls` | documents of 1, 4, 7 chunks within and beyond each limit, batches of 3, 3 attempts | vectors belong to their chunks; posts and time are bounded |
| `Retrieval` | 4 fields (one of them not indexed), 7 metadata, filters of every shape one past each limit, 2 chunks | refusals exactly as the grammar says; hits are the best |
| `Readiness` | 3 generations of 2 collections, scrolls of 1 point up to 2, pages of 1 or 2, 2 indexes, 1 replica, a client that lists beside writes and probes, failures, late creations, crashes, fairness | listings are faithful, the limit is exact, ready means ready, every request ends, refinement of `CatalogAccess` |
| `RetrievalNumbers` | the same, documents only | **violated**: an accepted integer is refused by the adapter |

*Why these bounds.* A lifecycle race needs a request that read and one that changed what
it read: two handlers (a third, tried without the requests for documents, finds nothing
more); three generations give an active one, a target, and one that is neither.
Generation ids are fresh UUIDs, so the supply `Gen` bounds a behaviour and nothing else
does; the theorems do not depend on it. With the liveness run at two and two, the lock
is contended by each pair of operations; one late write at a time (`MaxLate`) still lands
before, between and after the steps of both requests, and the theorems put no bound on
it. An ingestion hazard concerns one document: with the rollbacks a second one has more
than six million states, and what another document could suffer, a deletion by the wrong
filter, is ruled out by the theorems, which hold for any documents. The third version is
there so that an old, a current and a newer one meet, and versions of different lengths
so that a shorter one leaves stale chunks. In `ServedCollection` one ingest is at any of
its steps while two lifecycle requests are at any of theirs; one chunk is enough, since
what matters there is the collection it goes to, and deletions and searches, which read
the active generation as an ingest does and store nothing, are left to the theorems and
to the ingestion runs.
A chunking window of at most 4 in a text of 8 is cut, overlaps and advances several
times, with and without a break, in every arrangement of the four kinds. Documents of 1,
4 and 7 chunks in batches of 3 have a short last batch after none, one and two full
ones. `Deadline` 10 makes the cap on pauses (a tenth) bind at the second pause. The
filter limits are 3 levels, 2 conditions, 2 values, and the filters go one beyond each.
In `Readiness` three generations exceed the limit of two, and two of them belong to one
collection, so that a cutover can hide one and show the other between two scrolls or two
pages; two indexes have a state in which one is missing; the second slot writes and
probes, so that it waits for the lock, holds it and is cancelled at each call;
`LateCalls` 2 lets the collection's creation and an index's be under way at once. One
replica is enough for TLC, since a late creation is to this replica what another one's
is; the theorems hold for any number.

*Deadlock* is not checked anywhere because every instance really stops: ids, keys, texts
or batches run out with no request under way.

*Fairness.* `CollectionLifecycle` assumes strong fairness of each handler's next step:
every awaited call is bounded by the deadline, so a request that is under way moves on,
and `asyncio.Lock` wakes its waiters first in first out, so one that waits is not passed
over for ever (strong fairness is what FIFO gives to a waiter whose lock is repeatedly
free and taken). It excludes a late write, a new request and a crash: nothing obliges
them. `IdempotentRequests` needs only weak fairness of the steps under way, since no
request waits for another; `Chunking` only weak fairness of its loop. `Readiness` assumes
weak fairness of the steps of a request that is under way (`Proceed`: httpx bounds each
wait, and the event loop runs what is due, the timeouts of the route included) and strong
fairness of `EnterLock`, for the same reason as above. It assumes nothing of the
dependencies: the gateway and the store may hang for ever. The other modules state no
liveness.

*Findings.* The four violated properties each quote a document, and the findings in
`PROJECT.json` say what the run shows. In short: `activate` moves the alias before the
compare-and-set and never moves it back (COL 148); `ingest` deletes every version but its
own without excluding another ingest (RAG 123); `retrieve` does not de-duplicate versions
(RAG 187); an integer in a float field passes VAL 97 and is refused by FIL 157 after the
embeddings were paid for.

## 4. Proofs

All theorems hold for every value of the constants that satisfies the modules' `ASSUME`s.

**The catalog** (first part of `CollectionLifecycleProofs`): `CatalogTypeCorrect`,
`CatalogAtMostOneActive`.

**The lifecycle** (`CollectionLifecycleProofs`). `TypeCorrect` holds in every environment.
`AtMostOneActive` is not inductive: that a commit keeps it depends on what the handler
read earlier. The inductive invariant `IInv` adds that a handler in a critical step holds
its replica's lock (`HoldsLock`), that what it read under the lock is still true and that
its batch is the one those reads call for (`ReadsHold`), and, as `add_generation` takes no
lock, that the generation to be added is fresh and nobody else's (`AddsFresh`); a
`commit_ready` is the operator's or a provisioning's, and what was read is *retired* or
*building* accordingly (`OperatorCompares`). The step is split into
the handler that moves (`MoverKeepsLock`, `MoverKeepsReads`) and the others
(`OthersKeepInvariant`), whose reads can only be disturbed by a holder of the lock, and
with one replica there is one holder (`MutualExclusion`). Hence, for **one replica without
late writes** (`OneReplica`, `~LateWrites`), any number of requests, failures and crashes:
`InvariantHolds`, `LifecycleOneActive`, `LifecycleImplementsCatalog`,
`LifecycleCutovers`, `LifecycleStaysActive`, `LifecycleRevalidation`,
`LifecycleRetirement`. The last two follow from `ReadsHold`: a batch that retires names
every generation that is on record and not building, and the only batch written for a
retired generation that says otherwise is the operator's. Neither assumption can
be dropped: TLC shows two active generations without either. `~LateWrites` also says that
the write of a crashed process does not outlive it. The first assumption is the delivered
topology (`README.md` 183); the second is an assumption about Qdrant.

**What is served is built** (also there). `LifecycleBuilt` proves
`OnlyBuiltIsServed` with no assumption on replicas, late writes or crashes. The invariant
says how far the physical collection is at each step of a provisioning, that a batch that
says ready, active or retired (the handlers' and the late ones) names built generations
only, and that a generation is built by one handler alone.

**Failures are recorded** (also there). `LifecycleFailures` proves `FailuresAreRecorded`,
again in every environment. A failing provisioning says so to the catalog, but what it
wrote could be undone by somebody else, now or late. `FailureInv` says that nobody does:
only the addition writes *building*, and *ready* only the generation's own provisioning,
at the calls made for it, or a revalidation (`BatchFits`, `OpFits`), which needs the
collection to be complete; while a generation is being added, and
after an addition was left to land late, no other request is about it and none can begin
to activate it (`AddsAlone`, `LateAdds`); and an activation that is confirmed is not
*building* again (`Confirmed`).

**Ingestion** (`DocumentIngestionProofs`). `NeverVanishes` and `AcknowledgedWritesHold`
follow from an invariant that says a document has one writer, that the version to keep
is completely stored before a deletion starts (`KeepsItsVersion`), and that a call that
may still land is alone with its document (`LateIsAlone`); they assume `Exclusive` and
nothing of Qdrant: calls fail in part and land late. `IngestionRace` shows that
`Exclusive` cannot be dropped, and without its second half (a client that does not wait
for late calls) TLC finds an old clean-up erasing a newer version.
`OnlyActivatedAreWritten` assumes nothing: what is under way concerns generations that
were active when they were read (`OnlyActivated`).

**The whole service** (`ServedCollectionProofs`). `ServedImplementsIngestion` puts the two
refinements together: `InvariantHolds` and `StepRefines` make each step of the lifecycle a
step of the abstract catalog or a stutter, which is the environment that
`DocumentIngestion` has theorems about, so that `ServedAcknowledges` and
`ServedNeverVanishes` hold of both services at work (for one replica without late catalog
writes, and `Exclusive` clients), and `ServedWritesActivated` for any clients. No run checks
this refinement: `Serve` is by definition a step of `DocumentIngestion`, so a run would
repeat what `ImplementsCatalog` shows, while the theorem is what carries the results over.
`ServedIndexed` proves `DocumentsAreIndexed` in *every*
environment: what is stored, under way or in progress concerns finished collections
(`DocumentInv`), a request begins with the active generation, which `BuildInv` knows is
finished, and no step of the lifecycle takes a finished collection away (`IndexedStays`).

**Idempotency** (`IdempotentRequestsProofs`). The handler that executes under a key holds
the reservation, and a completed record's response is work done for that key and body.
No assumption.

**Chunking and normalization** (`ChunkingProofs`). The invariant of the loop says that all
text before the window is covered up to whitespace, and relates the window to the last
chunk. `LoopAdvances` is the variant; termination itself is left to TLC.
`NormalizationStable` (normalizing again changes nothing) does not follow step by step:
each step of `normalize_text` could undo what the one before it established. The proof
goes through a normal form: `NormalizeIs` says that a normalized text has only the four
kinds, no two spaces in a row (`Single`), lines without whitespace at their ends
(`Trimmed`), no three newlines in a row (`Paired`) and text at both ends (`Edged`), with
one lemma per step (`UnixIs`, `SpacesAre`, `LinesAre`, `NewlinesAre`, `StripIs`) that says
what it adds and that it keeps what was there; `NormalStays` says that each step keeps
every position of such a text. Both rest on `KeepIs`: the kept positions appear in their
order, each once, so that neighbours in the result have nothing kept between them.

**Embedding** (`EmbeddingCallsProofs`). The vectors obtained so far are those of the
chunks before the batch; an accepted answer holds each index of the batch once, so that
ordering by index restores the order of the inputs. `RetriesBounded` and `TimeBounded`
follow from `WithinBudget`, which names the number of finished batches (so that nothing is
divided in a step) and bounds what they and the batch under way have cost so far; only
the last batch of a document may be short, and it ends the request.

**Retrieval** (`RetrievalProofs`). `RetrievalInv` says what a point stores and under which
id (`PointsInv`), what is known of a request at each step (`RequestInv`: that the first
layer, and later the second, accepted it), and the two properties about the answer. The
rest is about the operators. *The visit*: `VisitIs` says that the recursion, which passes
a count from clause to clause as the code's shared counter does, returns the total of the
conditions below a node when every node below it is right, and refuses otherwise, so that
`VisitAccepts` can compare with depth, shapes and the number of conditions of the whole
tree (`RefusalsJustified`). *The translation*: `FiltersTranslate` says that Qdrant's
condition holds of a payload exactly when its metadata satisfies the filter, and `MeansIs`
that the recursion of `Means` has a solution (what a recursive function is has to be
proved here). *The ranking*: `BestRanked` carries "no more similar point is left out"
over clamping, rounding, the minimum and the ties (`HitsBest`, with `NoBetter`: a point
left out may precede a hit by its id, but only where rounding makes their scores the same). No assumption but that
filters are finite trees.

**Catalog access and readiness** (`CatalogAccessProofs`). The invariant has two halves.
*Creation*: who works under the lock holds it (`LockIsHeld`), who has passed the check
has seen a collection that is prepared and stays so (`FlagIsTrue`), and what creation has
reached is never undone by a late call (`CreationFits`, `LateCallsFit`). *Listing*
(`ListingFits`): what was active all the time is either found already or still ahead of
the offset, every page ends below the cursor, and the points found are ones that were
active during the request, so that more found than the limit means more active than the
limit (a count of finite sets). That no steady collection shows twice needs `OneActive`,
which is assumed of writes here because `LifecycleOneActive` proves it there. No
assumption on replicas, failures or crashes. `ReadinessImplementsAccess` shows that the
route and its timeouts are steps of `CatalogAccess`; with it the invariant carries over,
and `ReadinessTheorem` follows from the flag being set when the probe has succeeded.

**Inductions.** The library's induction theorems take an operator as a parameter, which
the provers cannot instantiate. Where a theorem needs an induction (over the prefixes of
a text, the clauses of a group, the depth of a tree), it is made over a *set* of numbers
(`Counting`: a set that contains 0 and with each number the next contains them all),
proved from the well-foundedness of the naturals.

**Only model-checked.** Liveness: `RequestsAreAnswered`, `ReservationsAreResolved`,
`RequestsEnd` and `Terminates`; TLAPS has no proof rules here for ENABLED. For the same
reason no theorem says that an action *can* be taken, such as that a search finds a
ranking. Every other property of a passing run is a theorem.

## 5. Seen while modelling, and not made a run

*Lifecycle.* A failed create leaves its generation on record and every retry is answered
409 (COL 50), though `docs/api/api-usage-101.md` 777-778 says to retry with the same key.
A generation recorded between the listing of `retire_logical` and its batch escapes the
retirement; it is still building when the retirement is acknowledged
(`RetirementIsComplete`), and its provisioning may make it ready afterwards, though no
route activates a generation of a collection that has no active one. A rollback of a
retired collection ends there too: the revalidated generation cannot be activated. The `retired` flag (HT 504-505) is false after a retirement when one
generation had failed. With two replicas, or with a late catalog write, two generations
can be active. A metadata field whose name has a dot passes HT 87 and not VS: the create
fails after recording its generation, and for ever.

*Ingestion.* A clean-up that lands late erases what a newer ingest wrote. An ingest goes
on into a generation that was retired meanwhile. Changing the chunking settings and
ingesting the same version leaves stale chunks behind: the clean-up spares the version.

*Idempotency.* A retry while the first request is being executed gets
`idempotency_conflict`, as a reuse with another body does. An execution that took effect
and then failed frees its key, and the retry makes a second generation.

*Chunking.* A break inside the overlap before a long token emits a chunk wholly contained
in its predecessor. `docs/architecture/rag-core-api-decisions.md` 70-72 prefers paragraph
and sentence boundaries; the code looks for the last space or newline only.

*Embedding.* Each post and each wait of it is given the full deadline, where line 387 of
the decisions speaks of the remaining one. A 413, 404 or 422 of the Embedding API is
reported as 503 though it is permanent. Batches are capped by their number of items only
(line 323), so 64 chunks of 1000 characters may exceed the service's 8192 tokens and are
refused for ever. An answer carries no revision, and the gateway does not compare the
model id.

*Listing.* `docs/api/rag-core-openapi.yaml` 305 promises a stable page: a listing over more
than one scroll (256 active generations) is not a snapshot, and a cutover between two
scrolls can show a collection twice on one page (both generations) or not at all, which
is why `ListingIsFaithful` speaks of what stays active. A malformed cursor is a
`ValueError` (CAT 519), so it is answered 500 where line 605 of that file says 400. The
catalog's operations take no deadline; only the 3 s of each httpx wait bound them.

*Readiness.* The gateway's `ready` makes up to two posts, and each wait of each may take
the dependency's second: the bound per dependency that
`docs/architecture/rag-core-api-decisions.md` 441 names is kept by the store and the
catalog only, and the total cuts the gateway off. When it does, the outcomes that were
there are reported as unavailable too. A collection that is created by somebody else in
between (CAT 330) is not checked for its vector schema until the process restarts; all
that creates it is this code, with one schema. Conflicts leave the catalog's `ready` as
exceptions, which `gather` turns into an outcome.

*Retrieval.* `docs/api/rag-core-openapi.yaml` 167 (with lines 355-356 of the decisions and
`docs/impl/rag-core-implementation.md` 239) makes `chunk_id` the stable tie-breaker. It
orders the hits, but does not decide which chunks are hits: the store returns its `top_k`
nearest, cut by similarity, before scores are clamped, rounded and compared by id (RAG
178-192). Of two chunks whose scores agree to six decimals and that compete for the last
place, the more similar one is returned though the other's id is smaller, and among
exactly equal similarities the store chooses. `HitsAreBest` admits these ties and nothing
else. A NaN in a filter is accepted by the application and refused by the adapter.
Point ids do not depend on the tenant.

## 6. Not modelled, and why

Request parsing, trace headers and error bodies; settings, telemetry, deployment (nothing
a property depends on). `CancelledError`, which passes `except Exception`: a cancelled
handler is covered where a crash covers it, and for the catalog's probe by `Cancel`. The
deadline of other requests is a failure of the call it interrupts. Qdrant and the model are external: Qdrant's
calls are atomic unless they fail, and its matching is that of its documents (the matching
of floats by `match` is taken to work). `delete_collection` and the catalog's `remove`
have no caller. The checks an operator makes before he revalidates a generation, for which
the repository has no code.

## 7. Plan

Done, in this order: `GenerationCatalog`, `CollectionLifecycle`, `DocumentIngestion`,
`IdempotentRequests`, `Chunking`, `EmbeddingCalls`, `Retrieval`, `CatalogAccess`,
`Readiness`, `ServedCollection`, each with its proofs where they are in reach.

Next: a composition of `CollectionLifecycle` with `CatalogAccess`, for the two locks of the
catalog adapter together.
