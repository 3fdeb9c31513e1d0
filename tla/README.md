# A verification development for Chitraq

Chitraq is a local, personal memory: one SQLite file of *Knowledge Objects*
with their whole history, edges between them, a gate that capabilities
(algorithms and models) must pass to write anything, a search index derived from
the objects, an exchange that keeps two installations in step, and the services
around it: keys, sessions, a router to models, an answer cache, folder watching,
export, capture.  This directory holds TLA+ models of it, the TLC runs that check
them, and proofs for the TLA+ proof system.  `docs/INVARIANTS.md` of the
repository lists its promises by number; the properties here take the ones that
several steps, or several actors, could break, and say them of the code.

Paths below are relative to the repository.

## The system: parts, state, operations

| Part | State it keeps | Operations that change it | What makes it correct | Module |
| --- | --- | --- | --- | --- |
| Knowledge objects, `src/core/objects.js` | `object`, `object_version`, `event` | create, update, supersede, confirm, reject, archive, restore, remove, purge | head and history are one; the past is never rewritten; erasure is whole; the log accounts for the history | KnowledgeObjects |
| Relations, `src/core/relations.js` | `relation`, `relation_version` | create (or reinforce), update, retract, confirm; purge of an end | both ends exist; one active edge per triple; authority never falls | Relations |
| Proposal gateway, `src/intelligence/gateway.js` | `proposal`, `derivation`, `evidence`, `conflict` | propose, accept, reject, expireStale, resolveConflict | a human's word stands; applied exactly when accepted; decisions are final | Gateway |
| Synchronisation, `src/core/sync.js`, `sync-http.js`, `syncOverHttp` | per peer one mark `last_pushed` | changesSince, apply, the HTTP exchange | everything arrives; the mark never passes what was not delivered; nothing is rewritten; divergence is raised | Sync |
| Search index, `src/retrieval/indexer.js`, `ann.js` | `chunk`, `chunk_fts`, `embedding`, `term_stat`, the approximate index in memory | indexObject, removeFromIndex, rebuild, buildVectorIndex | the index says what the memory says, nothing erased is in it, and the approximation misses only what lies in a list it does not look through | Index, Ann |
| Retrieval, `src/retrieval/search.js`, `salience.js`, `query.js`, `src/core/text.js` | use counts, timestamps | search, neighbours, touch, parse, chunk | what was replaced never leads; a query means the days it names; no sentence falls between two chunks | Retrieval, Query, Chunks |
| Contexts and answers, `src/context/builder.js`, `answer-cache.js`, `ask()` | `answer_cache`, what counts as read | build, ask, escalate, cache, clear | both sides of a disagreement are told; an answer is reused only on the same ground | Context, Answers |
| Enrichment and notices, `enrich()`, `relate()`, `proactive.js` | proposals, conflicts, derived attributes | remember, enrich, forObject | nothing derived writes over a person; disagreements are told | Enrichment |
| Concepts, `src/core/concepts.js`, `proposeConcepts()` | proposals of entities | candidates, proposeConcepts | what was declined is not asked again | Concepts |
| Entities, `src/core/entities.js` | objects of kind entity, `mentions` edges | resolve, linkMentions, merge, addAlias, duplicateCandidates | merged entities are never found again; doubles are suggested | Entities, Names |
| Capture, `ingest()`, `ingestFolder()`, `folder.js`, `sources.js` | `source`, proposals of claims | planFolder, ingest, extractClaims, readMedia | a folder is planned whole, each claim of a long document proposed once, stopping loses nothing | Folder, Ingest |
| Document parsers, `src/capture/ccitt.js` and others | none | decode | a fax gives its pixels | Fax |
| Providers, `src/intelligence/providers/` | schemaMode of an adapter | ask, embed, the grounded capabilities | what gets through rests on what the model was given | Replies |
| Router, registry, budget, `src/intelligence/` | health of providers, run rows, spending | candidates, run, probe, register, reset | no bill past the ceiling but for calls in flight; health events alternate | Routing |
| Vault and API keys, `src/core/vault.js`, `keys.js` | sealed keys, the vault record, `secret.key` | setKey, lockKeys, unlockKeys, changePassphrase, destroy | every key opens with the secret in force | Vault |
| Accounts and tokens, `src/core/auth.js`, `tokens.js`, `src/server/http.js` | accounts, sessions, tokens | setPassword, login, disable, prune; issue, verify, revoke | a session ends with its password; nobody acts beyond what he showed | Sessions, Access |
| Watch and daemon, `src/capture/watch.js`, `src/core/daemon.js` | timers, queue, batch; a record file | note, settle, drain, stop; claim, heartbeat, stop | a settled save is captured; one watcher remains | Watch, Daemon |
| Export and import, `src/core/transfer.js` | - | exportWorkspace, importWorkspace | nothing dangles, nothing present is overwritten | Transfer |
| Client, `src/client.js` | the queue, in memory | remember, flush | what is queued is there until answered | Client |

`PROJECT.json` lists every part with its status.  How they interact: everything is
called through the facade, `src/chitraq.js`, in one JavaScript thread per process, on one
SQLite file that several processes may open (`src/core/db.js:33` waits five seconds for
a busy one).  A write is one `BEGIN IMMEDIATE` transaction (`tx`), so it is one
atomic action here, and one that throws is rolled back, which is to say not
enabled.  Where a function is *not* atomic the models split it into steps:

* `gateway.accept` checks the status and validates outside its transaction;
* `syncOverHttp` has a network between its halves, and people write meanwhile;
* `indexObject`, `rebuild`, `reviewAll`, `enrich`, `proposeConcepts`, `ask`, `ingest`
  and the router await a capability, once or again and again, and everything else
  goes on;
* the vault's operations are several transactions and half a second of key
  derivation; logins and disablings have a gap between check and write;
* the daemon's record, `secret.key` and the export are read and written
  without a lock; a watcher lives on timers, `stat` and a queue;
* an HTTP request is checked before its body is read;
* what is in memory only (approximate index, a loop's snapshot, a client's queue,
  a watcher's timers) is lost when the process ends.

## Modules

```
AppendOnlyHistory            abstract: histories that only grow
KnowledgeObjects             objects.js        -> implements AppendOnlyHistory
  KnowledgeObjectsProofs
  Relations                  relations.js      -> implements AppendOnlyHistory
    RelationsProofs
    Gateway                  gateway.js, on top of both
      GatewayProofs
Sync                         sync.js, syncOverHttp, two installations
  SyncProofs
Index                        indexer.js and its callers
  IndexProofs
Ann                          ann.js against the exact scan
Retrieval                    search.js, salience.js, neighbours
  Context                    builder.js, ask, search, recall on top of it
Query                        query.js
Access                       tokens.js and the checks of http.js
Enrichment  Fax  Chunks  Replies                        from a document to what is derived
Folder                       planFolder(), what of a folder is captured
  Ingest                     ingest(), ingestFolder() on top of it
Names                        the names behind suggested duplicates
Vault  Sessions  Routing  Answers  Watch  Daemon  Transfer  Entities
Client  Concepts                                        the services around the memory

AccountsProofs                                          about Sessions, Access, Vault
CaptureProofs                                           about Enrichment, Concepts, Watch,
                                                        Transfer
ServicesProofs                                          about Answers, Routing, Client,
                                                        Entities, Ingest

MCKnowledgeObjects, MCReading, MCSync, MCDocuments, MCVectorIndex, MCServices    passing runs
MCGateway, MCIndex, MCIngest (and MCSync)                                        divergences
```

Operators with `Mutant` in their comment are what a plausible slip in the code
would be; each property is broken by one of them, so none holds by the shape of
the model.

**Sums.**  `MCKnowledgeObjects`, `MCReading`, `MCDocuments`, `MCVectorIndex` and
`MCServices` hold several modules that do not interact in the model.  A variable
`part`, chosen in the first state and never changed, says which one moves; the
others rest in their first state.  The state space is the sum of the parts', and
each part keeps every behaviour it has alone, so one run checks them all.  A
property about one part is trivially true in the others' states and is what the
module says in its own.  Properties merged into one name are listed in the MC
module by their parts.

**AppendOnlyHistory** is the promise about the past alone: a history begins
once, grows at its end, keeps its origin, runs forward in time, and disappears
only as a whole, with its identifier retired.

**KnowledgeObjects.**  `object`, `object_version` and `event` are the tables;
`clock` is what `now()` returns.  Kind, title, body and attributes are one
abstract content, which is what `contentHash` covers.  `Update` is `update()`
with its early return when nothing differs, and `Edit`, `Confirm`, `Reject`,
`Archive`, `Restore`, `Remove` and `Supersede` are calls of it, each with the
events it emits; `Purge` is the erasure with its clearing of forward links.
`AsOf` is the reading of a past instant.  Identifiers are ULIDs and never issued
twice.

**Relations** shares the database and extends the module: `Relate` is `create`
with its authority rule (`Blocked`), its reinforcement of an existing edge and
its insertion; `PurgeWhole` is the purge of an object with the edges it takes.

**Gateway** extends that with the four tables of the gateway.  `Propose` and
`ProposeAccepted` are `propose` without and with the policy's immediate
acceptance; `BeginAccept` is `accept` up to its transaction, and `FinishAccept`,
`RefuseAccept`, `AbandonAccept` are what follows (applied, found invalid, thrown).
Evidence is filed under "object" or "relation", and a conflict may lack its second
side, as the payloads may.
Between them the process itself does nothing, since both halves run
synchronously, but another process may do anything.  `Person` is people writing,
erasing and connecting meanwhile.

**Sync** has two sides, `here` that starts and `there` that answers.  Per side:
head rows, version rows, `Facts` (sources, evidence, derivations: rows that never
change and may name the object they are about, without which the other side drops
them), the objects a divergence was raised about, and the mark.  `talk` is the
exchange under way: `StartPush` builds the payload and records the mark,
`PeerApplies`, `PeerAnswers` (which records the peer's mark), `FinishSync`
(with the echo filter and the jump of the mark), `BreakSync` (lost, or refused by
a foreign key), `Rehearse` (a dry run).  Payloads are cut at `Limit` rows per
stream, with the cursor `SafeCursor` computes.

**Index.**  `memory` holds what the objects say, as pieces of text, and their states;
`chunk`, `vector`, `doc_freq` are the derived tables; `ann` is the approximate
index in memory; `jobs` are the embeddings awaited, `queue` and `todo` what
`reviewAll` and `rebuild` have left.  An operation and the writing of its chunks
are one action, because JavaScript runs them without a break; the vectors come
later (`Embedded`) or not (`EmbedderFails`).  A loop runs on until it waits for
the embedder again (`LoopRuns`).  A chunk row stands for its full-text row, which the
same transactions write.

**Ann** is the approximate index itself: vectors of two dimensions whose length
the radius divides, so that cosines are whole numbers; `Build` samples, fits
(`KMeans`, six rounds from a strided start) and assigns, `Embed` adds a late vector to
the nearest list, `Drop` removes a chunk without telling the index, and
`AnnSearch` looks through the nearest lists only (`DefaultProbes`, at least
`LeastProbes`, 4 in the code and 1 in the run, where there are two lists) and applies
the relative cutoff next to `VectorSearch`, the exact scan.

**Retrieval** and **Context.**  A page is an object as retrieval sees it: state,
review, use, what replaced it.  `FusedScore` is reciprocal-rank fusion with the
multipliers of quality, salience and distance; `SearchPages` filters, ranks and
browses; `Neighbours` and `Traverse` read edges.  `Context` extends it: `Gathered` is
the direct hits with their neighbours and predecessors, `Assembled` leaves out what
is off topic, brings in both sides of the surest `MaxRaised` open conflicts (`LIMIT
10` at `context/builder.js:326`; a conflict may lack its second side), orders, and squeezes it
into the budget; `Quoted` is what the extractive answer leads with.  `AskMemory`, `Search`
and `Recall` only mark what was read; `Replace`, `Judge`, `Move`, `Link`, `Disagree`
and `Settle` are people changing the pages in between.

**Query** reads a sequence of words as the code does: operators, quoted phrases,
negation, relative time in prose, plain terms; `Open` is an absent bound, time is
counted in thirds of a day over a real calendar (`Utc`, `WeekdayOf`, leap years).  All
of it is UTC but a date in a form that is left to the runtime (`2024/03/05`), which is
the midnight of that day in the time zone of the process (`zone`).
`FtsQuery` is the expression handed to FTS5, `Admits` the filters.

**Chunks** is `chunk()` over sentences of so many words of so many letters, whose
sizes are `estimateTokens`'s: buffer, overlap (`Carried`), paragraph ends, and
`HardSplit` of a sentence that is too long, after so many words.

**Fax** sets a writer that may choose any code T.4 or T.6 allows for a pixel row,
defined by the pixels alone, against the reader, which is `ccitt.js` step by step:
`FindB1`, `ReadRun`, pass, horizontal and vertical modes, end of block or of
stream, with `/K` of any sign and with or without `/Rows`.

**Replies** is what the provider adapters let through.  `Ask` sends a request
with or without a schema by the adapter's shared `schemaMode`; a host replies,
refuses the schema or fails; `Vectors`, `Claims`, `Conflict`, `Entities`, `Ideas` and the
answers read the reply.  What a model may say is chosen freely from a small set of
replies of every awkward shape.

**Enrichment** follows `enrich` through its waits (keywords and names, the
embedding, comparisons for relations, comparisons for contradictions) for two
objects at once, with people rewriting, confirming, archiving, deleting and
erasing in between; `Notices` is `forObject` and `told` what the enrichment that
has just ended told.

**Vault** keeps, per provider row, the secret that sealed it, and per process the
secret it holds and the operation it is in the middle of.  Each step ends where a
transaction commits; any process may die between steps.  **Sessions** and
**Access** are the two halves of who may do what: passwords, logins, sessions,
disabling, pruning; and tokens, scopes, the routes, the wait for a request's
body, and a logout that ends its own session or any it names.  **Routing** runs calls that probe, select, bill and fall through.
**Answers** is `ask` with its three rungs and the cache keyed by material and
rung.  **Watch** has a timer, `stat`, queue and batch per save; **Daemon** the record file,
launchers, heartbeats, polls, signals, recycled process ids.  **Transfer** exports
table by table and imports in one transaction.  **Entities** resolves, links,
merges, renames and puts away; **Names** is the edit distance and the comparison
behind the suggested duplicates.  **Client** is the queue of a program whose server
may be away.  **Folder** plans what of a folder is captured and why the rest is left;
**Ingest** takes that plan file by file, stores each source, and reads a long
document in overlapping pieces within a budget.  **Concepts** takes a phrase from
candidate to proposal, decision and the next search.

## Runs

Twelve runs; seven pass, five show a divergence.  The parts of a sum are in
brackets.

| Run | What it asks | States |
| --- | --- | --- |
| `objects` [objects, gateway] | Do head, history and forward links stay one story under every sequence of operations?  With one process, can a stale proposal overwrite a human, be applied twice, orphan something? | 435 thousand |
| `reading` [relations, context, access, query, names] | Do edges stay whole and keep their authority?  Do contexts tell both sides and answers quote what is in force?  Does a request held up between check and handler do only what its credential allows?  Does a query mean the days that were typed, in any time zone, and is a person asked about names that look alike? | 289 thousand |
| `sync` | Can exchanges that break, overlap with writing or are rehearsed damage what either side holds? | 2.10 million |
| `sync_quiet` | Over a reliable line, is anything lost but overtaken facts, does all the rest arrive, and is a fork raised? | 202 thousand |
| `index` [index, fax, chunks, replies, enrichment, folder] | Does the text index follow the memory through failures, restarts and edits during awaits and rebuilds?  Is what is read of a folder, a page, a text, a model's reply what is there?  Does late enrichment defer to people and tell of disagreements? | 912 thousand |
| `index_quiet` [index, ann] | While embedders answer, does every chunk get a vector, does the approximate index hear of it, and does it then miss only what lies in a list it does not look through? | 193 thousand |
| `services` [vault, sessions, routing, answers, watch, daemon, transfer, entities, client, ingest, concepts] | One question for each service; see below. | 708 thousand |
| `gateway_two` | `AppliedIffAccepted` with two processes | violated |
| `sync_fork` | Is an edit lost when both sides edit? | violated |
| `sync_rehearsal` | Does a dry run leave the marks alone? | violated |
| `index_overlap` | Does a rebuild restore retrieval when people write during it? | violated |
| `ingest_stop` | Does stopping the capture of a folder lose nothing? | violated |

What the properties say:

* `ObjectTypeOK`, `HistoryMatchesHead`, `SupersededByIsPresent`, `PastIsSettled`,
  `HistoryIsAppendOnly` are about `objects.js`; `HumanWorkStands`,
  `AppliedIffAccepted`, `NothingIsOrphaned` about the gateway.  The last speaks of
  provenance and evidence of objects and of conflicts: what is filed under
  "relation" outlives an erasure (see below).
* `EdgesStand` is about edges: ends exist, one active edge per triple, authority never
  falls.  `DisagreementsAreWhole`: of the surest open disagreements, as many as are
  raised at all, a context has both sides in what it selects.
  `SupersededNeverLeads`: an answer quotes what was replaced only when the past was
  asked for.  `ActsAreEntitled`: what a handler did was allowed by the credential as
  it stood when it was checked, and a revoked or expired token opens nothing
  new.  `QueriesMeanWhatIsTyped`: the bounds are the days a calendar calls by that
  name, by UTC, or local midnight for a date the runtime parses, and a later
  operator does not undo an earlier one.  `DoublesAreAskedAbout`: of two names that look
  alike a person is asked.
* `HistoriesStayLocal`, `SyncOnlyAdds`, `OnlyOvertakenFactsAreLost`,
  `DivergenceIsRaised`, `EverythingArrives` are about synchronisation.
  `OnlyOvertakenFactsAreLost` is what the code does of `MarkFollowsDelivery`, the
  promise of `core/sync.js:134` and INVARIANT 53: the mark passes what was not
  delivered in one case, a fact whose object was written again after it
  (`Overtaken`), and `EverythingArrives` excepts the same facts.
* `TextIndexIsTrue`, `ErasedIsGone`, `VectorIndexIsTrue`, `OnlyTheUnprobedIsMissed`
  are about the indexes.  The last says that every live row is listed once, that what is
  found is rightly scored and owned, and that an exact hit is missed only when its
  list is not looked through or a dropped row, still listed, cuts it off.  How often
  that is (`ann.js:232` says "above 0.9") is a matter of the vectors and not claimed.
* `FilesAndPagesAreRead` joins `PlansAnswerForTheRest` (of a folder the first notes are
  planned, and every other entry is left out for a reason or the plan says it is
  limited, but for two kinds that are passed over in silence) and
  `PagesAreReadAsWritten` (every pixel, whatever codes were chosen).
  `TextsAreCutWhole` joins `NothingFallsBetweenChunks` (sentences and neighbouring
  pairs are whole somewhere, of a split sentence no word is missing) and
  `ChunksKeepToTheirSize` (with what the code adds to the limit, and long words
  excepted).  `RepliesAreGrounded`: vectors go to their texts, ideas rest on supplied
  notes, what is no claim takes no claim's place.
  `EnrichmentDefersToPeople` and `DisagreementsAreTold` are about late answers.
* Services: `KeysStayWithinReach` (no step takes a key out of reach, a death included,
  except in three named windows: the death of a process that has keys left to seal
  again, another process writing in the middle, a data key no vault wraps any more), `LiveSessionsAreCurrent`, `CeilingHoldsUpToConcurrency`,
  `HealthEventsAlternate`, `ServedAnswersAreCurrent`, `SettledSavesAreCaptured`,
  `OneWatcherInTheEnd`, `ImportedMemoryIsWhole`, `MergedEntitiesAreReplaced` (an
  entity that was merged is mentioned no more, and its names lead to the one it ended up
  in, except the names `merge` forgets when one of the two was renamed), `QueuedIsKeptUntilAnswered`, `ClaimsAreProposedOnce` (of a long document, each
  once, and no more than the budget), `ConceptsAreDecidedOnce`.

Type invariants of the services, the reading part, the documents and their modules are
defined (`ServicesTypeOK`, `DocumentsTypeOK`, ...) but are not in the runs: the properties
above take their place there.

### Bounds, and why they are enough

* *Memory.*  Objects interact only through forward links, edges, conflicts and
  shared counters, each of which relates two; two objects meet every case.  Two
  contents make a change and a return.  `objects`: three origins (person, source,
  capability), four events; the gateway part one edge, one proposal (proposals touch
  each other only through memory, which people change freely), three events.
  Relations: two edges of two versions, two notes.
* *Sync.*  Payloads of one row per stream, so every larger one is truncated; four
  writes are the fewest with which one object is created, carried over, edited on
  both sides and edited again.  A fork needs three texts.  `sync_quiet` has one fact,
  about either object or about neither, so that it may be told before its object.
* *Indexes.*  Two pieces are the fewest with which an edit keeps one chunk and drops
  another while both are being embedded, and two awaited embeddings the fewest that can
  be answered out of order.  Ann: four vectors of radius 5 and of two owners, fitted from
  two on with a sample of three, so that late vectors and an unsampled one occur, and
  one list of two looked through, so that one goes unscanned.
* *Reading.*  Three pages (one replaced, one disputed, one between), one link, one
  opening, two writes, disagreements of two confidences of which one is raised, so that the
  limit leaves some out; budgets of 200 and 3000 tokens, so that squeezing both does
  and does not happen.  One connection, token and session, nine routes (each level,
  by GET and POST, public and not), tokens that live one tick of two.  Five dates to
  search on (leap day, ends of year and month, a Sunday) in three time zones, at UTC and eight
  hours to either side, and two words to a query.  Names: a
  title of eight letters, an alphabet of four, two typos.
* *Documents.*  Five by two pixels reach every mode of the coding, with make-up codes
  from two pixels on; four sentences, each of one long word, of a few words, of as
  many as fill a chunk of ten tokens, of too many, or of too many long ones; three hosts, two overlapping asks, three texts and notes, two
  let through.  Two captures enriched at once, two notices told, two changes by
  people.  Folders: two files and two folders,
  a file and a folder of them inside the other; whatever each may turn out to be; limits of
  one, two and none.
* *Services.*  Two processes per shared file, since each hazard is of a pair.
  Vault: two keys, two vaults.  Sessions: one account, one session, two
  passwords, two days of a session and one of pruning, four days.  Routing: two calls, a
  ranking with probed, refused and paid providers, two days.  Answers: one note
  of two wordings, two askers, one cached answer, two days.  Watch: two files, two saves.
  Daemon: two process ids (so they are recycled), three starts, one silence,
  one stop, one overtaken heartbeat.  Transfer: two stores, two things, one link and
  one quotation, three writings.  Entities: three spellings, three entities, three deeds
  (two merges and a change between).  Client: three items, two callers, two silences.  Ingest: a budget of two
  claims, pieces that overlap, two captures at once of one folder, limits of one, two and
  none.
  Concepts: one phrase in up to three texts, two searches, four turns.

The bounds stop the model and not the program, hence `CHECK_DEADLOCK FALSE`.
Symmetry is used in runs without liveness only, over values nothing orders
(identifiers, texts).

### What is assumed

The wall clock does not run backwards, and in `Sync` no two writes share a stamp on
either side.  `Index` has one embedding model, one `rebuild` and one `reviewAll` at a
time, and a freed chunk identifier counts as new once nothing refers to it.
`WorthFitting` says whether the memory has passed the threshold of `ann.shouldUse`.
Encryption, hashing and password derivation are perfect: a row opens exactly with the
secret that sealed it.  What a model, an embedder or a reranker answers is a free choice.

### Fairness

Two places have any.  `FairSpec` of `Sync` is weak fairness of the exchange as a
whole: `chitraq sync --every` starts exchanges on a schedule (`README.md:424`), and each
of them runs its course; no fairness is assumed of single steps or of a rehearsal.
`DaemonFairness` is weak fairness of `Progress(p)` and `BeatWrites(p)` for each process:
a command that was started goes on, a watcher polls its record every two seconds
(`src/cli/chitraq.js:600`), and a heartbeat that read the record writes it
(`src/core/daemon.js:248`, no await in between that could wait for ever).  Starting, stopping, dying
and falling silent are never assumed.

## What the runs show

The promises hold in the runs that pass; each property names its hazard in
`PROJECT.json`.  Five runs show where the code and its documentation part:

* **`gateway_two`.**  Two processes that accept one proposal both find it pending
  and both apply it: the check and the validation are outside the transaction
  (`src/intelligence/gateway.js:283`), and the transaction looks at neither
  again.  With one process this cannot happen (run `objects`).
* **`sync_fork`.**  `sharesHistory` compares the local head with the local version
  row, which always agree (the theorem `HeadMatchesHistory`), and never looks at the
  peer's history.  A peer that is a version further along replaces a concurrent
  local edit and nothing is raised; only forks at the *same* version are.
* **`sync_rehearsal`.**  A dry run pulls like any exchange, so the peer moves its mark
  past rows that are thrown away.
* **`index_overlap`.**  `rebuild` reads all rows once.  An object corrected, archived or
  forgotten while the embedder is awaited is indexed again as it was, and nothing
  puts that right afterwards.  An object erased meanwhile fails the foreign key of
  its chunks and ends the rebuild with the rest unindexed (`behind`).  Even then nothing
  erased comes back (`ErasedIsGone`, run `index`).
* **`ingest_stop`.**  A source is committed before its claims are looked for, and a
  stored source is never looked at again (`src/chitraq.js:663`): a capture stopped in
  between leaves a file that counts as captured and has no claims.

`OnlyOvertakenFactsAreLost` and `EverythingArrives` are checked in `sync_quiet` only: a
payload lost on the way, or a write stamped while an exchange runs, breaks them
too, since the mark is recorded when the payload is built.  `DivergenceIsRaised` is what
the code does of INVARIANT 36, `EditsAreNotLost` what the document says.

Some properties state exactly how far the code goes and no further: the windows of
`KeysStayWithinReach` and `ImportedMemoryIsWhole`, the overtaken facts of
`OnlyOvertakenFactsAreLost`, the long words of `ChunksKeepToTheirSize`, what
`PlansAnswerForTheRest` calls `Silent`, the names `MergedEntitiesAreReplaced` counts as
`forgotten`, the logins overtaken by a change in
`LiveSessionsAreCurrent`, one bill per call in flight in
`CeilingHoldsUpToConcurrency`, the saves `SettledSavesAreCaptured` excuses, what a
returning flush overwrites in `QueuedIsKeptUntilAnswered`.

### Noted while modelling

Differences between code and comments, or narrow windows, that the models contain as
they are and no run is devoted to.  Line numbers are of `src/`.

*Context and search.*  Fused scores stay below 0.07 while predecessors enter with 0.3, so
the topicality cut at `context/builder.js:137` keeps predecessors and drops their hits.
A side of a disagreement can fall to the budget while the disagreement is still
listed, and is fetched even when deleted.  Questions that are retrospective but not temporal
never reach what was superseded (`retrieval/query.js:156`).  An object found by
several chunks is ranked by its last one (`retrieval/search.js:102`).

*Synchronisation.*  A fact travels by its own stamp, its object by that of the last
write.  With the payload cut off in between, a fact about an object that was edited
after it is told before the object; the other side does not have that object and drops
the fact (`core/sync.js:303`-312), while the mark moves past it, so it is never
told again.  That is against `core/sync.js:134`-136 ("wasted bandwidth and nothing worse") and INVARIANT
53 ("Sync never advances a cursor past changes the peer has not received").

*Queries.*  A date in slashes is parsed in the time zone of the process while every other
bound, and what "today" is, are UTC (`retrieval/query.js:230`).  `2025-02-31` rolls over into March though the comment at `query.js:203`
says null; an unparsable bound overwrites an earlier one with null; `before:2024/03/05`
excludes that day and `before:2024-03-05` includes it; a quoted value of an operator is taken
as a phrase before line 104 sees it.

*Capture.*  `planFolder` reports `limited` when a folder has exactly `limit` files
(`capture/folder.js:188`), and passes over special files (153) and subfolders of a flat
walk (150) in silence, though "a reason for every single thing it passed over" is
promised (9-10).  Three claims are the least of each piece (`chitraq.js:806`), so a long
document exhausts its budget before its last pieces.  One-shot extraction is neither
deduplicated nor capped.  A recording read twice with different transcripts is two
sources.  `/EncodedByteAlign` is ignored for `/K` below zero (`capture/ccitt.js:209`).

*Chunks and vectors.*  A chunk may exceed its limit by the shared sentence, and a last one may
be only that sentence.  A sentence that is too long is cut by its words alone
(`core/text.js:295`), so pieces of long words, or the one "word" of a text written without
blanks, stay above the limit.  `ann.remove` (`retrieval/ann.js:208`) has no caller: what was
dropped stays listed and can raise the relative cutoff over live hits.  `build` takes the
dimension of the first row.

*Models.*  The supports of an idea may repeat one note and pass for two
(`providers/grounded.js:255`), though "one mention is a remark".  A call cut off by its timeout is billed nothing.  Overlapping
asks each pay for the refusal of a schema, and a late success sets the mode back
(`providers/openai-compatible.js:172`).  Ollama's answer is grounded when it is not
empty, and its vectors are not counted against the texts.

*Keys, sessions, processes.*  `lockKeys` says that keys are re-sealed in the transaction
that creates the vault, because a crash in between would lose them
(`chitraq.js:309`-311); they are re-sealed after it, one by one (334-343), and a crash
there does lose them.  `logout` ends whatever session the body names, the
caller's or not (`server/http.js:341`).  An empty `secret.key` can be read between its creation
and its writing (`core/keys.js:148`).  `removeApiKey` in one process does not reach
providers registered in another.  A token that has ended counts as no
credential where nobody has an account (`core/tokens.js:20`).  A save during
catch-up is missed (`cli/chitraq.js:559`), a recycled process id gets the signal of
`--stop` (`core/daemon.js:187`), and a failed capture leaves its fingerprint behind
(`capture/watch.js:162`).  A client's flush overwrites what was queued meanwhile
(`client.js:253`).

*Entities.*  `merge` makes "its names" aliases of the survivor (`core/entities.js:369`), but
takes the title and the aliases of the merged entity (396-402): the canonical name of
one that was renamed before is lost, and so is its title or an alias that equals the
survivor's own corrected title, which nothing is looked up by.  The next mention of such
a name makes a double.

*Gateway, transfer, enrichment.*  Evidence filed under "relation", which must name
an object all the same, outlives the erasure of that object (`core/objects.js:411`), and so do
the derivations of the edges that go with it (413).  A conflict may be flagged without
its second side (`intelligence/gateway.js:246`).  `propose` on a deleted object throws and records
nothing (`intelligence/gateway.js:104`); a deleted object accepts only `restore`
(`core/objects.js:208`).  Import sets the forward
links of the file, on rows that were there already too (`core/transfer.js:143`-150, which
`Transfer` leaves out: it has no forward links), and adds version rows of objects that are
there (155).  An
escalated question that ends with the floor answer caches it under the escalated key
(`chitraq.js:1369`).  A conflict found late may be about an object erased meanwhile
(`chitraq.js:1663`), and is deduplicated one way round only.  An accepted
concept whose entity was renamed is proposed again.

## What is proved

For all values of the constants, by TLAPS:

* `KnowledgeObjectsProofs`: `ObjectInvariant`, and from it `ObjectTypeCorrect`,
  `HeadMatchesHistory`, `LinksArePresent`; and `ObjectsImplementHistory`, that
  `ObjectSpec` implements `AppendOnlyHistory`.

  The inductive invariant `ObjectInv` is the type invariant, `HistoryMatchesHead`,
  `SupersededByIsPresent`, and `PresentIsUsed`: an object that is present has been logged
  about.  The last one is needed because `Unused` asks the log; without it
  `Create` might hit an object that is there.  Lemma `StepShape` says that every
  operation but create, purge and the clock is one `Update` by a row that differs
  only in what a patch may touch, so four kinds of step are left, each a
  lemma (`CreateKeepsInv`, `UpdateKeepsInv`, `PurgeKeepsInv`, `TickKeepsInv`).
  For the refinement each kind of step is shown to be a `Begin`, a `Record`, an
  `Erase` or a stutter of the abstract histories.

  `PastStaysSettled` and `LogStaysTrue` (`LogAccountsForHistory`, which is proved and no
  longer run) follow from the same invariant: the row that was
  in force at an instant is the last one not younger than it, and a patch appends
  one that is younger than every instant that has passed; the log is compared with
  the history step by step (`OneMore`: one event appended, one version appended).

* `RelationsProofs`: `EdgesAlwaysStand` and, proved only, `EdgesImplementHistory`.  The inductive
  invariant `EdgesInv` says uniqueness of active edges of pairs of them (`Alone`), and of each
  edge that head and last version agree (`HeadsMatch`), that it was logged (so
  `UnusedRelation` never hits one that stands) and that no version is younger than the
  clock.  Lemma `EdgesMoveAs` turns reinforcing, retracting and confirming into one kind
  of step, an update that is `Allowed`: it keeps ends and type, brings nothing back and
  does not lower authority, which is what the guard `Blocked` is for.

* `GatewayProofs`: `HumansKeepTheirWork`, `AppliedOnce`, `NothingLeftBehind` and,
  proved only, `DecisionsStayFinal`, under the hypothesis `OneProcess`: one process writes the
  database, as in the run `objects`.  With two, `AppliedIffAccepted` fails and the run
  `gateway_two` shows it.  The invariant `GatewayInv` adds to the invariants of objects and edges that
  provenance is about versions that exist (a later version of an object cannot be
  taken for the one a model wrote) and `HeldStands`: what an acceptance found
  valid is still pending and valid when it is applied.  That is what one process
  means: nothing else moves between the two steps.

* `SyncProofs`: `HistoriesStayTheirOwn` and `NothingIsTakenAway`, for any writes on both
  sides, any faults and any order of exchanges and rehearsals.  The invariant says of a
  payload on its way that it tells of each object it brings every version (`Tells`) and
  that the sender still holds what it tells of (`StillHeld`); so the answer, from
  which the echo is left out, still fits the side it goes to (`AnswersFit`).

  `MarksPassOvertakenFactsOnly` and `DivergencesAreRaised` have the hypothesis `Undisturbed`, which is
  the run `sync_quiet` for tables and payloads of any size and any directions: calls
  arrive, nobody writes during an exchange and nothing is superseded.  Facts may be about
  any object; one that was overtaken may be lost, and the first theorem says that the
  marks pass nothing else that was not delivered.  That a fact which was not
  overtaken finds its object there rests on the order of stamps: the object's rows
  are older, so they were told before it or are in the same payload.  With faults the
  marks do run ahead (see above).  Lemma
  `CursorIsSafe` is the heart: of two kinds of rows, each cut off at `Limit`, the cursor
  passes no row that is not in the payload, and passes every row when neither kind
  was cut.  It rests on there being finitely many rows, since no two share a
  stamp (`RowsAreFew`), so that a batch that is not full holds all that is due
  (`BatchIsOldest`).  The invariant `CalmInv` adds that a payload on its way still quotes its
  sender (`TalkIsFresh`), that after a complete one nothing is left to tell, which
  is when the mark may jump (`AllTold`), and that a difference nobody raised is in a row
  that has yet to be told or is on its way (`DivergenceIsPending`); what the echo
  filter drops cannot be such a row (`EchoIsHeld`).

* `IndexProofs`: `NothingErasedIsIndexed`, `TextIsFoundAsItStands` and `VectorsArrive`.
  `ErasedIsGone` is inductive as it stands.  Lemma `IndexWritesItsObject` says that
  indexing an object writes chunks of that object only; whoever indexes has it in hand or is
  stopped by the foreign key, and only the erasure takes an object away, with its chunks.
  `TextIndexIsTrue` needs little more than types; what is long is that the term
  counts add up when chunks are written over.  `VectorsArrive` has the hypothesis
  `Undisturbed`: the embedder answers, the process lives, nobody calls anything before
  a rebuild is through.  The property speaks of that case (the run `index_overlap` shows
  a rebuild that is overtaken); the invariant adds that what a job awaits belongs to its
  object (`Owned`).

* `AccountsProofs`: `SessionsEndWithTheirPassword`, `NobodyExceedsTheirScope` and
  `KeysStayReadable`.  The first property speaks of sessions that authenticate, which time
  and the use of accounts change; the invariant drops both and says of every session
  nobody ended, not opened by an overtaken login, that it is of the password in
  force, and that a disabled account with such a session is still being disabled.
  For the second, what a request in the server's hands was found entitled to
  (`Entitled`) outlasts every revocation and new account (`EntitlementLasts`), since
  revoking writes an instant and issuing an id that is new.  For the third, what
  an operation of the vault read when it began still holds unless another wrote
  meanwhile (`Undistorted`), which is what the property excepts.

* `CaptureProofs`: `LateAnswersDefer`, `DisagreementsAreHeard`, `ConceptsStayDecided`,
  `SavesAreNotMissed` and `ImportsStayWhole`.  A step of an enrichment leaves each capture as it is or sets keywords of one nobody
  decided about; the steps of people are told from it by the count of changes.  Only
  the last proposal of a phrase may wait or have been declined, because a search
  proposes when neither is the case and a decision finds no other that waits.  For the
  watch, `NothingForgotten` says of each file whose content is still due where it is
  remembered: an event, a timer, a callback that looked at this version or at none yet,
  the queue or the batch; and that the watcher takes it for handed over only while queue or
  batch hold it.  What would break the proof is a save between a look and what
  is done about it, and versions are told apart for that (`VersionsAreFresh`).

  `DisagreementsAreHeard`: whichever enrichment ends later hears of a disagreement,
  whoever noticed it.  What it tells is chosen from all notices there are, of which it takes
  all when they are few enough; so the proof needs that they are finitely many
  (`FewCaptures`, `FewClashes`), without which a smaller choice than `MaxNotices` could not
  be excluded, and that a step to rest is its last one (`ProceedingTells`).

  For an import, the property speaks of the memories and the invariant `TransferInv` of
  the file as well.  While the file holds objects and no versions, each object
  not marked as changed is still the same in the memory it comes from (`StillTrue`);
  once it holds both, its heads stand by themselves (`HeadsStand`), and that is all
  an import needs, since it checks what else it brings against the objects of the file.
  The ids given out are part of it (`RowsAreRows`): a new object is in no memory
  and no file, so nothing speaks of it before it is there.  The invariant also says that no
  version is of an object that is not there, which is what an object that comes back from a
  file relies on for its head being the last of its versions.

* `ServicesProofs`: `ServedFromTheSameGround`, `CeilingIsNearlyKept`, `OutagesAreToldOnce`,
  `QueuedWaitsOnce`, `MergesAreForGood` and `LongDocumentsAreToldOnce`.  Every cached answer lies under the key of what it was made
  from, so what a key finds is current by the key itself, however long the answer
  took.  The ceiling is kept because there is always room for the bills that may still
  come (`SpendingFits`): the call that checked last fits under the limit with whatever it
  may bring, and each other call adds at most the dearest price, a call that falls back
  included.  What was told last of a provider is nothing or what is last known, so an
  answered probe tells only what differs.  An item the client queued lies in one place
  of the queue or of one flush's rest (`OncePlaced`, `Placed`); the property counts places, and the
  proof counts them by showing there is exactly one.

  `MergesAreForGood` speaks of the entity a merged one ended up in, through however many
  merges, and of renamed entities too, whose merges may lose the names `merge` leaves out
  (`forgotten`, `LeftOut`) and no other; the invariant `EntityInv` speaks of single merges only.  Who was merged has
  somebody who stands in (`SomebodyStandsIn`), nothing mentions it (`NobodyMentionsMerged`), its
  names were taken over by that one (`NamesAreHandedOver`), and if that one was merged in turn it
  had them when it was (`NamesAreHandedOn`).  The chain is followed by a recursive function, which is there for every
  number of merges (`ChainsExist`).

  `LongDocumentsAreToldOnce` rests on `IngestInv`: what is worked at is stored
  (`Stored`) and by one ingester only (`NobodyShares`), because who comes later finds the source
  stored and goes past it; nothing is proposed of a document before its last piece
  was read, and a long one is read at once only by the floor, when a model would be too
  slow (`Fresh`; the floor takes a set in order, so it repeats nothing); and what was proposed, followed by what
  is about to be, fits the budget and names nothing twice (`WithinBudget`).  The
  lemma `MergingRepeatsNothing` says that the claims of a piece added to those of the pieces
  before it, each where it is first met, repeat none, however the pieces overlap.

The assumptions are the named `ASSUME`s of the modules, which TLC evaluates: `NULL` is no
identifier, bounds are natural numbers, `WorthFitting` is a Boolean, the needed
states are among `States`; objects and edges have different identifiers and people's
origins are among the origins (`Gateway`); each route asks for a scope that covers what it
does (`Access`, true of the table of `http.js` the run gives it); chunk identifiers and
queued items are finitely many; the providers are those of a finite list, `Ranking`; an entry
of a folder lies in the folder itself or in one walked before it, and a note is no
folder (`Folder`); a text has at least one piece and each piece finitely many
claims (`Ingest`).

Eight properties are checked by TLC only, besides two of liveness.
`DisagreementsAreWhole` and `SupersededNeverLeads` are about what sorting, squeezing and
folding make of a context, `DoublesAreAskedAbout` about edit distances and
`QueriesMeanWhatIsTyped` about a calendar counted day by day, `FilesAndPagesAreRead`,
`TextsAreCutWhole` and `RepliesAreGrounded` about what the fax reader, the walk of a
folder, the chunker and the reading of a reply have made of their input when they reach
its end,
`OnlyTheUnprobedIsMissed` about clusters: what a sort, a fold or a
recursive function computes for every input needs an induction over data, and the
library's induction theorems take an operator, which the installed provers cannot
instantiate.  Where an invariant needs such a fact (plans of a folder list its files, a
chain of merges ends somewhere) the proof argues from a least counterexample; for these
properties that would be the whole of the proof, algorithm by algorithm.  `EverythingArrives` and `OneWatcherInTheEnd` are liveness under
fairness and out of the prover's reach, as is any statement about `ENABLED`.

## Not modelled, and why

* The web interface, formatting, set-up and configuration: presentation over
  calls that are modelled.
* Parsers other than the fax decoder (PDF objects and filters, Office, HTML, e-mail): byte-level
  reading without a state worth a model.
* The text heuristics of `providers/deterministic.js`, the recognisers of
  `core/gazetteer.js`, embeddings and scores: what they answer is a free choice in the
  models.  Summaries, interpretations and edges of `grounded.js` are handed on as they
  are.
* The grants of `core/workspace.js`, which no operation of the facade or the server uses.
* Read-only lists, statistics and reports; the two logs nothing reads back.
* Bulk review is a loop over accept and reject and appears only as `ReviewAll` in
  `Index`.
* Edges and `syncWith` (two files at once) in `Sync`.

## What could be added

Edges in `Sync`, with the unique index a remote human edge may clash with
(`core/sync.js:290`).  An abstract store that each accepted proposal changes once,
implemented by `Gateway` with one process.
