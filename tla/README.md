# A TLA+ model of the photo service

The repository is a service that takes photos over HTTP, stores them, has them
analysed by workers and shows them in groups of identical and similar ones:
FastAPI, PostgreSQL, MinIO and Kafka, with the analysis itself behind gRPC in
another repository. This directory holds TLA+ modules of its own logic, TLC
configurations that check them on small instances, and TLAPS proofs of the
safety properties for every instance.

    tlc -workers 2 -config PipelineFaults.cfg MCPhotoPipeline.tla
    tlapm PhotoPipelineProofs.tla

Source paths below are relative to `src/app/`.

## 1. Inventory

### The API process

| component | state | operations | interacts with |
|---|---|---|---|
| photo upload, `services/photos_service.py`, `api/v1/photos.py` | the stage of every request (which await it is at) | validate, insert the row, put the original, mark it pending, send the message, answer 202 | rows, bucket, Kafka producer; the handlers of all requests are tasks of one event loop |
| Kafka producer, `integrations/kafka.py` | `_producer`, which of the objects made so far it names; the records it has not delivered | startup (from `lifespan` and from `send`), send, shutdown | shared by all requests; the topic |
| MinIO client, `integrations/minio.py` | none; threads that outlive a timeout | put, presigned links | bucket |
| reads, `services/photos_service.py`, `integrations/postgreesql.py` | none | list, get, presign, by owner token | rows, bucket |
| groups, `services/groups_service.py` | none | list, get with `is_best` | rows |
| tokens, `services/auth_service.py` | table `tokens` | exchange with VK, upsert by `data_token` | VK, rows; `api/depends.py` turns a bearer into an owner |
| metrics, `integrations/metrics_db.py`, `core/metrics.py` | in-process counters | scrape: those, then seven numbers in separate SELECTs | rows |
| probes, `api/v1/readyz.py`, `healthz.py` | none | ask the three stores | stores |

### The worker processes

| component | state | operations | interacts with |
|---|---|---|---|
| consumer loop, `worker/consumer.py` | shutdown flag, membership, position | start, fetch, process, commit, stop, start again | topic and group coordinator |
| processing, `worker/processor.py` | photo at hand, attempts it was given, failed calls | claim, read, analyze with retries, hashes, preview, save, handler | rows, bucket, analyzer |
| grouping, `worker/processor.py:42-73` | match found, group created | find, create, assign, for identity and for duplicates | rows |
| hashing and preview, `worker/hasher.py`, `preview.py` | none | pure functions over pixels | |

### What they share

* **rows**: `photos.status` runs none → uploading → pending → processing →
  done / failed; `attempts`; `preview_key`; the one row in `photo_analysis`; the
  group columns and the table `groups`;
* **bucket**: the original and the preview of each photo;
* **topic** `photo-uploaded`: one partition (`kafka.py:43`), read by the group
  `photo-worker-group`.

The API process and the workers never call each other. They meet in the row,
in the bucket and in the topic, three stores without a common transaction.

### What is hard

1. The upload writes to the row, the bucket, the row and the topic, in that
   order, and may fail, time out or die between any two; a timeout ends the
   waiting and not the write (`minio.py:64-71`, `kafka.py:57-65`).
2. Delivery is at least once: the producer repeats records, the group repeats
   whatever was not committed, and a worker that has lost the partition in the
   middle of a message goes on with it. `claim_photo` is the only arbiter.
3. `commit()` commits the position of the partitions assigned *now*.
4. A transaction may be committed and its call raise all the same.
5. After the claim nothing but the claiming worker moves the photo: what it does
   when it fails, or dies, is what happens to the photo.
6. The groups are looked for after the photo is done, in separate transactions.
7. One producer object is shared by all requests, and any of them may be starting
   it while others send; a start that fails clears what the others refer to.
8. A login signs its token first and writes the row the foreign keys need after.

Per component, what makes it correct:

* upload: a message never precedes its row and its original; a 202 means the
  message is in the log; statuses mean what `docs/src/api.md:287-293` says;
* worker: one worker per photo; an offset is never committed past an unclaimed
  photo; accepted photos are resolved and the log drained;
* rows: the life cycle only goes forward, a done photo has its analysis and
  preview, a final row is final;
* groups: only photos of one owner, kind and content share a group; identical
  photos share one; groups hold two photos or more and stay together;
* producer: one live object at a time; a send that returns has its message in the
  log, every send ends, and a start that failed does not stand in the way of the next;
* tokens: whoever is recognised has a row, and simultaneous logins succeed in the end;
* reads: a private photo is listed for its owner only, and what may be opened of a
  photo may be opened of its groups;
* metrics: photos that move during a scrape are not lost, counters never fall, and
  the number of uploads the process knows is not ahead of the table's.

The hazards, each at its line, are in `PROJECT.json`.

## 2. Modules

| module | stands for | composed from |
|---|---|---|
| `PhotoLifecycle` | abstract: what is promised about one row | |
| `Publication` | abstract: what `KafkaProducer.send` promises its caller | |
| `PhotoStore` | rows, bucket, topic and the writes to them | |
| `PhotoUpload` | `create_photo`, `MinIOStorage.add_photo`, `KafkaProducer.send` | extends `PhotoStore` |
| `PhotoWorker` | `run_worker`, `process_message`, the consumer group | extends `PhotoStore` |
| `PhotoPipeline` | the composition, its properties, invariant and fairness | extends the two above; instances `PhotoLifecycle`, `Publication` |
| `KafkaProducer` | `KafkaProducer` and `lifespan`: the one producer of concurrent requests | instances `Publication` |
| `PhotoGroups` | the two group checks and their queries | |
| `PhotoViews` | the reads of photos and groups, with their access rules | extends `PhotoGroups` |
| `MetricsScrape` | `GET /metrics`: the uploads counted by the process, then `get_db_metrics_text` SELECT by SELECT | instances `PhotoLifecycle` |
| `OwnerTokens` | `VKAuthService.authenticate`, `TokenDatabase.upsert_token`, `decode_jwt` | |
| `MCPhotoPipeline`, `MCPhotoGroups`, `MCMetricsScrape`, `MCOwnerTokens` | instances for TLC; `KafkaProducer` is run as it is | |
| `PhotoPipelineProofs`, `KafkaProducerProofs`, `PhotoGroupsProofs`, `PhotoGroupsSequentialProofs`, `PhotoViewsProofs`, `SearchProofs`, `MetricsScrapeProofs`, `OwnerTokensProofs` | theorems | |

There are two abstract specifications. `PhotoLifecycle` is what the readers of a row
rely on: the pipeline implements it, and `MetricsScrape` uses it in place of the
pipeline. `Publication` is what a caller of `send` relies on: calls, messages
held, log. `KafkaProducer` implements it with a shared object that comes and goes, and
`PhotoPipeline`, whose uploads know the producer only by its outcomes, implements it
as well: so `Send`, `SendTimeout`, `SendWithoutProducer` and the delivery actions of `PhotoUpload` take
no liberty with the producer that the contract of `kafka.py` does not give.

### How state and actions correspond to the code

**PhotoStore.** One element of `Photos` is one upload: its row, object key and
message, which share a fresh uuid. Functions and sets over `Photos` stand for
the columns (`status`, `attempts`, `previewKey`), the analysis rows and the
objects. `topic` is never cut; offsets point into it.

**PhotoUpload.** `request[p]` is the await the handler is at; each await is an
action, in the order of lines 62-71. Every call has the outcomes the code can
see: it worked; it raised and nothing happened; it raised and the effect is
there (database), or will be (`putting`: the thread of an abandoned put;
`outbox`: the record of an abandoned send). `ApiCrash` cuts off every request
and loses threads and outbox.

**PhotoWorker.** `pc[w]` is the next call, `msg[w]` the message, `att[w]` what
`claim_photo` returned, `tries[w]` the failed analyzer calls. A failure
disjunct follows the code: before the try of `process_message` it goes to
`recommit` (the except of `run_worker`, which commits), inside it goes to
`handle`. `HandleError` compares `att` with `MAX_RETRIES` as line 143 does.
`Fetch` looks at the shutdown flag only with a message at hand, as line 40
does. The group is `owner`, `position` and `committed`; `Rebalance` takes the
partition from a live owner, at any moment.

**PhotoGroups.** `saved` joins the owner and the image of every analysed photo;
`group[k][p]` is the group column of kind `k`, 0 for NULL; `groups` the table.
`Save` is the end of `save_analysis_and_finish`; after it one action per query:
`Find`, `Create`, `AssignOther`, `AssignSelf`, for identity and then for
duplicates. An exception ends its check and only that (`EndCheck`), as the two
inner try blocks do. `leftOut` is a history variable: the photos in no group whose check an
exception or a crash has ended (`CutShort`); no step reads it, and it is there so that
`SimilarAreNoticed` can say whom a failure excuses. `LIMIT 1` without an order is a choice. The loop of
`find_matching_duplicate_photo` over the rows is the recursive function in `FirstNearest`,
row by row as in the code; `Find` chooses from `Nearest`, which is what that loop finds over
all orders of the rows (`NearestIsFound`, a theorem for any number of rows). Near is at most `Threshold`, as line 127
of `worker/database.py` has it. The search raises
when some stored hash of the owner is not hexadecimal.

That a photo is saved once and by one worker, which `PhotoGroups` takes as its
starting point, is `LifecycleSpec` and `ClaimExclusive` of the pipeline.

**PhotoViews.** The reads change nothing, so that they are operators over the
states of `PhotoGroups`: each of the four queries with its own filter
(`ListsPhoto`, `ListsGroup`) or test (`OpensPhoto`, `OpensGroup`), the group ids
shown with a photo, the photos shown in a group and the one marked `is_best`, by the
two loops of `get_group_by_id` (`BestQuality`, `BestPhotos`). A
reader is what `get_current_user` returns, `Anonymous` for None. The quality is
taken to be that of the image: the analyzer is assumed to give equal files equal scores.

**KafkaProducer.** Every task (a request, or `lifespan`) makes at most one
`AIOKafkaProducer`, which is named like it. `ref` is `self._producer`, `object[t]` the
object's state, `at[t]` the await of the task: `start`, `admin` (lines 32-48), `wait`
and `sent` (line 58, before and after the object has taken the message). The steps between
two awaits are one action, as the event loop runs them. `StartFails` is the except of line 27: it
clears `ref` whatever it names; `StartRaises` any other exception, which leaves `ref` at a
dead object, and for `lifespan` ends the process. `Started` is the second test of
`self._producer` in `send`.

**OwnerTokens.** `stage[l]` is the call login `l` is at; `Login` reads the clock and makes
the token, `Load` is `session.get`, `Store` the commit of an INSERT or an UPDATE, according
to what `Load` saw. The INSERT of a row that somebody else has inserted in the meantime
is refused by the primary key. A JWT is its user and its second; `Decodes` is
`decode_jwt`.

**MetricsScrape.** `step` is what the scrape reads next in the order of
`Selects`: first the counter of the process (`api/v1/metrics.py:14`), then seven
SELECTs. Each reads the rows of its own moment (`Count`), and between two of
them the rows take any steps of `PhotoLifecycle`, which the pipeline has been
shown to implement. `Fail` ends a scrape whose SELECT raises: nothing of it is
answered. `CountUpload` is the end of `create_photo`, `UploadRaises` its other ends; a
`Restart` sets the counter back. `waiting` and `ended` only remember
who was unfinished and who was finished when the scrape began. The sum of the column `attempts` is the
number of the attempts, each photo's numbered from 1 (`AttemptsAt`).

### Faults

The constant `Faults` says which faults the environment may inject: `db`,
`minio` (and images Pillow cannot convert), `analyzer`, `send`, `resend` (the
answer of the broker is lost and the record sent again), `commit`,
`rebalance`, `sigterm`, `crash` (of a worker), `api` (crash of the API process).
A run without a fault asks what the program does when that part answers.
`KafkaProducer` has a set of its own, `Failures`: `connect` (a start that `startup` catches),
`other` (one it does not), `admin` (the topic), `send`, `resend` and `crash`.

## 3. Runs

| run | instance | what it shows |
|---|---|---|
| `pipeline_faults` | 1 photo, 2 workers, every fault, 2 incidents, log up to 3 records, 2 analyzer calls | `QueuedIsReady`: no message ahead of its row and original. `ClaimExclusive`, `ClaimKeepsRow`: one worker per photo, and nobody else touches its row. `DoneIffAnalysed`: done, analysis, preview key and preview come together. `AcceptedIsQueued`: a 202 is never a lie. `LifecycleSpec`: the rows refine `PhotoLifecycle`. `PublicationSpec`: the uploads use `send` within its contract |
| `pipeline_offsets` | 2 photos, 2 workers, faults of the bucket, the broker, commits and group, SIGTERM and crashes | `CommittedWasClaimed`: no offset is committed past a photo nobody claimed. `PendingIsQueued`: a pending photo has a message to come, as long as the database, the send and the API process do not fail |
| `pipeline_liveness` | 2 photos, 2 workers, 2 analyzer calls, faults of the analyzer and of `send`, rebalances and SIGTERMs | `ProcessingIsWorkedOn`: a photo in processing is in the hands of a worker. `AcceptedIsResolved`, `LogIsDrained`: accepted photos end up done or failed and every message is committed |
| `groups_faults` | 3 photos, 2 workers, 2 owners, 4 images (one near another at the threshold, one just beyond, one without a hash, one with the analyzer's), errors and crashes | `GroupsAreHomogeneous`, `DuplicatesAreNear`. `SimilarAreNoticed`: two workers whose checks interleave never both overlook each other's photo: of two photos that may share a group one is in a group or is being checked, unless a failure or a crash ended a check of one of them. `LinksResolve`: the access rules of photos and groups agree on every link |
| `groups_sequential` | 5 photos, 1 worker, no faults, three images on a line and one without a hash | `IdenticalShareGroup`, `GroupsHoldTogether`, `GroupsAreStable`. `NearestIsFound`: the loop of the search against what it is to find, over every order of the rows, a row at exactly the threshold included. `OneBestPhoto`: `is_best` against its reference, over every order of the photos of a group |
| `kafka_producer` | 3 requests and `lifespan`, every failure, log up to 2 records | `OneProducer`: one object at a time is starting or started, and a started one is the one requests find. `NoDeadProducer`: an object that failed stays behind only after an exception that `startup` does not catch, of which the request that made it was told. `PublicationSpec`: a send that returns has its message in the log, and the rest of the contract. `EveryCallEnds`: whoever waits for an object that will never start is answered too |
| `owner_tokens` | 2 users, 3 logins (two of one user), 2 seconds, tokens that expire, errors and crashes | `RecognisedHasRow`: a token that decodes has its row. `RetriedLoginSucceeds`: a login that lost the race, or failed, succeeds when it is tried again |
| `metrics_scrape` | 2 photos, any number of scrapes, any of which may fail, restarts of the process | `AttemptsCoverFinished`: the errors of the analyzer are never negative. `ErrorsAreOvertakers`: nor more than the photos that were finished during the scrape. `HistogramCoversDone`, `LagMissesNobody`, `ProcessCounterCovered`, `CountersNeverFall` |
| `stuck_processing` | 1 photo, 1 worker, a failing bucket | violated: a photo in processing that nobody works on |
| `errors_counter` | 2 photos, scrapes | violated: a photo finished between two SELECTs is an analyzer error nobody made |
| `identical_split` | 2 workers, equal photos, no faults | violated: two identity groups for one content |
| `duplicates_apart` | 1 worker, no faults | violated: near photos in different groups |

### Disagreements the runs show

* **stuck in processing** (`processor.py:143`). The handler is written for a
  message that comes back until `MAX_RETRIES`; but `run_worker` commits it and
  `claim_photo` takes only pending rows. One failed read of the original is enough.
* **analyzer errors** (`metrics_db.py:83`). `attempts` stays 1 whatever the analyzer
  does, so the metric is 0 but for photos that are finished between the count of the
  statuses and the sum; such a photo is an error in one scrape and none in the next.
  `ErrorsAreOvertakers`, a theorem, says that this is all the metric ever counts.
* **identical photos apart** (`processor.py:45`). One replica of the worker is
  deployed, but a rollout runs two for a while: the old pod leaves only when the
  next message arrives (`consumer.py:40`).
* **near photos apart** (`processor.py:58`), by design of the nearest-match rule.
* **the threshold itself** (`worker/database.py:127`). `best_dist` starts from
  `threshold + 1`, so that a photo at distance 20 is a duplicate; `docs/src/architecture.md:144`
  and `:188` say `< 20`. `NearestIsFound`, `DuplicatesAreNear`, `GroupsHoldTogether` and
  `SimilarAreNoticed` state what the code does, at most the threshold. `groups_sequential`
  passes with images at exactly the threshold and so shows the difference; `DuplicatesShareGroup`,
  which `duplicates_apart` refutes, states the text's `<`, so that its violation is not this one.

What is left of the two promises of `architecture.md:187-188` with any number of workers and
any faults is `SimilarAreNoticed`, a theorem: two checks never miss each other's photo
altogether, so that one of two similar photos is in some group unless a check failed.

In the same way a put that fails leaves its row in uploading (`photos_service.py:63`), and a
send that fails leaves its row in pending (`photos_service.py:67`), and no code returns
to either. No run is about them: `PendingIsQueued` holds where calls of an
upload and claims do not fail, which is how its theorem states it.

### Bounds, and why they are enough

* `MaxIncidents` caps rebalances, SIGTERMs and worker crashes together. Two are
  enough for a partition to move away from a busy worker and back, or for a
  crash of the next owner, which are the cases in which a stale commit or a second
  claim can happen; the theorems have no such bound.
* `MaxResend` caps the log while an unanswered record is repeated; two records of
  one photo are enough for two workers to hold the same message.
* `MaxTries` is 5 in the code. One or two keep the loop, with a retry and a last
  failure.
* `MaxRetries` is 5 as in the code: it is compared with an attempt that is always 1.
* `MaxLog` caps the records a repeated delivery adds in `KafkaProducer`; `MaxClock`
  and `Ttl` are 1 and 0, so that tokens expire in the run. Three requests are what it takes for one to
  start an object, one to wait for it and one to come after it has failed; two logins
  of one user race, and a third of another one is not disturbed.
* Two photos in `metrics_scrape`: one that moves and one that is compared with it. The theorems have any number.
* Photos, workers and owners are symmetric; `MCSymmetry` is used in safety
  runs only.
* Hashes have 4 bits and `Threshold` is 2 or 3: distances below, at and above the
  threshold occur. In `groups_sequential` five photos build chains longer than the threshold.
  It has one worker, which its properties need; the races of two are the subject of `groups_faults`,
  where three photos are what a race of two checks and an older or a later match take.
* `CHECK_DEADLOCK FALSE`: when every request is answered and the log drained
  nothing more happens, and the model stops.

### Fairness

`FairSpec` assumes weak fairness of: each await of a handler, because the event
loop runs ready tasks; the delivery of a record, because the producer's sender
task retries; each worker's own steps; its restart, because the deployment
restarts it; and the assignment of a free partition by the coordinator. It assumes nothing
about crashes, SIGTERM, rebalances, failures or a worker that an exception has
stopped. The faults of the liveness run are those after which the code goes on:
`db`, `minio`, `crash` and `api` leave photos that nothing resolves, as `stuck_processing` shows for
one of them; a send that fails leaves a row that was never accepted. `commit` is left out because a consumer object that is started
again after stop is beyond what the model knows of aiokafka.

In `KafkaProducer` the awaits of `startup` and `send` are weakly fair, because each is
under `wait_for`, and so is the delivery of what a started object holds; a restart of the process is not
assumed, nor that any start succeeds. In `OwnerTokens` a client tries again after an error (weakly fair
`Login`), and a call that is repeated for ever is answered by the database at last
(strongly fair `Load` and `Store`); without the retry a login that lost the race stays refused.

## 4. Proofs

`PhotoPipelineProofs` proves, for any sets of photos and workers, any faults and
bounds, from `FaultsAssumption` (fault names) and `WorkerAssumption` (the two "none" values are
not members, `MaxRetries > 1`, the others natural):

| theorem | property |
|---|---|
| `TypeCorrect` | `TypeOK` |
| `Invariance` | the inductive invariant `IInv` |
| `MessagesAreReady` | `QueuedIsReady` |
| `OneWorkerPerPhoto` | `ClaimExclusive` |
| `ClaimProtectsRow` | `ClaimKeepsRow` |
| `DoneIsComplete` | `DoneIffAnalysed` |
| `AcceptedReachesLog` | `AcceptedIsQueued` |
| `AtLeastOnce` | `CommittedWasClaimed` |
| `RefinesLifecycle` | `LifecycleSpec`, that is the refinement of `PhotoLifecycle` |
| `RefinesPublication` | `PublicationSpec`, that is the refinement of `Publication` |
| `PendingHasMessage` | `PendingIsQueued`, where `UploadsComplete`: no fault of the database, of the send or of the API process |
| `ProcessingHasWorker` | `ProcessingIsWorkedOn`, where `WorkersComplete`: no fault of the database, of the bucket or of a worker process |

The properties are not inductive alone. `IInv` has five layers, proved one upon
the other, each with a lemma for the API's steps, the worker's and the API crash:

1. `ReadyInv`: the stage of a request bounds its row and its original, what is in
   the log, in the outbox or at hand is ready;
2. `ClaimInv`: attempts is 1 from the claim on (`AttemptedOnce`), the claimer knows
   that; hence a row in processing cannot be claimed again;
3. `DoneInv`: only after its preview is uploaded a worker saves;
4. `QueueInv`: a request that waits is in the outbox or delivered;
5. `OffsetInv`: everything fetched was claimed, but the message the owner has not
   come to claim yet: this is what survives a commit after a rebalance.

The last two theorems add `PendingIsKnown` (a pending photo is about to be sent, is held
or is in the log, of which only claimed photos are committed) and
`ClaimedIsWorkedOn` (no worker ever comes to the handler). Their hypotheses say which faults each status of `api.md` survives.

`KafkaProducerProofs` proves `TypeCorrect`, `OneProducerAtATime` (`OneProducer`),
`DeadProducerIsReported` (`NoDeadProducer`) and `RefinesPublication` (`PublicationSpec`) for
any number of requests and any failures. The key part of the invariant is
`AliveIsReferred`: an object is published before the first await of `startup`, so
that nobody else finds `None` and starts another one while it lives; hence the failure
that clears `self._producer` can only be its own.

`OwnerTokensProofs` proves `TypeCorrect` and `RecognisedUsersHaveRows`
(`RecognisedHasRow`) for any users, logins and lifetimes: rows are never deleted (`SeenIsThere`) and
no token leaves before its upsert has ended (`IssuedHasRow`).

`MetricsScrapeProofs` proves, for any finite set of photos, `TypeCorrect` (`TypeOK`),
`ErrorsAreNotNegative` (`AttemptsCoverFinished`), `ErrorsComeFromTheRace`
(`ErrorsAreOvertakers`), `LagIsComplete` (`LagMissesNobody`), `HistogramIsComplete`
(`HistogramCoversDone`), `ProcessCounterIsCovered` (`ProcessCounterCovered`) and
`CountersRise` (`CountersNeverFall`). `RisingInv` puts the last answer, this
scrape and the table in their order, number by number; `WaitingInv` says that nobody
goes back in the queue. `AttemptedOnce` makes the sum of the attempts of finished photos
their number (`AttemptsOfFinished`), which `RisingInv` then compares with the two counts read before
it; `EndedInv` gives the bound from the other side. `AttemptsIsTheSum` shows that counting
the attempts is adding up the column: nothing over no photos, and one photo's attempts more with
each photo.

`PhotoGroupsProofs` proves `TypeCorrect`, `GroupsFit` (`GroupsAreHomogeneous`) and
`DuplicatesLookAlike` (`DuplicatesAreNear`) for any owners, images, hashes,
threshold, workers and faults, from `GroupsAssumption`. The invariant adds what
a worker carries between two transactions: its photo is saved, its match is
alike, its target group fits. These are facts about rows that are never
changed or deleted, so stale reads stay right; that is the argument.

`PhotoGroupsSequentialProofs` is about one worker: `GroupsStayWhole` (`GroupsAreStable`)
under any faults, `IdenticalTogether` (`IdenticalShareGroup`) and `GroupsHold`
(`GroupsHoldTogether`) when calls do not fail. `Ungrouped` is the fact two workers break:
the photo at hand, and a match for which a group is made, stay in no group until the worker
puts them in one.

`PhotoViewsProofs` proves `LinksAlwaysResolve` (`LinksResolve`), from the invariant of
`PhotoGroups` and `ViewsAssumption`: links, lists and single reads agree because
a photo and its groups have one owner, whoever assigned them.

`SearchProofs` is about the loops over the rows of a query, for any number of rows:

| theorem | property |
|---|---|
| `SearchFindsNearest` | `NearestIsFound` |
| `SimilarNoticed` | `SimilarAreNoticed`, for any number of workers and any faults |
| `GroupShowsOneBest` | `OneBestPhoto` |

A loop is a recursive function, and what it computes needs induction on the number of rows. The
library's induction theorems take an operator, which the provers cannot instantiate; its
theorem on well-founded relations takes a set, and gives `LeastNatural`, a least element
of any set of numbers, and `SetInduction`. From these, `LoopExists` (the function is defined, so that
the CHOOSE behind it is the loop of the code), `LoopKeepsFirstLeast` and `LoopKeepsGreatest`
(what the two running bests end with). `OrdersAreOnto` and `OrdersStartAnywhere` are about the orders
of the rows: a nearest photo is the one found when it comes first, and the one found is
nearest in any order. That the rows are finitely many is no assumption but an invariant,
`SavedAreFinite`. `SimilarNoticed` takes the pair of photos as its unit: a check that ends by itself without a
match while both are saved contradicts `NearestExists`, whatever the other workers do; one that ends
otherwise leaves its photo in `leftOut` or in a group (`CheckSettles`).

Model-checked only: the liveness properties (`AcceptedIsResolved`, `LogIsDrained`,
`EveryCallEnds`, `RetriedLoginSucceeds`: the prover has no rule for fairness). Every invariant
and every action property of the passing runs, the refinements included, is a theorem; the
hypotheses on faults and workers that some of them have are those of the run that checks them, or weaker.

## 5. Not modelled

* Probes (`readyz.py`, `healthz.py`) keep no state. Pixel arithmetic, generated gRPC code,
  schemas, configuration, logging, migrations and deployment files have no
  behaviour of their own to check.
* The check of the VK signature, base64 and HMAC of a JWT, and the signing of links, are
  functions of their input: a token is its user and its second, a link is the object it names.
* The counters of the process other than `photos_uploaded_total`: nothing relates them to other state.
* The inside of aiokafka, beyond what `kafka.py` and `consumer.py` see of it.
* The documentation site under `src/docs/site`, its search scripts included
  (`assets/javascripts/lunr/wordcut.js`, `tinyseg.js`: bundled third-party word segmenters,
  the longest scripts of the repository). They are the output of MkDocs, checked in;
  no service code calls them.
* The branch of `run_worker` for a message that is not JSON: `create_photo` is the
  only writer of the topic.
* Time: the 70 s of retries appear as "any number of other steps". A worker is one process with one
  message at a time, as the code is. Deletion of photos does not exist in the code.
