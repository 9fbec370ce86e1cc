# Verification of llm-session-manager

TLA+ models of the job pipeline, the first-run setup and the model download of
`llm-session-manager`, the TLC configurations that check them on small
instances, and TLAPS proofs of what matters most for every instance. Paths below
are relative to the repository's root; `tasks.py`, `job_store.py` and so on are
in `src/lsm/`, `Wizard.jsx` and the other scripts in `web/setup/src/`.

## 1. The system

| Component | State | Operations | Modelled |
| --- | --- | --- | --- |
| Job store (`job_store.py`) | per job: a Redis hash, a token list, their expiries, a pub/sub channel; one sorted set of ids | create, get, update, request_cancel, append_token, publish_event, finalize, list | `JobStore` (not the index) |
| ARQ (library; `worker.py`, `routes.py`) | queue, in-progress keys, retry counters, abort requests | enqueue, start, finish, retry, abort, timeout, shutdown | `ArqQueue` (external) |
| Job runner (`tasks.py`) | a coroutine per running job: received deltas, current await; shielded finalizers | run_job, _run_chat_stream, _finalize_shielded | `JobRunner` |
| Jobs API (`routes.py`) | a coroutine per request | create, cancel, stream, sync wait, get, list | `JobApi`, `EventStream` |
| Event streaming (`streaming.py`) | per connection: subscription, last_index | stream_job_events, wait_for_completion | `EventStream` |
| Model server client (`llm_client.py`) | an HTTP connection | stream, post, parse a line | its outcomes, in `JobRunner` |
| Setup backend (`setup/app.py`, `schema.py`, `env_file.py`) | `.env`, certificate files | status, config, certs, complete; parse_env, merge_env | `EnvFile`, `SetupServer` |
| Setup wizard (`App.jsx`, `Wizard.jsx`, `steps.jsx`, `AdminLogin.jsx`, `api.js`) | per tab: view, step, fields, busy, credentials | the handlers of its buttons and of the answers | `SetupWizard` |
| Download (`downloader.py`, `setup/download.py`, `api.js`, `steps.jsx`) | byte counter, event queue, response, parse buffer, what the screen shows | post_download, progress, event_stream, downloadModel | `DownloadServer`, `DownloadClient` |
| Download command line, containers, web build | - | - | no |

### How the parts interact

The API writes a record (`store.create`), then enqueues an ARQ job of the same
id. A worker starts the job, calls `run_job`, which reads the record, marks it
RUNNING, calls the model server and appends tokens to the list and to the
channel, and ends with `finalize`. Readers (`GET /jobs/{id}/stream`, and
`POST /jobs` in sync mode) subscribe to the channel and read the record and the
list. A cancel request sets a flag in the record, publishes a status, and asks
ARQ to abort the job. Everything is shared through Redis: no two commands of one
method are atomic together, except the MULTI block of `create`.

The setup is a program of its own. The wizard in the browser posts the
configuration, certificates and the admin account; FastAPI runs each handler in
a thread, and every handler ends by rewriting `.env`, which is also where it
looks for the account that seals the setup. The last step starts a download: a
worker thread and HuggingFace's own threads fill a queue that `event_stream`
turns into Server-Sent Events, and `downloadModel` in the browser parses them as
they arrive. The pipeline reads `.env` at its next start and shares nothing else
with the setup.

### What is hard about it

* every `await` lets other requests, other jobs and other processes run;
* `asyncio` cancellation (abort, `job_timeout`, SIGTERM) strikes at any await,
  and what it does depends on which `try` the await is in; `asyncio.shield`
  leaves finalizers running without an owner;
* ARQ delivers a job at least once: retries, crashes and shutdowns start it
  again, up to `max_tries`;
* pub/sub has no memory: replay and live tail must join exactly;
* keys expire while they are in use;
* the setup's handlers run on a thread pool over one file that each of them
  reads, truncates and writes, and the process may die in between;
* the browser's handlers are split at an await: the user goes on with whatever
  is not disabled, and when a connection breaks, the request may never have
  arrived, or may be served after the user has sent a newer one;
* a response arrives in chunks that end anywhere, and the button for the next
  download is back before the stream is over.

`PROJECT.json` lists each hazard at the line where it bites, with the properties
that watch it, and says why where none does.

### What makes each component correct

* Store: a terminal record stays terminal; the final event follows the record;
  what is left behind expires.
* Runner and ARQ: each job ends once, within `max_retries + 1` attempts, unless a
  process is lost; the retry arithmetic of `run_job` and of ARQ agree; a
  cancelled attempt stops within one chunk; the result is what was streamed.
* Streaming: no token twice, none missing, a terminal record after the last one;
  nobody waits for ever for an event that was published.
* Setup: what `merge_env` writes is what `parse_env` reads, and nothing else is
  lost; the setup is sealed once, and the tab that sealed it can sign in; what
  the wizard passes on as saved is in `.env`; nginx is never pointed at a
  certificate that was not written; the buttons tell what is under way.
* Download: each event is handled once, in order, however the response is cut;
  "done" means that the model is on disk; every download settles on the screen.

## 2. Modules

| Module | What it is |
| --- | --- |
| `Settings` | job ids, `max_retries`, `worker_max_jobs` |
| `JobStore` | the Redis data of a job and one operator per command; `finalize` as a record (`Finalizers`) that advances one command at a time |
| `ArqQueue` | ARQ's contract (external) |
| `JobRunner` | `run_job`: one action per await, `pc[j]` names the await |
| `JobApi` | `POST /jobs` and `POST /jobs/{id}/cancel`, one action per await |
| `JobLifecycle` | abstract: what a client may observe of a job |
| `JobSystem` | composes store, ARQ, runner and API; adds faults, fairness, and the pipeline's properties; `ImplementsLifecycle` is the refinement |
| `EventStream` | SSE connections and sync waiters over channel cursors |
| `SessionManager` | composes `JobSystem` and `EventStream`; the readers' properties |
| `MCJobSystem`, `MCSessionManager` | model values and a state constraint for TLC |
| `JobProofs`, `JobOutcomeProofs` | theorems about the pipeline and their proofs: types, finality, tokens and results; final events, lost jobs, expiry, cancellation, the refinement |
| `ReaderProofs` | theorems about clients and waiters, for any number of them |
| `EnvFile` | the lines of `.env`, `parse_env`, `merge_env`, `_quote` and `_unquote` as operators; values are sequences of characters because the quoting looks at them |
| `SetupServer` | the setup backend: a record per request, with the writes its handler has left; `.env`, certificate files, crashes, broken connections |
| `SetupWizard` | the browser: a record of React state per tab, each handler up to its await and after it |
| `SetupSystem` | composes the two; the setup's properties |
| `DownloadServer` | HuggingFace's threads, the worker thread, the queue, `event_stream`, the frames on the wire |
| `DownloadClient` | `downloadModel`'s parser over chunks, and what `StepDownload` shows |
| `DownloadSystem` | composes the two, with fairness; the download's properties |
| `MCSetup`, `MCDownload` | model values, keys, files and styles for TLC |
| `EnvFileProofs`, `SetupProofs`, `SealProofs` | theorems about the setup and their proofs |
| `DownloadWireProofs`, `DownloadProofs` | theorems about downloads and their proofs: what is told and how it lies on the wire; what the browser reads and shows |

Operators commented "Fault: ..." are not part of any specification. Each stands
before the definition it deforms and states a plausible bug; the property that
catches it is named in `PROJECT.json` under `mutants`.

### State and code

* `hash[j]` is the hash `lsm:job:{j}` with the fields some decision reads: `id`
  (without it `get` raises `KeyError`), `status`, `attempts`, `result`, `error`
  (present or not), `cancel`. A missing key is the record without fields.
* A delta is the pair (attempt, position in the attempt): its text never
  matters, which attempt it came from does. A result is the sequence of deltas
  that were joined; a plain call's result is the empty sequence.
* `channel[j]` is everything ever published; a subscriber is a cursor into it.
  The client of a stream records what it was sent in `got[c]`.
* `pc[j]` is the await `run_job` stands at. `EarlyScope` (lines 33-45), `TryScope`
  (47-60) and `HandlerScope` (61-74) decide what an interruption does.
  `orphans` holds the finalizers that `asyncio.shield` keeps running after their
  waiter was cancelled.
* `Interrupt` is `task.cancel()`: in the try block it starts the shielded
  `finalize(CANCELLED)`, elsewhere it ends the coroutine.
* A Redis error inside the try block becomes a FAILED record, elsewhere it ends
  the coroutine. The `index` an event carries is the list position RPUSH returned.

* `env` is the sequence of lines of `.env`. A line assigns a key, names it in a
  comment ("`#KEY=`"), or is a text, a blank line or the header of `merge_env`;
  `SetToSeq` in `Merge` picks any order for the new keys, the code that of the
  request.
* `call[c]` is the request on connection `c`: `at` says whether it is sent, in
  service or answered, `todo` lists the writes its handler has left (`crt`,
  `key`, then `read`, `truncate` and `write` of `merge_env`), `seen` is what
  `merge_env` has read. Hashing and validation belong to the first step. `tab` is
  who waits for the answer: none, once the connection broke (`Broken`) and the
  tab has gone on. Such a request is served all the same, after what the tab sends
  next if need be. A tab may hear of a broken connection at any time: before its
  request arrives, while it is queued or in service, or when only the answer is
  lost. Requests that write nothing leave no trace when nobody waits for them.
* `certs[s][p]` is the pair from which a certificate file was written; a crash may
  leave `EmptyFile`, for `write_text` truncates before it writes.
* `ui[t]` is the state of the components mounted in tab `t`. A handler is an
  action that sends (`PersistAndNext`, `StepAdmin`, ...) and one that receives
  (`Persisted`, `Completed`, ...). A reload of the page is one tab that goes
  silent and another that starts. React's strict mode, which sends the first
  request twice in a development build, is left out.
* `saver`, `accounts` and `mishaps` are history: the tab that waited for the
  configuration save written last (none, if it had given up on it), which accounts
  were written, and whether the file was torn by a crash
  ("torn"), rewritten by two merges at once ("crossed"), or an account let in
  beside another one or while the file was truncated ("contended").
* `wire[r]` is everything that was sent, a sequence of symbols: the two halves of
  a data line, a comment, CR and LF. `taken[r]` is how far the browser has read,
  `buffer[r]` what it has not emitted. `frames[r]` is history: the events on the
  wire and the position where each one's frame ends; `Due` are those whose frame
  was read to its end. `Blanks` are the places where `drain` splits its buffer
  after CR LF became LF; `Emitted` and `Showing` are its loop and React's, as
  functions of the position. A thread of HuggingFace's reports one piece;
  `percent` counts pieces.

### External assumptions

These are not in `src/`; the models take them from ARQ 0.28 and Redis as the
code uses them.

* ARQ counts a try when it starts a job; at a start it first discards a job with
  a pending abort or without tries left, without calling the coroutine. A `Retry`
  and a cancellation by shutdown keep the job queued; any other end removes it.
  Removing the job (`finish_job`) is shielded.
* The in-progress key outlives `job_timeout` by ten seconds, so it expires only
  when no run of the job is left (`InProgressExpires`).
* SIGTERM cancels the worker's tasks once and waits for ARQ's wrappers, not for
  detached finalizers.
* Starlette runs each handler in a thread of its own pool; HTTPBasic decodes
  ASCII only; `btoa` throws on characters wider than Latin-1.
* `snapshot_download` joins its threads before it returns or raises; it does
  return or raise. A connection delivers what was sent in order, or breaks.
* Redis runs commands one at a time; a subscription is effective when
  `subscribe` returns; a subscriber receives messages in order. A lost Redis
  connection of a reader is a disconnection of its client.

## 3. Runs

`tlc -config X.cfg M` in this directory. No run checks deadlock: the system
comes to rest when every job is over and clients have gone, when nobody clicks,
and when the last download has ended.

| Run | Question | Bounds |
| --- | --- | --- |
| `lifecycle` | Does the pipeline implement `JobLifecycle`, lose no job by itself, keep cancelled attempts short, announce every end but those named? | 1 job, 1 worker, 1 cancel, 1 retry, 2 deltas, slow model, 2 crashes |
| `interrupts` | What survives aborts, timeouts, Redis errors and a crash at every await? | 1 job, 1 worker, 1 cancel, 1 retry, 2 deltas, 1 crash |
| `sigterm` | What survives when a worker is told to stop, or dies, with another one at hand; for which reasons is a job forgotten, and which ends are never announced? | 1 job, 2 workers, 1 cancel with its abort, 1 retry, 2 deltas, 1 shutdown or crash |
| `expiry` | Do finished records expire although keys vanish meanwhile? | 1 job, 1 cancel, 1 retry, 1 delta |
| `streams` | Does an SSE client get every token once and a terminal record last? | 1 job, 1 cancel, 1 retry, 2 deltas in chunks of up to 2, 1 client, 1 reconnection |
| `readers` | Is every stream and every sync request released, unless the final event is never published? | 1 job, 1 cancel with its abort, 1 retry, no delta, 1 crash, 1 client or 1 waiter |
| `setup` | Is setup sealed once, is nothing that the wizard shows as saved missing, do the buttons tell the truth? | 2 tabs (symmetric), 2 connections (symmetric), 1 field per step and the token no field shows, 1 edit, 1 vhost, 2 credentials, of which one does not travel; crashes, broken connections, overlapping requests, 1 request at a time that its tab has given up on |
| `download` | Is each event handled once, is "done" true, does every download settle? | 2 downloads, 1 thread each, both styles of frames, 1 keep-alive and 1 chunk that ends inside a frame, both in the first download |
| `cancel_stranded`, `stream_gap`, `expiry_leak` | the findings of section 5 | 1 job |
| `overridden_value` | the finding of section 5 | as `setup`, with the lines of `.env.example` that override others |

Why the bounds are enough: jobs share nothing but worker slots and ARQ's loop
(every key, channel and ARQ entry is per job id), so one job meets every
interaction except waiting for a slot. One retry gives two attempts, the least
that can leave the tokens of a failed one in the buffer. Two deltas give an
order to break and a chunk boundary. Two workers are needed only where a job
can move while its old worker lives, under SIGTERM; two shutdowns or crashes add
nothing but the end of its tries, which `lifecycle` covers with its two crashes.

`readers` has no tokens, since a token wakes a reader and lets it wait again,
which `streams` covers. A client and a waiter share nothing either, so
`OneReader`, the run's state constraint, explores one of them at a time: the other
one is given a second job that is never posted.

The setup's tabs interact through two requests at a time at most: whatever a
third one could find, the file read, truncated or written by another, two show.
Two tabs are the least that can compete for the account, and a reload is a second
tab. `Other`, the value a user types, needs the quotes and both escapes. The state
constraint of `setup` is `Bounded`: nothing is explored behind a mishap or an
emptied certificate file (those states themselves are checked), at most one
request at a time is one its tab has given up on, and certificates go to one
slot of the two. What is asked behind a mishap is what the theorems of section 4
say of every state, since after one nothing else is promised. One abandoned
request is enough for a save that is overtaken by the tab's next one, which is
written before it, since two requests are all that two connections carry.
Downloads share nothing but the screen, so two of them
meet every interaction, and one of them shows what keep-alives and cuts do
(`FirstDisturbed` is an action constraint of the run); one chunk that ends inside a frame can end at every
place, and what precedes and follows it are whole frames. One thread per download
keeps the snapshots in order; the actions `Count` and `Report` allow for more.

Faults are a constant, because each property has to be asked under the faults it
can survive. `ImplementsLifecycle` is checked with interruptions of the model
call, not of Redis commands: `finalize(COMPLETED)` is not shielded, and an
interruption in its middle does rewrite one terminal status to another. The
liveness properties are checked under crashes, shutdowns and aborts, whose
effects they name; a timeout or a Redis error in the middle of a command's
coroutine would add cases of the same kind. `TerminalNeverReopens` is checked (and proved) without SIGTERM: the
detached FAILED finalizer of a stopping worker may make the record terminal
after another worker has started the job again, which then sets it to RUNNING
or QUEUED.

### Fairness

`Fairness` asks for weak fairness of each run, of starting, discarding and
recovering jobs, of detached finalizers and of a stopping worker's exit: ARQ's
loop polls for ever and the event loop runs every ready task. Strong fairness of
`StreamEnds` says a stream does not deliver chunks for ever: `job_timeout` cuts
it off. Nothing is fair about API handlers, cancel requests, faults or the
deadline of a sync wait. `SystemFairSpec` adds weak fairness of each connected
reader.

`DownloadSpec` asks for weak fairness of everything the program does by itself,
as one action: while a download has a step to take, one is taken, for the browser
and the backend both run on. HuggingFace's part, which succeeds or fails, is
included; its own timeouts are what justifies that. Nobody has to press the
button, send a keep-alive or break a connection. The setup has no fairness: its
properties are about what may not happen.

### Properties

* `ImplementsLifecycle` (refinement): attempts grow and stay within
  `max_retries + 1`; only an attempt completes or fails; a terminal status never
  changes; one final event, after the record and with its status.
* `NeverStranded`: a job that ARQ forgot before its record was terminal has lost
  a process (aborts aside).
* `JobsDroppedForAReason`: ARQ forgets a job when it completed or failed, is out
  of tries, was cancelled by its client, or when `run_job` marked it CANCELLED by
  itself. The last is not harmless: `job_timeout`, a null answer of the model and
  a worker told to stop all do it. After a SIGTERM, ARQ keeps the job for the next
  worker, whose run finds a terminal record and returns: the work is lost although
  nobody cancelled it, next to the "job persistence, retries" of `README.md:3`.
* `EventuallyAnnounced`: the end of every job in the queue is published, but for
  the three cases of `Silenced`, in each of which ARQ has forgotten the job.
  `LostWithItsWorker`: the worker died between the HSET and the PUBLISH of
  `finalize`, and the rerun finds a terminal record. `OutOfTries`: the last try
  ended with its worker. `StoppedByAbort`: the abort of a cancel request met a job
  that had not started, or a run at an await outside its `try`. The run fails
  without any one of them.
* `CancelOvershoot`: after the cancel request is announced at most the rest of
  one chunk is published.
* `BufferEndsWithResult`, `TokenEventsFaithful`: result, token buffer and live
  events agree. The buffer ends with the result and may hold more before it: a
  retry never clears what a failed attempt streamed, so a client that joins all
  tokens gets more than the result.
* `TerminalEventMeansTerminal`, `TerminalNeverReopens`, `FinalizedRecordsExpire`.
* `NoDuplicates`, `NoGaps`, `ClosesComplete`, `NoLostWakeup`, `ReadersReleased`:
  the readers' side. `ReadersReleased` has one exception: a stream at its live tail
  and a waiter that listens wait for ever (or for the waiter's deadline) for a job
  that is `Silenced`.
* `OneAccount`, `WizardEndsSealed`: one account is ever written, and the tab on
  the last step holds credentials that the backend accepts. Both are asked of
  runs without a mishap, and so show what the mishaps are: two completions at
  once both pass `require_unconfigured`, and whatever reads a truncated file sees
  a stack that is not configured.
* `ConfigPersisted`: what the wizard shows from the admin step on is in `.env`,
  what was typed while a save was under way included, since each of the three
  steps posts the whole configuration and the last of them has no fields. It is
  asked as long as the last write was one the tab has waited for: when a
  connection breaks before its handler is done, the buttons come back, the user
  saves again, and the older request may be written last. Then `.env` is not what
  the tab shows, and nothing in the code prevents it.
* `BusyMeansWaiting`: the buttons are disabled exactly while the tab waits to hear
  of one request. That is not the same as having none in service: one it has given
  up on may still be there.
* `MergeReadsBack`, `PointedCertsExist`: the file after each write, the
  certificate before the keys that name it (it exists then; a crash may have
  emptied it).
* `EventsHandledOnce`: against `Due`, which is computed from the frames and the
  cursor and not from the buffer. `DoneMeansDownloaded`, `DownloadSettles`: the screen. A second
  download that starts between "done" and the end of the first stream is shown as
  done when that stream closes; the property excepts it by name (`hasty`).

## 4. Proofs

`JobProofs`: `THEOREM TypeCorrect == Spec => []TypeOK`, for all constants.
`TypeOK` alone is not inductive: that a publication has a delta to carry, or that
an orphan has an owner, depends on `pc`. The inductive invariant `TypeInv` adds
`Shape`, which ties `pc[j]` to the owner, the deltas and the finalizer of the
run. Lemmas state what each command preserves, then one lemma per group of actions.

The second of its theorems is `NeverReopened`, that without SIGTERM no step takes
a terminal record back to QUEUED or RUNNING, for any number of jobs, workers,
retries, tokens, crashes, aborts, timeouts, Redis errors and expiries. The
property is about a step, and what a step does depends on what the run believed
earlier; the inductive invariant `FinalityInv` says that a run past its first
read works on an open record (`WorksOnOpenJob`), that a detached finalizer
belongs to a run that ARQ will not start again (`OrphanInv`), and that a job
which is not enqueued has no run and no terminal record. It needs
"sigterm" not among the faults, since a shutdown is what releases a job to
another worker while a finalizer of the old run is alive.

Its last part relates what is stored twice: `ResultIsBuffered`
(`BufferEndsWithResult`) and `EventsAreBuffered` (`TokenEventsFaithful`), under
every fault but the expiry of keys in use. `BufferInv` says that the buffer ends
with what the run has received (`EndsWith(tokens[j], parts[j])`), so that
whatever a failed attempt has left stands before it; that a delta between RPUSH
and PUBLISH is the last of the buffer and above every published position
(`PushedLast`); and that a COMPLETED finalizer carries what its own run received,
with that run still waiting for it (`CompletesWithParts`, `NoLateCompletion`).

`JobOutcomeProofs` is about how jobs end.

* `FinalEventIsFinal` (`TerminalEventMeansTerminal`) from `SettledInv`, that a
  final event is on the channel only beside a terminal record, and a finalizer
  that has still to publish has written its record. It rests on `FinalityInv`.
* `NoJobStranded` (`NeverStranded`) from `StrandInv`: the record of an enqueued job
  can be read, a job with a run is in the queue, a run that ends without `Retry`
  has a terminal record behind it, and, as long as no process was lost, a job that
  is to be tried again has a try left (`tries[j] <= MaxRetries`). This is where
  `max_tries = max_retries + 1` is needed, for every `max_retries`.
* `DropsHaveReasons` (`JobsDroppedForAReason`), under slow models, crashes and
  SIGTERM. What an open record leaves behind is `StrandInv`'s. `ExcuseInv` is about
  CANCELLED and says that until a worker was stopped or lost nothing runs detached,
  and a run whose record is CANCELLED, or is about to be (`Cancelling`), was
  cancelled by its client, got a null answer, or was cut by `job_timeout`, in which
  case it ends without another try. From then on the property excuses every
  CANCELLED record (`restarts > 0`).
* `EndedRecordsExpire` (`FinalizedRecordsExpire`) from `ExpiryInv`, for both keys:
  one without expiry belongs to a run that has still to set it.
* `CancelStops` (`CancelOvershoot`) from `CancelInv`: the late tokens and what is
  left of the chunk in hand (`Remaining`) are at most `MaxDeltas` together. The
  counting is by `Cardinality`, one event at a time.
* `LifecycleImplemented` (`ImplementsLifecycle`) is the refinement, step by step:
  `LifecycleInv` says which status the record has at each `pc` and who has
  announced what, and each action is shown to be a `LifeNext` step of one job or
  to show nothing to clients (`Visible`, `Hidden`).

`ReaderProofs` starts from the fact that readers change nothing of the pipeline
(`SystemIsPipeline`), so every invariant above holds of the whole service.

* `SystemTypeCorrect` (`SystemTypeOK`), under every fault.
* `TokensReceivedOnce` (`NoDuplicates`), under every fault but expiry: all a
  client holds lies below `next[c]`, which is at most the buffer's length
  (`ReceivedInv`), and the replay, a part of it that was cut off, and a live token
  are alike `Batch`es from there on.
* `WakeupsReach` (`NoLostWakeup`) from `AlertInv`: a position taken at SUBSCRIBE
  lies within the channel, and a live record read after it means that no final
  event is behind it (`SettledInv` again).
* `NoTokenMissed` (`NoGaps`) and `ClosingIsComplete` (`ClosesComplete`).
  `PublishedInv`: each token of the buffer is published or is the one between
  RPUSH and PUBLISH, and final events come last. `ClientInv`: what a client holds
  are the first `next[c]` tokens, those of every event behind its cursor included
  (`CaughtUp`); once it drains or rereads, the record is terminal and the buffer
  does not grow any more.

Each theorem names the faults it excludes, and for each there is a reason in the
code. Expiry takes the token buffer from a running job, and the next RPUSH starts
at position 0 again. SIGTERM detaches finalizers and starts the job elsewhere.
Aborts, and timeouts or errors at a Redis await, strike between two commands
of `finalize` or of `append_token`: the terminal record without its event, the
pushed token without its publication (`stream_gap`), the job dropped by ARQ with
its record open (`cancel_stranded`).
Every theorem but one covers all faults of the run that checks its property, and
most cover more. The one is `DropsHaveReasons`: the abort of a cancel request is
in the run `sigterm` and outside the theorem, whose `StrandInv` knows of none.

The proofs assume the named assumptions on the constants (`SettingsAssumption`,
`NoResultAssumption`, `RunnerAssumption`, `FaultAssumption`,
`ReconnectAssumption`), which TLC evaluates on every run. The inductive invariants
were checked with TLC before they were proved.

`EnvFileProofs` is about the operators of `EnvFile`. `THEOREM QuotingUndone`:
whatever characters a value has, `_unquote` reads what `_quote` wrote as that
value. The argument goes through the text between the two replaces of
`_unquote`, in which the backslashes are still doubled and the quotes free
(`HalfSpelt`). The first replace finds the escaped quotes and nothing else
(`FirstReplace`): a doubled backslash is never followed by a bare quote, since
every quote that `_quote` writes has a backslash of its own. The second drops one
of each doubled backslash and nothing else (`SecondReplace`): pairs are counted
from the start of a row of backslashes, and a row begins where a character of the
value does. Both are inductions over the characters.

`THEOREM MergeReads` is that what is read of a merged file is what was posted,
and any other key what it was, for any keys, values and lines. It needs
`Unshadowed`, that no key is assigned below another line that names it, and
`THEOREM MergeUnshadowed` shows that `merge_env` keeps a file so. The assumptions
are that keys are finitely many (`KeysAssumption`), that values are texts
(`ValuesAssumption`), and that the two characters quoting adds are strings
(`CharactersAssumption`, which the prover does not see from the literals); TLC
evaluates them on every setup run.

`SetupProofs` is about `SetupSpec`, for any number of tabs, connections, keys,
credentials and files, under every trouble. `SetupInv` adds to the types

* that a certificate file is only left to do for a text that was accepted, and
  comes before anything else (`TodosOK`), and
* `Fitting`: a request that a tab waits for says where the tab is in the wizard, no
  tab waits for another request beside a post, and a tab that is busy for one.
  Requests that were given up on are nobody's.

From it follow `SetupTypes` and `ButtonsTell` (`BusyMeansWaiting`: types alone do
not exclude a second request of the tab). `SavesReadBack` (`MergeReadsBack`) adds
the invariant `FilesKept`, that the file and every copy a handler has read are
`Unshadowed`, under the hypothesis that the initial file is; it holds through
torn files and crossed merges, which the run does not follow. `CertsBeforeEnv`
(`PointedCertsExist`) adds `CertInv`: the variables that name a certificate are
assigned, in the file or in a copy of it, only after that certificate was
written, and a handler has written what it has not left to do; its hypothesis is
that the initial file assigns none of them, as `.env.example` does not.

`SealProofs` is about the order of merges and about what seals the setup, for
initial files that are `Unshadowed`. `MergeInv` says that a handler's writes
follow each other as `merge_env`'s do (`Ordered`), and that while the file is
`Whole` at most one handler is between its read and its write (`Uncrossed`) and
has read the file as it is (`Fresh`); so every step but a write keeps `Content`,
and a write replaces what its merge has read. `SealInv` adds, while there is no
mishap, that an account is only being created while there is none (`Sole`:
`require_unconfigured` looks at the file, and an account that was written is in
it) and that the one that was written can be read (`Owned`). From it follow
`SetupHappensOnce` (`OneAccount`) and, with `EndInv` (an answer to `complete` that
is a success comes after its write, and only such an answer shows the last step),
`LastStepIsSealed` (`WizardEndsSealed`). They need `AbsentAssumption`, that no
value is taken for a missing key.

`ShownIsSaved` (`ConfigPersisted`) follows from `MergeInv` and
`ConfigInv`: an answered save is in the file until another tab's, or one that was
given up on, is written, and a save from the third step that the tab waits for is
under way with what the tab shows, since that step has no field. That a save from an earlier step may be older than what is shown is why
the invariant does not speak of those.

`DownloadWireProofs` and `DownloadProofs` are about `DownloadSpec`, for any number
of downloads, threads, chunks and keep-alives, whatever separates the frames. The
only assumptions are `DownloadAssumption` and `ClientAssumption`. The inductive
invariant `DownloadInv` is built in layers, each of which needs the one before:

* `CourseInv`, the backend: the byte counter is the number of threads that have
  counted (`Counted`), and in what was sent and is still queued (`Told`) a verdict
  is the last event, behind every report, with the sentinel behind it (`Ordered`);
* `LayoutInv` (`THEOREM FramesLaid`): a frame ends in the first blank line after
  it begins, frames do not overlap, and nothing else on the wire is data (`Laid`).
  A last frame without its blank line is followed by nothing, which is what
  `Ordered` is needed for;
* `ReadInv`, the parser: the buffer is the piece of the wire from the last blank
  line that was read up to the cursor (`Kept`), and what was handled are the
  events of the frames that ended in a blank line up to there (`Carried`); at the
  end of the stream, all of them (`Whole`). That the boundaries are the same in the
  buffer as in the wire (`Shift`) is where a chunk that ends between CR and LF
  could go wrong;
* `Bounded`: a thread is at one of its pieces;
* `ViewInv`, the screen: unless somebody was hasty, it shows the last download that
  was started (`Shown`), as running until that one's last event was handled and as
  done only after its "done" was (`Agrees`).

`DownloadTypeCorrect` (`DownloadTypeOK`), `EventsOnce` (`EventsHandledOnce`) and
`DoneIsTrue` (`DoneMeansDownloaded`) follow. `Emitted` and `Showing` are recursive
functions over the positions of a chunk, and so are joining and pairing in
`EnvFile`. The library's induction theorems take an operator, which the provers
here cannot instantiate, so induction is proved for sets of numbers instead
(`Induct`), from the fact that a set of naturals that is not empty has a least
member (`NatLessThanWellFounded`). `Recursion` shows with it that such a function exists
and is what its definition says, and `EmittedIs` what the parser makes of any
chunk.

So every safety property that a run checks is also proved, for every value of the
constants, under the faults and the hypotheses on the initial file named above.
Only model-checked is liveness: `EventuallyAnnounced`, `ReadersReleased` and
`DownloadSettles`. Liveness under fairness is out of the prover's reach.

## 5. Where code and documentation disagree

* `cancel_stranded`: a job cancelled before a worker starts it stays QUEUED for
  ever, since the ARQ abort of `cancel_job` makes ARQ drop it before `run_job`
  can see the flag (`routes.py:111`; `tests/test_tasks.py:115-121` expects
  CANCELLED).
* `stream_gap`: a token pushed but not published is missing from a live stream
  (`job_store.py:104-109`; `README.md:222`: "no duplicates, no gaps").
* `expiry_leak`: an update of a record that has just expired leaves a hash that
  never expires (`job_store.py:90-92`; `README.md:125`).
* `overridden_value`: `merge_env` rewrites the first line that names a key, and
  the last active one counts: after "uncomment these two lines (overriding the
  LSM_MODEL_* values above)" (`.env.example:26-27`) a save of the model's address
  has no effect (`setup/env_file.py:53`; `setup/env_file.py:42`: "Existing *active*
  assignments are updated in place").

## 6. Not modelled

* Pipeline: the job index and `list`; the text of tokens, errors and payloads;
  the backoff's length; times of day; `GET` handlers that only read; SSE and JSON
  formatting; the parsing of upstream lines. A chunk the worker cannot interpret
  is taken to fail the call before the cancel flag is polled, not after it.
* Setup: values with line breaks, which `merge_env` does not quote; indentation
  and the text of lines that assign nothing; the contents of PEM files and their
  permissions; what `get_config` answers; the password's hash and the form's own
  checks of it; messages. What two crossed merges leave behind is modelled, but
  only `SavesReadBack`, `CertsBeforeEnv`, `SetupTypes` and `ButtonsTell` speak of
  it, and of the account that `WizardEndsSealed` says was written. Credentials with a colon or with Latin-1 characters are in the model and
  not in the run's instance: they differ from the wide ones it has only in being
  refused later.
* Download: the model's name as it is typed, file filters, target directories,
  caches; the order of the snapshots of several threads is modelled and no
  property is asked of it, since nothing promises that the bar only grows.
* `download` on the command line, containers and the reverse proxy, the web
  build: no state of their own.

## 7. Plan

Done: store, ARQ, runner, API, lifecycle, readers; `.env`, setup backend, wizard,
downloads. Proved: every safety property that a run checks.

Next, in this order:

1. `JobIndex`: `create`, expiry and `list`.
2. `LlmStream`: upstream lines to chunks and outcomes.
