# The AEGIS in TLA+

Models, TLC runs and TLAPS proofs for the parts of the repository that can fail
badly: IDEA3, the system that cuts and restores the network uplink of a site
through a relay; the resumable uploads of IDEA1, where a user's file passes
through two stores, and its backups, where a host agent and the server must agree
when to hold still; and of IDEA2 the live streams, where nobody may watch longer
than he is allowed to, and the signed requests of its detection nodes. Every
definition is translated from the code; `PROJECT.json` gives the lines each
definition stands for.

* [The system](#the-system)
* [The modules](#the-modules)
* [The runs](#the-runs)
* [Where code and documents part](#where-code-and-documents-part)
* [What is proved](#what-is-proved)
* [Fairness, deadlock, atomicity](#fairness-deadlock-atomicity)
* [What is not modelled](#what-is-not-modelled)
* [The plan](#the-plan)

## The system

The repository holds three programs and what surrounds them.

| part | state | operations | hard behaviour |
|---|---|---|---|
| **IDEA3 protocol store** (`aegis_soc/protocol_store.py`, SQLite) | last allocated sequence number, one row per command, its ACK and correlated STATUS, the inbound replay table | reserve, mark published / not published / unknown, consume ACK, correlate STATUS, resync, close rows on restart | crash between any two statements; the allocator against a device whose mark lies ahead; the sequence ceiling |
| **IDEA3 controller** (`controller.py`) | the command in hand | issue (reserve, publish, record), heartbeat | a publish that raises after the frame left |
| **IDEA3 MQTT client** (`mqtt_client.py`, `protocol_v1.py`) | - | verify and dispatch ACK and STATUS on the network thread | frames lost, repeated, late; one STATUS delivered in two parts |
| **ESP32 firmware** (`firmware/src/main.cpp`) | `seq_hi` in NVS, the RAM mark, the relay, heartbeat ring, dead-man latch, time trust | handleCommand, handleHeartbeat, checkDeadman, setup | power loss inside the handler, NVS write failures, wrap of `millis()`, a loop that blocks in the network calls |
| **IDEA3 supervisor** (`supervisor.py`) | command lock, containment count, pending command, deferred CUT, the physical correlation | issue_command, ACK, ACK timeout, status, health loop | threads racing for the lock; a CUT against a RESTORE already inside; restart |
| **CUT and RESTORE gates** (`local_cut.py`, `local_restore.py`, `cut_authorization.py`) | one-shot grants, one attempt per incident | operator CUT, RESTORE, break-glass RESTORE | evidence read before slow probes and used after them; one of several durable steps failing |
| **Incidents** (`recovery_core.py`, `historical_disposition.py`, `database.py`) | incident rows, the audit chain, containment | bind, ISOLATE, CLOSE, disposal | alert, operator, owner and disposal interleave under different locks |
| **Lockdown episodes** (`database.py`, `supervisor.py`) | episode rows, break-glass claim, freshness proof | record status, claim, consume | failing records; a proof that outlives the state it proves |
| IDEA3 Web server, dispatch ledger, worker | intents, dispatch rows | queue, claim, correlate | unreachable in this build: `_operator_approval_verified` returns False |
| IDEA3 graduated response, containment helper, trusted time, front ends | scores, nft set, clock probe | - | inputs of the gates above |
| **IDEA1 resumable uploads** (`IDEA1-AEGIS_Drive_LC/server`: `routes/uploads.js`, `storage/uploadStaging.js`, `uploadCleanup.js`, `commitRecovery.js`, `db/store.js`) | a row and chunk rows per upload in PostgreSQL, a staged file, then a file under its storage key | open, chunk, commit, cancel, clean-up round, recovery of commits | two stores without a common transaction; every await lets another request in; death of the process; a lease shorter than its commit; an answer lost |
| IDEA1 Drive, the rest | users, sessions, folders, shares, the encrypted vault | vault uploads and tree, sharing, login | vault uploads repeat the protocol of the plain ones |
| **IDEA2 Monitor: producer leases** (`db/producerLifecycle.js`, `auth/producerDemandGrant.js`, `routes/api.js`) | epochs and demands with leases in PostgreSQL, one proxied request per stream | acquire, renew, release, grants to the engine | grants late, repeated or lost; two clocks; retirement sent after its transaction; restart of either side |
| **IDEA2 detection engine: StreamHub** (`stream_hub.py`, `local_api.py`) | generation, grants, demands with tombstones, viewers | reserve, attach, refresh, revoke, retire, sweep | a control overtakes the stream it is about; reservation and attachment are two holds of the lock |
| **IDEA2 node identity** (`nodeIdentity/*.js`, `routes/agentAuth.js`, `middleware/authenticateDetectionIngest.js`) and **identity agent** | challenges, sessions, replay windows; the agent's session and sequence | challenge, verify, signed request | each request takes two turns with a database read between; copies, late requests, renewals |
| IDEA2 Monitor and engine, the rest | cameras, alerts, recordings; capture and recording threads | - | rows read and written one at a time; threads around external libraries |
| **Host backup agent** (`shared/host-backup-agent/src/job.js`, `server.js`) and **write freeze** (`IDEA1-AEGIS_Drive_LC/server/backup/maintenance.js`) | one current job with its lease; the freeze Drive holds, its count of destructive requests | start, acknowledge, dump, snapshot, check, prune; poll, freeze, admit | two processes that see each other through polls; a lease that runs out at any point; restart of either |
| Host telemetry agent, gateway, HUB page, scanner | samples | - | no protocol state |

How the parts of IDEA3 meet:

```
 operator, owner            alerts
      |                        |
 CUT / RESTORE gates      incidents (bind, ISOLATE, CLOSE, disposal)
      | issue_command          |  audit rows: attempt, isolation, closure
 supervisor --- one command lock, containment count, deferred CUT
      | issue                  ^  status, ACK (network thread)
 controller - protocol store   |
      | COMMAND, HEARTBEAT     | ACK, STATUS          (MQTT, QoS 0)
 ============ broker: loses, repeats, delays, reorders ============
      v                        |
 ESP32: handleCommand, dead-man --- relay: NORMAL | LOCKDOWN
```

What makes each part correct, in the order in which it matters: a command
executes at most once and never after a newer one; nothing but a RESTORE that
was sent opens the relay; silence closes it; the Core believes only what the
device did; one incident yields one RESTORE and one lockdown episode one
break-glass frame; a CUT is never starved or overtaken more than once; an
incident is closed only with its whole chain of evidence.

How the parts of IDEA1 and IDEA2 meet:

```
 browser -- chunks, commit, cancel --> Drive --- rows | bytes
                                         |  poll, acknowledgement
                     operator --> host backup agent: freeze, dump, snapshot

 browser -- stream --> Monitor --- epochs, demands (leases in PostgreSQL)
                          |  attach, refresh, revoke, retire (grants)
                          v
                     detection engine: StreamHub -- camera
                          |
                     identity agent -- challenge, session, signed requests --> Monitor
```

What makes these correct: a file is published once and whole or not at all; a
backup that is called a success was not read around a destructive request; a
camera is served only to those who may watch it now; a signed request of a node
counts once.

`PROJECT.json` lists under "hazards" each place where one of these could fail
in a way that a test would hardly reach.

## The modules

| module | models | talks about |
|---|---|---|
| `RelayCommands` | the abstract promise | commands offered, withdrawn, obeyed, believed; the relay |
| `CommandLink` | protocol store, controller, MQTT dispatch, `handleCommand` | one command from reservation to evidence |
| `DeadMan` | `send_heartbeat`, `handleHeartbeat`, `checkDeadman`, `timeTrust`, `loop` | time |
| `Relay` | `CommandLink` and `DeadMan` on the one relay output, as `main.cpp` runs them | who may leave the relay NORMAL |
| `CommandLink_proofs` | | theorems about `CommandLink`, `DeadMan` and `Relay` |
| `CommandArbiter` | `issue_command`, the CUT and RESTORE gates as callers, grants, deferral | threads and locks |
| `Recovery` | incidents: bind, ISOLATE, RESTORE, CLOSE, disposal, restart | one incident's chain of evidence |
| `BreakGlass` | lockdown episodes, freshness proof, break-glass claim | one episode's single frame |
| `BreakGlass_proofs` | | theorems about `BreakGlass` |
| `UploadOutcome` | the abstract promise of an upload | published once and for ever, or dropped |
| `Uploads` | one resumable upload: requests, staged bytes, rows, clean-up, recovery, crashes | two stores |
| `Uploads_proofs` | | theorems about `Uploads` |
| `Backup` | one runner of the host agent, the write freeze of Drive, both clocks of the lease, restarts of both | two processes and a lease |
| `Streams` | one camera: leases in the database, grants under way, the engine's demands and viewers | time and authority across three parties |
| `NodeSessions` | one node and its agent: challenge, session, replay window | requests in two turns |
| `CommandArbiter_proofs`, `Recovery_proofs`, `Backup_proofs`, `Streams_proofs`, `NodeSessions_proofs` | | theorems about the module of that name |
| `MCCommandLink`, `MCRelay`, `MCCommandArbiter`, `MCRecovery`, `MCStreams` | | TLC instances: a bound, symmetry sets |

The modules cut the system along the questions, and each treats its
neighbours' answers as free choices: `CommandArbiter` lets a publish succeed,
fail or be unknown as it likes, where `CommandLink` says when each happens;
`Recovery` lets a RESTORE frame be obeyed at any later time or never, where
`CommandLink` says which frames are obeyed; `DeadMan` lets any command be
executed at any moment while the device trusts its clock. `Uploads` knows no
freeze and `Backup` any destructive request. Each free choice
allows more than the neighbour does, so the properties hold of the whole. For the
two modules that meet on one variable, `CommandLink` and `DeadMan`, `Relay` makes
the argument exact: it runs both, and is proved to implement each.

### CommandLink

The Core's side is `alloc`, `row`, `ack`, `correlated` (the SQLite tables),
`phase`, `inHand` and `told` (the thread inside `_issue_v1`). `Reserve`,
`Publish` / `PublishRaises` / `Withdraw`, `RecordPublished` are the commits of
that thread; between any two of them the network thread may run `ConsumeAck`,
`CorrelateStatus` or `ResyncForward`, and `CoreRestart` may strike.

The device's side is `nvs`, `hwm`, `locked`, `stage`, `current`. `Accept` is the
part of `handleCommand` up to the NVS write, `Actuate` the relay with its
history, `Report` the two answers; `DeviceReboot` may fall between any of them.
The refusals (`RejectExpired`, `RejectSequence`, `RejectPersist`) are actions of
their own. `RejectPersist` may or may not have stored the number: the NVS write
reported a failure, and that is all the handler knows.

The wire is the sets `sent`, `acks` and `statuses`: a frame once sent may be
delivered at any later time, again, or never. No action removes one, so the
replay table of the Core (`record_seen`) is not needed for any property; leaving
it out allows more deliveries, not fewer.

`executed` is a history variable: the numbers whose `setLockdown` ran.

`RelayCommands` is the abstract specification. It knows offers, obeyed commands
in increasing order, the relay, and what is believed or withdrawn; it has no
rows, no marks and no crashes. `CommandLink!KeepsPromise` maps `sent` to the
offers, `executed` to what was obeyed, `told = "NOT_SENT"` to the withdrawn
numbers, and consumed acks and correlated statuses to what is believed.

### DeadMan

Time is discrete. `Tick` advances `millis` modulo `Wrap` and ages every
heartbeat; `spent` lets `loop()` stay away from `checkDeadman` for at most
`Block` ticks, the time `mqtt.connect` may block. Zero doubles as "never" in
`lastHeartbeatMs` and `lastTimeSyncMs`, as it does in the firmware. A heartbeat
is its age; one older than `Skew` is refused wherever it arrives, so it may be
forgotten. The ring of message ids keeps ages in its place, in order.
`quiet`, `alone`, `syncAge` and `heard` are histories with caps beyond every
value a property compares them with.

### Relay

The composition. `Relay` extends `CommandLink` and `DeadMan` (whose `DInit`, `DNext`,
`DSpec` have names of their own for this) and runs their actions as `main.cpp` does.
The relay output is `locked` in the one and `isLockedDown` in the other; every action
that moves it moves both, and `OneOutput` says that they agree. The Core's steps leave the
dead-man alone; a frame is taken only while `Trusted` (`onMqttMessage`); `MoveRelay`
is `Actuate` and `HandleCommand` in one step, `Restart` is `DeviceReboot` and
`PowerCycle`; `TakeHeartbeat` and `LoopChecks` wait for the handler of a command to
end, because `loop()` is one thread. Time may pass within a handler, but not between
the flash write and the relay: `putULong64` and `setLockdown` follow each other.
That is a rule of the model (`Clock`), read from the code, and no result of it.

### CommandArbiter

A request is one call of a gate and the command it issues. `lock` and `step`
say who is inside `issue_command` and how far; `waiting` holds the threads that
raised their flag and wait for the lock. The containment count is raised before
the lock (`CallCut`) and lowered by the `finally` block (`Leave`), which is why
it can be wrong only across the early returns, the exceptions and the drain.
`ClearPendingAndDrain` re-enters `issue_command` for a deferred CUT under the
re-entrant lock, on the thread that saw the ACK or the timeout.

In this build every caller that can be reached passes `allow_defer=False`. The
deferral is the default of `issue_command` and part of its contract, so the
constant `Patient` says which CUTs use it, and the runs have both kinds.

### Recovery

`operation` is the Recovery request that holds `_lock`, with the incident
snapshot it took and the step it has reached; `gate` the same for the RESTORE
request. `Isolate` to `RecordIsolation` are ISOLATE, `Close` to `CloseIncident`
are CLOSE, `TakeSnapshot` to `LinkRestore` the normal RESTORE. `log` keeps the
audit rows by incident, which the code queries for every decision it takes.
`BindIncident` is the alert path, `DisposeHistorical` the one transaction of
the disposal, `Restart` a stop of the Core. The device answers as it likes.

`Isolate` is bounded by `Attempts`, the number of audited ISOLATE requests:
nothing in the code bounds them, and each leaves a row behind.

### BreakGlass

`episode` and `claim` are rows; `proof` is the supervisor's freshness proof;
`heard`, a history, is the last authenticated status of this process. A status
arrives in two parts, as in the code: the authenticated callback
(`OnAuthenticatedStatus`) writes the episode row and sets the proof, then
`OnStatus` moves `uplink`; each takes the command lock by itself. The write may
fail, and then only the dropped proof keeps break-glass out. `TakeSnapshot` to
`Publish` is the request.

### Uploads

One upload, since ids and storage keys are random and uploads share nothing.
`status`, `intent` (`commit_storage_key`), `stale` (whether
`commit_started_at` is older than the lease), `expired`, `chunks` and `files` are
rows. The bytes are one file for the whole life of an upload: `createStagedPart`
makes it, every other operation renames it, so `place` says under which name it
lies, `content` what it holds and `full` whether it reaches its size. A chunk
request keeps its descriptor through renames, which is why `BeginWrite` and
`EndWrite` do not look at `place`. A chunk being written is `TORN` unless the
same bytes were there before.

Each request is a program counter (`opening`, `put`, `commit`, `cancel`), each
job another (`cleanup`, `recovery`); an action is one statement of the database
or one operation on the file, and the awaits of the code are the gaps between
actions. `UndoPublish` to `AbortUpload` are the catch of the commit route.
Statements that need a row the recovery holds `FOR UPDATE` wait (`~Locked`);
statements that look for an open row do not. `verified` is what each commit
computed its SHA-256 from, a history of the value it stores in the files row.

`Faults` says which of two faults a run allows: `LEASE`, a commit that is slower
than its lease (15 minutes, configurable), and `ANSWER`, a COMMIT whose answer is
lost. `Versions` are the bytes a client may send for a chunk: one element is a
client that never changes its file between retries.

`UploadOutcome` is what all this is for, without any of it: an upload is undecided
until one file appears, complete, with its bytes and the checksum of these bytes, or
until it is dropped, and then nothing changes any more. `KeepsOutcome` says that
`Uploads` implements it. `Fate` is the mapping: published with a files row; dropped
when the row is aborted, or gone after the upload was opened; otherwise undecided,
in which an upload may be claimed, reopened and claimed again. The bytes the user
sees are those that lie under the key of the files row, if any do.

Inside `finishUploadCommit` the choice of a new file or a new version, a name
already taken and a folder that is gone are all either the applied or the
rolled-back outcome. A database error of the recovery rolls its transaction back;
that is what `Crash` does to it.

### Backup

A job is named by the call that starts it (`requestBackup`, `requestVerify`).
`step` is where the code of each call stands, `current` and `phase` the object
the runner and the status page see; `on` and `waiter` say which object that code
works on and which call `job.ack` wakes, because `start` reads the policy between
its look at `current` and its claim of it. `Ask` is that look, `SetCurrent` the
claim, `Launch` what follows the first write of the record. Any number of calls may
stand between the two. `Finish` is `finish` with the catch of `start`: a record that
cannot be written is tried once more as FAILED, and if that is lost too, the job stays
current for good and the runner refuses every later call. (`record` is the file; that
a later write of another job would carry a lost verdict along is left out, since it
could only turn RUNNING into FAILED.) `Acknowledge` runs
the waiting code on within the same turn of the event loop; `ToolEnds` is the end
of `pg_dump`, `restic backup` and `restic check` with the lease looked at again
after each of the first two.

Drive's side is one loop (`tick`): `Poll` asks and keeps the answer in `heard`,
`Hear` takes, keeps or lifts the freeze and may send an acknowledgement, `AckEnds`
is its end. The port opens when the first loop is over (`open`). `Admit` and
`EndRequest` are the gate. `inFlight` is what the gate counts, `running` what
really runs; the two differ only under the fault HANGUP. Two variables are history:
`spoilt` holds the jobs that read while a destructive request ran, and `overlapped`
says that a call has taken the place of a job at work. From then on the end of either
job tells Drive that none is current, the freeze of the other is lifted, and a
consistent success cannot be expected; `SuccessIsConsistent` therefore speaks of a
runner that has not overlapped, and TLC finds it violated without that condition.

`Faults` names two things the code does not exclude: `HANGUP`, a client that
closes its connection before the handler ends; `DEAF`, a boot
poll that reaches nobody, after which Drive opens its port without a freeze.

### Streams

One camera, since an epoch belongs to one. `last`, `over`, `epochEnd`, `gen`,
`end`, `live` are the rows of the two tables, each transaction one action
(`Acquire`, `Renew`, `Release`), because it holds the camera's row. `barredAt` is
since when the user of a stream may not watch. `pc` and `bootOf` are the proxied
request in Monitor, `net` every request to the engine that may still arrive, any
number of times. The engine keeps `grant`, `held` (demands and tombstones),
`viewers`, `cur` and `retired`, on its own clock `hubNow`, which stays within
`Skew` of the database's; every method sweeps first, so what ran out is removed as
that clock passes (`HubPass`). A message is dropped when its grant has expired,
since it can only be refused.

### NodeSessions

One node: its key and camera may be changed or withdrawn at any moment, which is
the free choice `agrees` at each read of the registry. `VerifyBegin` and
`VerifyEnd` are the two turns of `POST /verify`, `Arrive` and `Accept` those of a
signed request; `verifying` and `checking` hold what waits between them, up to two
copies each. `highest`, `seen` and `nonces` are the `ReplayWindow` of each session.
The agent (`Ask`, `Submit`, `Invalidate`) sends one request at a time but gives up
on a slow one, so several may be under way. A session is named by its challenge,
since a challenge opens one at most. When the clock passes, both stores forget
what ran out, and the model forgets the window of a session no request can reach.

## The runs

| run | question | bounds, and why they are enough | states |
|---|---|---|---|
| `MCCommandLink` | Does the command path implement `RelayCommands`? Is a number ever used twice? | `Ceiling = 2`: two commands are needed for an order, a stale second delivery and an overtaken first one; `InitialMarks = {0, 1, 3}`: a fresh device, one that is ahead, and one beyond the ceiling. Nothing else is bounded: frames, replies and crashes are as many as there are | 879,015 |
| `DeadMan` | Does silence lock, in bounded time, across wraps? | `Wrap = 9` against `Grace + 2 * Block = 5`: every alignment of a timeout with a wrap. `Slots = 3 > 2 * Skew` as in the firmware (20 slots, 10 s apart, 60 s) | 337,348 |
| `MCCommandArbiter` | Do racing CUT and RESTORE keep the one-shot rules and the priority? Is a queued CUT served? | two CUTs, one patient; two RESTOREs over two incidents, which may share one | 627,680 |
| `MCRecovery` | Do the incident rules survive every interleaving? | two incidents, two addresses, two ISOLATE requests: the second may fail after the first verified, or belong to the other incident. Three requests pass as well and show nothing new | 122,839 |
| `BreakGlass` | One frame per episode, only under lockdown, on a founded claim? | two episodes, two incidents: a stale proof and a stale snapshot each have something to be stale against | 501,076 |
| `Uploads` | Does every race over one upload end with the file published whole for ever or not at all (`UploadOutcome`), and no commit hanging? | two chunks, of which the last fixes the size; one chunk request, two commits, a cancel, a clean-up and a recovery at once, one crash | 455,478 |
| `UploadsFaults` | Is it still at most once and whole with short leases and lost answers? | the same without a crash: the recovery races live commits here | 3,027,920 |
| `Backup` | Is a successful backup consistent, and does every job end? | two calls, so that an acknowledgement or a freeze can be that of the other job and the two may overlap; a lease of one step of a clock with two, so that it runs out in each phase and a second job starts after the first one's; one destructive request at a time, which is enough to spoil a job | 1,165,336 |
| `MCStreams` | Is the camera served only within leases, and is a revoked stream out for good? | two streams, which share an epoch or follow in two; leases of two steps, clocks one step apart, four steps: a renewal, an expiry and a second epoch all fit; one restart of the engine | 1,237,818 |
| `NodeSessions` | Does a signed request count once, a challenge open one session? | two challenges, so that a session is renewed under requests of the old one; three requests against a window of two, so that one falls below it; two copies checked at once; two nonces, so that they run out | 1,005,990 |
| `DeadManLatch`, `BackupHangup` | statements of the repository that the code does not keep | see below | - |

Larger instances and single questions that pass, or fail as described below, have
configurations beside these: `MCCommandArbiterWide` (three RESTOREs with
`DeferredBehindRestore`, `OneInFlight`, `QueuedCutEnters`), `MCCommandLinkResync`,
`MCRelay` (the composed device with one command, one heartbeat in the ring and two
replies: `NormalIsEarned`, `OneOutput`, and that it implements
`CommandLink` and `DeadMan`; 1,804,888 states),
and those of the next section.

Every property of a passing run has a mutant in `PROJECT.json`: the model with
one plausible slip of the code, under which TLC finds the property violated.
The slips stand in each module as the "faulty variants".

The properties, by the hazard they answer:

* **Loss, repetition, reordering, power loss**: `KeepsPromise` (at most once, in
  order, believed only when true), `RefusedSequenceIsFinal`.
* **Restart and resync**: `NumbersNeverReused`.
* **Time**: `SilenceBound`, `HeardIsRemembered`, `SilenceLocks`.
* **Threads**: `ContainmentCounted`, `OvertakenOnce`, `QueuedCutIsServed`.
* **One-shot rights over failures and restarts**: `GrantIsOneShot`,
  `OneRestorePerIncident`, `OneFramePerEpisode`.
* **Rows and bytes**: `KeepsOutcome` (decided once, published as hashed),
  `FileHasBytes`, `NoHoles`, `OneFilePerUpload`, `CommitSettles`, and with short
  leases and lost answers `DecidedOnce` (a decided upload is never undecided again).
* **Evidence that goes stale**: `AtMostOneOpen`, `RestoreFollowsIsolation`,
  `ClosedIsRestored`, `DisposedNeverRestored`, `ClaimIsFounded`, `OnlyUnderLockdown`.
* **Two processes and a lease**: `SuccessIsConsistent`, `JobSettles`.
* **Authority that ends while messages travel**: `ServedWithinLease`,
  `RevocationBites`, `OpenEpochIsAccepted`, `RevokedStaysOut`.
* **Replay**: `AcceptedOnce`, and in the type invariants one viewer per grant and
  one session per challenge (`opened`, `made`).

## Where code and documents part

Two listed runs end in a counterexample, each to a sentence of the repository.

1. `DeadManLatch`: the design and the test matrix say the ESP32 cuts by itself
   within the dead-man time. The latch stays set after it fired; a RESTORE that
   the device executes before the next heartbeat opens the relay, and no further
   silence closes it again.
2. `BackupHangup`: the freeze is said to be acknowledged when every destructive
   request in flight has finished (`maintenance.js:12`). The count of a request is
   released when its response closes, which is also when the client hangs up; the
   handler may go on into the dump, and the backup is recorded as a success.

Eleven more disagreements have a configuration beside the listed runs; TLC finds
each property violated (`tlc -config X.cfg` on the module before the slash).

* `MCCommandLink` / `MCCommandLinkPersist`: the protocol design
  (`2026-09-15-idea3-pr11-phase4-protocol-v1-design.md:384`) says a CUT goes on
  when its sequence cannot be persisted; `handleCommand` answers REJECTED_PERSIST
  for both actions and the uplink stays up.
* `DeadMan` / `DeadManReplay`: the design (`:390`) asks for increasing
  `issued_at`; the firmware compares message ids with a ring and accepts an older
  heartbeat after a newer one.
* `DeadMan` / `DeadManHoldover`: holdover is at most 300 s in the design
  (`:173`); `timeTrust` subtracts an unsigned `millis()` that wraps, so a sync
  49.7 days old is trusted again for a holdover.
* `BreakGlass` / `BreakGlassStale`: break-glass is for the case in which the
  normal RESTORE is not valid; the isolation may be repeated and verified during
  the slow R2 probe, and is not looked at again under the lock.
* `Uploads` / `UploadsChangedFile`: `commitRecovery.js:18` says a committed file
  agrees with its metadata; a chunk request that is still writing when the commit
  hashes and renames changes the published bytes, if the client sends other bytes
  for that chunk.
* `Uploads` / `UploadsSweep`: a clean-up round is said to be safe beside running
  uploads (`uploadCleanup.js:20`); it lists rows before directories, while opening an
  upload makes the directory before the row, so the new upload loses its file.
* `Uploads` / `UploadsLease`: a lease set too short is said to damage no data
  (`transferLimits.js:69`); `finishUploadCommit` checks that the row is committing,
  not that the claim is still its own, and writes a files row for bytes that the
  recovery has moved.
* `Uploads` / `UploadsCancel`: `uploads.js:451` says an upload is not cancelled
  while its commit works; the status is read once and the deletion has no
  condition on it.
* `Uploads` / `UploadsAnswer`: the catch of the commit route takes any error for
  a rollback (`uploads.js:401`); a COMMIT whose answer was lost was applied.
* `NodeSessions` / `NodeSessionsReplaced`: the design
  (`2026-09-13-idea2-cp3-machine-a-agent-identity-design.md:280-281`) refuses a request
  of a replaced session; the session is looked up before the registry is read and not
  again, so a request whose session was replaced meanwhile is served.
* `Backup` / `BackupOverlap`: a test is named "only one job runs at a time"
  (`tests/job.test.js:188`), and starts its second call when the first is past the
  look. `start` (`job.js:234`) looks whether a job is current and claims the place only
  after it has read the policy and classified the target (`:246`); two calls that meet
  in that window, a manual RUN and the timer say, both start, and the first then works
  on the object of the second (`OneJobAtATime`).

Two things the models show that no document denies:

* `DEAF` of `Backup`: if the agent does not answer the poll at boot
  (`server/index.js:86`), Drive opens its port without a freeze although the agent
  may be in the middle of a snapshot.
* The desktop wizard (`wizard.py:70`) creates incidents in another process, outside
  the lock that keeps `AtMostOneOpen`; the models have the Core's writers only. And
  a process that dies between the removal of staged bytes and the row
  (`uploads.js:457`) leaves an open upload that can only be cancelled again.

## What is proved

`tlapm` checks eight modules of theorems, for every value of the constants.

**`CommandLink_proofs`**, from `CeilingAssumption` (a positive ceiling) and
`MarksAssumption` (the device's mark is a natural number). The invariant is

    IInv == TypeOK /\ DeviceInv /\ EvidenceInv /\ IssuerInv

No conjunct is inductive alone. `DeviceInv` ties the RAM mark to the flash and
both to every executed number: a command is handled only when its number lies
above all executed ones, and stays there until the handler ends, through a power
loss in between. `EvidenceInv` says that an ACCEPTED ack or a correlated status
exists on the wire only for an executed number, and a consumed one only after it
was on the wire. `IssuerInv` says where a reserved number may be: in hand, on the
wire, or nowhere if its caller was told NOT_SENT. From it:

* `TypeCorrect`, `OrderCorrect`, `EvidenceCorrect`, `VerdictCorrect` directly;
* `NumbersCorrect` and `RefusalCorrect` with `ReplyInv`, which adds what a
  SEQUENCE_REJECTED report may claim about the mark;
* `ReleaseCorrect` and `ForwardCorrect`, the action properties, the second with
  `AckInv`, which says which rows may hold evidence;
* `Refinement`: `Spec => KeepsPromise`, each initial state mapped to an initial
  state and each action to a step of `RelayCommands` or a stutter.

The same module proves **`DeadMan`**, from `BoundsAssumption` (positive constants,
`Deadman <= Grace`, no timeout reaches a wrap, `2 * Skew < Slots`). The invariant is

    DeadInv == Typed /\ SilenceInv /\ RingInv /\ HeardIsRemembered

`SilenceBound` compares a cap with histories, `checkDeadman` a timeout with unsigned
differences; `SilenceInv` is what relates the two. While a heartbeat is remembered
and the latch is open, the unsigned difference *is* the time since it, however often
`millis()` has wrapped, since it never reaches a wrap (`SinceBeat`). Before the first
heartbeat the relay is either newly released, or `millis()` itself is still within
the grace (`BeforeBeat`). The lemma `Unsigned` splits `% Wrap` into its two cases.
`HeardIsRemembered` is a counting argument. `RingInv` says that no age below `Old`
occurs twice in the ring, and that an entry of age `a` has at most `a` later ones
that are already `Old`: one tick makes at most one entry old. If the full ring
dropped a first entry that still mattered, the other `Slots - 1` entries would be at
most `Skew` old ones and at most `Skew - 1` of ages of their own, and
`2 * Skew < Slots` leaves one too many (`DroppedIsOld`). So the 20 slots of the
firmware suffice because heartbeats come at least 10 s apart and are refused after
60 s. From these `DeadManTypeCorrect`, `SilenceCorrect`, `HeardCorrect`.

And the composition **`Relay`**: `RelayFollowsCommandLink` and `RelayFollowsDeadMan`
(each step of the device is a step of the one module, or leaves it alone; for
`DeadMan` without its fairness), so that every theorem on either side holds of the
composed device. `NormalCorrect` uses both sides: the newest executed number was
carried by a RESTORE while the relay is NORMAL (`NewestIsRestore`, which needs that
one frame carries a number), and silence is bounded. What carries the composition
is `OneOutput`, with `CheckDeadmanLocks`:
`checkDeadman` locks the relay or leaves it.

**`BreakGlass_proofs`**, from `BreakGlassAssumption`. The invariant is

    IInv == TypeOK /\ ProofIsFresh /\ LockHolds /\ ClaimBeforeFrame /\ EligibleIsFounded

`ProofIsFresh` says what the freshness proof proves, although the row and the
proof change in different steps; `LockHolds` that a request past `EnterGuard`
keeps what it compared, because every writer of it takes the same lock;
`ClaimBeforeFrame` is the ladder from claim to frame, and `EligibleIsFounded`
carries the recorded failure from the check to the claim. From it `TypeCorrect`,
`FrameCorrect`, `ClaimCorrect` and, as an action property, `LockdownCorrect`.

**`Uploads_proofs`**, from `UploadsAssumption`, for any number of crashes and, but for
the last two theorems, every set of faults. The invariant is

    IInv == TypeOK /\ HoleInv /\ FileInv

`HoleInv` follows a chunk from its write to its row, to the check of the commit,
to the hash: what was written never becomes a hole again, whoever deletes rows or
moves the file. `FileInv` says that a row the recovery holds is a committing one,
and that an upload with a files row is never open or committing again, which is
what makes it at most once. From it `TypeCorrect`, `WholeCorrect`, `OnceCorrect`,
and the action property `DecidedCorrect`: a decided upload keeps its fate, since only
a committing row is ever reopened or published (`StepDecides`). `VerifiedCorrect` assumes `OneVersion`, a client that never changes
its file, and adds `SteadyInv`: whole bytes stay what they are through every
later write. The configuration `UploadsChangedFile` shows that the assumption is needed.
`BytesCorrect` assumes `Faults = {}` and adds `OwnerInv`: a commit past its claim owns
a row that is committing under its key with a lease still running, or that is gone, so
no second commit and no recovery moves what it renamed. `UploadsLease` and
`UploadsAnswer` show that each fault breaks it. `OutcomeCorrect`, under both
assumptions, is the refinement `Spec => KeepsOutcome`: where the files have their
bytes and these are the hashed ones, what the user sees follows from the checksums
(`ShownIsHashed`); those of a file are never computed again, since its commit is
over (`HashStays`); and the one step that decides for a file is `FinishUploadCommit`
on bytes that `SteadyInv` knows to be whole.

**`CommandArbiter_proofs`**, from `RequestsAssumption`, which says that there are
finitely many CUTs: the containment count is a number. The invariant says what each
thread may hold at each step: the lock has one holder and every other thread inside
`issue_command` is waiting for it; the CUTs between their increment and their
decrement are as many as the count; a deferred CUT stands behind the pending
RESTORE, and a thread that drains serves the one it took out of the slot; and what
may still reach the wire: a grant that is consumed and not recorded, an attempt row
without its frame. From it `CountCorrect` (cardinalities of the set of counted
CUTs), `SlotCorrect`, `GrantCorrect`, `RestoreCorrect`, `OvertakenCorrect`, and the
action properties `InFlightCorrect` and `QueuedCorrect`.

**`Recovery_proofs`**, from `RecoveryAssumption`. The rows change under one lock and
are read under another, so the invariant says what a snapshot still shares with its
row: an operation or a RESTORE request that is past its checks has the incident's
address, and the row may since have been closed or disposed of but never rebound
(`OperInv`, `GateInv`). `LogGrows` is the lemma that carries it: the audit log of an
incident only grows, so a row once found stays found, and stays before what follows
it. From it `OneOpenCorrect`, `IsolationCorrect`, `ClosedCorrect`,
`DisposedCorrect` and the action property `TargetCorrect`.

**`Streams_proofs`**, from `StreamsAssumption` (the margin is shorter than the lease).
The invariant follows a lease from the database to the engine: a grant under way
expires, on any clock within the margin, before the demand it was cut from
(`GrantLease`), and so does what the engine holds for it (`HeldLease`); the end of a
lease lies at most one lease after its user was barred (`BarLease`); only the newest
epoch is open and nothing that retires it is under way (`EpochInv`); the tombstone of
a revoked stream outlives every grant for it, unless a newer epoch has swept both
(`TombGuard`). From it `ServedCorrect`, `BarredCorrect`, `EpochCorrect`,
`RevokedCorrect`, and `TypeCorrect`, in which one viewer per grant needs `UsedOnce`.

**`NodeSessions_proofs`**, from `NodeSessionsAssumption`. `SpentInv` says that a
request that was let through is below the window of its session or in it and seen,
for as long as a copy of it may still be taken: `acceptSequence` then refuses it
whatever its nonce. `UnusedInv` keeps a challenge in the store from having opened a
session. From them `AcceptedCorrect`, `SessionCorrect`, `TypeCorrect`.

**`Backup_proofs`**, from `BackupAssumption`. `TypeCorrect` holds with any faults;
`ConsistentCorrect` assumes `Faults = {}`, and `BackupHangup` shows that it must. The
invariant is `overlapped \/ IInv`: all is claimed of a runner until a call takes the
place of a job at work, and `OverlapLasts` says that nothing is after. The heart is
`FreezeInv`: a job that reads, or may begin to with an
acknowledgement under way, has within its lease the gate closed (nothing runs, and
the freeze is its own or the port is not open), and a poll that Drive still works on
says the same. It needs `DriveInv`, by which whatever Drive has heard or holds about
a job that still works ends with that job's lease, and `JobInv`, by which the job at
work is the current one, though a job whose record was lost may be current after its
end. Every step of the agent is `Tame`: it lets no job begin to read that could
not before.

Only model-checked: liveness (`SilenceLocks`, `QueuedCutIsServed`, `CommitSettles`,
`JobSettles`), which is out of the prover's reach.

## Fairness, deadlock, atomicity

**Fairness.** `DeadMan` assumes that `loop()` keeps running (`CheckDeadman`) and
that time passes (`Tick`); heartbeats, commands, syncs and the Core owe nothing.
`CommandArbiter` assumes that a thread which can go on does: the holder of the
lock finishes, a waiting thread gets the lock, and the health loop looks at the
clock (`AckTimeout`). Weak fairness of the acquisition is enough, and justified
without a fair lock, because there are finitely many requests: those ahead of a
thread run out. ACKs and restarts are never owed. `Uploads` assumes that a commit request that
runs gets on or fails, that the lease of an abandoned one runs out, and that the
recovery, started by a timer every five minutes, comes round and ends; clients,
cancels and clean-ups owe nothing, and the process dies at most `Crashes` times
(a server that died for ever would settle nothing). `Backup` (`FairSpec`) assumes that
the clock runs and that the code of a job goes on, since the acknowledgement has a
timer and every tool a time limit; Drive and the network owe nothing. The other
specifications have safety properties only and state no fairness.

**Deadlock.** `DeadMan`, `Recovery`, `BreakGlass` and `Uploads` are checked for deadlock.
`CommandLink` really stops issuing at the ceiling with every frame lost, and
`CommandArbiter` has finitely many requests; `Backup`, `Streams` and `NodeSessions`
stop when their bounded clock and requests are used up. Their configurations say
`CHECK_DEADLOCK FALSE`.

**Atomicity.** One action is one SQLite transaction, one hold of a lock over
memory that only its holders touch, or one step of the firmware between two
writes to flash, relay or wire; in the Node.js servers, what runs between two awaits. Where the code reads, waits and writes, the read
and the write are two actions and the value is kept in `inHand`, `operation`,
`gate` or `current`. Two places are coarser and say so: `Recovery!HearCommandStatus`
takes the store's correlation and the supervisor's observation together (the
network thread runs both for one frame), and conditions of the command lock that
only ever refuse are part of `RefuseRestore` / `Refuse`.

## What is not modelled

* **Cryptography and frame layout.** Only frames that pass verification are
  delivered; the model's wire contains nothing else. The broker is external.
* **The inbound replay table** (`record_seen`, `prune_seen`): its absence only
  allows more.
* **Web dispatch**: ledger, worker and the server side cannot reach a command in
  this build, because `_operator_approval_verified` returns False.
* **Authentication, lock-out, schemas and socket servers** of the local channels:
  they reduce which requests are made, never what a request does.
* **Legacy v0 and dry-run paths**: they publish nothing of Protocol v1.
* **The audit hash chain**, backup and export.
* **Front ends, the containment helper, trusted time**: inputs, modelled as free
  choices where they decide something (`Block`, `ReadBack`, expiry verdicts).
* **The rest of IDEA1**: the vault's uploads repeat the protocol of `Uploads` over
  encrypted chunks; sharing, login, folders and media are rows read and written one
  at a time.
* **The rest of IDEA2**: the frames of a stream and their queue, the capacity of the
  demand table, browser association challenges, recording and its synchronisation,
  which are threads around external libraries.
* **The rest of the backup agent**: its timer, which only starts jobs, retention and
  the command lines of the tools; the telemetry agent, the gateway, the HUB page and
  the camera scanner keep no protocol state.
* **Vendored tools**: most of the repository's JavaScript lies in copies of a design
  skill under `.agents`, `.cursor` and `.gemini` and in user interface code, which
  have no part in any of this.

## The plan

Everything above is done. What a continuation would take up, in this order:

1. The vault's variant of the upload protocol, against the same `UploadOutcome`.
2. A composition of `CommandArbiter` with `CommandLink` for the step from a pending
   command to its evidence.
3. The Web dispatch queue of IDEA3, once the build can reach it.
