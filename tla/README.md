# jetrun in TLA+

TLA+ specifications of jetrun: the content-addressed store with its garbage
collector and its materialization, the database's bootstrap, authorization and
its cache, the webhook endpoint, the JRP protocol, the server's start and
shutdown, and the encodings they share. They are checked with TLC on small
instances; of every component with state the safety properties are proved with TLAPS
for every instance, with the exceptions listed under [proofs](#proofs). `PROJECT.json`
maps each definition to the lines it models, each property to a mutation of the
code that breaks it, and each hazard to the properties that guard it.

Contents: [the system](#the-system), [modules](#modules), [runs](#runs),
[fairness](#fairness), [proofs](#proofs), [disagreements](#disagreements),
[not modelled](#not-modelled), [plan](#plan).

## The system

jetrun is a build server. A *shard* or a build step stores its inputs and
outputs in a local content-addressed store; clients and workers talk to the
server over JRP, a framed TCP protocol; providers such as GitHub trigger runs
over HTTP webhooks; SQLite holds organizations, roles and grants.

| Component | State it keeps | Operations | Talks to |
|---|---|---|---|
| jet-cas `ObjectStore` (`store.rs`, `link.rs`) | `objects/<ab>/<hex>`, `tmp/<hex>.staging`, the reflink capability; durability mode | `put_bytes`, `put_tree`, `put_file`, `get_bytes`, `get_bytes_verified`, `get_tree`, `has`, `missing`, `ingest_dir`, `materialize`, `gc` | other threads and processes, through the filesystem only: there is no lock |
| jet-cas trees (`tree.rs`) | none | `Tree::encode`, `decode`, entry names | `ingest_dir`, `materialize`, `gc` |
| jet-authz (`lib.rs`) | `DecisionCache`: generation counter, entries with a TTL, fill lock | `authorize`, `effective_permissions`, `invalidate` | the read pool of jet-store; call sites that change grants |
| jet-core (`authz.rs`, `digest.rs`, `id.rs`) | none | permission and role tables, scope ancestry, digests, ULIDs | everything |
| jet-store (`db.rs`, `bootstrap.rs`) | SQLite pools, migrations, system roles | `open`, `bootstrap` | SQLite |
| jet-proto (`frame.rs`, `msg.rs`, `conn.rs`, `tuning.rs`) | per connection: version, peer capabilities, next stream id | `client_handshake`, `server_handshake`, `send`, `recv`, `ping` | TCP |
| jet-server JRP (`jrp.rs`) | per session: authenticated | accept loop, session loop | jet-proto, the shutdown channel |
| jet-server HTTP (`http.rs`, `state.rs`, `webhook/*`) | `DeliveryGuard`: delivery ids with times, a cap and a TTL | `POST /webhooks/:provider`, `POST /api/v1/trigger`, health | providers, `enqueue` |
| jet-server start and stop (`lib.rs`), jetrun CLI (`main.rs`) | the watch channel, the tasks | `serve`, `ping`, `submit` | both listeners, ctrl-c |

What is hard here, and what correctness means:

- **The store** is lock-free across processes. Its correctness is that an
  insert takes effect at one instant, a visible object is whole and never
  changes, and what was acknowledged survives what the durability mode promises,
  whatever point a process dies at and whichever system call fails.
- **gc** runs while steps insert. No kept tree and no running step may lose an
  object; garbage must go in the end.
- **materialize** shares inodes with the store where it may. No write of a step may
  reach an object, and a call that returns Ok has made the tree and nothing else,
  whatever an earlier call left behind.
- **The database** is migrated and its built-in roles rewritten on every start, by
  servers of different builds that start, die and serve side by side. No request
  may see a role or a schema half-way, and grants decide as written: down the
  scopes, through teams, never across tenants.
- **The authorization cache** is filled by queries that race with revocations. A
  check that begins after `invalidate()` must not see the older database.
- **The webhook endpoint** sees every delivery any number of times, in parallel,
  genuine or forged, with a bounded memory.
- **JRP** meets peers of other versions, pipelined requests, full buffers, peers
  that do not conform, and connections that break.
- **Encodings** (manifests, digests, hashed fields, provider payloads) are pure, and
  wrong at their edges if anywhere: lengths, prefixes, absent fields, damage.
- **Shutdown** is a signal that may come at any time and two listeners that may
  fail on their own.

`PROJECT.json`, "hazards", lists the places where this bites, line by line.

## Modules

| Module | Models | Actions |
|---|---|---|
| `Cas` | insert and read paths of `ObjectStore` | one per system call another process can observe: `Has`, `RemoveStaged`, `CloneCreate`, `CloneIoctl`, `Fallback`, `OpenStaged`, `WriteChunk`, `WriteDone`, `WriteFails`, `Fsync`, `Seal`, `Rename`, `DirSync`, `ReadOpen`, `ReadData`; the environment: `Edit`, `Kill`, `PowerLoss` |
| `AtomicStore` | what the store promises (abstract) | `Insert`, `Acknowledge`, `Lookup`, `Deliver`, `Lose` |
| `CasGc` | `gc` against steps running `ingest_dir`, on the atomic store | a step's `Begin`, `Put`, `Commit`, `Abandon`; the caller's `Forget`; gc's `GcStart`, `Visit`, `ReadClock`, `Sweep`; `Tick` |
| `Materialize` | `materialize_tree` and `link::materialize`, several calls at once | one per system call: `Start`, `EnterDir`, `LoadTree`, `Visit`, `Leave`, `Clone`, `SkipClone`, `Link`, `Copy`, `Chmod`; `Probe`; the environment: `Return`, `Kill`, `Unlink`, `Write`, `Clean` |
| `Roles` | permissions, system roles, scopes (`jet-core/authz.rs`) | operators |
| `Bootstrap` | `Db::open` and `bootstrap`, on a database that servers of several builds share | `Start`, `ListApplied`, `Migrate`, `Busy`, `Verify`, `Begin`, `InsertRole`, `Reconcile`, `Commit`, `Crash` |
| `Grants` | what `authorize`, `effective_permissions` and the cache's key make of the rows, on top of `Bootstrap` | an administrator's `Assign`, `Revoke`, `Suspend`, `SuspendMembership`, `Join`, `DefineRole` |
| `DecisionCache` | `DbAuthorizer::authorize` and its cache | `Begin`, `BeginShortcut`, `Standing`, `LoadGeneration`, `Lookup`, `Query`, `Insert`; an administrator's `Commit`, `Bump`, `Clear`; `Suspend`, `Expire` |
| `Webhook` | the webhook handler with the `DeliveryGuard` | `Receive`, `CheckDelivery`, `Dispatch`; `Tick`, `Restart` |
| `JrpSession` | client, connection and server session | `Open`, `Request`, `Write`, `HandshakeReply`, `Receive`, `ClientEof`, `ClientDone`; `ServerHandshake`, `Serve`, `ServerRecvFails`; `Cut` |
| `ServerLifecycle` | `jetrun serve` | `CtrlC`, `DropSender`, `BindHttp`, `Spawn`, `Join`, `HttpAccept`, `HttpBody`, `HttpAnswer`, `HttpShutdown`, `HttpDrained`, `JrpAccept`, `JrpSessionEnds`, `JrpChanged`, `TaskFails` |
| `TreeCodec` | `EntryName::new`, `Tree::encode`, `Tree::decode`, the check of `get_tree` | operators over bytes |
| `Manifests` | what is asked of them, of one tree or manifest at a time | properties |
| `Digests`, `Shards` | `Digest` as text, `fanout`, `update_framed`; `shard` | operators |
| `WebhookEvents` | `verify` and `parse` for each provider, `should_trigger`, `dispatch`, `enqueue`, the API trigger | operators |
| `Hosts` | external: what GitHub, GitLab and Bitbucket send | operators |
| `CasProofs`, `CasGcProofs`, `MaterializeProofs`, `GrantsProofs` (with `Bootstrap`), `DecisionCacheProofs`, `WebhookProofs`, `JrpSessionProofs`, `ServerLifecycleProofs` | proofs about the module they are named after; `CasGcProofs` also about `Manifests` and `Digests`, which the store keeps its trees and names in | |
| `MC*` | values of constants for TLC; `MCFormats` also enumerates the inputs of the pure modules, an input per state, and states their properties | |

`Cas` implements `AtomicStore` (property `ImplementsAtomicStore`), and `CasGc`
and `Materialize` build on what `AtomicStore` promises: they insert and read objects
in one step. `Grants` runs on the database `Bootstrap` makes, so an authorization is
decided in every state that a start, a crash or an upgrade can leave. `DecisionCache`
takes the database as a version number; `KeyDecides` of `Grants` is what justifies
taking the permissions a key holds as a function of it. `Webhook` takes what a
delivery's signature and payload amount to as given; `WebhookEvents` computes it.

How data is abstracted:

- *Contents* are identified with the digest that names them; a file is a
  sequence of chunks, each one a digest's chunk or a hole. A *digest* is an
  opaque value, so collisions do not exist.
- *Modes* are one bit, sealed (0444) or not. The bits `fs::copy` takes over from
  a source file are ignored: a staged copy is owner-writable until it is sealed.
- *The database* behind the authorizer is a version number; what a key holds is a
  function of the version.
- *Reads* of an object are made chunk by chunk (`ReadData`), as `fs::read` makes them;
  a read that returns an error leaves no trace and is left out. Hashing what was read
  (`get_bytes_verified`, `get_tree`) compares it with the digest, which is what `reply`
  records.
- *Placing a file* in `Materialize` is a step per mechanism. `raw_reflink` is one step,
  as no other call has its destination; that the file it creates may stay, because its
  removal fails or the process dies, is one of its outcomes. The statistic `bytes` is
  left out: it adds the sizes that the manifest states, which are no part of a digest
  that stands for contents.
- *Deliveries* have a delivery id, an outcome of the body limit, the route and `verify`,
  and an outcome of `parse` and `dispatch`. `dispatch` has an error branch for an `enqueue` that
  fails; today `enqueue` fails only for an unmapped repository, so it is dead.
- *Frames* have a type, a stream id with its width, a version and what `decode`
  and `validate` make of the payload. `authenticate_token` is a TODO that
  refuses every token; `TokenLookup` says whether the good token is known, so
  the gate is checked on both of its sides.
- *Permissions* are the ones of `Permission` by their keys, reduced in `Roles` to those
  that roles and builds tell apart. A *ULID* is a number; a fresh one is unused.
- *SQLite* has one writer at a time and readers that see what is committed; a
  transaction is a private copy of the tables it writes, dropped when its server dies.
  `sqlx`'s migrator lists what is applied and then applies each migration in a
  transaction of its own; on SQLite it takes no lock across them. It refuses a
  database with a migration it does not have.
- *Manifests* are sequences of bytes below `Base`, every fixed-width integer one byte
  wide, so that lengths wrap where the code writes `as u16`. *Hashes* are injective.
- *JSON* is a function from the paths that the parsers read to values, undefined where
  a field is absent or of another type. A ref is a prefix and a name.
- *Time* is counted in ticks. Ages saturate at `MinAge`, cache entries have one
  bit, fresh or not.

Undefined orders in the code are choices in the model: which of two equally old
entries the hash map yields for eviction, which ready branch `select!` takes,
the order gc visits digests in, what a filesystem keeps after a power loss.

## Runs

Run one with `tlc -config <run>.cfg <module>`.

### Passing

| Run | Instance | Shows |
|---|---|---|
| `cas_exclusive` | 2 writers with a digest each, 1 reader, 3 inodes, objects of 2 chunks, `put_bytes` and `put_file`, any I/O fault, 1 kill, no reflink | an object is whole from the moment it is visible and never changes, no writer can still write to it, no read is torn, and the store implements `AtomicStore` |
| `cas_synced` | the same with `Synced`, `put_bytes`, 2 power losses | acknowledged inserts survive; after the second loss, too, which meets what the first left |
| `cas_edits` | 1 privileged writer, 2 digests, reflinks, sources edited at any time, 2 kills | no edit and no descriptor reaches a committed object; whatever is inserted again is stored in the end |
| `gc_sweeps` | a directory with a file and a subdirectory, 2 steps, `MinAge` 3 > step 1 + mark 1, one read, listing or unlink that fails | kept trees stay complete (until a read fails, see below), running steps keep their objects, garbage goes |
| `materialize` | 2 calls, 2 destinations of which one is on another filesystem, 3 nested trees with a plain file, an executable and a symlink, one deeper than the bound, 1 mishap (a failing call, a manifest that cannot be read, a kill or an object removed) | no write of a step reaches an object; a call that returned Ok left exactly the tree, with the modes of its intent and the right statistics; no other call, kill or gc disturbs it later |
| `authz_db` | 2 servers, 3 starts of an older, a newer and a drifted build, 2 tenants with a user in both, teams, an account that is granted something in the other tenant as well, a custom role, grants that name another tenant's team or project, 2 changes | no role and no schema is seen half-way, a drifted build stops at the check, custom roles are untouched, an owner is never locked out, two requests that share a cache key have one answer, and `authorize` gives what the grants say |
| `formats` | trees of up to 2 entries with targets up to and past the length field, every byte sequence of up to 6 bytes and manifests of bad entries, each manifest with a byte changed or dropped; 2-byte digests, up to 16 shards; lists of up to 2 fields; 12 happenings on 3 hosts with up to 2 fields lost; every combination of signature headers and secrets; every trigger request | trees come back, damage is found, names stay inside; digests parse and route; frames differ; the hosts agree on what starts a run, and for which commit; a delivery is verified only by its own host's header; the trigger needs its token |
| `authz_cache` | 2 checks, 1 key, 1 administrator, 1 change, which may be forgotten | no stale decision after an announced change, a suspended principal is locked out at once, and the TTL repairs a forgotten invalidation |
| `webhook_deliveries` | 2 handlers, 5 deliveries, 3 ids for a guard of 2, TTL 2 in a clock of 3 values, 1 restart | the guard stays within its cap, an id is fresh again only after its TTL or enough newer ids, a genuine delivery gets its run although a forgery carries its id |
| `jrp_session` | a client of version 1, a server of 1 to 2, any first frame, 6 message types with 5 kinds of payload, window 3, streams of 1 frame, 3-bit stream ids, 4 requests, cuts | both sides agree on version and capabilities, replies match requests, ids differ across the wrap, the gate holds, every call returns unless both sides block each other in their writes with as many requests unanswered as both streams hold |
| `server_lifecycle` | 2 requests, with their body or still sending it, and 2 sessions, each fault | no request is dropped, no failure is reported as success, ctrl-c ends the process unless the body of some request never comes |

Why the bounds are enough: the hazards need two of a kind (a rival, a second
check, a redelivery) and one object in flight at each stage. Two chunks tell a
whole object from a partial one, three inodes leave one for a retry beside one
object per digest. Three-bit stream ids wrap on the fourth request. A window of 3 is
more than the two streams of one frame hold, so both can be full while the client
writes. `MinAge` is the
least value above step plus mark time. A guard of two entries and three ids
reaches the cap and has an older and a newer entry to evict. Three starts of two
servers are an upgrade with one rollback or one crash. Bytes below 5 have one value
for each byte the codec tells apart, and targets of up to 6 bytes pass the largest
length a byte can hold. For the properties that
the theorems below state, the bounds do not matter.

`InodeSymmetry` permutes inodes, `JobSymmetry` calls and `ServerSymmetry` servers, which
no definition tells apart; they are used in runs without liveness properties only.

`formats` has three properties, each a conjunction of named parts: `ManifestsSafe`
(`TreesComeBack`, `DamageFound`, `DecodedNamesStayInside`), `DigestsIdentify`
(`DigestsRoute`, `OnlyDigestsParse`, `FramesDistinct`) and `RunsHaveReasons`
(`HostsAgree`, `EventsNormalized`, `VerifiedIsProven`, `TriggerNeedsToken`). `CompletedIsExact` of
`Materialize` includes the statistics (`StatsMatch`), `SchemaWhole` of `Bootstrap` that
a drifted build stops at its check. `TypeOK` is a property of the runs of `Cas` and
`DecisionCache`; the other modules state it too, and it holds in their runs.
`RepliesInStep` of `JrpSession` says that the replies on the way, followed by the
requests on the way that will be answered (`Awaited`: all but a Goodbye), carry the
stream ids of the outstanding requests, in that order.

Deadlock is checked in every run but two: `authz_db` ends when its bounds on starts
and changes are used up, and a state of `formats` is an input. Writers, steps, checks and handlers can always
start again, and a session and a process that are over stutter in an action of
their own (`Over`, `Exited`).

### Violation

It states what the documentation says and fails for what the code does.

| Run | Property | What happens |
|---|---|---|
| `cas_rivals` | `ReadsAreWhole` | two inserts of one digest share `tmp/<hex>.staging`; one truncates the file the other has renamed, or is about to rename, and a reader gets a partial object |

The [disagreements](#disagreements) are of the same kind.

## Fairness

- `Cas!FairSpec`: a writer makes its next system call (the scheduler), and what
  was killed is run again (strong fairness of `Start`: the store's documentation
  relies on "the next run"). Kills are bounded.
- `CasGc!FairSpec`: gc is run again and again to its end, steps end, time passes.
  Strong fairness of `Tick` because a step or a mark at its bound disables it for
  a while.
- `DecisionCache!FairSpec`: tasks are polled, entries grow old, clients keep
  asking. Nobody has to change anything.
- `Webhook!FairSpec`: handlers are polled; a provider sends a delivery again until
  it is answered with success. Nothing is assumed of forgers.
- `JrpSession!FairSpec`: both tasks are polled, and a client that has sent a
  request awaits the reply, as `ping` and `submit` do. Nobody has to send a
  request or to hang up. A write into a full stream waits until the other side reads,
  for ever if it never does. The code limits the requests in flight nowhere; `Window` is
  a bound on what the callers of `send` leave unanswered, 1 for `ping` and `submit`.
- `ServerLifecycle!FairSpec`: tasks are polled; tokio's `select!` picks among the
  ready branches at random, so one that stays ready is taken; a handler that has
  its body answers. Nobody has to press ctrl-c or to finish sending a body (the router
  sets no timeout, `http.rs:42-51`), and sessions may stay open for ever.

## Proofs

`tlapm <module>.tla` checks the proofs of a module. Each theorem is about `Spec`,
without fairness, and holds for any number of the processes, values and faults that
the module is parameterised by; those about manifests and digests are about the
functions themselves, for every input. The named `ASSUME`s of the modules say what constants
are (functions of the right domain, markers that are no values); TLC evaluates them in
every run. Where a theorem needs more, it has a hypothesis, given below.

| Module | Theorem | States | Hypothesis |
|---|---|---|---|
| `CasProofs` | `TypeCorrect` | `TypeOK` | |
| | `StoreIntegrity`, `CommittedUnreachable`, `ReadsWhole`, `CommittedImmutable` | `ObjectIntegrity`, `NoWriteReachesObject`, `ReadsAreWhole`, `ObjectsImmutable` | `Sound` |
| | `AcknowledgedSurvives` | `CompletedInsertSurvives` | `Lasting` |
| | `StoreIsAtomic` | `ImplementsAtomicStore` | `Lasting` |
| `CasGcProofs` | `TypeCorrect` | `TypeOK` | |
| | `StepsUndisturbed`, `RootsStayComplete` | `RunningStepsKeepObjects`, `RootsComplete` | `Grace` |
| | `ManifestsAreSafe` | `ManifestsSafe` | the tree is one that can be stored, the manifest a string of bytes |
| | `EncodeInjective` | trees with the same manifest are the same | the trees can be stored |
| | `FramesDifferent` | `FramesDiffer`, the part `FramesDistinct` of `DigestsIdentify` | |
| | `DigestsParseBack`, `OnlyDigestsParsed` | `ParsesBack`, `ParsesOnlyDigests`, of its parts `DigestsRoute` and `OnlyDigestsParse` | |
| `MaterializeProofs` | `StoreNeverWritten`, `FinishedUndisturbed` | `StoreUntouched`, `CompletedUndisturbed` | |
| | `WorkspacesIsolated` | `Isolated` | |
| | `CompletedExact` | `CompletedIsExact` | |
| `GrantsProofs` | `RolesNeverHalfWay`, `SchemaNeverPartial`, `CustomRolesKept` | `RolesWhole`, `SchemaWhole`, `CustomRolesUntouched` | |
| | `AuthorizeExact`, `KeyIsEnough`, `OwnersKeepControl` | `AuthorizeIsExact`, `KeyDecides`, `OwnersNeverLockedOut` | |
| `DecisionCacheProofs` | `TypeCorrect` | `TypeOK` | |
| | `NeverStale`, `CacheFresh`, `SuspendedStaysOut` | `NoStaleDecision`, `CurrentEntriesFresh`, `SuspendedLockedOut` | |
| `WebhookProofs` | `TypeCorrect` | `TypeOK` | |
| | `MemoryBounded`, `ReplaysRefused` | `BoundedMemory`, `ReplayWindow` | |
| `JrpSessionProofs` | `TypeCorrect` | `TypeOK`, with the bounds of queues and window | |
| | `RepliesKeepStep`, `NothingBeforeAuth` | `RepliesInStep`, `GatedUntilAuthenticated` | |
| | `SidesAgree` | `Agreement` | `OwnMax` |
| | `StreamsNeverCollide` | `StreamsDistinct` | `Roomy` |
| | `NeverJammed` | both sides are never in a blocked write at once | `Window <= 2 * Buffered` |
| | `JamsAreOverruns` | if they are, `2 * Buffered` requests are unanswered | |
| `ServerLifecycleProofs` | `TypeCorrect` | `TypeOK` | |
| | `FailuresReported`, `RequestsDrained` | `FailureReported`, `NoRequestDropped` | |

### The arguments

**Cas.** The hypotheses are

    Sound   == /\ Exclusive            \* a digest has one writer
               /\ ~EditSources         \* files are not edited during ingest
               /\ (MaxPowerCuts > 0 => Synced /\ Kinds \subseteq {"bytes"})
    Lasting == Sound /\ (MaxPowerCuts > 0 => ~Faults /\ MaxKills = 0)

each conjunct of which is needed: `cas_rivals`, an edit during ingest, and a
power loss without fsync break integrity; and an acknowledged insert is lost with the
power if the directory's fsync failed, whose error is ignored (`store.rs`,
`seal_and_commit`), or if a process was killed in front of it, since the next insert
takes the object it finds for a stored one.

`ObjectIntegrity` is not inductive: that a rename publishes a whole file depends
on what the writer did before. `IInv` adds, per writer, that its digest is one it
owns, that a descriptor it holds is of its own staging file, that the chunks up
to its offset are written and that all are once it is past the write (and
flushed, where power can be lost); for names, that no inode has two of them
(`NamesInv`); that visible objects are flushed where power can be lost; and for
readers, that an open file is a committed object. `InvStep` has one step per
action. Exclusive ownership enters through `DistinctDigests`: a step of one writer
leaves the staging files of the others alone (`WriterFrame`).

`AckInv` adds that what is acknowledged is visible, and that a visible name that is not
yet durable is one whose writer is about to sync its directory; as no other writer has
that digest, nobody acknowledges it meanwhile. `RefinesStep` then maps each system
call: a rename is `Insert`, the end of an insert `Acknowledge`, the open of a read
`Lookup` and its data `Deliver`, a power loss `Lose`, everything else a stutter.

**CasGc.** `Grace == ~Rebuilds /\ MaxStep + MaxMark < MinAge`: min_age is above the
runtime of a step and the duration of a mark together, and steps produce no object
that is in the store already. Without either `RootsComplete` fails (see the
[disagreements](#disagreements)). What a running step has put, whoever inserted it, is no older
than the step (`StepObjectsYoung`), while what a sweep can delete was old when the clock
was read (`SweptAreOld`). For kept trees, `MarkInv` says that the mark goes through
complete trees only, has the children of what it has handled, and misses a kept tree
only if that was recorded since the roots were chosen, so that its objects are young;
at `ReadClock` this becomes `SweepInv`. The order in which `ingest_dir` puts objects
(children before their tree, each named by a later tree) is an assumption on `Order`.

**Materialize.** No hypothesis. Every step of a call is one of five outcomes (`Outcome`):
nothing on disk, the destination is made, an entry is made, a file's mode is set, the
call completes; the lemmas `...Is` show that for each action, the lemmas `...Inv` that
each outcome preserves `IInv`. `OwnerInv` is the heart: between `create_dir` and its
end a call has its destination for itself, as `create_dir` fails on one that is there.
`SharedInv` says that names of objects are in lowerdirs only, `SealedInv` that a
lowerdir's own files are read-only except the one whose chmod is next (a clone is 0644
until then). So whatever a step writes to is a file with an inode of its own outside
lowerdirs (`WriteIs`), and `StoreInv` is preserved.

`CompletedExact` has a second inductive invariant, `ExactInv`, on top of `IInv`. Of a
call half-way through its tree (`Progress`) it says that the stack is the way from the
root to the directory being filled (`Walked`), whose directories are there (`Opened`);
that of every directory that is there all entries are, except those from the current one
on in the directories on the stack (`Behind`), of which none is (`Ahead`); that each file
is what its path leads to in the tree, but for the mode of the one whose chmod is next
(`Fitting`); and that the counters are the cardinalities of what is there (`Counts`).
A call that pops its last frame has therefore nothing left to do (`FinishedIs`). Each
step of a call changes its own destination only, which is nobody else's (`Local`, from
`OwnerInv`), and leads to a state with `Progress` again (`Leads`; the lemmas `...Progress`
are about the call alone, the lemmas `...Leads` about the actions). Steps write to
private workspaces only (`WriteIs`), where `CompletedIsExact` allows it.

What a path leads to is `Resolve`, a recursion along the path. The lemmas about it need
no induction theorem: a function that satisfies its equations exists since there is no
least length without one, and is unique since there is no least position where two
differ (`WalkExists`, `WalkUnique`, from `Least`). `BoundsAssumption` says that `None` is
no node.

**Manifests.** A tree is `Storable` if `ingest_dir` can have built it: its names are
EntryNames, and a link's target is text that is not empty and fits its length field. The
codec is parameterised by the number of byte values, `NameMax` and the digest's length,
of which `CodecAssumption` says that names fit their length field. `DecodedStorable` is
what the loop of `decode` maintains (`ReadOK`): whatever bytes it is given, each entry it
takes adds an EntryName that was not there and a node that can be stored, so no name
leaves its directory. In the other direction the byte order of names is a strict total
order (`BeforeNot`, `BeforeTransitive`, `BeforeTotal`), so that `Names` lists each name
once (`NamesFacts`, since the number of names before a name is an injection into as many
places); the manifest holds the entries one behind the other (`EncodeShape`); an entry is
read as it was written wherever it stands (`EntryBack`); and after k entries the decoder
has the first k names of the tree and stands behind them (`TreeBack`). Encoding is
therefore injective, and bytes that decode to another tree than was stored hash to
another digest, which `get_tree` compares (`NoOtherTree`): not only one changed byte,
which the run tries, but any bytes at all. The loop of `decode` and the community
module's `FlattenSeq` are recursive functions; their equations come from a least
counterexample, too (`ReadingExists`, `JoiningExists`).

**Digests.** A digest has any positive number of bytes; a length is one symbol in front of
its field, for the 8 bytes the code writes. If two lists of fields are framed to the same
bytes, the ends of their fields agree one by one and with them the fields
(`FramesShorter`). The hex of a digest is two
digits for each byte (`HexIs`) and no digit is a colon, so `parse` takes no hex for a
prefix and finds every byte again; and what it takes has a prefix or not, the
right length and digits only, so it is the hex of what it returns but for the case.

**Bootstrap and Grants.** No hypothesis; the builds' tables are constants, of which
`OwnerAssumption` says that every build gives owners `org.manage`. `BootInv` follows
a server through its start: how far it is, that it has seen the migrations it goes by,
and, while it holds the write lock, that its private copy has every role whole except
the one between `DELETE` and `INSERT` (`TxInv`). Committing swaps one set of whole
roles for another. `AuthorizeExact` and `KeyIsEnough` rest on the rows being well
formed (`AdminInv`) and on the scope a caller passes having the ancestors the tables have
(`LineageExact`).

**DecisionCache.** No hypothesis. The argument is the one the code's comment gives: a
check loads the generation before it queries, so what it stores under that generation is
at least as new as every change announced when the generation began. `IInv` says so of
entries (`EntryInv`), of checks at each control point (`CheckInv`), and that the
announced changes only grow with the generation and are committed (`SettledInv`).
`SuspendedStaysOut` needs none of it: standing is queried in every check.

**Webhook.** No hypothesis; the cap is positive and there is some delivery. The
guard forgets an id at a reading that finds it expired, or as the oldest entry of a
full map, and then all the others, and the new one, are no older: these are the ids that
pushed it out (`LaterInv`, `WindowInv`). A handler may be overtaken between
reading the clock and taking the lock, so `ReplayWindow` counts the order of the readings.

**JrpSession.** `Phases` says where the two sides can be at the same time and what is on
the way then, `Queues` that the outstanding requests are those answered and on the way
back followed by those on the way, with a Goodbye last; `RepliesInStep` and the gate
follow. `OwnMax`: the ranges a client announces end at its own version or lie outside what
it reads, as `client_handshake` does; a foreign client may
announce less than it can. `Roomy == 2 * Window <= Streams`: ids
are odd, so this is the condition that a window does not come round the circle of ids;
with `Streams` = 2^32 in the code it allows 2^31 requests in flight. `Spaced` says that
ids are as far apart as their requests, modulo the wrap. A jam (`Jammed`: both sides in
`write_all` on a full stream) is the exception that `CallsReturn` makes. From `Queues`, the
outstanding requests are then the `Buffered` answers on the way back and the `Buffered`
requests on the way, besides the one being written (`JamIsOverrun`); so the exception is no
wider than it says, and a client whose window is within `2 * Buffered` never meets it.

**ServerLifecycle.** No hypothesis. The JRP task returns in order only on a raised flag,
which is never lowered (`JrpEndsByFlag`); so a `Join` that finds no task failed finds the
flag up.

### Only model-checked

- Liveness (`EventuallyStored`, `GarbageReclaimed`, `BackstopConverges`,
  `GenuineDeliveryRuns`, `CallsReturn`, `CtrlCStops`): fairness and ENABLED are out of
  the prover's reach.
- The shard of a digest (`RoutesOnce` in `DigestsIdentify`): the mask is a bitwise
  operation, which the prover has no theory of. The other parts are proved.
- `RunsHaveReasons`: what the parsers make of the messages the hosts are known to send, a
  finite set of which the run tries all, with up to two fields lost.
- The trees of `formats` that cannot be stored, with targets past their length field: for
  these `ManifestsSafe` says only that damage is found.
- `TypeOK` of `Materialize`, `Bootstrap` and `Grants`: the inductive invariants have what
  the proofs need of the types (`JobsInv`, `FilesInv`, `Shape`, `AdminInv`).

## Disagreements

Beyond `cas_rivals`, these statements of the documentation do not hold
of the code. Each is reproduced by adding the property to the configuration named,
with the constants given; the properties are in the modules.

| Change | Fails | Code and statement |
|---|---|---|
| `cas_synced` with `Kinds = {"file"}` | `CompletedInsertSurvives` | `store.rs:230` commits a clone or copy that was never synced, also under `Synced`, so a power loss takes its contents; `store.rs:53` "a completed insert survives power loss" |
| `cas_synced` with both writers owning `d1` (`OwnsShared`) | `CompletedInsertSurvives` | `store.rs:189` acknowledges an insert on sight of an object whose directory is not yet synced; `store.rs:53` "a completed insert survives power loss" |
| `cas_synced` with `MaxKills = 1` | `CompletedInsertSurvives` | the same line, after a process died between the rename and the sync of the directory: the next insert of the object returns Ok without one |
| `cas_synced` with `Faults = TRUE` | `CompletedInsertSurvives` | `store.rs:630` ignores the error of the directory's fsync and returns Ok; `store.rs:53` as above |
| `cas_edits` with `EditSources = FALSE`, `Privileged = FALSE`, `Kinds = {"bytes"}` | `RecreatedOnNextRun` | `store.rs:588` cannot open a sealed staging file left by a killed insert; `store.rs:49` "they get recreated on the next run" |
| `cas_edits` | `ObjectIntegrity` | `store.rs:219` hashes the file and then reads it again; `store.rs:205-209` gives content that matches its digest as the reason for the private inode |
| `cas_synced` with `Synced = FALSE` | `ObjectIntegrity` | after a power loss the name can be there without the contents, and `has` keeps it from being written again; `store.rs:49` as above |
| `gc_sweeps` with `Rebuilds = TRUE` | `RootsComplete` | a dedupe (`store.rs:221`) does not renew the age of the object it finds; if that is old and unreachable, gc deletes it before the step's tree is kept; `store.rs:487-489` "Sparing anything younger than `min_age` closes that window" |
| `gc_sweeps` with `RootsComplete` freed of `faults = 0` | `RootsComplete` | `store.rs:502` takes a live tree it cannot read for a leaf; `store.rs:499-501` has only blobs and collected objects in mind |
| `gc_sweeps` with `MinAge = 2` | `RootsComplete` | the clock is read after the mark (`store.rs:514`), so the mark's length counts, too; `store.rs:489` "comfortably above the longest step runtime" |
| `authz_cache` | `OneQueryPerBurst` | the fill lock is taken after the query (`lib.rs:240`); `lib.rs:183` "a burst of identical checks issues one query instead of N" |
| `jrp_session` with `CMax = 2`, `SMax = 1`, `Hellos <- OwnRange`, `Conforming = TRUE`, `Cuts = FALSE`, `Requests = {"Ping"}`, `Bodies = {"good"}` | `UpgradableOneByOne` | a client stamps its Hello with its newest version, and `frame.rs:221` refuses the frame before the ranges are compared; `frame.rs:26` "a worker fleet can be upgraded one node at a time" |
| the same with `CMin = 2` | `MismatchExplicit` | the frame is refused by its version before the ranges are compared; `conn.rs:216` "an explicit `VERSION_MISMATCH`" |
| `jrp_session` | `EveryCallReturns` | `send` writes a whole frame (`conn.rs:155`) and reads nothing meanwhile, on both sides, and nothing limits the requests in flight: with both streams full, client and server wait for each other for ever; `tuning.rs:93` "long-lived multiplexed connections" |
| `server_lifecycle` | `CtrlCStopsAnyway` | the handlers await their body (`http.rs:128`, `http.rs:238`) without a timeout and the drain of `lib.rs:37-48` awaits the handlers, so one upload that stalls keeps the process running after ctrl-c, and a second ctrl-c does nothing, as nobody awaits it; `main.rs:156` "shutdown requested" |
| `server_lifecycle` | `ListenerFailureStops` | `join!` waits for both listeners (`lib.rs:56`); `lib.rs:53` "Either listener failing takes the process down" |
| `server_lifecycle` | `SenderGoneStops` | the JRP listener ignores a closed channel (`jrp.rs:54`); `lib.rs:40` "the sender going away is itself a shutdown signal" |
| `materialize` | `FailedProbeCopies` | a probe that fails leaves the capability unknown, so clones are tried and one that fails fails the call; `store.rs:135` "fall back to assuming no reflink" |
| `materialize` | `CapabilityHonest` | a clone to another filesystem fails with EXDEV and turns clones off for the whole store (`link.rs:219`); `link.rs:81` "Whether the filesystem under the store supports `FICLONE`" |
| `authz_db` | `OlderStarts` | the migrator refuses a database with newer migrations (`db.rs:111`) before the catalog is looked at; `bootstrap.rs:101-103` "an older binary against a newer database is a normal state during a rolling upgrade" |
| `authz_db` | `TighteningSticks` | an older build that has listed the migrations before the newer one applied its own goes on to reconcile the roles back; `bootstrap.rs:12` "tightening a role in code would leave every existing deployment running the old, looser grants" is what reconciliation is for |
| `formats` | `DeletionStartsNoRun` | a deleted branch is a push to GitHub's and GitLab's parsers; `webhook/mod.rs:362-363` says of Bitbucket's that a deletion must not be one |
| `formats` | `TestStartsNoRun` | GitLab's test delivery is parsed as a push (`webhook/mod.rs:290`); `webhook/mod.rs:101-103` says that a test must not start a build |
| `formats` | `EditStartsNoRun` | GitLab's `update` and Bitbucket's `updated` are also sent when a pull request's title or labels change, and start a run (`webhook/mod.rs:323`, `webhook/mod.rs:403`); the test at `webhook/mod.rs:503-511` expects none for a GitHub pull request that was labelled or assigned |
| `formats` | `TriggerRunsWhatItNames` | the API trigger looks `project/pipeline` up as the name of a repository (`http.rs:280`) and runs what that is mapped to |
| `formats` | `ManifestsCanonical` | the decoder takes entries out of order and flags it does not know (`tree.rs:235` "Decode from canonical binary form"); `get_tree` refuses what does not hash to its digest, so it does no harm there |

One more has no property: the guard records a delivery before its run is queued
(`http.rs:171`), so a copy that arrives meanwhile is acknowledged as "Already
processed" (`dedupe.rs:45`), and a restart at that moment loses the run. This is why
`GenuineDeliveryRuns` is stated for a server that stays up.

## Not modelled

- Socket options (`tuning.rs`): calls of `setsockopt` on a socket, the refused ones
  recorded for a log line; no state that anything else reads.
- ULIDs (`id.rs`): a clock and a random number; a fresh one is taken to be unused.
- BLAKE3, HMAC and Argon2: hashes are injective and signatures and tokens are right or
  wrong.
- Argument parsing, logging, health endpoints: no state of their own.
- SQLite's pools, pragmas and backups: external.

Also noted and without a property of their own: a symlink's target of 65536 bytes or
more is encoded with a length that wraps and one that is empty is encoded but not
decoded (`tree.rs:227`, `tree.rs:287`), neither of which a Linux filesystem holds; of
a Bitbucket push only the first change is read (`webhook/mod.rs:360`).

## Plan

1. Done: the store, gc and materialization, the database and authorization, the
   webhook endpoint and its payloads, JRP, the lifecycle, the encodings; proofs of the
   safety of all of them but the payloads, and of the refinement of the atomic store.
2. Open: liveness, which stays with TLC, and the shard of a digest for any number of
   shards.
