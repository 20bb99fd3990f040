# TLA+ models of go-infra-adapters

`go-infra-adapters` is a Go library of adapters: a distributed lock and objects
on S3, versioned secrets on AWS Secrets Manager, public keys and key groups on
CloudFront, an HTTP client with a circuit breaker, retry strategies and RSA
helpers. The library keeps almost no state of its own. Its state is in the cloud
services, is shared by every process that holds an adapter, and is changed by
operations of several requests each, which the AWS SDK may repeat. These modules
model that: several clients, one request per step, with failed requests, lost
answers, repeated requests and crashes in between.

`PROJECT.json` lists for every definition the source lines it stands for, and for
every run, theorem, hazard and finding what it is.

## Inventory

| Component | State | Operations | Hard behaviour | Correct when |
|---|---|---|---|---|
| S3 lock (`internal/storage/aws/s3`) | the object `key.lock` in the bucket; per call: deadline and backoff | `GetLock`, `GetLockWait`, `ReleaseLock` | conditional puts race; the SDK repeats puts and deletes; holders crash; time passes during requests | one holder; waits end in time; nothing leaks; expired locks go |
| S3 objects | the bucket; the caller's `BucketObject` and `ObjectInfo` | `GetObject`, `PutObject`, `HeadObject` | puts without a condition, under a lock that may be lost; fields that pass through `ObjectInfo` | no acknowledged update is lost; the type survives |
| Secret versions (`internal/secret/aws`) | version payloads and the labels AWSCURRENT, AWSPENDING | `SetVersion`, `PromoteVersion`, `DiscardVersion`, `GetCurrent`, `GetVersion` | read-then-compare-and-set between rotations; a crash in the middle | a move by another call is not undone; a current value stays; a repeated rotation finishes and takes effect |
| CDN key group (`internal/cdn/aws`) | public keys, the group's keys and its ETag | `CreatePublicKey`, `EnsureKeyGroup`, `DeletePublicKey`, `VerifyKeyInGroup` | read-modify-write under an ETag; eviction at the limit; deletes after the update; reads that are spread over several requests | no key is lost, the oldest go, the dropped are deleted, verdicts were true |
| CDN fetch pool (`fetchKeyMetas`) | a channel as semaphore, an errgroup, a slice of results, the SDK's attempts | one call | goroutines fail, sleep before a retry and are cancelled while the loop still starts others | bounded, complete on nil, fails for a reason, returns |
| Key rotation, the use of CDN, secrets and keys together | the group's, the secret's, a signer's loaded secret | register, ensure, set, promote, load, sign | two rotations overlap, die and are repeated while a signer uses an older secret | every signature is accepted; rotations finish |
| URL signer and RSA (`internal/cdn/aws`, `internal/crypto`) | a private key | parse, sign, verify | two parsers of one key | both read what `Generate` writes |
| Circuit breaker (`internal/middleware/net_http_client`) | gobreaker's state and counts | `RoundTrip` | answers that arrive after the state changed | only probes decide; it recovers |
| HTTP client (`internal/http_client/net_http`) | configuration, a header map shared by all calls | `Do` | concurrent calls, a silent server, the breaker under it | no header leaks; every call returns |
| Retry (`internal/retry`, `internal/retryer/aws`) | none | `IsRetryable`, `MaxAttempts`, `BackoffFor` | which errors are repeated, and when | a first error that it knows is cured |
| Facades, mocks, debug assertions | none or generated | | re-exports, test doubles | not modelled |

Interactions: every AWS adapter calls its SDK client, which repeats requests (the
CDN and secret adapters configure `SDKRetryer` over a `retry.Strategy`, two
attempts by default; the S3 adapter leaves the SDK's own default on). Callers
compose a breaker into the HTTP client as its `RoundTripper`, guard S3 objects
with the S3 lock, and rotate keys through the key group and a secret. Adapters do
not call each other. Processes interact only through the services.

## Modules

| Module | What it is |
|---|---|
| `LockContract` | the abstract lock: given to one client at a time, given back by that client |
| `S3Lock`, `MCS3Lock` | the S3 lock, request by request; its properties; the refinement of `LockContract`; its instance |
| `S3Objects`, `MCS3Objects` | `S3Lock` composed with the object that it protects |
| `SecretStages`, `MCSecretStages` | `SetVersion`, `PromoteVersion`, `DiscardVersion`, called freely |
| `SecretRotation` | rotations composed of those calls, repeated until they succeed |
| `KeyGroup`, `MCKeyGroup` | the key group's operations, request by request |
| `RsaKeys` | keys, parsers and signatures, as operators |
| `KeyRotation`, `MCSecretRotation` | `SecretRotation`, an instance of `KeyGroup`, `RsaKeys` and a signer |
| `FunctionalOptions` | how the constructors' options make a configuration |
| `SdkRetry`, `CdnConfig` | the retry strategies as the SDK sees them; `NewCdn`'s options |
| `FetchPool` | `fetchKeyMetas`, of which `KeyGroup` sees the one step `Fetch...` |
| `FetchKeyMetas`, `MCFetchKeyMetas` | `FetchPool` with its requests as the SDK executes them |
| `Breaker` | `RoundTrip` under the circuit breaker, and the breaker's options |
| `HttpClient`, `MCHttpClient` | `Do` over `Breaker`, and the client's options |
| `LockContractProofs`, `S3LockProofs`, `S3ObjectsProofs`, `FetchKeyMetasProofs` (with those of `FetchPool`), `KeyGroupProofs`, `SecretStagesProofs`, `KeyRotationProofs`, `HttpClientProofs` (with those of `Breaker`) | theorems |

Definitions that begin with the comment *Mutant* are not part of the model: each
is a plausible wrong version of the definition after it, and shows that the
property named in `PROJECT.json` notices that bug.

### S3Lock

`owner` is the client whose `PutObject` made the lock object (the code cannot see
it; the properties can), `expires` the time left to its `lock-expires` metadata.
`pc[c]` is the request or wait client `c` is at, `call[c]` the locals of
`GetLockWait`, `request[c]` what its request sends and the SDK's attempt. One
action is one answer: `PutSucceeds`, `PutConflicts`, `PutFails`, `PutAnswerLost`,
then `Head...` for `GetLock`'s branch on `PreconditionFailed`, `LockExists` for what
`GetLock` and the loop of `GetLockWait` do next, `Wake` and `Cancel` for the
`select`, `Delete...` for `deleteObjectSafe`, which `ReleaseLock` calls and `GetLock`
too when the `HeadObject` shows an expired lock, `Tick` for time. Times are times
*left*, so no clock has to be bounded.

`HeadMetadata` is what `HeadObject` puts into `ObjectInfo.Metadata`: the ETag, whatever
the object's metadata is. `lock-expires` is therefore never there, `LockIsExpired`
never true and `GetLock`'s delete never sent; the branch is kept, as the mutant
`HeadAllMetadata` shows what it would do. All lock objects have an empty body and so
the same ETag; a delete on the ETag read deletes any of them, a live one included.

Two variables only remember for the properties. `deleted` has the clients whose
release was executed, unheard; `repeated` says that one of these was executed once
more, by the SDK or by the caller. The shipped release may be repeated at any time,
so what the lock is worth is stated as `ExclusiveUntilRepeated`: a repeated release
is the only way to two holders.

Left out: a request that is executed after the client gave up waiting for it or
died. (For a delete that is a case of what `lock_retried_delete` shows.)

### S3Objects

A client whose `pc` is `"held"` may read the object, add its part and write it
back. `content` is the set of the clients whose part the object has, `copy` and
`info` are the body and the `ContentType` of a holder's `BucketObject`, and `acked`
are the clients that `PutObject` returned nil to. `LockStep` is any step of
`S3Lock`; a client that loses the lock by a crash or a release loses its copy.
`FillObjectInfo` and `Upload` are where `ContentType` comes in and goes out; `""`
sends none, and S3 then takes its default. The order of the guarded operations is
the callers'. Left out: user metadata, sizes and the bytes of bodies, the transfer
manager's parts, and a put that S3 executes only after its caller saw an error
(which no lock can guard against).

### SecretStages and SecretRotation

`content` and `label` are the service's; `op[c]` is the call and what
`getVersionWithStage` has read. `Describe`, `Update...` are `moveStage`,
`Discard...` is `DiscardVersion`, alone or at the end of `PromoteVersion`, which
ignores how it ends. Secrets Manager itself is external: `UpdateSecretVersionStage`
is a compare-and-set on `RemoveFromVersionId`, `PutSecretValue` is idempotent per
token and, without `VersionStages`, moves AWSCURRENT to a new version (`PutEffect`).
`SecretRotation` restricts the calls to a caller's
protocol: set with one's own token, promote, start over on an error or a restart.

### KeyGroup

`created`, `exists`, `grouped`, `items` are CloudFront's. A client is in `fresh`
while the ETag it read is still the group's. `List`, `Create...`, `Get`,
`Fetch...`, `Update...`, `Delete...` are the requests of `EnsureKeyGroup` in their
order; `Keeps` is `partitionByAge`, with ties broken either way, as `sort.Slice`
does. `FetchSucceeds` is one step because `FetchPool` shows what it needs: a nil
error means that all metadata was written and no goroutine is left.
`VerifyKeyInGroup` is `Verify...`: the list, the group, and the reads of its keys, of
which those that fail are skipped. The reads are one step (`VerifyReads`), though the
code sends one request per key: names are unique, so the answer rests on one of the
reads, and those of the other keys, before or after it, make no difference. `verdicts[c]` collects, while it runs, what it
could have answered at each moment; the answer must be one of them.

### KeyRotation and RsaKeys

A client generates a key pair, registers it (`CreateKey`), ensures it in the group
(`StartEnsure`, `EnsureStep`), writes key id and private key as a new version
(`StartWrite`) and promotes it (`Promote`, `SecretStep`). This order is the
callers' and external; every request is that of `KeyGroup` and `SecretStages`. A
call that fails, or a client that restarts (`Restart`), does it again with the same
key and the same token. A signer loads the current secret when it likes
(`LoadSigner`) and signs from then on, with `NewCloudFrontSignerFromPEM` or with
`NewRSASignerFromPEM`. In `RsaKeys` a PEM block is its type, the encoding of its bytes
and the key pair it belongs to: enough to tell what each parser takes. At the start
there is nothing, or there are older keys whose newest is current, in PKCS8 as a
third party may have written it.

### FetchPool and FetchKeyMetas

In `FetchPool`, a goroutine gives its place back (`Release`, the deferred receive)
before the errgroup sees its error (`Report`). `FetchKeyMetas` refines `Answer` and
`Fail`: an attempt is in flight, fails with one of `Errors` (`AttemptFails`), is
repeated after `RetryDelay` if `TriesAgain` says so, or is cancelled in flight or
asleep when `egCtx` ends, by another key's error or by the caller's context
(`CtxDone`). `met` remembers for the properties what each key's attempts met:
nothing; one error that `NewStandard` retries; one connection error that the
documentation promises to retry and `NewStandard` does not; or a second error, or one
that nothing promises to retry. `Strategy` and
`Concurrency` are what `NewCdnConfig` makes of the options.

### Breaker and HttpClient

The request runs outside the breaker's lock, so `RoundTrip` (admission) and
`Succeed`/`Fail` (answer and `afterRequest`) are separate. gobreaker is external;
its generation counter is kept as the set `current` of the requests that began in
the current generation. An open breaker half-opens lazily, when a request or an
answer looks at it after the reset timeout, as gobreaker's `currentState` does.
Only an error is a failure: a 5xx response is a success.

`HttpClient` conjoins to these what `Do` does: `MergeConfigHeaders`, `Resolve`, the
response timeout. A request ends by a response (`Respond`), a refused connection
(`Refuse`), the timeout (`TimeOut`), a URL that the transport cannot send
(`CannotSend`) or its caller (`Cancel`). A header value that request `r` brings
along is `r` itself, and `sent[r].own` are the keys it brings, so that `HeadersAreOwn`
sees whose each value is; it allows either value where caller and client give the
same key. A configuration is
made by `FunctionalOptions` as in the constructors: defaults, then the options in
order, nil ones skipped, invalid ones panicking (no client is made then).

## Runs

| Run | Bounds | Shows |
|---|---|---|
| `lock` | 2 clients, 2 attempts, 2 faults, TTL 2, wait 1 or 3, backoff 1..2, 1 s is 2 ticks | `ExclusiveUntilRepeated`, `SleepWithinDeadline`, `LeaksOnlyByFault`, `CallsReturn`, `LocksAreReleased`, `ImplementsContract` |
| `lock_expired_stays` | 2 clients, 1 fault | violated: the lock object of a put whose answer was lost expires and stays |
| `lock_retried_delete` | 2 clients, 2 faults, lost delete answer | violated: two holders |
| `s3_objects` | 2 clients, 2 faults of the lock, 2 of the object, 2 types | `NoLostUpdate`, `TypeKept` |
| `secret_stages` | 2 clients, 3 versions, 2 payloads, 2 faults | `CurrentKept`, `SuccessMeansMoved`, `StaleCallsFail`, `PendingOfOthersKept`, `PromotionClearsPending` for all calls in all orders |
| `secret_put_moves_current` | 2 clients, 2 versions | violated: `SetVersion` changes the current version |
| `secret_rotation` | 2 clients that rotate once each over group and secret, 2 older keys, groups of 3 (the default), 3 faults of both services together | `SignersAccepted`, `RotationsFinish`, `RotationsTakeEffect` |
| `keygroup` | 2 clients, 3 keys, group of 2, 1 fault | `NoLostKey`, `NewestKept`, `GroupBounded`, `DroppedAreDeleted`, `VerifyWasTrue` |
| `keygroup_ensured` | 2 clients, 2 keys, group of 1 | violated: the ensured key is evicted |
| `fetchpool` | 4 keys, 2 places, default strategy | `Bounded`, `NilMeansComplete`, `FailsForAReason`, `Returns` |
| `fetchpool_connection_errors` | the same | violated: one reset connection makes `fetchKeyMetas` fail |
| `breaker` | 3 callers, 2 failures, 2 probes, reset 2, response timeout 1 or 2, 2 failures that are not the server's | `ProbesAccounted`, `TripsInTime`, `ProbesDecide`, `Recovers`, `HeadersAreOwn`, `CallsReturn` |

Why the bounds are enough. Two clients suffice for every race here: each is
between one client's read and its write and somebody else's write; a third only
takes the part of the second (and what matters most of the lock, the objects and
the pool is proved for any number). Two faults allow a lost answer and a crash of
the client that repeats the request. Three versions are an old, and two new ones;
three keys on a group of two force an eviction, and so do two rotations on two
older keys in a group of three. The wait timeout 3 with backoffs 1 and 2 lets
`GetLockWait` wait twice, cap its backoff and time out; 1 is refused. Four keys is
what a full group of three and a new key make `EnsureKeyGroup` read; on two places
the loop blocks, fails and goes on. Two probes of three requests leave one that is
refused. `MaxExcused` bounds cancellations and requests without a host, which
would otherwise keep a healthy server's breaker open for ever. Time is in units of
500 ms in `SdkRetry`, 15 s in `HttpClient`.

`secret_rotation` and `fetchpool` end when all is done, so they do not check
deadlock; the others do. Symmetry is used only where no liveness is checked.

`secret_rotation` has one condition that matters: each client rotates once (and
repeats that rotation until it succeeds), and there are fewer rotations than places in
the group, in all and not only at a time. With the default of three and two rotations
the newest older key, which signers may still use, stays; with groups of two the same
two rotations evict it while it signs, and so would a third rotation later on with
groups of three, if a signer still had the old secret. `SignersAreAccepted` has that as
its condition. As the put of `SetVersion` moves AWSCURRENT, a new secret may be in use
before its rotation promotes it; `SignersAccepted` holds none the less, as the key is in
the group by then. A restart of a client that has called both services counts as a fault
of each.

### Fairness

* Lock: time passes; a request is answered or fails (the SDK's attempts are
  finite and contexts are cancelled); a holder calls `ReleaseLock`, which the
  contract demands "via defer()"; a caller whose release failed gives up.
  `PersistentSpec` adds clients that keep calling `GetLockWait`.
* Rotation: each client's requests are answered, and it goes on with its rotation.
  Signers need not load anything.
* Pool: goroutines run, and the end of a context is noticed. An attempt may stay
  without an answer for ever (`GetPublicKey` has no timeout of its own), so
  `Returns` is about calls whose context ends.
* HTTP client: a server that is up answers; the response timeout fires; requests
  keep coming; time passes. A server that is down may refuse or stay silent, and
  `Recovers` assumes only that it is up for good at some time.

## Findings

* **Expired locks stay** (`lock_expired_stays`). `GetLock` reads `lock-expires`
  from `ObjectInfo.Metadata` (`client.go:164`), which `fillObjectInfoUnsafe`
  (`client_helper.go:21`) fills with the ETag only. A lock object that nobody releases
  is never deleted; the contract says it is. In the run it is that of a put whose
  answer was lost, so that its caller believes not to have the lock; that of a holder
  that crashed stays in the same way. Handing the metadata over would make the branch
  run, and would then need an ETag that tells lock objects apart: deleting by the
  shared ETag can delete a lock taken after the `HeadObject`.
* **A repeated delete releases another client's lock** (`lock_retried_delete`).
* **SetVersion moves AWSCURRENT** (`secret_put_moves_current`): it does not name
  `VersionStages` in its put.
* **EnsureKeyGroup may evict and delete the key it ensures** (`keygroup_ensured`).
* **A reset connection is not retried** (`fetchpool_connection_errors`):
  `pkg/retry/contract.go:26` promises retries of "connection errors", and
  `IsRetryable` knows refused connections only (`strategy.go:54`).

Read but not settled by a run:

* `GetLock` (`client.go:159`): a put whose answer was lost and that the SDK repeats
  meets the caller's own lock, which is reported as another's and leaks. `lock`
  allows it as a leak by a fault.
* `PromoteVersion` promotes versions that are not pending, and drops the error of its
  discard (`client.go:121`), so that a version may be current and still pending after
  it returned nil. `PromotionClearsPending` speaks of runs without failed requests only.
* `mergeConfigHeaders` lets the client's headers win over the request's
  (`net_http_client.go:61`), where its comment (line 50) gives precedence to the
  request's. `HeadersAreOwn` allows either.
* `NewStandard` makes two attempts where comments say three (`strategy.go:60`,
  `cdn_config.go:93`, secret `client_config.go:103`).
* `WithEndpoint` of the S3 adapter is accepted and never used, nor is the HTTP
  client's connect timeout; `SDKRetryer.AttemptTimeout` is never called. A nil
  option panics in the S3 adapter only.
* `VerifyKeyInGroup` answers false with a nil error when it could not read the key
  (`cdn_local.go:92`); `VerifyWasTrue` demands an "absent" only of calls without faults.
* A failed delete of an evicted key is logged and the key left (`cdn_local.go:74`);
  `DroppedAreDeleted` speaks of runs without failed requests only.
* Requests that are cancelled or cannot be sent count as failures of the server for
  the breaker (`net_http_client.go:70`); `Recovers` bounds them by `MaxExcused`.
* User metadata is lost when an object is read and written back
  (`client_helper.go:21`).
* The CloudFront signer does not try PKCS1 for a block of another type, as
  `parseRSAPrivateKey` does. `Generate` writes the type both take.
* `BackoffFor` overflows from attempt 36 on, which no strategy reaches.

## Proofs

All for every value of the constants that satisfy the modules' assumptions.

| Theorem | States |
|---|---|
| `LockContractProofs`: `ContractExclusive` | the abstract lock is exclusive |
| `S3LockProofs`: `TypeCorrect` | `Spec => []TypeOK` |
| `HoldersOwnTheLock` | `Spec => []HoldersOwn` |
| `Exclusion` | `Spec => []ExclusiveUntilRepeated` |
| `NoWaitBeyondDeadline` | `Spec => []SleepWithinDeadline` |
| `LeaksNeedFaults` | `Spec => []LeaksOnlyByFault` |
| `ContractImplemented` | `Spec => ImplementsContract` |
| `S3ObjectsProofs`: `ObjectsUseTheLock` | `ObjectsSpec` implements `S3Lock`'s `Spec` |
| `ObjectsTyped` | `ObjectsSpec => []ObjectsTypeOK` |
| `UpdatesAreKept` | `ObjectsSpec => []NoLostUpdate` |
| `TypeIsKept` | `ObjectsSpec => TypeKept` |
| `FetchKeyMetasProofs`: `PoolTyped` | `Spec => []TypeOK` |
| `PoolBounded` | `Spec => []Bounded` |
| `PoolComplete` | `Spec => []NilMeansComplete` |
| `FetchKeepsThePool` | `FetchSpec` implements `FetchPool`'s `Spec` |
| `FetchFailsForAReason` | `FetchSpec => []FailsForAReason`, with the default strategy |
| `FetchTyped` | `FetchSpec => []FetchTypeOK`, with any strategy |
| `KeyGroupProofs`: `KeyGroupTyped` | `Spec => []TypeOK` |
| `NoKeyIsLost` | `Spec => NoLostKey` |
| `NewestAreKept` | `Spec => NewestKept` |
| `VerifyIsTrue` | `Spec => VerifyWasTrue` |
| `GroupIsBounded` | `Spec => []GroupBounded` |
| `DroppedKeysAreDeleted` | `Spec => []DroppedAreDeleted` |
| `SecretStagesProofs`: `StagesTyped` | `Spec => []TypeOK` |
| `CurrentIsKept` | `Spec => CurrentKept` |
| `SuccessIsTrue` | `Spec => SuccessMeansMoved` |
| `PendingIsKept` | `Spec => PendingOfOthersKept` |
| `NoMoveIsUndone` | `Spec => StaleCallsFail` |
| `PromotionsClear` | `Spec => PromotionClearsPending` |
| `KeyRotationProofs`: `RotationsAreCalls` | `KeyRotationSpec` implements `SecretStages`' `Spec` |
| `SignersAreAccepted` | `KeyRotationSpec => []SignersAccepted`, if `Cardinality(Clients) < MaxKeys` |
| `RotationsAreInEffect` | `KeyRotationSpec => []RotationsTakeEffect` |
| `HttpClientProofs`: `TypeCorrect` | `Spec => []TypeOK` |
| `ProbesAreAccounted` | `Spec => []ProbesAccounted` |
| `TripsAreInTime` | `Spec => []TripsInTime` |
| `ProbesDecideState` | `Spec => ProbesDecide` |
| `RequestsAreOwn` | `Spec => []HeadersAreOwn` |

The lock. `ExclusiveUntilRepeated` is not inductive: from a state where the holder is
not the owner of the object, a put of another client succeeds. The inductive
invariant `HoldersOwn` says that, until a release was executed a second time, a client
that holds the lock or is releasing it is the owner of the object in the bucket, or its
release was executed already (`deleted`), and that nobody is at the delete of an
expired lock. Every step keeps it: a put succeeds only without an object; a delete is
executed for the owner, or for a client in `deleted`, and then it is the repetition
that `repeated` remembers for good (`RepeatedStays`). After it nothing is promised, and
`lock_retried_delete` shows that nothing could be. The type
invariant carries `backoff <= maxBackoff`; `SleepWithinDeadline` is inductive
relative to it, as `LockExists` compares the wait with the time left and `Tick`
decreases both. The refinement maps `owner` to itself and `holders` to the clients
told that they hold the lock: a put is `Grant` or, unheard, `GrantUnheard`; a
release or crash of a holder is `Leave`; a delete is `Withdraw`, or `Breached` when it is
a repetition; everything else stutters.

The objects. A step on the object leaves the lock's variables alone, so `ObjectsSpec`
implements the lock's `Spec` and `Exclusion` holds of it. `NoLostUpdate` and `TypeKept`
speak, like it, of what happens until a release is repeated. `CopiesCurrent` is
inductive relative to that: a client with a copy holds the lock, its copy has all
acknowledged updates and its put would keep the type. A put changes content and
type, but the one client with a copy is the one that puts.

The pool. `PlacesCounted` says that the channel has exactly one element for each
goroutine between its start and its release; it needs `StartedInOrder` (the loop
starts a goroutine that was not started before). `Bounded` follows from it.
`ResultsKept` says that a goroutine that made its call has a result or an error,
that the errgroup has the error of each that is done, and that `Wait` returned only
after all were done: the three together give `NilMeansComplete`. `FetchKeepsThePool`
carries both over to the SDK's attempts. `FailsForAReason` rests on
`AttemptsMeetErrors` (a key at its second attempt met an error at its first, so an
attempt that is not repeated met its second error, or one that `NewStandard` does not
retry) and `FailuresHaveReasons` (a
cancelled call fails after the context ended, or after the errgroup's error, which
had its own reason).

The key group. `CloudSteps` names the six things a step may do to CloudFront, and
`ClientSteps` the moves a client may make; every invariant looks at these rather than
at the 24 actions. `Kept` is the base: the group's keys exist, it has some once it was
created, and a client past its get has keys of its own that were created. Each property
adds what makes it inductive. `FreshOK`: while a client's ETag is the group's, the
group's keys are among those it read, and at its update those it does not keep are the
ones it evicts. With it only evicted keys leave the group (`NoKeyIsLost`), and they are
left to a client at its deletes (`DroppedOK`, unless a fault takes it away).
`AgesOK`: ages do not change, so the order of the keys that a client found is the one
at its update. `BoundOK`: a client that kept more than `MaxKeys` keys, because it could
not read one, has its update refused: that key is gone and does not come back.
`WitnessesOK`: what `VerifyKeyInGroup` has in its snapshot was so at a moment of the call,
and `Answers` says which read an answer rests on.

The secret versions. The inductive invariant is `ServiceOK` (labels on versions or
nowhere, payloads or none), `ClientsOK` (a call at a request is of a kind that makes
it) and `CallsHaveVersions`: a call at a request past its put has its version, whose
payload is the one it put. The last holds across the steps of others because a
payload is never changed (`PayloadsStay`). `ServiceSteps` shows that a step of the
service is a put, a move of a label or a discard, and nothing else, whichever client
takes it and whether its answer is heard; `CurrentIsKept` and `PendingIsKept` look at
these three. `SuccessIsTrue` looks at the two steps that succeed: a describe that sees
the label on the call's version, and the call's own update. `NoMoveIsUndone` looks at
the steps that take a call away from its update while the label is neither where the
call saw it nor on its version (`Stale`): the service refuses the move, so the step is
a refusal, an error without an answer or a crash, and no label changes.

`PromotionSteps` shows that `PromoteVersion` returns its success by the request of
`DiscardVersion` and in no other way, so that without a fault that request took
AWSPENDING away (`PromotionsClear`).

The rotations. A step of `KeyRotation` is a step of `SecretStages` (`SecretPart`) and
one of `KeyGroup` (`GroupPart`), so what is proved of both modules' steps is used as it
is; the group's invariants are proved anew only for the start, as the old keys are in
the group then. `SignersAccepted` needs six facts at once. `Safe` is the set of the
rotations' keys and the newest old key, the one that signs at the start. `Generations`:
every other key is older than these, because a key that is created is as new as any.
`NoneEvicted`: no client evicts a safe key; `partitionByAge` drops a key only for
`MaxKeys` others that are at least as new, which would all be safe, and there are at most
`Cardinality(Clients)` other safe keys (`RoomForAll`, `PartitionIsSafe`). So safe keys stay
in the group (`SafeKeysStay`). `EnsuresOK`: a rotation's key is among those that its
`EnsureKeyGroup` read or added, and in the group once that returned nil. `OwnCalls`: a
client writes its own payload under its own token. `Backed`: the keys of all written
versions, of those that are about to be written, and of the signer's secret are safe
and in the group. `Backed` is what a new signer needs: the current version is a written one
(`CurrentIsWritten`), whose private key both parsers take (`KeysParse`).
The condition `Cardinality(Clients) < MaxKeys` cannot be dropped: as many
rotations as the group has places evict the key that is still current.
`RotationsAreInEffect` rests on `PromotedIsCurrent`, which speaks of a promotion from its
label move on: AWSCURRENT is then on a token of some rotation, and stays on one, as
every move of it is a rotation's own; and on `OwnContent`, that a rotation's token has
that rotation's payload once it is written.

The fetches' types. `FetchTyped` holds for every strategy that makes at least one attempt.
`CallsOK` says what belongs together: a key without a running call has attempt, delay and
error cleared, one that sleeps has an attempt left.

The breaker. `BreakerOK` joins the types, `ProbesAccounted` and `TripsInTime`, which are
inductive together: a request counts for the generation it began in, and a generation
that ends leaves `current` empty. `ProbesDecide` follows from the actions: an answer of
an earlier generation goes to `AfterStale`, which can half-open an open breaker and no
more. For the client, `HeadersAreOwn` is inductive with `headers = config.headers`: the map
that all calls share is never written, so a request's headers are its caller's or the
client's.

### Assumptions

Besides the sizes of the instances the modules assume of their constants:
`BreakerConfigAssumption`, that settings are numbers and a half-open breaker admits a
probe (the options panic on negative values, and gobreaker replaces zeros);
`ClientOptionsAssumption`, that options set fields which the configuration has and a
timeout that is no negative number (`WithTimeout` panics otherwise);
`StrategyAssumption`, that a strategy attempts at least once and waits no negative
time; `KeyRotationAssumption`, that rotations have keys of their own, different from the old
ones, as `CreatePublicKey` gives every key a new id, and that the secrets have the private
key that belongs to their key id. TLC evaluates each on the runs. The second and third are
assumed, not proved, because configurations are made by a fold over the list of options.

### Only model-checked

Every safety property of the passing runs is a theorem. Not proved, as the provers cannot:
liveness and every use of ENABLED (`CallsReturn` and `LocksAreReleased` of the lock,
`RotationsFinish`, `Returns`, `Recovers`, `CallsReturn` of the client),
and what the folds over options and requests compute.

## Not modelled

`HealthCheck`, which changes nothing; pagination of `ListKeyGroups` (one group on
one page); loggers, injected clients and AWS configuration loading, which select a
client and no more; the transfer manager's settings; user metadata, sizes and
bodies' bytes; URL formats, policies' JSON, fingerprints, key sizes and all
cryptography (external: a signature verifies with its own key, hash and payload);
panics on nil arguments of constructors; facades, mocks, debug assertions, the
example and scripts.

## Plan

1. Done: `LockContract`, `S3Lock`, `S3Objects`; `SecretStages`, `SecretRotation`;
   `KeyGroup` with `VerifyKeyInGroup`; `KeyRotation`; `FetchPool`, `FetchKeyMetas`;
   `Breaker`, `HttpClient`; options and retry strategies; and the proofs above.
2. Done: a theorem for every safety property of the passing runs.
3. Next: an abstract specification of a value that moves by compare-and-set, which
   the labels of `SecretStages` and the ETag of `KeyGroup` both implement; the
   group's theorems for the rotations (`NoLostKey`, `GroupBounded` from the old keys on).
