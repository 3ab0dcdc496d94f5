# A verification project for the VeriAI SDK

VeriAI lets a client check that an answer of a language model was produced by
known code on known hardware. An enclave runs the model, asks the Nitro secure
module for an attestation document bound to its signing key and to the client's
nonce, and signs a *receipt* over the hashes of model, input and output. A
verifier checks the receipt, and a replay check makes sure that each receipt is
accepted once.

This directory holds TLA+ models of the parts of the system that carry state,
TLC runs over small instances of them, and TLAPS proofs for instances of any
size.

## 1. Inventory

| Component | State | Operations | Interacts with |
|---|---|---|---|
| `verifier-service` | replay map in memory, replay-state file, sibling lock file, directory of challenge files, async mutex | `POST /v1/challenge`, `POST /v1/verify`, startup | other service processes on the host through the files and the lock; `Verifier` |
| `veriai-core` `Verifier` | map from identity fingerprint to last sequence, in a `Mutex` | `verify`, `get_state`, `set_state`, constructors | attestation provider, clock |
| `veriai-core` `ReceiptGenerator` | signing key, `AtomicU64` sequence, `generation_lock` | `generate_receipt` | attestation provider, clock |
| root allowlist and PEM loading | the trusted roots, built once at startup | `validate_aws_nitro_root_pem`, `from_pem_with_config` | configuration |
| attestation documents and chains | none | `verify_attestation_doc`, `validate_cert` | `Verifier` |
| attestation providers (Nitro, mock) | none | `generate`, `verify` | NSM device, clock |
| model hashing | a read buffer, the level of the tree | `compute_model_hash` (chunks and Merkle tree) | file system |
| claims and document encoding | the decoder's locals | `to_binary`, `from_binary` | generator, verifier, CLI |
| chat demo | inference semaphore, a generator, a verifier for inline use | `POST /v1/chat/completions` | runtime, generator, verifier, clients that go away |
| command line | session file of `verify --stateful` | `inspect`, `generate`, `verify` | generator, verifier, other runs through the file |
| WebAssembly bindings | none | stateless `verify` | `Verifier` |
| inference runtimes | one child process per call | `generate` | chat demo |

What is hard here:

* **Interleaving and staleness.** Several processes, each with several handler
  tasks, run reload, check and persist on one file. The check is only as good
  as the map it looks at.
* **Crashes and durability.** A verdict is given after two directories have been
  changed. A power loss may undo what was not synced, in one of them and not
  the other.
* **Partial failure.** Each transaction is a dozen system calls with an early
  return after each; some of them undo earlier ones, some do not.
* **Cancellation.** A handler's future can be dropped at any `await`, while work
  it gave to the blocking pool goes on.
* **Resources across early returns.** The chat demo takes a permit, starts a
  child that has no time limit, waits for a lock and may lose its client at each
  `await`. Whatever it holds must come back on all of these paths.
* **A file without a protocol.** The command line's session file is truncated
  and rewritten in place, with no lock, and success is printed before the save.
* **Partial reads and odd trees.** A read returns less than it was asked for, the
  buffer keeps the chunk before, and any level of the tree may be odd.
* **Two readers of one text.** The PEM parser that approves the roots is not the
  one that loads them.
* **Machine arithmetic.** Timestamps are chosen by the receipt and are
  subtracted as `i64`; the sequence counter ends at `u64::MAX`.

PROJECT.json lists each of these at its line under `hazards`.

Properties that make the components correct: a receipt and a challenge are
accepted once, whatever fails; what a client was told survives a power loss;
a challenge is consumed for the right receipt and after the record of it; every
request is answered; the verifier accepts exactly the conforming receipts; the
generator's receipts come out in sequence order and its counter never wraps,
also under the chat demo's handlers, which lose no permit and hold up nobody;
a session file never loses what a command accepted while commands take turns;
the claims decoder takes exactly the maps that hold the claims, and the root of a
model is the root of its content;
only approved roots are trusted, and a document is accepted exactly when a chain
of valid authorities leads from it to one of them.

## 2. Modules

### VerifierService (core)

Models `crates/verifier-service/src/main.rs` with `STATE_FILE_PATH` set. `Proc`
are service processes on one host; `Req` are requests, each answered at most
once. A request carries a receipt and a nonce; a receipt has an identity, a
sequence and the nonce it is bound to.

| Variable | In the code |
|---|---|
| `mem[p]` | the map inside `AppState.verifier` of process p |
| `mutex[p]` | `replay_write_lock` |
| `flock` | the exclusive lock on `.<state file>.lock` |
| `stateFile`, `stateSurvivors` | the replay-state file: what a reader sees, and what a power loss may leave (everything since the last good fsync of its directory) |
| `chal`, `chalSurvivors`, `expired` | a challenge file, in the same two views, and whether the clock has passed its `expires_at` |
| `inFlight[p]` | renames of the state file that a cancelled handler left on the blocking pool |
| `pc`, `answer`, `home`, `receipt`, `nonce`, `prev` | a handler's control state, HTTP answer, process and locals (`prev` is `previous_replay_state`) |
| `late` | whether the challenge expired before the request came in (`arrived`), or while it waited to reserve it (`waiting`); history |

`verify_handler` is cut where another actor, a failing call or a crash can come
between two of its effects:

    mutex -> flock -> reload -> reserve -> verify -> persist -> fsync -> consume
                                             |          |          |
                                          restore    rollback -> undo

Every early return is an action of its own (`AcquireReplayLockFails`,
`ReloadStateFails`, `RejectExpiredChallenge`, ...) whose guard names the failing
call; `Faults` says which calls and actors may fail in an instance:

* `open`, `load`, `stat`, `write`, `rename`, `remove`, `sync`: system calls;
* `crash`: a process dies (the kernel frees its locks, its memory is gone);
* `power`: the host loses power, and each file is left with one of its survivors;
* `cancel`: the client disconnects and the server drops the handler's future
  while it waits for a lock or for `tokio::fs`. Guards are dropped, nothing is
  rolled back, and a rename already handed over still happens (`LateRename`).

Synchronous stretches without an `await` (reserve, verify, restore, consume)
cannot be cancelled, but can be cut by a crash. `reserve_challenge` reads the clock
and renames the file in one step: a challenge whose time runs out between the two
counts as reserved in time.

Abstractions. Which of `verify()`'s earlier checks fails is left open
(`VerifyRefuses`, `VerifyErrs`), since it depends on the receipt and the clock;
only the nonce and the sequence are computed. The content of a challenge file is
its expiry. Temporary files are not modelled: they are complete and synced
before they are renamed, and no reader opens one. A challenge file whose
handler failed is `stray`: its nonce was told to nobody, and is taken never to
be presented. The mock build writes challenge files too but never reads them,
and they are left out of it.

### ReplayLedger (abstract specification)

What a relying party is promised: a set of accepted entries that grows by one at
a time, in increasing sequence order for each identity, and without repeating a
one-time nonce. `VerifierService` maps to it by `acceptedLedger`, the entries of
the requests answered "valid".

### Verifier

Models `Verifier::verify`. A call is a record with one field per thing a check
looks at. The checks are lists of faults in the order of the code
(`FormatFaults`, `AttestationFaults`, `TimestampFaults`, `BindingFaults`), each
with its early return: `Err(e)`, which callers treat as an infrastructure error,
or `Refused(e)`, which is `Ok` with `valid = false`. `CheckSequence` is one step
because compare and insert happen under one lock. Timestamps keep a machine
width (`IMin..IMax`, `0..UMax`) and `checked_sub` fails where the difference
leaves it. A system clock before 1970, which has an error of its own, is left out. `chain` is the set of roots under which the provider verifies the
document, which `CertChain` models.

### ReceiptGenerator

Models `generate_receipt`: lock, attestation, number, then clock, encoding and
signing in one step without an `await`. A call can fail at each of these and can
be cancelled while it waits; when it returns, its guard and its locals are
dropped. The clock does not go backwards, and is the one the attestation document
is stamped with; on hardware these are two clocks, and `TimesFollowSequence` and
`InlineRefusalExplained` say nothing of what happens when they disagree. `issued` and `burned` are history: what was handed out, and the
numbers of calls that failed after they had one.

### ChatProxy (extends ReceiptGenerator, instantiates Verifier and ReplayLedger)

Models `examples/01-chat-demo/src/lib.rs` and the runtime it calls,
`llama_cpp.rs`. A `Task` is one request, with the stages

    idle -> start -> inference -> receipt -> done

The composition is over shared state. The generator's variables are those of
`ReceiptGenerator`, whose actions occur inside the handler's
(`GenerateReceipt`, `SignReceipt`, `DisconnectReceipt`); the inline verifier is an
instance of `Verifier` over the same requests and the same clock, and the call it
gets is the receipt the generator has just issued (`InlineCall`).

| Variable | In the code |
|---|---|
| `stage`, `answer` | where a handler is, and the HTTP answer (`lost`: the client has gone) |
| `permits` | free permits of `inference_slots` |
| `child[t]` | the `llama-cli` process of a request |
| `call[t]` | the receipt, and what the handler verifies it against |
| `replay`, `vpc`, `now_sec`, `verdict` | the variables of `Verifier` |

Every `?` is an action (`RefuseRequest`, `StartFails`, `InferenceFails`,
`ReceiptFails`). A client may go away at each `await` that can take time: the
child, the generator's lock or the attestation, and the provider's check inside
`verify()`. The permit comes back with the handler's locals or by
`drop(inference_permit)`. `kill_on_drop` is not set, so a child survives its
handler (`ChildExits` does not depend on the handler). The runtime sets no time
limit. What the model says, and how the completion is cut out of it, is left to
the choice between `InferenceFails` and `FinishInference`.

### CliSession

Models `crates/veriai-cli/src/main.rs`. A `Command` is one run of the program:
`generate`, which leaves a receipt with sequence zero under the mock's identity,
or `verify --stateful`, from reading its inputs to its exit status:

    start -> load -> verify -> create -> write -> exited

`file` is the session file: absent, torn (truncated and not complete), or saved
with a map. Commands may overlap, fail at each call, and be killed at any point;
a kill in the middle of the write leaves either file. When several commands write
at once, each from the beginning of the file, what is left is nondeterministic
(`Mixture`). Two history variables say when the code offers no protection:
`exposed` are the commands that were in the session together, or overlooked a
file that could not be looked up, and `mixed` those whose writes overlapped.
Power loss is not modelled: the program syncs nothing, and nothing is promised.

### ClaimsCodec and MerkleHash

Two algorithms with loops. `ClaimsCodec` is the hand-written `Serialize` and
`Visitor` of `VeriClaims`: one `ReadEntry` per turn of `visit_map`, with its early
returns, over maps in any order, with repeated, reserved, unknown and misshapen
entries. The reference is `Allowed` and `LastOf`, which look at the whole map.
`MerkleHash` is `compute_model_hash`: reads of any length into one buffer that is
not cleared, one `PushChunk` per full chunk, and one `Fold` per level. The
reference is `MerkleRoot`, which numbers the nodes of a tree from zero and takes the
one at the first height that has no more; `Levels` and `Collapsed` are what the
code's own folding makes of a file that is known in advance. SHA-256 is a
constructor.

### RootPem

The two readers of the configured PEM text: `validate_root_pem_with_allowlist`
in `veriai-attestation`, which is strict, and `Verifier::from_pem_with_config` in
`veriai-core`, which skips what it does not know and starts over at every BEGIN.
In the code one runs after the other over the same string. Neither looks at the
other, so the model feeds both one line at a time (`ReadLine`), which lets
`ParsersInStep` compare them; `EndOfText` is the rest of startup, which panics
when either refuses. A line is one of the two markers, blank, another line of
dashes, or text. Whether a text decodes, and to which certificate, is the
constant `CertOf`: the empty text decodes too, to zero bytes, as it does in
base64. `pinned` is the `real-hardware` feature.

### CertChain (extends RootPem)

The loop of `Verifier::verify` over the trusted roots, and under it
`verify_attestation_doc`: leaf checks, then one `WalkParent` per certificate of
the bundle from its end, then the comparison after the loop. A certificate is a
record of what the checks look at, with the key it holds and the key it was
signed with; two certificates have the same DER when the records are equal. Every
`?` of the walk is one of the `...Fails` actions and leads to the next root. The
provider reads the clock once for each root, and the clock may advance in
between (`times`). One verification is followed from start to end: it shares
nothing with others but the roots.

`TrustedPath` is the reference: what a valid chain is, without the walk.

### MC modules

`MCVerifierService`, `MCVerifier`, `MCCertChain`, `MCChatProxy`, `MCCliSession` and
`MCEncoding` (both algorithms, one at a time) give the constants
their values; every `.cfg` belongs to one of them. Operators marked *Mutant* are
plausible bugs of the definition that follows them; replacing the definition by
its mutant makes the property named in PROJECT.json fail, which shows that the
property looks at that code.

## 3. Runs

| Run | Checks | Instance |
|---|---|---|
| `Service_mock` | `TypeOK`, `AcceptedOnce`, `AcceptedIsDurable`, `MemoryNotAhead`, `ReplayInv`, `RefinesLedger` | 2 processes, 3 requests, 3 receipts of 2 identities, no challenges, all I/O faults, crash, power |
| `Service_real` | `ConsumedAfterDurable`, `ReservedOwnedOrFailed`, `LateNeverAccepted`, `ChallengeInv` | 2 processes, 2 requests, 2 challenges with a receipt bound to each, all I/O faults, crash, power |
| `Service_live` | `EveryRequestAnswered`, `ChallengeAcceptedOnce`, `SpentChallengeStaysSpent` | 2 processes, 3 requests for 1 challenge, failing opens and stats, crashes, disconnecting clients, under fairness |
| `Service_restore` | `RestoredAfterInvalid` violated | no faults at all |
| `Service_stale` | `AcceptedOnce` violated | stat may fail |
| `Service_lost_update` | `AcceptedOnce` violated | clients may disconnect |
| `Verifier_checks` | `TypeOK`, `AcceptsExactlyConforming`, `OverflowOnlyInAge`, `DocumentWindow`, `AcceptedOnce` | a conforming call, every call with one or two departures, and all timestamps of 5 bits, at all clocks 0..10; or three threads with calls of 2 identities and 2 sequence numbers |
| `Verifier_tolerance` | `TimestampTolerance` violated | one thread, timestamps only |
| `Trust` | `RootsApproved`, `ParsersInStep`, `AcceptedIsAnchored`, `RefusedHasNoPath` | every PEM text of up to 8 lines over 2 kinds of text, 4 certificates in it of which 2 are approved; about 380 documents of 6 leaves with all bundles of up to 2 of 7 authorities and some of 3; clock 0..2 |
| `Chat` | `ChatTypeOK`, `CompletionOrder`, `NothingLost`, `TimesFollowSequence`, `ExhaustionIsTerminal`, `Capacity`, `BusyOnlyWhenInferring`, `InlineRefusalExplained`, `InlineLedger`, `HungInferenceBlocksNobody` | 3 requests, 2 slots, 2 numbers left, clock 0..2, inline and stateful verification, under fairness |
| `Cli` | `TypeOK`, `AcceptedIsKept`, `VerifiedIsNew`, `TornIsTerminal` | 4 commands, 2 identities, a foreign receipt of each and the generated ones |
| `Encoding` | `DecodesExactly`, `RoundTrip`, `RootOfContent`, `RootIdentifiesModel` | maps of up to 5 entries over 3 claims, 3 other kinds of key and all shapes of value; files of up to 9 bytes in chunks of 2 |

What the properties of the last three say:

* `Capacity`: every permit is free or with a request at its inference, and a child
  without a handler belongs to a client that went away. Such orphans are the only
  way to more children than slots, and they do happen. `BusyOnlyWhenInferring`:
  a request that waits for a lock, signs or verifies never turns another away.
* `InlineRefusalExplained`: the receipt a handler has just made is found valid
  unless a later receipt overtook it on the way to the verifier or time passed;
  the answer `verification_error` cannot happen. `InlineLedger`: what is found
  valid is again a behaviour of `ReplayLedger`.
* `HungInferenceBlocksNobody`: again and again no request is left that has a
  permit and no child, or that has finished its inference and no answer.
* `AcceptedIsKept`, `VerifiedIsNew`: as long as commands take turns, no crash or
  failing call loses a sequence number for which a command exited with 0, and
  VERIFIED is not printed for it again. It may be printed twice for a receipt
  whose first command failed to save: only the exit status counts.
  `TornIsTerminal`: a torn file stops the session until somebody removes it.
* `DecodesExactly`: the decoder accepts exactly the maps all of whose entries are
  allowed and that hold every claim, and takes the last of repeated claims.
* `RootIdentifiesModel`: the code's folding tells files of one size apart. Files of
  different sizes may share a root, as the comment on `hash_file_merkle` says of
  a file that ends in a repeated chunk.

**Bounds.** Two processes and two requests are the least that race; a third
request is needed to accept, overwrite and accept again, which is how both
violations of `AcceptedOnce` come about. Two receipts of one identity order the
sequence, a third of another shows that identities are independent. Requests and
processes are interchangeable, so the safety runs use symmetry. In `Verifier` a
width of 5 bits with a skew of 3, an age of 4 and an alignment of 1 puts every
boundary, and every overflow, inside the range; two departures at once are
enough for one check to hide another. In `Chat` two slots and three requests give
one to turn away; two numbers left give two receipts to order and a call that
finds the counter at its end, and a clock of three values passes the skew (1) and
the alignment limit (0). In `Cli` four commands are one that accepts, one that
tears or loses, one that generates, and one that tries again. In `Encoding` three
claims (two of 32 bytes, one plain) and five entries leave room for a repetition
and an unknown key beside all that is required, and five chunks make a tree that
is odd on two levels. In `Trust` eight
lines are two complete certificates with a line to spare, so that the second may
be one that nobody approved; bundles of three hold an authority below one that
allows none, a certificate above the root, and a root that is listed twice.
Runs allow the system to stop: requests are finite, and a process need not be
restarted.

**Fairness.** `Service_live` assumes that a handler that can go on without a call
failing does (`WF` on `Progress` of each handler): tasks of a multi-threaded
runtime, blocking calls that return, and a kernel that hands a free lock to
somebody. Failures may happen and are never owed: a handler that waits for the
mutex or for the file lock goes on only when it is free, so `EveryRequestAnswered`
would be violated by an early return that kept either (there is a mutant for
each). Each request runs once, so no handler can take a lock again and again, and
weak fairness is enough. Nothing is assumed of clients or restarts.

`Chat` assumes that the executor does not stop while some handler can go on (`WF`
on the disjunction of all handlers' steps). That is less than fairness for each
of them and enough, since each takes finitely many steps. Nothing is assumed of
children, which may hang for ever, nor of clients.

## 4. What the runs found

1. **A challenge is not restored after every invalid verification**
   (`Service_restore`). `verify()` returns `Err` for an expired receipt, a bad
   header or a clock error; the `?` at main.rs:370 answers 500 and leaves the
   challenge reserved. `deploy/nitro/README.md:69` promises that it is restored.
   Nothing is accepted wrongly; the client needs a new challenge.
2. **A failing stat disables the reload** (`Service_stale`). `path.exists()` is
   false on any stat error, so main.rs:305 goes on with an old map, and a
   receipt another process accepted passes again. `try_exists` would tell the
   two apart.
3. **A cancelled handler can overwrite a newer state file**
   (`Service_lost_update`). A dropped future releases both locks while its
   `tokio::fs::rename` is still to happen. `security_review.md:59` says the state
   is persisted while the lock is held. In the real-hardware build the one-time
   challenge still protects (`Service_live`, and theorem `OneTimeChallenge`).
4. **The tolerance is one-sided** (`Verifier_tolerance`). `docs/SPEC.md:56` asks
   for a timestamp within five minutes either way; verify.rs:376 refuses any
   negative age as expired. `DocumentWindow` states the window that results.

One more disagreement needs no run: `docs/SPEC.md:24` says receipts with the
content type in the unprotected header are accepted; verify.rs:197 refuses any
unprotected header (as `prd.md` and `security_review.md` say).

Two limits of the code, which no document denies, show in the guards of the `Cli`
properties: two commands on one session file at once can both verify a receipt,
and a session file that cannot be looked up counts as none.

## 5. Proofs

### The service

`VerifierServiceProofs` proves, for any sets of processes, requests, receipts,
identities and challenges:

* `TypeCorrect`: `Spec => []TypeOK`.
* `ChallengesSettled`, and from it `OneTimeChallenge`, `SpentForGood` and
  `LateRefused`: with every fault allowed, a challenge admits at most one receipt,
  is never available again after it did, even after a power loss, and admits no
  request that had not reserved it when it expired, be it that the request came
  in later or that it was waiting for a lock.
* `TransactionsOnTheFile`, and from it `ReplayProtection` and `AcceptedSurvives`:
  if stat does not fail and no handler is cancelled (`NoStaleWriters`), no
  sequence number of an identity is accepted twice, and every accepted one is
  recorded in all that a power loss can leave.
* `Refinement`: under the same condition `Spec => Ledger!Spec`.
* `MemoryFollowsFile` (`[]MemoryNotAhead`), under the same condition: a process
  outside its transaction remembers nothing that the file does not hold, so a
  rollback or a power loss leaves no acceptance behind in a memory.
* `ReservationsExplained` (`[]ReservedOwnedOrFailed`), with every fault allowed:
  no challenge is locked up by a request that was given a verdict.
* `ConsumedOnlyWhenSafe` (`[]ConsumedAfterDurable`), unless handlers are cancelled
  (`NoLateWriters`): a failing stat is no danger here, a late rename is.

The condition `NoStaleWriters` is not a convenience: findings 2 and 3 show that
replay protection fails without it.

The properties are not inductive. `AcceptedOnce`, for instance, holds in states
where two handlers are about to answer for the same receipt. The argument is in
three layers, of which TLC also checks the second and the third:

1. `LockInv`: whoever is inside the transaction holds the file lock, so two
   handlers never are, and an answer is the end of a handler. Crashes and
   cancellations release the lock only together with the handler.
2. `ChallengeInv`: from the reservation to the answer the challenge file is
   `reserved`, and so are all its survivors; after an acceptance it is `gone`
   in the same strong sense. Only the holder of the lock changes a reserved
   file, so layer 1 gives that nobody else does.
3. `ReplayInv`: the map the check looks at is the file's; from the check on the
   handler's sequence is above every accepted one of its identity, and is on its
   way outwards: first in memory, then in the file, then in every survivor.
   `AcceptedIsDurable` is its last conjunct: everything accepted is below what
   any later reload can find.

Three invariants on top of these give the last three results:

* `MemInv`: the map in memory may be ahead of the file only while a handler of
  that process persists it or is about to put its snapshot back; the snapshot is
  not ahead; and what is persisted replaces a file that is not ahead of it. The
  last part is what keeps *other* processes from falling behind.
* `FilesInv` (with `MockInv`, that the mock build touches no challenge file): what
  the property says of a file holds of each of its survivors, and a file that may be
  gone after a power loss is gone already. The second part rules out that a file is
  written again after its removal, which would bring a survivor back into play.
* `DurableInv`: the receipt of a handler is in memory at `persist`, in the file at
  `fsync`, in every survivor at `consume`, and bound to its challenge throughout.
  It does not need to know what other receipts are in the map, which is why
  `NoLateWriters` is enough.

The refinement then needs a single step lemma (`AcceptStep`): only
`SyncReplayState` without challenges and `ConsumeChallenge` with them add an
entry, one at a time, and layers 2 and 3 give the two conditions of
`ReplayLedger!Accept`.

Assumptions on the constants are in `VerifierService`: functions of the right
type, `NoReq` and `NoFile` outside the sets they extend, and non-empty sets of
processes, receipts and challenges.

### The roots and the chain

`CertChainProofs` proves, for any PEM text, allowlist, certificates, documents
and number of roots:

* `ApprovedRoots` and `ParsersAgree`: `[]RootsApproved` and `[]ParsersInStep`.
  `RootsApproved` says nothing while the text is being read; `ParsersInStep` is
  the strengthening. The proof goes line by line: on each kind of line the parsers
  either do the same or the validator objects.
* `AcceptedAnchored` and `RefusedRightly`: `[]AcceptedIsAnchored` and
  `[]RefusedHasNoPath`. The invariant of the walk (`WalkInv`) says that every link
  behind it holds and that the root is not among them (`WalkSoFar`), and that each root already given up
  has no path (`NoPathSoFar`). Two lemmas tie the code to the definition:
  `LeafCheck` and `ParentCheck` show that the code's conditions are those of
  `TrustedPath`, `BrokenLink` and `NoRoot` that a walk that stops has excluded
  every path.

Assumptions: lines of text are not markers, documents and certificates have the
types stated, `NoDoc` is not one of the documents.

### The generator and the chat demo

`ReceiptGeneratorProofs` proves, for any number of tasks, any counter and any
clock, `ReceiptsInOrder` (`[]CompletionOrder`), `NumbersAccountedFor`
(`[]NothingLost`), `TimesInOrder` (`[]TimesFollowSequence`) and `CounterEnds`
(`ExhaustionIsTerminal`). None is inductive: two calls past the lock could sign
in the wrong order. The invariant `GeneratorInv` adds `Holder` (from the
attestation to its return a call holds the lock, so one at a time), `Newest` (a
number that is being signed is the counter less one, and above all handed out)
and `Younger` (a document in the making is at least as young as every receipt
handed out).

`ChatProxyProofs` shows that the composition keeps this: `ChatUsesGenerator` is
`ChatSpec => Spec`, every step of a handler being a step of the generator or none,
and the four results follow for the demo. `PermitsAccountedFor` (`[]Capacity`) and
`BusyIsHonest` (`BusyOnlyWhenInferring`) hold for any finite number of requests and
any number of slots: the set of requests at their inference grows by one where a
permit is taken and shrinks by one where it comes back (`Enters`, `Leaves`), and
the invariant says in addition what stage a child can be in.

Inline verification joins all three modules. `InlineRefusalsExplained`
(`[]InlineRefusalExplained`) and `InlineIsLedger` (`InlineLedger`, if verification is
stateful) hold for any number of requests, any clock, and any limits of which the
skew is not above the age, as in the defaults the demo uses. `InlineCall` departs
from a conforming call in nothing but its times and its number, so each list of
faults is evaluated once, for a receipt whose document was stamped before its
claims, and these before the clock was read. That order of times is
`TimesFollowSequence` and `Younger`, proved for the generator and carried over by
`ChatUsesGenerator`. The invariant `InlineInv` adds that a handler verifies the
receipt it was given (`Provenance`), that no two have the same one
(`OwnReceipts`), and that the replay map holds the newest number found valid
(`HighWater`): an entry that is refused for its number was overtaken by a receipt
that exists, and one that is accepted is new to the ledger. `ChatTypeCorrect` is the
type invariant of the composition.

### The session file

`CliSessionProofs` proves, for any commands, identities and receipts,
`SessionTypeCorrect`, `SessionKeepsAccepted` (`[]AcceptedIsKept`),
`SessionVerifiesNew` (`VerifiedIsNew`) and `TornSessionStops` (`TornIsTerminal`).
The invariant `SessionInv` adds to `AcceptedIsKept` that commands in the session
together are exposed (`Alone`), that a command that saves has its receipt in its
map (`Progress`), and that the file of a lone writer is torn (`WriterTears`). The
condition `exposed = {}` is the protocol the code leaves to its callers.

### The verifier

`VerifierProofs` proves, for any calls, threads, roots and configuration and for
integers of any width:

* `VerifierExact` (`[]AcceptsExactlyConforming`): the lists of early returns, one
  after another, accept what `Conforms` says without an order. `EarlyReturn` is
  what a list of faults returns in general; `FormatVerdict`, `AttestationVerdict`,
  `TimeVerdict` and `BindingVerdict` say for each list what passes it. For time
  this includes that no `checked_sub` fails on a receipt that is in its windows.
* `VerifierTypeCorrect` (`[]TypeOK`) and `VerifierAcceptsOnce` (`[]AcceptedOnce`),
  for any number of threads.
* `DocumentsInWindow` (`[]DocumentWindow`).
* `OnlyAgeOverflows` (`[]OverflowOnlyInAge`), if skew and age limit together fit an
  `i64` (`LimitsFit`), as the 300 seconds of the default do. `DocSec` is the one
  place where the units matter: a `u64` of milliseconds is an `i64` of seconds.

The invariant says of a thread at a stage which lists its call has passed, of one
that is done that its verdict is an early one exactly when some list refuses the
call (`StageInv`), and that the map holds at least what was accepted (`MapInv`).

### The claims and the model hash

`EncodingProofs` proves, for any claims, maps of any length, and files, chunks and
reads of any size:

* `DecoderExact` (`[]DecodesExactly`). `CodecInv` says that a decoder that is still
  reading has seen allowed entries only and holds the last value of every claim;
  `LastOfAppend` is the one fact about sequences it needs.
* `EncodeDecode`, of which `ClaimsRoundTrip` (`[]RoundTrip`) is a consequence:
  decoding what was encoded gives the claims back, for any number and order of
  claims, so the three of the run do stand for the ten.
* `RootRight` (`[]RootOfContent`). `HashInv` says of the read loop that the level
  holds the hashes of the chunks so far and that the buffer *begins* with what was
  read of the next (`ReadUpTo`): nothing about the rest, which is stale. Of the
  folding it says that the level is that of the reference after as many folds,
  each with cause (`FoldedTo`). `TreeIsLevels` ties the code's levels to the tree.
* `RootIdentifies` (`[]RootIdentifiesModel`). Files of one size have levels of one
  length (`SameLengths`), folding is injective on these (`NextLevelInjective`), and
  the chunks make up the file (`SameFile`).

Three of these are inductions over data. A recursive function is, in TLA+, a
`CHOOSE` of one that satisfies its equation, so the first thing to show is that
there is one. `NatRecursion` shows it once, for any start and step
(`IterateDefined`), by way of the functions up to n, which exist and continue each
other; `Tree` and `Levels` are its instances (`TreeRec`, `LevelRec`). The induction
itself is over a set (`NatSetInduction`: a set of naturals that has 0 and is closed
under successor is all of them), which follows from the well-foundedness of the
naturals and needs no operator as a parameter.

Assumptions: the keys of claims are distinct and different from the other kinds,
the encoder's order lists each of them once, `None` is not a value, and a chunk is
not empty. SHA-256 is a constructor, so no collisions.

### What is only model-checked

Liveness (`EveryRequestAnswered`, `HungInferenceBlocksNobody`), which is out of
the prover's reach. Every other property of the passing runs is a theorem, and
`ConsumedAfterDurable`, `AcceptedOnce` of the service, `AcceptedIsDurable`,
`MemoryNotAhead`, `ReplayInv` and `RefinesLedger` are so under the conditions stated
above. What the four other runs refute is not proved to be false for every
instance.

## 6. Plan

Done: `VerifierService` with `ReplayLedger`, `Verifier`, `ReceiptGenerator`,
`ChatProxy`, `CliSession`, `RootPem`, `CertChain`, `ClaimsCodec` and `MerkleHash`,
and the proofs of section 5. Next, in this order:

1. `Verifier` with a stateful configuration as an implementation of
   `ReplayLedger`, so that all three verifying parts are shown to keep one
   promise.
2. `VerifierService` without `STATE_FILE_PATH`, as an instance of `Verifier`.

## 7. Not modelled

Cryptography (signatures, hashes, certificate signatures) is taken to be
perfect: a check's outcome is a field of a call, and a signature verifies under
the key it was made with and no other. The WebAssembly bindings are a stateless
wrapper around `verify` with their own argument parsing; the Nitro provider is a
device call and the mock provider a test double, whose success, failure and time
stamp `ReceiptGenerator` has and whose verification is `CertChain`. `inspect`, and
`verify` without `--stateful`, keep nothing, and neither do `/health` and
`/version`. Configuration from the environment is read once at startup and is the
constants of the modules. Attestation documents, requests and answers are coded by
derived implementations, the bytes of CBOR and JSON by libraries. Scripts, images
and CI hold no program logic. Hosts that share a state file over a network file
system are outside the documented use ("single-host persistence"), and so is a
power loss during a command of the command line.
