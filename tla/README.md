# Formal models of kryoptic's object and mechanism kernel

TLA+ models of the PKCS#11 soft token in `src/src/`, checked with TLC on
small instances. Their safety properties are also proved with TLAPS for
every instance: those of the HMAC and RSA operations, of the object
read-out, and of the JSON token store. `PROJECT.json` lists the components, the runs, the mutants, the
source line each definition translates, the findings and the hazards.

## 1. The system and its parts

| Part | Source | State | Operations |
|---|---|---|---|
| Operation lifecycle | `mechanism.rs` 115-273 | `in_use`, `finalized` of every operation object; `Operation` enum in the session | one-shot call, `*_update`, `*_final` of the `Encryption`, `Decryption`, `Sign`, `Verify` traits |
| Mechanism registry | `mechanism.rs` 73-114; `register()` in `hmac.rs` 139-244 | `BTreeMap` from mechanism type to a `Mechanism` | `add_mechanism`, `get`, `info`, then `*_new` to build an operation |
| HMAC | `hmac.rs` | `HMACOperation`: mechanism, output length, K0 / ipad / opad, the inner and outer hash states, `in_use`, `finalized` | `sign_new`, `verify_new` (`check_and_fetch_param`, `check_and_fetch_key`, `init`), `sign`, `sign_update`, `sign_final`, `verify`, `verify_update`, `verify_final` |
| RSA PKCS#1 v1.5 | `fips/rsa.rs` | `RsaPKCSOperation`: mechanism, `max_input`, `output_len`, the two `EvpPkey`, `in_use`, `finalized`, the optional digest-sign context `sigctx` | `encrypt_new` ... `verify_new` (key-size gate), `encrypt`, `decrypt` (null-buffer length query), the multi-part stubs, `sign`, `verify` (raw `EVP_PKEY_*` for `CKM_RSA_PKCS`, the digest-sign context otherwise), `sign_update`, `sign_final`, `verify_update`, `verify_final` |
| Object model (`ObjectAttributes`) | `object.rs` 15-225 | ordered attribute list, handle | `set_attr` (replace by id), `match_template`, `fill_template` (sensitivity, per-entry errors) |
| Object creation | `object.rs` 229-372 | schema of `ObjectAttr` with `present` flags | `create`, `basic_object_attrs_checks` |
| JSON storage (`JsonStorage`) | `storage/json.rs` | in-memory cache (a `Storage`) and the token file | `open` (`load`, `prime_cache`), `store`, `remove_by_uid`, `flush` (`from_cache`, `save`), `fetch_by_uid`, `search` |
| EC Montgomery key generation | `ec/montgomery.rs` | the two objects being generated | `generate_keypair` |
| Crypto bridge | `cryptography.rs` | lazily created native hash states | `get_state` (create on first use), `drop` (free) |
| RNG | `rng.rs` | the chosen DRBG | `new` by name, `generate_random` |

How they interact: a session asks the registry for a mechanism and calls its
`sign_new` (or another constructor) with a key object. The constructor
reads attributes of the object and returns an operation object. The session
then drives that object through one-shot or update/final calls until it is
finalized. Objects come from `create` or from the storage cache. `store` and
`remove_by_uid` write the cache back to the token file.

The behaviours that make this hard are the ones a unit test seldom reaches:

- a provider call that fails in the middle of a call, after part of the
  state has already changed;
- long sequences of update calls, failed calls and length queries
  (a null buffer) mixed together;
- an operation whose `in_use` and `finalized` flags disagree with the
  call that comes next;
- for objects, a template whose entries fail in different ways, and an
  object built by any sequence of `set_attr` calls;
- for storage, a flush that fails or a crash during the file write, and a
  restart that reloads the file.

There is no concurrency inside the kernel: every call is synchronous and
takes `&mut self`. The storage's cache is the only state shared between
sessions, and spec section 5 puts it behind an exclusive lock for `store`
and `remove_by_uid`, so each of those calls is one atomic step.

## 2. Modules

- `OperationLifecycle` is the abstract specification: what every operation
  promises its session (spec section 4.5). Its `phase` is Fresh (neither
  flag set), Running (`in_use`) or Done (`finalized`). A step is one call of
  kind `oneshot`, `update` or `final`. The table `Allowed` lists, for each
  phase and kind, the phase the call may leave and whether it may return OK.
  A call may always fail, but only the listed transitions may succeed, and
  Done is terminal.
- `HmacOperation` models `hmac.rs`.
  - Each trait method is an operator from the operation record to a result
    `[op, rv, out]`. Methods that call other methods compose those operators
    the way the code does: `DoSign` is `DoUpdate` then `DoSignFinal`.
  - Each action is one call by the session (`New`, `Sign`, `SignUpdate`, …).
    `Record` stores the call's result. The history variable `accepted`
    collects the chunks of every call that returned OK.
  - Every digest-provider call may fail when `ProviderMayFail` is TRUE.
  - The MAC of a message truncated to `t` bytes is the record
    `Tag(msg, t)`.
  - `LifecycleRefinement` instantiates `OperationLifecycle` with `phase`
    computed from the two flags and `kind` from the name of the call.
- `RsaPkcsOperation` models `fips/rsa.rs` in the same style.
  - The variable `ctx_ready` records that `digest_sign_init` succeeded.
    `absorbed` holds the chunks fed to the context.
  - A null, small or large enough output buffer is an input of
    `encrypt`/`decrypt`.
  - Every OpenSSL call is an outcome that may fail.
  - `EvpPkeySignOnVerifyCtx == FALSE` states that OpenSSL refuses
    `EVP_PKEY_sign` on a context set up with `EVP_PKEY_verify_init`.
- `ObjectAttributes` models `object.rs` 15-26 and 44-225.
  - An object's attributes are a function `attrs` from id to value:
    `set_attr` replaces by id, so there is never a second attribute with
    the same id.
  - The flag predicates keep their defaults (`CKA_SENSITIVE` absent counts
    as sensitive, `CKA_EXTRACTABLE` absent as not extractable).
    `private_key_type` returning `None` is the value `Unavailable`, which
    no row of the `SENSITIVE` table holds.
  - A template entry is `[type, buf]`, with `buf` the caller's capacity or
    `Null`. `FillEntry` is one iteration of the loop in `fill_template`, in
    the code's order: sensitivity, presence, null buffer, size. `LastError`
    is the `rv` the loop leaves: the error of the last failing entry.
  - Actions: `SetAttribute` (any settable id and value) and `Fill` (any
    template of at most `MaxTemplateLen` entries).
  - `Hidden` is the spec's reference definition of a hidden attribute
    (spec lines 34-41), written independently of the code's three helpers.
- `JsonStorage` models `storage/json.rs`.
  - `cache` is the memory backend, a map from uid to object. An object is
    abstracted to its uid, `CKA_TOKEN` and one string attribute, the label.
  - `file` is `Missing`, `Torn`, or `JsonFile(objects)`.
  - `std::fs::write` has three outcomes (`SaveOutcomes`): it succeeds; it
    fails before it truncates, leaving the file alone; or it stops after
    truncating, leaving a torn file.
  - `Crash` loses the cache, and may tear the file when a flush was
    running.
  - `NonUtf8` stands for a string whose bytes are not UTF-8, which
    `to_json_value` would write as `Base64Text` (`json.rs` 24-27).
    `Utf8LabelsAssumption` keeps it out of `Labels`: spec section 3 defines
    String as UTF-8, and every String attribute under `src/` is built from a
    Rust `String`, so that fallback is never reached.
  - The history variable `acked` holds the token objects as of the last
    mutation that returned OK.
  - `Open` is enabled only while the store is not open. `open` has no
    caller under `src/`; the token layer calls it once, when the token is
    loaded. A crash closes the store again.
- `HmacOperationProofs`, `HmacLifecycleProofs`, `RsaPkcsOperationProofs`,
  `ObjectAttributesProofs` and `JsonStorageProofs` hold the TLAPS proofs.
- `MCHmacOperation`, `MCRsaPkcsOperation`, `MCObjectAttributes` and
  `MCJsonStorage` give the constants of the checked instances.

The `mutants` list of `PROJECT.json` names, for each property, a definition
placed just before the code definition it mutates: a plausible bug in that
code (a dropped test, a wrong default, a flush of the old cache). These
definitions are used only by the mutation runs.

Where the code tests conditions one after another with early returns, the
models use `IF ... ELSE IF` chains. TLA+ `CASE` does not try its arms in
order, so it is used only where the arms are disjoint.

## 3. Runs

| Run | Config | Checks | Result |
|---|---|---|---|
| hmac_operation | `MCHmacOperation.cfg` | `TypeOK`, `FinalizedOnlyAfterUse`, `SignatureBindsMessage`, `VerifyVerdictCorrect`, `LifecycleRefinement` | pass, 3415 states |
| rsa_operation | `MCRsaPkcsOperation.cfg` | `TypeOK`, `NoSigCtxPanic`, `SignatureBindsMessage`, `VerifyVerdictSound`, `SizeQueryKeepsOperation` | pass, 669 states |
| rsa_lifecycle | `RsaLifecycle.cfg` | `LifecycleRefinement`, OpenSSL never failing | pass, 395 states |
| rsa_lifecycle_provider_fault | `RsaLifecycleProviderFault.cfg` | `LifecycleRefinement`, OpenSSL failing | violation (finding 1) |
| rsa_verify_own_signature | `RsaVerifyOwnSignature.cfg` | `VerifyAcceptsOwnSignature` | violation (finding 2) |
| object_attributes | `MCObjectAttributes.cfg` | `SensitiveNeverRevealed`, `FillTemplateFaithful` | pass, 88452 states |
| object_fill_error_priority | `ObjectFillErrorPriority.cfg` | `FillErrorPriority` | violation (finding 3) |
| json_storage | `MCJsonStorage.cfg` | `FileMatchesCache`, all write outcomes | pass, 1279 states |
| json_reopen | `JsonReopen.cfg` | `ReopenRecoversAcked`, no torn write | pass, 658 states |
| json_torn_file | `JsonTornFile.cfg` | `ReopenRecoversAcked`, torn writes | violation (finding 4) |

What the properties say:

- **`SignatureBindsMessage`** (HMAC and RSA): a signature returned with OK is
  the MAC or signature of exactly the chunks of the calls that returned OK,
  in order. This has to hold across one-shot calls, update calls and failed
  calls.
- **`VerifyVerdictCorrect`** (HMAC): OK is returned exactly for the right MAC,
  and SIGNATURE_INVALID exactly for a wrong MAC of the right length. A
  signature of another length gets neither verdict: the length check of
  `hmac.rs:474` returns GENERAL_ERROR first. Its mutant drops that check.
  **`VerifyVerdictSound`** (RSA) is the OK half of that.
- **`FinalizedOnlyAfterUse`** (HMAC): a finalized operation is in_use.
  `sign()` and `verify()` check `in_use` alone and rely on this.
- **`NoSigCtxPanic`** (RSA): no path calls `sigctx.unwrap()` when `sigctx` is
  None.
- **`SizeQueryKeepsOperation`** (RSA, an action property): `encrypt` and
  `decrypt` with a null or too-small buffer leave the operation unchanged.
- **`LifecycleRefinement`**: the operation implements `OperationLifecycle`.
- **`SensitiveNeverRevealed`** (objects): for every object `set_attr` can
  build, `fill_template` never copies the bytes of an attribute that
  `Hidden` hides, and reports its length as unavailable.
- **`FillTemplateFaithful`** (objects): `fill_template` returns OK exactly
  when every entry was filled. A filled entry reports the attribute's full
  length and, when it has a buffer, holds the whole value in a buffer large
  enough for it.
- **`FillErrorPriority`** (objects): the spec's rule for the result, the
  highest-priority error of the template.
- **`FileMatchesCache`** (storage): after an `open`, `store` or
  `remove_by_uid` that returned OK, the file holds exactly the encoded
  token objects of the cache. Session objects stay out of the file. A
  failed or torn write is repaired by the next write that succeeds.
- **`ReopenRecoversAcked`** (storage): an `open` of an existing file, after
  any history, succeeds and restores exactly the acknowledged token
  objects. This is the round trip of spec section 8 (line 213).

Bounds and why they are enough:

- HMAC: two hashes (SHA1 with output length 1, SHA256 with 2) and two data
  chunks. `MaxData = 2` chunks per operation, so an operation sees two
  updates, or an update then a one-shot call. Requested lengths range over
  0, every valid length and one past each. Three parameter lengths are
  used: missing, wrong and CK_ULONG. Key objects cover every branch of
  `check_and_fetch_key`.
- RSA: moduli of 64 bytes (rejected by the 1024-bit minimum) and 256 bytes,
  one short and one long plaintext, and three mechanisms: raw, digest, and
  unknown.
- Objects: two key types, RSA and generic secret. Their sensitive sets
  differ, and only RSA's leaves `CKA_VALUE` readable. Two byte values, the
  empty one and one byte. Buffer capacities 0 and 1, so a buffer is too
  small for the 1-byte flag and 8-byte numbers and big enough for the empty
  value. Templates have up to two entries, the fewest in which two
  failures can compete for `rv`. The ids asked for are one numeric id, one
  id that is sensitive for RSA, and `CKA_VALUE`.
- Storage: two uids and two labels. Two uids give a token object and a
  session object side by side, and a remove that leaves an object behind.
  Every store may pick either `CKA_TOKEN` value, and every write every
  outcome.
- Within these bounds every guard of every method is taken both ways, and
  the passing runs fire every action.
- The runs check safety only. The code contains no loop, wait or retry
  whose progress could be stated, so no fairness is assumed.

## 4. Findings

1. **One-shot RSA sign/verify can leave the operation running**
   (`rsa.rs:649`, `rsa.rs:764`). With a digest mechanism, `sign()` calls
   `self.sign_update(data)?` and `verify()` calls `self.verify_update(data)?`.
   If `digest_sign_init`, `digest_verify_init` or the update fails, `in_use`
   has already been set, and the `?` returns before `finalized` is set.
   Spec section 4.5 says a one-shot call finalizes the operation on every
   outcome. TLC finds it in two steps: create a verify operation, then a
   one-shot verify whose init fails. HMAC handles the same case and sets
   `finalized` (`hmac.rs` 402-408).
2. **One-shot `CKM_RSA_PKCS` verify never succeeds** (`rsa.rs:752`). It sets
   up the context with `EVP_PKEY_verify_init` and then calls `EVP_PKEY_sign`
   on it. OpenSSL refuses that call, so `verify()` returns DEVICE_ERROR even
   for the signature `sign()` produced. Spec section 8 says that
   verify(pk, m, sign(sk, m)) returns OK.
3. **`fill_template` returns the last error, not the highest-priority one**
   (`object.rs:218`). Every failing entry assigns `rv` (lines 187, 202,
   218). Take an RSA object with `CKA_KEY_TYPE` and no `CKA_VALUE`, and the
   template [`CKA_VALUE` with a null buffer, `CKA_KEY_TYPE` with a 0-byte
   buffer]. The code returns BUFFER_TOO_SMALL. Spec section 4.2 (line 72)
   gives ATTRIBUTE_TYPE_INVALID.
4. **A crash during a flush loses the token** (`json.rs:162`). `save` writes
   the file in place with `std::fs::write`, which truncates first. TLC's
   trace: open, then a store whose write is cut short by a crash, then
   open, which fails with a parse error. Every object acknowledged before
   is gone. The usual fix is a write to a temporary file and a rename.

## 5. Proofs

`HmacOperationProofs` proves, for every set of hashes, output lengths, data
chunks and every bound `MaxData`:

- `TypeCorrect`: `Spec => []TypeOK`;
- `FinalizedImpliesInUse`: `Spec => []FinalizedOnlyAfterUse`;
- `SignatureBinding`: `Spec => []SignatureBindsMessage`.

None of these is inductive on its own. `SignatureBindsMessage` talks only
about the output of the last call, and the next `sign_final` needs to know
what the operation has absorbed. The inductive invariant `IInv` therefore
adds two conjuncts:

- `InnerIsAccepted`: an operation that is not finalized has absorbed exactly
  the accepted chunks;
- `NoOpNoHistory`: nothing is accepted before an operation exists.

The proof has four steps:

1. `Good(r, d)` states `IInv` of the state that `Record` builds from a result
   `r`. `RecordIInv` shows that `Record` turns a good result into an `IInv`
   state.
2. One lemma per method shows that it returns a good result: `DoUpdateGood`,
   `SignFinalRes`, `VerifyFinalRes`, `DoSignGood`, `DoVerifyGood`,
   `NewOpGood`. One-shot calls reuse the final-call lemmas with the message
   extended by the new chunk.
3. `IInvStep` does one case per action.
4. `IInvInvariant` and the three theorems follow by PTL.

The proofs rest on these assumptions, each evaluated by TLC:

- `HashLen` maps every hash to a positive length;
- `MaxData` is a natural number;
- `NoOut` is not a data chunk;
- `NoOp` is not an operation record.

`HmacLifecycleProofs` builds on those proofs:

- `HmacRefinement`: `Spec => LifecycleRefinement`. The HMAC operation
  implements the abstract lifecycle of `OperationLifecycle` under the
  mapping `PhaseOf`. The strengthening `LInv` adds `NoOpFresh`: the
  session holds no operation only before the first `New`. `LStep` shows
  that every HMAC step maps to an abstract step or a stutter, with one case
  per action. One lemma per method (`UpdateStep`, `SignFinalStep`,
  `VerifyFinalStep`, `SignStep`, `VerifyStep`) gives the abstract row it
  takes from the operation's phase.
- `VerdictCorrect`: `Spec => []VerifyVerdictCorrect`. The invariant `VInv`
  is `IInv`, plus `FreshEmpty` (an operation not in use has empty inner
  state), plus the verdict itself. `FinalVerdict` shows that `verify_final`
  on a running operation gives a verdict only for a signature of length
  `outputlen`, and OK exactly when the signature is
  `Tag(inner, outputlen)`. `OneShotVerdict` shows the same for one-shot
  `verify`, on the fresh operation extended by the one chunk.

`RsaPkcsOperationProofs` proves every invariant of the `rsa_operation` run,
for every key size, data set, buffer size and bound:

- `TypeCorrect`: `Spec => []TypeOK`;
- `NoPanic`: `Spec => []NoSigCtxPanic`;
- `SignatureBinding`: `Spec => []SignatureBindsMessage`;
- `VerdictSound`: `Spec => []VerifyVerdictSound`.

The inductive invariant `IInv` conjoins those four with
`OpInv(op, accepted)`. `OpInv` says the live operation is well formed
(`WF`): it has a digest-sign context exactly when its mechanism is
`SHA256_RSA_PKCS`, it is `in_use` only with such a context, and it has
absorbed nothing while not in use. Until finalized, it has absorbed exactly
the accepted chunks. `NoSigCtxPanic` needs `WF`: the `unwrap` in
`sign_update` is safe only because `in_use` implies a context. The proof
follows the HMAC layout. `Good` states `IInv` of the recorded result, there
is one lemma per method, and `KeySizeGate` keeps the key-size arithmetic
out of the large contexts.

The same module proves the action property `SizeQuery`:
`Spec => SizeQueryKeepsOperation`. An encrypt or decrypt call with a null
or too small buffer leaves the operation unchanged. `SizeQueryStep`
proves it for every step, with no invariant needed.

The RSA proofs assume `NoOpAssumption` (`NoOp` is no operation record) and
`NoOutAssumption` (`NoOut` is neither a chunk nor a buffer). Both are
declared in `RsaPkcsOperation` and evaluated by TLC on every RSA run.

`ObjectAttributesProofs` proves `SensitiveSafety`:
`Spec => []SensitiveNeverRevealed`, for every set of key types, values,
buffer sizes and template bound. The invariant is inductive on its own:
`set_attr` clears the template, and `fill_template` computes its result
from the object it reads. The core lemma, `HiddenIsSensitiveAttr`, shows
that the code's three helpers (`private_key_type`,
`needs_sensitivity_check`, `is_sensitive_attr`) report every id that
`Hidden` hides.

It also proves `FillFaithful`: `Spec => []FillTemplateFaithful`. The
invariant `FInv` adds `AttrsTyped` (every stored value has its id's type),
which bounds `RawLen`. `LastErrorOK` shows that `LastError` returns OK
exactly when every entry's error is OK. One direction picks the last failing
position (`LastPosition`). That lemma is proved by well-founded minimality of
`n - i` over `Nat`, not by induction on the recursive loop.
`FillEntryFaithful` shows that a filled entry carries the full length and,
given a buffer, the whole value. This proof assumes `ByteValuesAssumption`:
attribute values are byte strings.

`JsonStorageProofs` proves, for every set of uids and labels and every set
of write outcomes:

- `TypeCorrect`: `Spec => []TypeOK`;
- `FileCacheConsistency`: `Spec => []FileMatchesCache`;
- `ReopenSafety`: under `ReopenHyp` (no write tears the file),
  `Spec => []ReopenRecoversAcked`.

The invariant for `FileMatchesCache` adds three facts:

- `ClosedEmpty`: the cache is empty while the store is closed, so an
  `open` primes an empty cache;
- `FileInv`: every object in a JSON file is a token object, with a uid that
  no other object of the file has, and without a non-UTF-8 label;
- the type invariant.

`FlushIInv` handles the flush that `store` and `remove_by_uid` share.
`ReopenSafety` adds `AckedFile`: whenever the file exists it is the
encoding of the acknowledged objects, those objects are token objects with
valid labels, and a missing file was never opened. The `json_torn_file`
violation run shows that `ReopenHyp` cannot be dropped.

The storage proofs rest on `SaveOutcomesAssumption` (`"ok"` is among the
outcomes), `LabelsAssumption` (`Base64Text` is neither a label nor
`NonUtf8`) and `Utf8LabelsAssumption` (callers store UTF-8 strings only).

What stays with TLC:

- RSA `LifecycleRefinement`. It fails when the provider faults: see the
  `rsa_lifecycle_provider_fault` finding. It holds in `rsa_lifecycle`, where
  the provider never faults, and is model-checked there only.
- `FillErrorPriority` and the JSON and RSA violation runs. These are
  disagreements between the code and the spec, so they cannot be proved.
- Liveness and `ENABLED` are out of the prover's reach.
- The same holds for facts about recursive definitions: the provers cannot
  instantiate the library's induction theorems.

## 6. Not modelled, and the plan

The order of the next sittings:

1. **ObjectCreate** (`object.rs` 283-372). `create` pushes `CKA_UNIQUE_ID`,
   then the template's attributes without removing duplicates.
   `basic_object_attrs_checks` then rejects duplicates, unknown attributes
   and missing required ones, and adds defaults. A composition with
   `JsonStorage` would follow: objects made by `create` and then stored.
2. A proof of the RSA lifecycle refinement under the no-provider-fault
   hypothesis of `rsa_lifecycle`.
3. EC Montgomery `generate_keypair`: it forces `CKK_EC_EDWARDS`.
4. The registry map, and the HMAC algorithm itself as a pure operator over
   byte strings, checked against the definition in RFC 2104 on short inputs.
   That module is for TLC only.

Left out, with reasons:

- `match_template` and the `get_attr_as_*` readers change no state, and no
  property here depends on them;
- `prime_cache` stopping halfway (`json.rs:135`): every file that `flush`
  writes carries a uid for each object and parses completely, and a torn
  file fails in `from_reader` before any object is primed, so only a
  hand-edited file reaches that path;
- `RsaDecompose` and RSA key generation (no caller; always DEVICE_ERROR);
- the native hash-state wrappers and RNG front end: Rust ownership already
  enforces init-before-use, and the DRBGs are not in `src/`;
- zeroization of secrets on drop, which no property of these models tells
  apart;
- liveness: no call loops, waits or retries, so there is nothing to
  eventually happen and no fairness is assumed.
