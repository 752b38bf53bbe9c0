# TLA+ models of TARAKO

Specifications of the TARAKO kernel module, of the attestation protocol around
it and of the TDX quote path, checked by TLC on small instances. The safety
properties that hold are also proved, by TLAPS, for all instances. Paths below are relative to the repository's root unless they
name a module of this directory.

## The system

| Part | Source | What it does |
| --- | --- | --- |
| Set-once cell | `driver/src/set_once.rs` | Lock-free storage of the key pair: empty, owned by one thread, published |
| Module init and exit | `driver/src/lib.rs` | Generates and measures a key, registers `/dev/tarako`, fills the cell; on exit removes the device, then destroys the key |
| ioctl handlers | `driver/src/lib.rs`, `ioctl.rs`, `ffi.rs` | HELLO, GET_PUBKEY, SIGN_DATA: sign the caller's fs-verity digest and 128 bytes of user data |
| Curve and big-integer code | `driver/src/ecc.rs`, `vli.rs`, `ecdsa_sign` | Key generation, P-256 signature |
| Lockdown | `test/attester.nix` | Sets `modules_disabled` in the initrd once the module is loaded |
| Attester | `attester/main.go` | HTTP server (and `quote` command) that has the device sign the binding of a request and a nonce |
| Verifier | `test/attestation/verifier.py` | Issues challenges, appraises quotes against a two-file policy, signs results; one thread per request |
| Client | `test/attestation/client.py` | Obtains a challenge (five attempts), a quote, a result, and checks the result |
| QGS parser, QEMU task | `tdx/` | Reads the quote service's reply and completes the TDX guest's request |
| Attester service | `test/attester.nix` | Script that installs, protects with fs-verity and executes the attester; systemd restarts it |
| Quote tools | `test/*-quote.py`, `tdx-attest.py`, `quote-bench.py` | Command-line quotes and a benchmark |
| Symbolic model | `formal-verification/` | ProVerif model of a session protocol |

The device signs for any caller whose executable has an fs-verity digest. The
attester asks it to sign a hash of the client's request and the verifier's
nonce. The verifier recomputes the hash and compares executable, key and
signature with its policy. The client accepts a result that is signed by the
verifier and names its own challenge and request.

## Modules

| Module | Models | Role |
| --- | --- | --- |
| `OnceCell` | the cell's promise | abstract specification |
| `SetOnce` | `set_once.rs` | implements `OnceCell` |
| `QuoteDevice` | the device's promise | abstract specification |
| `TarakoModule` | `lib.rs`, `ioctl.rs`, lockdown, reboots | instantiates `SetOnce` as `KEY_PAIR`; implements `QuoteDevice` |
| `Vli` | `vli.rs`, byte order in `ecc.rs` and `ioctl.rs` | operators over limbs |
| `CarryingAdd` | the loop of `Vli::carrying_add` | one step for each limb |
| `EcdsaSign` | `ecc.rs`, `generate_key_pair`, `ecdsa_sign` | uses `Vli` |
| `AttesterQuote` | `quoteHandler`, `tarakoQuote` of `main.go` | extends `TarakoModule`: the handlers' system calls are its actions |
| `GetQuote` | `tdx/` | one GetQuote request |
| `InstallApp` | the service's script, `prepare_app` of `tarako-quote.py` | processes over one file system |
| `RequestBinding` | the two JSON encodings that are hashed | operators |
| `Attestation` | client, verifier, attester, network, operator | uses the device through `QuoteDevice`'s promise |
| `SetOnceProofs`, `TarakoModuleProofs`, `AttesterQuoteProofs`, `GetQuoteProofs`, `InstallAppProofs` | | theorems about the module they are named after |
| `VliProofs` | | theorems about `Vli`, `CarryingAdd` and `EcdsaSign` |
| `AttestationTypes`, `AttestationProofs` | | theorems about `RequestBinding` and the types of `Attestation`; about its properties |
| `MC...` | | instances for TLC |

`PROJECT.json` maps each definition to source lines. Definitions named `Bug...`
are single coding errors; each is put in place of its definition to see that
the property it endangers fails. No specification uses them.

### SetOnce

`init` and `value` are the fields of the struct, `pc[t]` is where thread `t`
is inside a method and `local[t]` its argument or what it borrowed. `populate`
is three steps (`PopulateClaim`, `PopulateWrite`, `PopulatePublish`), `clear`
is three, `as_ref` is one, and a reference lives until `Release`. `Drop` and
`New` are the end of a cell and a new one in its place. The release
store and acquire load make interleaving of these steps faithful. The contract
that the `# Safety` section of `clear` puts on its callers is `MayClear` and
`MayAccess`; it is part of this module's `Next`, and not of the actions, so
`TarakoModule` uses the actions without it and has to establish it.

### TarakoModule

`mod` is where loading is: `absent`, `keyed` (key generated), `registered`
(device exists, cell perhaps still empty), `live`, `going`, `cleanup`. Each
phase change is an action, as is each step of `populate` and `clear` by the
loader. `at[t]` is where a task is; SIGN_DATA is cut at every place where the
caller's memory or another task can matter: taking the reference and testing
`ima_measured`, reading the digest, copying the request in, signing, copying
the whole struct out. `umem[t]` is the caller's buffer, which its other threads
write at any time; `exe[t]` its executable, which it may replace between
calls with the file left open. `imaLog` and `issued` are history. The lockdown
script is two steps, the test for `/sys/module/tarako` (`TestModule`, which also
succeeds while the module is being loaded or removed) and, any time later, the
write of the sysctl (`LockModules`).

Assumed of the kernel: an open file holds a reference on the module, a module
with references is not removed, and a removed device cannot be opened. `lib.rs`
sets no owner itself, and its comment in `KeyCleanup::drop` (`lib.rs:61-64`)
credits the removed device with stopping existing accesses. In the model it is
the module reference that does, so that `Unload`'s guard is an assumption on the
Rust miscdevice abstraction of the kernel that the driver is built against; with
the reference removed (`BugUnload`) the properties fail. `KeyPairStable`,
`OpenFilePinsKey`, `EnxioOnlyWhileLoading`, `AnswerIsEvidence` and
`KeyNeverChanges` rest on it.

`kp` and `local` say who owns the key pair. A Rust move copies bytes and does
not overwrite the source, so the stack of init and `populate` (`lib.rs:88-89`,
`set_once.rs:42`) may keep some that no `Drop` reaches. They are not modelled,
and `StorageZeroized` speaks of the storage of `KEY_PAIR` only.

### Vli, CarryingAdd and EcdsaSign

A `Vli` is a function from limb numbers to limbs; the number of limbs, the
bytes of a limb and the values of a byte are constants. What the driver
computes itself is translated limb by limb and byte by byte: the carry chain,
`unswap`, the reading of a point's memory as bytes, the loops that write the
signature. The kernel's `vli_` and `ecc_` functions are external and are defined
on the integers that the limbs stand for.

`EcdsaSign` is one thread: `generate_key_pair`, then any number of signing
calls. `pc` says what a call does next (draw a scalar, allocate a point,
multiply, use the result); each of these may fail where the kernel's function
can. `live` counts the points that are allocated. The curve is given as the
coordinates of the multiples of the generator, so that coordinates above the
order occur. `SignatureVerifies` checks the bytes as a verifier does, from
hash, signature and compressed key alone.

### AttesterQuote

Each task of `TarakoModule` is a goroutine of the server. `stage[t]` is where it
is in `tarakoQuote`; each stage takes the driver's action for the system call,
and `Handler` adds the error returns, with the deferred `Close`. Loading,
unloading, lockdown and reboots go on between any two steps. `Zero` is what a new
request struct holds. This is what
justifies taking `QuoteHandler` of `Attestation` as one step: every answer is
evidence the device issued for that request, under the key that is shown.

### GetQuote

The reply is its declared size, whether its header fields are right, its real
length and whether the service then closes the connection; bytes are named by
their place in the stream. The main loop runs one callback at a time
(`SendReport`, `Read`, `ReadNothing`, `ReadFails`, `Expired`). The completion
writes quote, header and status to guest memory in three steps, because the
guest polls beside it. `phase = "lost"` is a guest buffer that cannot be written,
which the code only reports.

### InstallApp

`path` names an inode for the installed file and for its `.new`; `whole` are
the inodes that hold all of the executable and `verity` those that are
protected. Every command of the script and every call of `prepare_app` is a
step, with opening and closing a file apart, and a process may be killed
between any two, or end inside a copy for want of space (`BreakOff`). `broken`,
a history variable, are the inodes whose copy ended so. The file system is
external: install(1) unlinks its
destination, copy2 truncates it, fs-verity refuses files that are open for
writing.

### RequestBinding and Attestation

A request is a sequence of character classes, one for each way in which Go's
`json.Marshal` and Python's `json.dumps` treat a character; SHA-256 is taken to
be injective. Messages are sets of records named by a connection; a request is
handled at most once and may never be; a client takes an answer only on the
connection it waits on. `verify` is three steps after the pop: the two policy
files are read one after the other, and the verdict uses what was read.
`accepted` is the history of accepted evidence and `held` what `trusted-tak.bin`
has held since a thread's pop. `MaxEvents` environment events
may happen at any point: other programs use the device or the services,
evidence is put together from parts, a response is delivered to a client again
or to the wrong one, the attester reboots with a new key, the verifier
restarts, the operator writes a policy file. Signatures are the data signed:
only the device adds to `issued`, only the verifier to `verifyResps` (a
misdelivered one is a copy).

## Runs

| Run | Instance | Shows |
| --- | --- | --- |
| `setonce` | 5 threads, 3 values | the word is a lock, references are stable, `OnceCell` is implemented, no value is lost undropped, ownership ends |
| `carrying_add` | 3 limbs of 2 bits, all operands and carries | the carry chain is integer addition; the byte conversions agree |
| `ecdsa_sign` | a curve of prime order 37 over 43 elements, 6-bit integers, 2 keys, all nonces and hashes, 2 attempts | signatures verify, points are freed once, calls end |
| `attester_quote` | 2 handlers, 2 keys, 2 bindings, 2 requests, 1 reboot | an answer is evidence for its own request; the key cannot change between the ioctls; the file is closed; every request is answered |
| `getquote` | buffers of 20, 29 and 32 bytes; sizes and lengths around the limits | the guest sees a whole quote or an error, never reconsidered, and does not wait for ever |
| `install` | 2 tools killed up to 2 times, service killed up to 3 times | what runs is protected, and whole if it is the service; no copy under way is protected; an installed file stays protected; the service comes up |
| `install_broken` | 2 tools, one killed once | a disagreement, below |
| `driver` | 2 tasks, 2 keys, 2 user data, 1 reboot | no call sees a key made or destroyed under it, a shown key stays while the file is open, unloading leaves no key in the cell, ENXIO is a loading transient; quotes are measured, answers are the evidence made, `QuoteDevice` is implemented |
| `attestation` | 2 clients, 2 threads, 2 challenges, 2 events | one verdict per challenge, results and acceptances rest on evidence for that challenge, a signature is accepted for one challenge |
| `attestation_reboot` | 1 client, 2 attempts, 2 keys, 2 events | genuine evidence passes; only evidence under a key trusted between pop and verdict passes; a client ends |
| `attestation_progress` | 2 clients, 2 attempts, 2 threads, no event | when nothing fails every client with a non-empty request gets its result |
| `attestation_escapes` | 1 client, requests with markup or non-ASCII | a disagreement, below |

The type invariants of `Attestation`, `EcdsaSign`, `GetQuote` and `InstallApp`
are conjuncts of `OneVerdictPerChallenge`, `PointsFreed`, `RoomToRead` and
`ProtectedIsWhole`. All of them are proved, and so are those of `SetOnce`,
`CarryingAdd`, `TarakoModule` and `AttesterQuote`.

**Findings.** Two runs are expected to fail.

`attestation_escapes`: `attester/main.go:86`
and `verifier.py:28` encode the same object, but Go escapes `<`, `>`, `&` and
copies most non-ASCII characters, while Python escapes non-ASCII characters
and copies the other three. `attester/main_test.go:10`
(`TestRequestBindingMatchesVerifierProfile`) tests one plain ASCII request. For
a request with such a character the verifier answers 400 to evidence the
attester made for exactly its challenge.

`install_broken`: `prepare_app` (`test/tarako-quote.py:47`) copies in place, and
nothing keeps two first runs apart. One has copied the file; the other truncates
it and ends inside copy2, killed or for want of space; the first then enables
fs-verity on what there is and announces an "installed fs-verity-protected app"
(line 51). It is not the "fs-verity-protected copy of the binary" of
`README.md:87` but a part of it, and later runs of the tool use it as it is.
`ProtectedIsWhole` says that this is the only way: a protected file is whole, or
the run that was to complete it broke off. The service is not exposed, because
it copies to a name of its own (`RunsProtected`).

**Bounds.** Two tasks are enough for a call of one to be inside while another
opens, closes or calls, with the loader as a third actor; two keys allow a
reload or a load in each of two boots; two user data values tell a changed
buffer from the signed one, and one digest beside `NoVerity` an executable with
evidence from one without. Two clients, threads and challenges allow a race for
a challenge and evidence of the wrong session; two events allow a misdelivery
after a foreign quote, or a provisioning after a reboot. `MaxAttempts` is 5 in
the code and up to 2 here: the first and the last attempt. Symmetry
is used only in runs without liveness properties. The `Attestation`, `getquote`
and `carrying_add` runs do not check deadlock, because a client process, a
request and a loop end.

Three limbs give the carry chain a first, a middle and a last limb. The curve of
`ecdsa_sign` has an order above half the number range, as P-256 has, so that one
subtraction reduces, and the range above it is large enough for coordinates and
hashes above the order and for sums that overflow; `MaxAttempts` (100 in the
code) is 2, the first and the last attempt. A buffer of 20 bytes is smaller than
the header, 29 bytes hold the smallest quote exactly, 32 leave room. Five inodes
are more than the files that can be in use at once. Kills may come at any
point.

`attestation` has one request, as two clients with the same one are the harder
case. That a client accepts a result for its own request
(`AcceptedIsAttested`) and not for another is therefore exercised by the theorem
only. `attestation_reboot` has one verifier thread, beside which the operator
and the attester act. The two requests of `attester_quote` are served at once,
or one after the other by one handler over a reload or a reboot.

**Fairness.** `SetOnce`, `TarakoModule`: a thread inside kernel code goes on;
`populate`, `clear`, init, exit and the ioctls wait for nobody. Nothing obliges
user space to open, call or close. `Attestation`'s `Spec`: a client's waits
have timeouts (10 s and 15 s) and its sleep ends; no fairness of the services
or of the network. `EcdsaSign`: a call that has begun goes on; every step of
it changes `pc`, so the fairness is stated on `pc`. `AttesterQuote`: handlers
and the loader go on; nothing obliges anyone to send requests. That ioctls
end is checked there; inside an ioctl a handler has only the driver's steps
to take, so that it rests on the kernel's fairness alone. `GetQuote`: an
armed timer fires and the completion goes on; nothing of the quote service.
`InstallApp`: systemd starts the service again and its script goes on; nothing
of the tools. `GoodSpec` (only for `ClientsAccepted`, and for the run that
shows the finding): the policy is in place, nothing fails or times out, and
some enabled step is always taken.

## Proofs

The theorems hold for every value of the constants that meets the assumptions of
the module: any number of threads, tasks, clients, keys, challenges, runs,
reboots, kills and environment events. `SetOnceAssumption`, `TarakoAssumption`,
`AttesterAssumption` and `InstallAssumption` say that special values are not
ordinary ones and that bounds are numbers. `AttestationAssumption` says this too,
and that requests are made of the character classes and approved executables are
executables; the nonces that the verifier draws are never repeated, which is the
guard of `ChallengeHandler`. `GetQuoteAssumption` says that sizes are natural numbers;
`VliAssumption`, that there are limbs, that they have bytes and that a byte has at
least two values.

`CurveAssumption` says what the code needs of its curve, and P-256 has all of it:
every number below the order n has an inverse modulo n (n is prime), n fits the
limbs and 2n does not (one subtraction reduces any integer of the limbs),
coordinates fit the limbs, and x and the parity of y determine a multiple of the
generator (the two points with one x have y and p - y, of which one is odd,
because p is, and neither is zero, because n is odd). A byte has an even number
of values, which lets the compressed key take the parity from the last byte.
TLC evaluates these on the curve of `MCEcdsaSign`.

| Theorem | States |
| --- | --- |
| `WordIsALock`, `BorrowsAreStable` | `ExclusiveOwner`, `BorrowStable` |
| `NoValueIsLost` | `ValuesAreDropped` |
| `CarryingAddIsExact` | `SumIsExact`: no carry is lost, whatever the operands and the initial carry |
| `CarryingAddSum` | limbs and overflow that `carrying_add` returns are the integer sum |
| `ConversionsAgree` | `BytesAgree`, for every integer |
| `EveryPointFreed`, `SignaturesVerify` | `PointsFreed`, `SignatureVerifies`, for every curve that meets `CurveAssumption`, every key, nonce and hash |
| `CellImplementsOnceCell` | `SetOnce` implements `OnceCell` |
| `TypeCorrect` | `TypeOK` of the driver |
| `KeyPairIsStable` | `KeyPairStable` |
| `OnlyMeasuredKeysSign` | `EvidenceIsMeasured` |
| `FilesPinTheKey`, `StorageIsZeroized` | `OpenFilePinsKey`, `StorageZeroized` |
| `PopulateSucceeds` | the EBUSY path of module init (`lib.rs:89-92`) is dead |
| `ResponsesAreEvidence`, `EnxioIsTransient` | the action properties |
| `DriverImplementsDevice` | `TarakoModule` implements `QuoteDevice` |
| `AnswersAreEvidence`, `KeyIsTheSame`, `FilesAreClosed` | `AnswerIsEvidence`, `KeyNeverChanges`, `HandlerClosesFile`; by the second, the attester's error for a changed key is dead |
| `ServiceImplementsDevice` | the driver is a `QuoteDevice` with the attester's handlers as its callers too |
| `QuoteIsWhole`, `ReadsHaveRoom`, `StatusNeverChanges` | `GuestSeesWholeQuote`, `RoomToRead`, `StatusIsFinal`, for every buffer, reply and division of it into reads |
| `RunsAreProtected`, `ProtectedFilesAreWhole`, `ApplicationStaysProtected` | `RunsProtected`, `ProtectedIsWhole`, `InstalledStaysProtected`, with kills at any point |
| `BindingsAgree` | the two encoders give one binding exactly for requests of plain and control characters |
| `ChallengesDecidedOnce`, `EvidenceIsUsedOnce` | `OneVerdictPerChallenge`, `EvidenceUsedOnce` |
| `ResultsAreAttested`, `AcceptedResultsAreAttested` | `ResultIsAttested`, `AcceptedIsAttested` |
| `EvidenceIsUnderTrustedKey` | `EvidenceUnderTrustedKey` |
| `GenuineEvidenceIsAccepted` | `GenuineEvidenceAccepted`, for requests of plain and control characters |

`SetOnceProofs!IInv` adds to `BorrowStable` that a published word means an
initialised value, that the owner is unique and finds the word at 1, and that
between write and publish the storage holds the argument. For
`ValuesAreDropped` it adds that an empty and a just cleared cell hold no value,
and that all other threads are idle when a cell has ended.

`VliProofs` needs induction over data, and the library's theorems for it take a
predicate, which the provers cannot instantiate. `SetInduction` says the same of a
set of natural numbers and is proved from the library's `WFMin`, which is about
sets. A recursive function is a `Run` of the steps it takes: `RunExists` says that
there is one, `RunAgrees` that it is the only one. What `Power`, `Value` and
`carrying_add` compute follows (`PowerStep`, `ValueStep`, `CarryingAddPasses`),
and from it the arithmetic of digits: n digits are below the n-th power of the
base, a number is the sum of its digits and a digit can be read back from it
(`ValueBound`, `ValueOfDigits`, `DigitOfValue`), and the digits can be divided
anywhere (`ValueSplit`), which is how limbs are divided into bytes.

`SumIsExact` is inductive with the types. `OverflowingAddExact` says that one
wrapped addition and its carry are the sum; `AddLimbExact`, that two of them and
the sum of both carries are, which holds for a carry of any size; a step then
multiplies this by the weight of the limb. `BytesAgree` rests on `ByteIndex` (counted from the other end, byte j of limb i is the mirrored
byte of the mirrored limb) and `ValueOfBytes` (the bytes of the limbs, in order,
have the value of the limbs).

`VliProofs!SignInv` adds to `PointsFreed` and `SignatureVerifies` what each step
of a call has left for the next: the scalar is one the generator gave
(`ScalarDrawn`), the point is its multiple of the generator (`PointComputed`), the
key pair is one `generate_key_pair` made (`KeyPairMade`) and a signing call has
one (`SignsWithKeyPair`). `SignatureValues` follows the computation of a signature
through the limbs: `ReduceExact` and `ReduceSumExact` are the two places where one
subtraction has to be enough, the second also when the sum overflows the limbs.
`SignatureEquation` is ECDSA's: with s = u / k, u / s is k again. With `LogOfKey`,
that the compressed key determines the private one, a verifier finds the point of
the nonce and so r (`AttemptVerifies`).

`TarakoModuleProofs!IInv` has four parts besides types and `EvidenceIsMeasured`.
`Lifecycle` says what the cell, the loader and init's local hold in each phase.
`Files` says that an open file keeps the module from going and that a task
inside a call holds a reference to the live key; this is where the contract of
`clear` is discharged. `MeasuredKeys` says that a key pair with `ima_measured`
is in this boot's log wherever it is stored. `Calls` says what a signing call
has gathered so far. None of the properties is inductive alone:
`EvidenceIsMeasured` needs the flag to be right when the signature is made,
which needs the value under the reference not to change, which needs `Files`.
Preservation is one lemma for each group of actions and one step for each
action. The action properties and the refinement follow from `IInv` step by
step.

`AttesterQuoteProofs!SInv` is the driver's `IInv` and, for each handler, where
its file is (`FileOpen`), what its struct holds (`Request`) and what a successful
SIGN_DATA has left there (`Signed`). Every step of the service is a step of the
driver or leaves it alone, so that `IInv` and the refinement carry over.
`KeyNeverChanges` follows from `Signed`, which needs `OpenFilePinsKey`'s
argument: the public key read earlier is that of the live key pair.

`GetQuoteProofs!IInv` says that timer and watch live only as long as the answer
is undecided (`OneCompletion`), that an incomplete reply leaves room (`Stream`),
that success is decided only for a whole reply with its framing gone
(`Unwrapped`) and in which order the guest's memory is written (`WriteOrder`).
Two lemmas say what the parser's verdicts `incomplete` and `complete` mean.

`InstallAppProofs!IInv` says that written files are unprotected (`Writers`), where
the service's script is with its `.new` file (`Script`), what a tool relies on
(`Tool`) and what runs (`Running`). The part that is easy to miss is
`CopyIsWatched`: while a tool copies or is about to protect the application, the
file is whole, or the process that truncated it last is still writing, or that
process has broken off. The last case is the finding, and leads to the `broken`
of `ProtectedIsWhole`.

`AttestationTypes` proves the types and, in `Footprints`, which action writes
which variable; the later proofs split on that and not on every action.
`AttestationProofs!IInv` has six parts besides types. `Fresh`: identifier and
nonce determine a challenge. `Undecided`: a challenge that is outstanding or in a
thread's hands has no verdict and is in one place only. `Evidence`: signatures in
messages are the device's, and an answer of `quoteHandler` is what it built.
`Trusted`: the key a thread has read is one that the file held since the pop, and
accepted evidence is bound to its challenge. `ResultIsAttested` itself. `Relays`: a client relays challenges that were issued. None of the
properties is inductive without the others: `OneVerdictPerChallenge` needs that
two threads never hold one challenge, which needs that an outstanding one is in no
thread's hands; `EvidenceUsedOnce` needs `Trusted`, that equal
bindings have equal nonces, and that these have only one challenge. `GenuineEvidenceIsAccepted` has a hypothesis on the
requests; by `BindingsAgree` the two sides differ on every other request, which
is the finding above.

Each inductive invariant was also checked by TLC, on the instances of the runs.

Only model-checked are the liveness properties `OwnershipEnds`,
`HandlerAnswers`, `ClientsFinish`, `ClientsAccepted`,
`CallReturns`, `GuestIsAnswered` and `ServiceRuns`: fairness is outside the
prover's reach.

## Not modelled

- *Connecting to the quote service and framing the request* (`tdx/`): `GetQuote`
  begins with an open connection, which is QEMU's own code, of which the patches show a few lines; the
  request is a header of constants.
- *`tdx-attest.py`, `tpm-quote.py`, `quote-bench.py`*: command lines that call
  tools of the system one after the other and share no state between runs.
- *Session protocol* of `formal-verification/`: a ProVerif model that no program
  here implements, with its own checks.
- Operators of `Vli` that the driver does not use (`Add` and `Sub` by value,
  equality, `Clone`).
- Build files, the editor helper, DER and hexadecimal encodings, certificate
  parsing, and cryptography itself (in the protocol modules an ideal signature
  and hash stand for it).
- The kernel's IMA, fs-verity, misc device and curve code: external.
- Expiry of outstanding challenges, which the code does not have.
