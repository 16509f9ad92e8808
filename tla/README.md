# Arch Token Metadata: models, checks and proofs

This directory holds TLA+ models of the Arch Token Metadata program, its SDKs, its
command-line tool and its scripts, TLC runs that check them on small instances, and
TLAPS proofs about them for every instance. `src/` paths below are relative to the
repository.

## 1. The system

A token mint (an account of the APL token program) can have *metadata* (name,
symbol, image, description, an optional update authority) and *attributes* (a
list of key/value pairs). Both live in accounts owned by the metadata program, at
addresses derived from the mint. Clients build instructions with a Rust or a
TypeScript SDK or a CLI, put several of them into one signed transaction, send it to
a node, wait for its end, and read the accounts back through RPC.

| Component | State it keeps | Operations | Interacts with |
|---|---|---|---|
| Handlers (`programs/.../processor.rs`) | none of their own: the accounts passed in | CreateMetadata, UpdateMetadata, CreateAttributes, ReplaceAttributes, TransferAuthority, MakeImmutable | reads mint accounts; calls the system program's `create_account` by CPI; writes its accounts |
| Account state (`state.rs`, `lib.rs`) | layout and caps of the two account types | pack, unpack, address derivation | used by everything else |
| Runtime, system and token program, node (not in the repository) | all accounts, their lamports and owners; transactions and how they ended | atomic transactions; `create_account`; `initialize_mint2`; `set_authority`; `send_transaction`, `wait_for_processed_transaction` | runs the handlers |
| Rust SDK (`sdks/arch-token-metadata-sdk-rs`) | none | nine instruction builders, seven transaction builders, validators, `TokenMetadataReader` | builds for the program; reads accounts by RPC |
| TypeScript SDK (`sdks/arch-token-metadata-sdk-ts`) | none | the same, with its own validators and codec | as above |
| CLI (`tools/arch-token-metadata-cli`) | none; keys from files, environment, prompt or standard input | mint, metadata and deploy commands | Rust SDK; sends, waits, prints; reads accounts |
| Tour and test helpers (`examples/arch-token-metadata-tour-rs`, `program-tests`) | none | create a token, stop at the first failure, read back and compare | Rust SDK, node |
| Setup (`examples/setup-payer-and-program`) | `examples/.env` | fund, top up, deploy, write the file | faucet, node, the tours through the file |
| Fixture generator, ELF crate, signer, benchmarks | none | wrappers | the SDKs |

### Where it is hard

* A transaction runs several instructions, each on what the previous ones left:
  authority can move, be given up or be taken from the mint between two of them,
  and a failure in the last must undo a `create_account` in the first.
* A handler trusts bytes it decodes from the accounts it is handed. Which checks
  tie the metadata, the attributes and the mint to each other, and which ties
  hold only because an earlier instruction checked them?
* Creation has two branches (account there or not), reached by retries, by
  double creation and by creation after authority moved.
* Sizes are caps on fields, checked one at a time, by the program and twice more by
  the SDKs; the write is one copy of the whole value and panics if it does not fit.
* The byte layout is written down three times, by derive macros and by hand.
* A reader makes several RPC calls and turns a failed one into "absent"; a client
  may send again what already went through; commands run beside each other and
  their transactions are executed in any order.
* A script or a setup may be killed between any two of its steps.

### What makes each component correct

* Handlers: only the key in control changes a token; immutability is final;
  creation needs the mint's authority; nothing is left half-created or unpaid;
  attributes hang on metadata and metadata on a mint; no input makes them panic.
* State: whatever passes the caps fits its account and decodes to itself.
* SDKs: what a builder accepts the program accepts in the states it is meant for,
  and what a validator rejects the program rejects.
* Reader: what it returns is a token's value, final once the token is, and never withdrawn.
* CLI: nothing doomed is sent, a command ends, each part of a token is what the last
  committed command wrote, and what was reported as processed can be seen.
* Scripts: what is read back is what was asked for; a refusal leaves no half token.
* Setup: the file never names a program that is not there.

## 2. Modules

    MetadataState <- HostPrograms <- MetadataProcessor <-+- MetadataLedger <-+- MetadataReader
                                                         |                   |
                                                         +- TokenMetadata-   +- MetadataNode
                                                            Client                 |
                      MetadataNode + TokenMetadataClient  <- MetadataCli, MetadataScripts,
                                                             SdkTransactions <- TypeScriptClient
    SetupProgram        MetadataCodec

An arrow means "is extended by". `MetadataLedger` instantiates `TokenRegistry` and
`MetadataCodec` instantiates `TokenValues`, the two abstract specifications. An `MC...`
module holds the instances of a module for TLC, a `...Proofs` module its theorems.
Definitions named as mutants are variants with a plausible mistake; they are used only
to confirm that the properties notice it.

**MetadataState** (`state.rs`, `lib.rs`). Addresses, caps, account types, packed
lengths. A derived address is the pair of seed and mint, which makes derivation
injective and off the keys somebody can sign with (`KeyAssumption`: what hashing
to a point off the curve provides). A string is a member of `Text` and counts
through its identity and `ByteLen`. The bytes of an account are abstracted to
what they decode to: `Pack::unpack` demands the exact length of the type, the
three lengths (82, 1382 and 10021 bytes) differ, and `is_initialized` must be set,
so a buffer decodes to at most one kind of value. `kind` stands for that. That the
bytes bear this out is `MetadataCodec`'s subject.

**HostPrograms** (external). The operations of the system and the token program that
the repository uses, and the form in which instructions are written: a *table of
checks*, one row per early return in source order with the error it returns,
and an *effect* for the case that no row fires. A handler's guards are therefore its
rows, its error is the first row that fires (`FirstError`), and its assignments are
its effect.

**MetadataProcessor** (`processor.rs`). The six handlers as tables and effects.
Helpers are named for the idea: `CreationAuthority` (mint authority, else freeze
authority), `AuthorityAccepted` (stored update authority is Some and equals the
key given), `NeedsCreation` (the account is not the program's yet), `Overflows`
(the copy of `pack_into_slice` would run past the account). The two handlers that
change authority have the same checks and share one table.

**MetadataLedger**. The program under the runtime. `ledger` is what is committed,
`bank` what the open transaction sees, `signers` who signed it, `executed` how many of
its instructions ran, `outcome` how the last one ended. `Begin`, then instructions,
then `Commit`; each instruction is an action that either succeeds with its effect on
`bank` or fails, which ends the transaction and restores `bank` from `ledger`. Any
subset of the keys may sign.

**TokenRegistry** (abstract). What the program promises its users, with no accounts,
addresses, rent or instructions: three partial functions from mints (the mint's
authorities, its metadata, its attributes), the set of keys that signed the transaction
under way, and three actions: keys sign (`Sign`), the transaction takes effect at once
(`Transact`) or is given up (`GiveUp`). `Transact` says what those signers may do: remove
nothing, change a mint only with its authority and a token only with its update authority,
give metadata only with the creation authority. `MetadataLedger` implements it: the
refinement mapping decodes the *committed* accounts (`RegisteredMints`,
`RegisteredMetadata`, `RegisteredAttributes`) and keeps `signers`, so a whole transaction
takes effect in one step, and instructions that succeed before `Commit` are stutters.

**MetadataReader** (Rust SDK, `lib.rs` 630-780). The five queries of `TokenMetadataReader`
and the RPC adapter under them. A query (`Ask`) wants a sequence of accounts (`Wanted`);
the adapter reads them one after the other (`ReadAccount`), and the ledger's own steps
come between. A read that fails (`LoseAccount`) answers None like an account that does
not exist: `lost` is kept for the properties only. `Return` decodes: foreign owner is None,
one account that does not decode fails the call, and `unpack_from_slice` takes zeroes for
an uninitialised value. The TypeScript reader asks for the same accounts in the same
order; a reader that gets all of them in one request is the case in which no commit falls
between two reads.

**MetadataNode** (external, but for `Run`, which dispatches to the handlers as
`Processor::process` does). The node clients talk to. `pending` holds what it received
(`Receive`), it takes up any of it (`Start`), executes it instruction by instruction
(`Advance`) and commits (`Finish`) or drops it with its error; `committed` is the log and
`failed` the rest. `Status` is what `wait_for_processed_transaction` answers. Two
transactions alike in all else differ in their `sender` (a block hash and signatures in
reality); each is executed at most once, which is what the clients of the repository take
for granted.

**TokenMetadataClient** (Rust SDK, `lib.rs` 60-595). One operator per instruction builder,
transaction builder and validator, named as in the code. The `_with_budget` variants are
the `prelude` of a transaction.

**SdkTransactions**. Callers of the transaction builders beside the node. A call is the
name of a builder and its parameters; `TransactionOf` builds it, signed by every key its
instructions mark. `Ready` and `Done` say from which states a transaction is meant to
succeed and what it is for; they are the specification, written from the documentation of
the builders and not from the handlers. `Rest` and `Achieved` are the same in the middle of a
transaction, for the inductive invariant `BuildersKept`.

**TypeScriptClient** (TypeScript SDK, `index.ts` 120-304). Its builders return the same
instructions, so the module adds what differs: the validators, which measure a string in
UTF-16 units (`Units`) where the program counts bytes.

**MetadataCli** (`tools/arch-token-metadata-cli/src/main.rs`). Users invoke commands beside
each other. A writing command is refused (`Refuse`: a key that cannot be read, a builder
that returns an error) or builds its transaction (`Prepare`), sends it (`Send`), waits and
prints (`Report`). `SendFails` is a lost call or a lost answer: the transaction may have
arrived. `WaitFails` ends a command whose transaction goes on. A user who tries again is
another invocation. A show reads its accounts one by one (`ReadNext`, `ReadLost`). There is
one operator per arm of `main` for the keys and instructions (`MintCreate`,
`MetadataUpdate`, ...). `known` is kept for a property only.

**MetadataScripts** (the Rust tour; the helpers of the program tests). A script generates a
mint, sends its transactions in sequence, stops at the first that is not processed, reads
back and compares. The tour uses one transaction for everything, a test two. Beside them
`Others` send the node what they like, signed with keys of their own (`OthersAssumption`:
the key of a mint is generated where it is used and never leaves its script).

**SetupProgram** (`examples/setup-payer-and-program`). Any number of overlapping runs; each
funds its payer, tops up while it is short, deploys, opens `examples/.env` (which truncates
it) and writes it. `Stop` is a failed call or a killed run, possible between any two steps.

**TokenValues** (abstract), **MetadataCodec** (`state.rs`, `instruction.rs`, the codec of
`index.ts`, the fixture generator). The bytes of one token's two accounts and of the
instructions. A client encodes with either SDK (`Ask`), the program decodes instruction and
accounts, changes the value, and packs it over the old bytes (`Execute`). `unpack_...` are
the Rust decoders, `ts_...` the TypeScript ones. A reader is an operator from bytes and a
position to the set of what it finds, empty when it fails. A string is the sequence of its
UTF-8 bytes: `Character` is the table of well-formed sequences, `Utf8` says that every byte
belongs to one (what `core::str::from_utf8` checks), and `TextDecoder` drops a leading
byte-order mark. What it makes of bytes that are no UTF-8 is one replacement character
for the whole string; no account the program writes has such a string. `Instruction` is what
the handlers' checks of texts and entries let through; `CodecIInv` is the invariant of the
proofs. The refinement mapping to `TokenValues` is decoding.

## 3. Runs

| Run | Instance | States | Properties |
|---|---|---|---|
| `one_mint` | 1 mint, 2 wallets, up to 3 instructions per transaction | 28 887 | `TypeOK`, `ImmutableForever`, `ChangesAuthorised`, `CreationAuthorised` |
| `two_mints` | 2 mints, 2 wallets, up to 2 instructions, texts at their real lengths | 4 850 | `IInv`, `AccountsComplete`, `RentPaid`, `NeverPanics`, `TextsFit`, `ImplementsRegistry` |
| `reader` | 2 mints, 1 wallet, up to 2 instructions, 3 queries | 119 574 | `ReaderIInv`, `AnswersAreTokens`, `ImmutableAnswersFinal`, `AnswersNeverGoBack` |
| `sdk` | 1 mint, 2 keys, 10 transactions of all seven builders | 122 062 | `NodeTypeOK`, `ValidatedNotOversize`, `BuildersDeliver`, `BuildersKept`, `OnlyWideTextRefused` |
| `cli` | 5 commands about one token, every call may fail | 146 143 | `WritesKept`, `CreatedOnce`, `CreationsKept` |
| `cli_show` | a show beside 3 writers and a command to be refused | 99 794 | `ShownIsRecent`, `ShowsKept`, `NothingDoomedIsSent` |
| `cli_ends` | 3 writers, one of them partial, and a `mint show`, under fairness | 11 083 | `LastWriteStands`, `EveryCommandEnds`, `AllDecided` |
| `scripts` | a tour and a test, one payer, 2 mints, another client with a key of its own | 21 312 | `ScriptsVerify`, `TokensWhole`, `ScriptsIInv` |
| `setup` | 3 runs, 2 of which top up, the third short | 568 | `SetupIInv`, `EnvNamesDeployed`, `SetupEnds` |
| `codec` | 15 instructions over one token's bytes | 4 352 | `BytesOfTheValue`, `ReadersAgree`, `CodecIInv`, `ImplementsValues` |
| `cli_stdin` | violation | | `ReadableKeysSuffice` |
| `cli_budget` | violation | | `BudgetForwarded` |

### The program

* `TypeOK`: types; no lamports below zero; a partial update keeps all four fields.
* `ChangesAuthorised`: metadata or attributes of a token change only in a transaction
  signed by the update authority stored *before* it.
* `ImmutableForever`: with no update authority left, neither ever changes, and
  attributes are not added either.
* `CreationAuthorised`: metadata of a committed mint appears only with the signature of
  its mint authority or, without one, its freeze authority.
* `AccountsComplete`: a committed account of the program is initialised and at the
  address derived from the mint it records.
* `RentPaid`: it holds the rent of its size.
* `NeverPanics`: no accepted input makes `pack_into_slice` run past its account, with every
  field and entry at its cap and one byte past it, merged by partial updates.
* `TextsFit`: the texts stored in `ledger` and in `bank` are within their caps, as are the
  number of entries and the length of each key and value, none of which is empty. An update
  checks only the fields it names and packs them with the ones it keeps; checking the
  packed total alone would not do, as the mutant `UpdateChecksTotalOnly` shows. The element
  loop of the attributes stops at the first bad pair, wherever it stands.
* `ImplementsRegistry`: the committed accounts behave as `TokenRegistry`.

All of these are about the accounts of three programs, the system, the token and the metadata
program (section 5).

`IInv`, `ReaderIInv`, `CreationsKept`, `WritesKept`, `ShowsKept`, `BuildersKept`,
`ScriptsIInv`, `SetupIInv` and `CodecIInv` are the inductive invariants of the proofs, which
section 4 explains.

### Readers

* `AnswersAreTokens`: no query fails on an account that does not decode, nor returns an
  uninitialised value or another mint's, though the reader checks none of this.
* `ImmutableAnswersFinal`: an answer of `get_token_details` whose metadata is immutable, with
  neither read lost, equals the ledger from the moment it is given. It holds because metadata
  is read first; with the order reversed it does not (the mutant `AttributesFirst`).
* `AnswersNeverGoBack`: what an answer showed, the reads of later calls find; a pair of
  attributes without metadata, which a commit between the reads can produce, does not last.

### SDKs

* `BuildersDeliver`: a built transaction succeeds *exactly* in the states it is meant for,
  and leaves what it is named for. Both directions matter: a builder whose instructions get
  in each other's way fails the first, one that works by accident fails the second.
* `ValidatedNotOversize`: what the Rust validators accept, no check of any handler in any
  instruction of the transaction refuses for a size.
* `OnlyWideTextRefused`: the same of the TypeScript validators, except for strings of more
  bytes than units. The exception is real: sixty-four two-byte characters pass as a key and
  are refused on chain.
* `NodeTypeOK`: types, and each transaction in one place of the node at a time.

### CLI

* `LastWriteStands`: each part of a token (a field, the authority, the entries, and the two
  authorities of its mint) is what the last committed instruction naming it wrote. A partial update must therefore keep the other
  fields as they are when it *runs*, of two racing writers the later wins whole, and a
  transaction that failed leaves no trace. That a client which reads, edits and writes the
  entries can lose another's edit is not excluded: the program promises no more. `cli` has two writers of the attributes and two
  creations and checks `WritesKept`, which contains it; `cli_ends` has a partial update of two
  fields.
* `CreatedOnce`: of any creations in flight, sent again after a lost answer or by someone
  else, one is committed, and none when there is no token.
* `NothingDoomedIsSent`: what a command sends may fail for the state it meets, never for its
  own sizes, addresses or missing signatures.
* `ShownIsRecent`: each account a show reads (the mint by its two authorities, the metadata by
  its fields and authority, the attributes by their entries) is as some prefix of the log left
  it, and that prefix has all that was *reported* as processed before the show began. A show
  that expected the wrong owner of the mint would report as absent what another command has
  reported as made (the mutant `OneOwnerShown`).
* `EveryCommandEnds`, `AllDecided`: liveness, under the fairness below. A refused
  transaction ends its command too.

### Scripts, setup and bytes

* `ScriptsVerify`: a script that gets as far as comparing finds what it asked for, whatever
  others send; only a failed read makes it report something as missing. In the run another
  client tries at any moment to initialise a mint as its own and to take a token over.
* `TokensWhole`: a script that was refused, here for want of lamports, leaves no part of a
  token: metadata stands exactly when its last transaction was committed.
* `ScriptsIInv`: nobody but the scripts' payers ever controls one of their mints or tokens. It
  depends on the two instructions that make a mint being in one transaction, since
  `initialize_mint2` asks for no signature (the mutant `SequenceMintOpen`).
* `EnvNamesDeployed`: `examples/.env`, when it can be read, names a deployed program.
* `SetupEnds`: the top-up loop, which has no bound of its own, ends.
* `BytesOfTheValue`: the bytes of an account are a function of its value, the ones the
  fixture generator writes; no tail of an older, longer value is left.
* `ReadersAgree`: the TypeScript decoder, which checks neither bounds nor tags nor characters,
  finds what the Rust one finds and ends at the same byte, but for the byte-order marks that
  strings begin with.
* `ImplementsValues`: bytes behave as values: what a client of either SDK asked for is what
  the program does, and every value it stores can be read back.

### Disagreements the runs found

* `cli_stdin`: the example in the CLI's README that pipes one key for both signers is
  refused; the payer's `read_to_string` leaves nothing for the authority.
* `cli_budget`: five of seven arms leave `--cu-units` and `--heap-bytes` out, where the
  README says they are forwarded.

Seen while modelling, with no run of their own:

* `create_token_with_metadata_and_attributes_tx` with `immutable: true` always fails: the
  metadata has no update authority when `create_attributes` comes. `Ready` says so
  (`WithAttributes(c) => ~c.p.immutable`).
* The TypeScript SDK's README says its caps mirror the program's; they do for ASCII
  (`OnlyWideTextRefused`).
* A comment of the setup (`main.rs:27`) says that it tops up "if needed for program deployment
  rent". It does so only when `ARCH_METADATA_ELF` is set, and for the rent of the file named
  there (lines 35-48), while it always deploys the program the ELF crate embeds (lines 52-68).
  Without the variable, or with a smaller file, a payer whose airdrop is below the rent comes
  to the deployment short, and `Deploy` fails. What the faucet gives (`Airdrop`), what
  deploying takes (`DeployCost`) and what each file asks for (`Target`) are parameters that
  nothing relates; in the run `setup` the payer without a file cannot pay.
* A CLI command whose transaction failed prints the status and exits with success.
* `mint create` generates a key each time and prints it at the end: after a lost answer the
  first mint is left with nobody who knows it.
* `docs/SECURITY.md` asks CreateAttributes to check that the mint is owned by the token program
  (line 42), that the metadata is at its derived address ("PDA checks as above", line 47) and
  the mints of all related accounts (line 79). The handler compares the mint recorded in the
  metadata and checks no owner, nor the address of the metadata; nor does ReplaceAttributes.
  Whether that matters depends on programs the model does not have (section 5), so no run or
  theorem here says that these checks can be spared.
* The TypeScript `TextDecoder` drops a leading byte-order mark, which the program keeps and
  the Rust reader returns (`ReadersAgree` makes the exception).

### Bounds

*Instructions per transaction* (`MaxInstructions`: 3, 2, 2 for the ledger's own runs): the
hazards need a change of authority followed by a use of it, or a creation followed by a
failing instruction; longer effects build up over transactions, whose number is not bounded.
Where transactions are built, they have the length the code gives them (up to 4).
*Wallets* (2): an owner and another key, in both roles. *Mints* (2): one and "the other".
*Lamports*: in `one_mint` each wallet can pay for some accounts and not all, in `two_mints`
the payer runs out at the last of six accounts, in `scripts` the payer can pay for one
script. *Texts*: `two_mints` and `sdk` have each field and entry at its cap and one byte
past it, at real lengths; elsewhere a text is one byte and only its identity counts. Rents
are small but different numbers.
*Transactions waiting* (`MaxPending`): 8 with the CLI, more than its commands send, so it
never holds one up. With the scripts it is 2 and in `sdk` 1: a waiting transaction has no
effect, so this delays sending and every order of execution is still reached.
*Commands*: each invocation runs at most once and may also never run; a retry is a second
invocation.
*Codec*: keys take 2 bytes instead of 32, and of the caps only that of the name (256, so that
a length prefix needs two bytes) is the program's; the strings have characters of one to four
bytes, a byte-order mark, and lengths zero, at the cap and between.
The state graphs are finite without a state constraint. Deadlock is checked where the system
never stops (`one_mint`, `two_mints`, `reader`, `codec`) and not where every client may have
ended.

### Fairness

* `WF(Work)` of the node: it goes on while it has something to do. The clients wait for it
  without a limit of their own, so they assume it too.
* `WF(Proceed(i))` of a command under way: it is one thread of blocking calls, each of which
  is answered once its answer is there. Nothing forces a command to be invoked, nor any call
  to fail or not to fail.
* `WF(Continue(r))` of a setup run, likewise; `Stop` remains possible at any step.

The safety runs need none of it.

### Faults

Lost calls and lost answers of `send_transaction` (`SendFails`), of the wait (`WaitFails`,
`Bail`) and of reads (`LoseAccount`, `ReadLost`, `ReadFails`); transactions executed in
another order than they were sent; commands run again; a setup killed between any two steps,
also between truncating its file and writing it. The node itself does not lose what it has
received: nothing in the repository deals with that.

## 4. Proofs

Eight modules, for all wallets, mints, texts, lengths, rents, balances, instruction sets and
transaction lengths; for all sets of commands, calls, scripts and runs.

### Ledger

| Theorem of `MetadataLedgerProofs` | States |
|---|---|
| `Invariant` | `Spec => []IInv` |
| `TypeCorrect` | `Spec => []TypeOK` |
| `CreationComplete`, `CreationPaid` | `[]AccountsComplete`, `[]RentPaid` |
| `OnlyAuthorityChanges`, `ImmutabilityIsForever`, `OnlyMintAuthorityCreates` | the three action properties |
| `LedgerImplementsRegistry` | `Spec => ImplementsRegistry` |
| `NoPanic`, `StoredTextsFit` | `[]NeverPanics`, `[]TextsFit` |

Assumptions: `KeyAssumption` (derived addresses are not keys, wallets and mints are
different keys, the three programs differ), `TextAssumption`, `RentAssumption` (types of two
functions), and the types of the three constants of `MetadataLedger`. TLC evaluates all
of them in every run.

The committed accounts alone are not inductive: only `Commit` changes
them, and what it commits was made step by step in `bank`. `IInv` therefore says that
`ledger` and `bank` are both `Legal` (typed, complete, paid, backed) and that
`Controlled(ledger, signers, bank)`: what the open transaction has changed so far, the keys
that controlled it in `ledger` have signed for. That relation composes
(`ControlledTransitive`): as long as a controlling key has not signed, its token is
untouched, so the same key is still in control when the next instruction comes. With
this, one lemma per handler is enough: if its checks pass on legal accounts, its effect
is legal and controlled (`CreateMetadataStep`, ..., `SetMintAuthorityStep`). They rest on
what passing the checks means (`...Guards`) and on two lemmas about writes: over an account
of the program (`RewriteLegal`, `RewriteControlled`) and into one `create_account` just made
(`CreateLegal`, `CreateControlled`). That the error of a failing instruction is a known
one uses the well-foundedness of the naturals (`FirstErrorIsOfACheck`).

The refinement. The initial accounts decode to an empty registry; `Begin` is `Sign`; a
failing instruction is `GiveUp`; for `Commit`, `Controlled(ledger, signers, bank)` is
`Transact` seen through the mapping (`RegistryStep`); all else stutters. `Kept`, the first
half of `Controlled`, is there for this: nothing is removed and freeze authorities stay.

`NeverPanics` rests on sizes. The check that would report a panic is the last one of each
handler, and is shown to pass whenever the others do. For metadata that is arithmetic over
`TextsFit`, inductive because each handler that writes texts or entries has checked those it is given. For
attributes the packed size is a fold over entries; `PackedAttributesFit` bounds it by the
number of entries times the largest entry, by an ordinary induction on the length of a prefix
(least counterexample), since the induction theorems of the library cannot be used here.

### Reader

`ReaderInvariant` (`ReaderSpec => []ReaderIInv`), `AnswersTrue`, `ImmutableAnswersTrue`,
`AnswersMonotone`, for all sets of queries and batches of any length, with the assumption
`AnswersAssumption` that None and a decoding error are not values of accounts. `ReaderIInv`
says of the last answer and of the reads made so far that they are `Faithful` (each value is
of the account wanted, which is still there; immutable metadata and the attributes beside it
are what is stored) and, of the call under way, that it is `NotBehind` the last answer.
`FaithfulKept` takes this over any step of the ledger, from `Controlled` above;
`FaithfulRead` over one more read, where the order matters (`WantedInOrder`: metadata before
attributes).

### Node and CLI

| Theorem | States |
|---|---|
| `NodeTypeCorrect` | `NodeSafety => []NodeTypeOK` |
| `NodeRunsLedger` | `NodeSafety => Spec`: the node is a ledger, so all theorems above hold of it |
| `NodeKeepsPromises` | `ImmutableForever`, `ChangesAuthorised`, `ImplementsRegistry` of the node |
| `CreationsAccounted`, `MetadataCreatedOnce` | `[]CreationsKept`, `[]CreatedOnce` |
| `CliImplementsNodeClient` | `CliSpec => NodeSafety` |
| `CliCreatesOnce`, `CliKeepsPromises` | the same promises with any commands beside each other |
| `WritesAccounted`, `LastCommittedWriteStands` | `[]WritesKept`, `[]LastWriteStands` of the node |
| `CliLastWriteStands` | `CliSpec => []LastWriteStands` |
| `ShowsAccounted`, `ShowsAreRecent` | `CliSpec => []ShowsKept`, `CliSpec => []ShownIsRecent` |
| `CommandsAreNotDoomed` | `CliSpec => NothingDoomedIsSent` |

`CreatedOnce` relates the log to the ledger and says nothing of the transaction that runs,
so it is not inductive. `CreationsKept` adds it: the metadata in `bank` is the ledger's and
what the instructions executed so far created, never both, because a creation that finds
metadata fails (`CreateMetadata`'s check) and nothing removes it (`Kept`). The refinements
are step by step: a node step is a ledger step or a stutter, a CLI step a node step or one.

`LastWriteStands` is of the same kind. `WritesKept` adds that each part of a token in `bank` is
what the last of the instructions executed so far wrote to it, or else what it is in `ledger`.
Each handler, of the host programs too, has a lemma that it writes the parts its instruction names and leaves the others,
those of other tokens too, as they were; `Commit` then extends the log by one transaction whose
writes are exactly those of `bank`.

`ShownIsRecent` needs a prefix of the log for each account read. `ShowsKept` adds the reason
why there is one: what has been reported as processed is in the log, so when an account is
read the whole log is such a prefix, and a later commit takes nothing away from it. An account
of another owner is shown as absent, and holds no part of the token (`Complete`, `Backed`). The
assumptions are `ShowAssumption` (a show is about a mint the model has) and `NoneAssumption`
(None is not a status or the data of an account).

`NothingDoomedIsSent` goes backwards from an error: one lemma per handler says which of the
instruction's own parameters a size error, a wrong address, a missing signature or a panic
points at. `SentByCommands` says that all the node has was built by a command that was not
refused; then its texts and entries have been validated, its addresses are derived from the
mint, and it is signed by every key its instructions mark. `CommandAssumption` gives the
commands the subcommands and key sources the tool has.

### Scripts

| Theorem of `MetadataScriptsProofs` | States |
|---|---|
| `ScriptsImplementNodeClient` | `ScriptsSpec => NodeSafety` |
| `TokensAreWhole`, `ScriptsFindTheirTokens` | `[]TokensWhole`, `[]ScriptsVerify` |
| `ScriptsInvariant` | `ScriptsSpec => []ScriptsIInv` |

For any scripts, sharing payers or not, and any other clients with keys of their own. That
nobody interferes is about authority, not about order: `Owned` says that whoever may create or
change the token of a script's mint is a payer of the scripts; the payers' other transactions
are those of scripts with mints of their own (`SequencesApart`). It is kept only because nobody
finds the mint before it is initialised (`Initialised`), except between the first two
instructions of the script's own transaction (`HalfMade`). With this, `LastWriteStands` of the
node says what the accounts are: what the script's own last transaction wrote, which is
`TokensWhole`, and what `ReadKept` says was read. Assumptions: `OthersAssumption`,
`FreshAssumption` and `AbsentAssumption` (scripts generate mints the model has, and NoMint and
Absent are not values), `ScriptAssumption` and `ScriptsAssumption` (types of the scripts, and
the node knows their transactions).

### SDKs and setup

* `MetadataValidatorExact`, `AttributesValidatorExact`: the validators accept exactly what
  the handlers' size checks let through; the latter walk the entries with a first-error rule.
* `ValidatedIsAccepted`: `NodeSafety => ValidatedNotOversize`. A size error of a handler
  means that the instruction's text or entries are over a cap; every instruction of a
  transaction carries the texts and entries of its call.
* `BuildersAccounted` (`NodeSafety => []BuildersKept`) and `BuiltTransactionsDeliver`
  (`NodeSafety => BuildersDeliver`), with `CallsAssumption`: a transaction is what a builder
  returns for its call. `BuildersDeliver` compares the end of a transaction with the state it
  started from; the invariant says at each instruction in between that what has been done is
  what it should be (`Achieved`), and that the rest can be done (`Rest`) exactly when all of it
  could at the start (`Ready`). That "exactly" is an equivalence for every builder and every
  position: the `...Works` lemmas say when all checks of a handler pass, the `...Carries` lemmas
  take the equivalence over one instruction of one builder. `StepCarries` puts them together.
* `TypeScriptNeverStricter`, `OnlyWideRefused` (`NodeSafety => OnlyWideTextRefused`), with
  `UnitsAssumption`: a string has no more units than bytes and none only when it is empty.
* `NarrowTransactionsDeliver` joins the two: a transaction of the TypeScript SDK none of whose
  strings is wide succeeds exactly when the ledger is ready for it, and does what it is for.
  Without a wide string the TypeScript validators let through just what the program accepts.
* `SetupInvariant`, `EnvNamesProgram`, for any number of runs, any airdrop and any rents.
  `SetupIInv` adds to `EnvNamesDeployed` that a run past deploying has deployed.

### Bytes

| Theorem of `MetadataCodecProofs` | States |
|---|---|
| `CodecInvariant` | `CodecSpec => []CodecIInv` |
| `BytesFollowTheValue`, `ReadersFindTheSame` | `[]BytesOfTheValue`, `[]ReadersAgree` |
| `CodecImplementsValues` | `CodecSpec => ImplementsValues` |

For keys of any length, any caps a `u32` can count, any strings and entries within them and any
set of instructions made of them. Assumptions: `CodecAssumption` (types of the constants; no
cap is above 2 147 483 647, half of what the length prefix can count, where TLC's numbers
end) and `InstructionsAssumption` (the instructions are within the handlers' caps).

What is encoded is one piece of bytes after the other, so the lemmas are about a piece that
lies in some bytes `At` a position, whatever is around it. For each kind of piece there is one
for its length (`...Bytes`) and one for what the readers find there (`...At`): the value it
was written from, and the position after it. `AtConcat` takes a piece apart, `TakeAt` reads
the innermost one. A vector of pairs and a row of texts are recursive functions. That these
are defined at all (`PrefixesExist`), and what they are at each index (`PrefixBytes`,
`PrefixesAt`, `ReadTextsAt`), is shown by least counterexample, since the induction theorems
of the library cannot be used here.

From the pieces: a value's bytes fit its account (`MetadataBytes`, `AttributesBytes`), padded
with zeros they are its sample and decode to it in both readers (`MetadataSample`,
`AttributesSample`), and an instruction that is packed is unpacked as itself (`UnpackPacked`),
with the tags of either SDK (`Tags`). `BytesOfTheValue` alone is not inductive: that the next
value can be written and read needs what is stored to be within its caps and of well-formed
strings, as an update keeps part of it, and what is on the wire to be what was asked for.
`CodecIInv` adds both. The step lemmas then show at once that it is kept and that the step is
one of `TokenValues`.

### Only model-checked

* `EveryCommandEnds`, `AllDecided`, `SetupEnds`: liveness under fairness.

All other properties of the passing runs are theorems. The two runs that expect a violation
show a disagreement and have nothing to prove.

## 5. Not modelled

* *Accounts of other programs.* Handlers recognise metadata by decoding an account, not by
  its owner. In the model only the system, the token and the metadata program write
  accounts, so what decodes as metadata is the program's own: that half of `Legal`
  (`Complete`, `Backed`) is a fact of this closed world and not a check of the handlers.
  CreateAttributes and ReplaceAttributes check neither owner nor address of the metadata, so
  the theorems, those on immutability, on authority and the refinement included, say nothing
  about attributes made with metadata of a further program.
* The supply and the decimals of a mint, which a show prints with its authorities.
* Fees, transfers of lamports into derived addresses, token accounts, changes of the
  freeze authority, the effect of compute and heap limits, UTXO anchoring, the expiry of
  block hashes: the repository's own code does not depend on them.
* The length of the account list, log messages, the numbering of errors.
* The CLI's `Program Deploy`, whose one call is `SetupProgram`'s `Deploy`, and the layout of
  what it prints. Its README names some commands otherwise than the code; the model follows
  the code.
* The encodings of the system, token and budget programs' instructions in the TypeScript SDK
  and its search for a bump seed; its RPC adapter, a `fetch` per account.
* The ELF crate (selects a binary when it is built), the TypeScript signer (wraps a
  cryptographic library), benchmarks and the TypeScript tour (linear; they send what the
  modelled builders build): no state or protocol of their own.
* The single cases of the program tests: they are the reference for what a transaction is
  expected to do, their way to a token is in `MetadataScripts`.

## 6. What could come next

The reader of the TypeScript SDK over its own RPC adapter, beside `MetadataReader`.
