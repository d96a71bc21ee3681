# TLA+ models of the EnfinitOS auditor SDK (Rust)

The crate `enfinitos-sdk-auditor` lets a regulator or counter-party check what
the platform claims without trusting it. It takes signed evidence (proof
receipts, metering, settlement, provenance rows) and a pinned set of public
keys, re-derives every claim and returns a report of steps with reason codes.
It never calls the platform.

This directory models those verifiers as state machines, composes the four that
`verify_all` runs, checks all of them with TLC on small evidence, and proves with
TLAPS what can be proved of the walks for evidence of any size. Paths below are those of
the repository under `src/`, so the code is in `src/src/`.

## 1. Inventory

| Component | Code | State it keeps | Operations | Status |
|---|---|---|---|---|
| key directory | `keys.rs` | `index`: key id to key | `from_local`, `from_runtime_keys_json`, `Auditor::new`, `lookup` | modelled, proved |
| pack and receipt signatures | `auditor.rs`, `proof_pack.rs` | the report's steps; early returns per record | `verify_proof_pack`, `verify_proof_record` | modelled, proved |
| proof chain walk | `proof_chain.rs` | `prev_issued_at_ms`, `seen_nonce`, `nonce_reuse` | `verify_proof_chain` | modelled, proved |
| metering audit | `metering_audit.rs` | `proof_by_receipt_id`, `computed_totals` | `verify_metering_projection`, `project_unit_count` | modelled, proved |
| settlement audit | `settlement_audit.rs` | lines by meter, expected amounts, three running totals | `verify_settlement_reconciliation` | modelled, proved |
| integer cent split | `settlement_audit.rs` | floors, their sum, the residual target | `deterministic_split_cents` | modelled, proved |
| tenant chain | `tenant_chain.rs` | `prev_seq` | `verify_tenant_chain` | modelled, proved |
| report vocabulary | `types.rs` | none | roll-up rules | partly |
| auditor facade | `auditor.rs` | the four sub-reports | `verify_all` | modelled, proved |
| rights provenance | `provenance.rs` | two counters | `verify_provenance_chain`, `verify_provenance_record` | modelled, proved |
| signed exports | `exports.rs` | none | `verify_signed_export` | modelled, proved |
| canonical JSON, base64url | `canonical_json.rs` | none | encoders, decoders | as free constructors only |
| hashing | `hashing.rs` | none | `sha256_hex`, idem keys | as free constructors only |
| errors, crate root | `errors.rs`, `lib.rs` | none | typed envelope, re-exports | nothing to model |

**Interaction.** There is one entry point that composes: `verify_all` runs the
pack check, the chain walk, the metering audit and the settlement audit in that
order over one bundle and rolls their four verdicts up. The receipts the pack
check authenticates are the records the chain walk orders and the metering audit
projects; the meters the metering audit bears out are what the settlement lines
settle. Every sub-audit always runs: a failure in one does not stop the next.
All signature checks share the key directory. Provenance, the tenant chain and
exports are called on their own.

**What is hard.** The crate is sequential and keeps nothing: no threads, no
callbacks, no files, no clock that decides anything. Its difficulty is in the
walks. They carry state from one record to the next, return early from the
middle of a record and must still judge every other one; the evidence they read
may have been altered anywhere, consistently or not; numbers are cut off, cast,
wrapped and summed; hash maps iterate in any order; and two verdict rules
(INVALID-or-VALID, and one with SKIPPED) are used side by side. `PROJECT.json`
lists each of these hazards at its line.

**What makes each component correct.**

- *Key directory*: it holds exactly the pinned keys, one per id; a key is handed
  out only inside its window and before its revocation; a constructor refuses
  nothing that is well-formed.
- *Pack*: VALID exactly for receipts the platform issued under keys in force;
  exactly the others are accused, in the field that was altered.
- *Chain*: VALID exactly for one chain off the anchor without a step back or a
  repeated nonce; repeats are traced to the first holder.
- *Metering*: nothing is billed that receipts do not bear out; honest summaries
  pass; a fault is reported once, where it is.
- *Settlement*: every cent of a meter is accounted for; who is paid what does
  not depend on the order of lines; nothing that moves money gets through; what
  the platform settles passes (not so for refunds, section 6).
- *Cent split*: no cent lost, fair rounding, no overflow for shares that are
  parts of a whole.
- *Tenant chain*: a VALID chain that ends in a known link is the written history
  up to it; every row is judged.
- *Provenance*: of the rows that say they are signed, exactly those not vouched for
  by a signature of the platform are accused; all others are labelled as unverified
  and earn no verdict.
- *Exports*: VALID exactly for what the platform sealed, under a key in force.
- *`verify_all`*: it answers; VALID means that receipts, links, counts and payments
  hold together, and every settled cent leads back to a signed receipt.

## 2. Modules

    Audit ──────── ProofChain ── PackSeries ── ProofChainProofs
      ├─ Keys ──── ReceiptAudit
      │    └────── Provenance, SignedExport
      └─ CentMath─ MeteringAudit, SettlementAudit
    Keys ───────── KeyDirectory
    KeyDirectory, ReceiptAudit ── PinnedAudit
    Audit, AuditFrame ── TenantChain
    Keys, AuditFrame ─── SignedEvidence
    Audit, Keys ──────── Auditor ───────────── AuditorProofs
    TenantChain, SignedEvidence ────────────── SignedEvidenceProofs
    KeyDirectory, ReceiptAudit ─────────────── ReceiptAuditProofs
    CentMath ───── CentMathProofs
    CentMathProofs, MeteringAudit ──────────── MeteringAuditProofs
    CentMathProofs, SettlementAudit ────────── SettlementAuditProofs
    CentMathProofs, CentSplit ──────────────── CentSplitProofs

    SignedEvidence = Provenance or SignedExport
    Auditor        = ReceiptAudit ; ProofChain ; MeteringAudit ; SettlementAudit
    VerdictPromise = what PackSeries and Auditor implement

Above, a line is EXTENDS; `Auditor` takes its four walks, `SignedEvidence` its two
verifiers, and `AuditorProofs` the proofs about the four walks, with INSTANCE. Each `MCx.tla` gives `x` its small instance; the
`MCx*.cfg` files are its runs. `MCSettlementAudit` instantiates `CentSplit` as well:
its behaviours are those of the audit and those of the split, each with the variables
of the other idle, since the two call nothing of each other while they run (the audit
uses `SplitCents`, which `ComputesSplit` shows the loops to compute).

| Module | Models | Correspondence |
|---|---|---|
| `Audit` | steps and verdicts (`types.rs`, `auditor.rs`) | `Step`, `Verdict` (`any(Invalid)`), `Rollup` (with SKIPPED) |
| `AuditFrame` | no code: names shared by `TenantChain` and `SignedEvidence` | the frame of a call and what happened to the evidence before, so that one module can prove about both |
| `Keys` | `VerificationKey`, `lookup` | one operator, its outcome named by the reason code it is reported as |
| `KeyDirectory` | constructors and lookups | `index` is the code's; `position` the loop of `from_snapshot`; `Ask` is a lookup |
| `PinnedAudit` | an `Auditor` from its keys to its report on a pack | `Receive` hands the directory that was built over to the audit and drops what was local to the constructor |
| `ProofChain` | `verify_proof_chain` | `prevMs`, `seen`, `reuse` are `prev_issued_at_ms`, `seen_nonce`, `nonce_reuse`; one action per iteration of either loop |
| `PackSeries` | `verify_proof_chain`, called once per pack | `NextPack` begins a call with `prior_after_hash` set to the last `afterHash` before it; nothing else passes from call to call |
| `ReceiptAudit` | `verify_proof_pack`, `verify_proof_record` | `pc` is the numbered check inside the record in hand; `nextRecord` is its early return |
| `MeteringAudit` | `verify_metering_projection` | one action per way through the body for a record; `computed` is `computed_totals` |
| `SettlementAudit` | `verify_settlement_reconciliation` | one action per way through the body for a line; `SumShares` picks any pending meter because a `HashMap` is iterated |
| `CentMath` | decimals and the split as a function | `Quotient` truncates as Rust's `/` does; `Parse` cuts digits beyond the sixth place |
| `CentSplit` | `deterministic_split_cents` loop by loop | `Wrap` is the cast or the unchecked `i64` sum; `checks` is whether overflow checks are compiled in; `point` is the loop at work |
| `TenantChain` | `verify_tenant_chain` | `prevSequence` is `prev_seq`; `(n + 1) % (Limit + 1)` its `u64` increment |
| `Provenance` | `verify_provenance_chain`, `verify_provenance_record` | `signed`, `unsigned` are the two counters; `pc` is the check inside the row; absence is encoded as `-` |
| `SignedExport` | `verify_signed_export` | one action per check; `Finish` is an early return with the steps so far |
| `SignedEvidence` | which of the two an auditor was handed | `subject`; the two share the directory and the platform's keys and do not interact |
| `Auditor` | `verify_all` | `phase` is the call in progress; `pc, i, steps, status` its frame, which `Begin` makes anew; `reports` the sub-reports; `metering` and `settlement` the `or` of bundle and pack |
| `VerdictPromise` | no code: the abstract specification of a verifier | see section 4 |

### Conventions

- **Whole walks.** `pc` and a loop index follow the code; every action includes
  all that an iteration does. `steps` is a set: no verdict depends on the order
  or multiplicity of steps, and targets carry the field and the 1-based index.
- **Evidence in transit.** In the four audits of platform claims the initial
  state is what the platform made: `sealed` or `written`. Those makers are not
  in the repository's `src/`; they are external and follow from what the
  verifiers reconstruct. While `pc = "transit"` up to `MaxAlterations` changes
  are made to the audited copy (fields replaced, records dropped, repeated or
  moved, totals withdrawn, links resealed); the audit may begin after any of
  them. Properties compare the two copies. `ProofChain`, `PackSeries` and
  `CentSplit` need no such copy: they are run over every input of the instance.
  In `Auditor` a change may hit any part of a bundle, a summary's carriage and the
  anchor included.
- **Cryptography and encodings** are free constructors: a hash, a signature or
  a canonical text is a record of what it was made from, so two are equal exactly
  when their inputs are. Malformed texts are values of their own
  (`BadSignatures`, `BadMaterial`, `BadDecimal`, `BadInstant`, `BadSequence`).
- **Spelling of signatures.** A text is not a signature. The receipt path decodes with
  the permissive `base64url_decode` (`canonical_json.rs:101-106`), which drops every
  trailing `=`, so one signature has many texts and all are VALID. `ReceiptAudit` keeps
  the text (`padded` says that it has `=` signs), changes in transit may add them
  (`Spelt`), and the audit reads it as it decodes (`Decoded`). `Genuine`,
  `DiagnosisPinpoints` and `OneChangeOnlyTakesAway` speak of receipts up to that spelling
  (`Plain`). Provenance rows and exports are read by the strict decoder, to which a
  padded text is undecodable; there text and signature are one.
- **The platform's rounding.** By the comments of `settlement_audit.rs` the platform
  floors the slices (`Floored`); the audit's division cuts towards zero (`Quotient`).
  The two differ for a refund with a fraction of a cent. `RoundedAlike` says that a
  settlement has none, and what is stated of honest settlements assumes it; run
  `settlement_refund` shows what happens without.
- **Decimals.** A text is an integer of `1/(Scale * Finer)`: it may have more
  digits than the code keeps, and `Parse` cuts them off.
- **The end.** A walk that has returned (or panicked) repeats its state by
  `Returned` (`Refused` for a constructor that gave up), so deadlock checking stays on: a walk that got stuck half-way
  would be reported.
- **Mutations.** `Name_Variant` is `Name` with a mistake a maintainer could make
  in that code. No specification uses them; for every property of a passing run
  `PROJECT.json` names one that makes TLC refute it.

## 3. Runs

| Run (module) | Instance | Properties and what they show |
|---|---|---|
| `proof_chain` (`MCPackSeries`) | every pack of at most 3 records, every series of 2 packs of at most 2; 2 hashes, 3 nonces, 2 instants and one that does not parse; any anchor or none | `KeepsPromise`: VALID exactly for one chain off the anchor; `EveryLinkJudged` behind faults too; `OrderedIfAllParse`; `ReuseNamesFirstHolder`; `SeriesIsOneChain` and `ReplayNeedsRelinking` across packs |
| `proof_chain_order` (`MCProofChain`) | the packs only | violated: a record whose `issuedAt` does not parse hides a step back (`OrderedAlongChain`) |
| `receipt_audit` (`MCPinnedAudit`) | lists of at most 3 keys, 2 ids, bounds at an instant of 1..2, absent or unreadable; all three constructors; then packs of at most 2 receipts under 8 of these directories, any 2 field changes, padded and foreign signatures included | `DirectoryFaithful`, `RefusalJustified`, `HitIsPinnedAndInForce` at the boundary instants as well; `ValidIffGenuine`, `BlameIsExact`, `DiagnosisPinpoints` |
| `refusal` | the same | violated: `Auditor::new` panics where an error was to be returned (`RefusalReturned`) |
| `receipt_audit_panic` | the same | violated: quoting a differing text can panic (`NeverPanics`) |
| `settlement_audit` (`MCSettlementAudit`) | 4 agreements, 2 with refunds, both schemas, every line order, any 2 changes; and splits of every 4-bit gross over 0 to 3 lines, shares from below zero to above the whole, either build | `EveryCentAccounted`, `HonestSettlementAccepted`, `SameAgreementSamePay`, `SingleChangeDetected`; `SumsToGross`, `PartsNeverPanic`, `RoundingIsFair` (of what is not a refund), `ComputesSplit` (the loops are `SplitCents`), `OrderDoesNotMatter` |
| `settlement_refund` | the same agreements, unaltered | violated: a refund the platform settled by floors is refused (`PlatformSettlementAccepted`) |
| `metering_audit` | 3 packs (one with a repeated id), 5 plans over all billable units, any 2 changes | `ValidMeansBorneOut`, `HonestMeteringAccepted`, `SingleChangeDetected`, `FaultStaysLocal` |
| `tenant_chain` | histories of at most 3 rows starting at 0 or near the limit of a 2-bit counter, right, wrong or no seed, 2 changes | `ValidMeansUnbroken`, `SameTipSameHistory`, `AccusesFirstChange`, `EveryRowJudged` |
| `tenant_chain_wrap` | the same | violated: without overflow checks 0 follows the largest number (`SequenceCountsUp`) |
| `signed_evidence` (`MCSignedEvidence`) | 6 sets of at most 2 rows, signed and legacy, of 2 orgs; 3 pairs of exports; 5 directories; any 2 field changes | `RowsBlamedExactly`, `UnsignedNeverPromoted`, `SignatureStepIsForensic`; `ExportValidIffAuthentic`, `ExportDiagnosisPinpoints`; `TypeOK` of both |
| `auditor` (`MCAuditor`) | 2 bundles of 1 and 2 receipts, metered and settled; 7 ways to carry the summaries; a good and a revoked key; 1 change anywhere | `SettledMoneyIsProven`, `SkippedOnlyIfAbsent`, `OneChangeOnlyTakesAway`; `KeepsPromise`, liveness included; `TypeOK` of the composition and of each audit in its turn |

The type invariants of `ReceiptAudit`, `ProofChain`, `MeteringAudit` and
`SettlementAudit` are parts of the `auditor` run's `TypeOK`. Of every module the type
invariant is a theorem.

### Why the bounds are enough

- *Three records, rows or lines.* The walks carry one neighbour (`prev`) or one
  map. Three records give a first, a middle and a last, a fault before and after
  the one looked at, two repeats of one nonce, and a record that does not parse
  between two that do. For every component, the composition included, the proofs
  remove the bound.
- *Two packs* give a series its joint; the proofs remove this bound too.
- *Two alterations* allow a change and its cover-up: a row altered and its link
  resealed, a cent taken from one line and put on another, a payload replaced
  with its canonical text, a count falsified with its total. The composition is
  run with one, wherever it hits, and what passes from one audit to the next (the
  chosen summary, the meters, the org) is one value each. The proofs, those about
  the composition included, hold for any number.
- *Carriages* cover a summary in the bundle, in the pack, in both (a change then
  makes the copies differ) and in neither, and the mixed case.
- *Scale.* Settlement shares are quarters (`Scale = 4`) in place of millionths: the
  split depends on the scale only through remainders, and with quarters a gross of
  3, 5 or -3 leaves one. Metering uses hundredths (`Scale = 100`); dwells of 61005,
  1999 and -700 ms leave remainders in seconds and in minutes and a negative one.
- *Widths.* Amounts are 4 bits wide in `CentSplit` (`Half = 8`), the tenant
  sequence 2 bits (`Limit = 3`): the largest and smallest values occur and are
  crossed. `SettlementAudit` leaves amounts unbounded, since its parts of a whole
  do not overflow (`PartsNeverPanic`); sums over millions of lines are not covered.
- *Symmetry* is used over values that are only compared, never over ones that the
  instance singles out, and not in the run that checks liveness.

### Fairness

`Auditor!Spec` has `WF_vars(VerifyAll)`: once `verify_all` is called its thread
is scheduled until it returns. The code justifies this and no more: it is one
synchronous function, without locks, waiting or I/O. `Submit` and `Alter` are not
fair, since nobody has to call and nothing has to be altered. From this
`KeepsPromise` derives that every call answers or panics; a walk that does not
move on (the mutant `Judge_SameAgain`) refutes it. The other modules assume no
fairness; their walks returning shows there as the absence of deadlock short of
`Returned`.

## 4. What a verifier promises

`VerdictPromise` is the abstract specification: evidence that is `flawless` and
evidence that is `sound`, a verifier that is `called` with it and answers once,
VALID only over sound evidence, always VALID over flawless one, as it pleases in
between (it may be stricter than soundness asks, and may panic over evidence that
is not flawless). `FairSpec` adds that a called verifier answers.

- `PackSeries` implements `Spec` with `flawless` and `sound` both `Sound`: its
  verdict is exact. Checked by `proof_chain`; proved as `SeriesKeepsPromise`.
- `Auditor` implements `FairSpec` with `flawless` the unaltered bundle under keys
  that verify it, and `sound` the conjunction of what the four reports mean. There
  is a gap between the two on purpose: a change of an unsigned field of which
  nothing depends, or a repeated key, need not be either. Checked by `auditor`;
  that it implements `Spec` is proved as `VerifyAllKeepsPromise`. `FairSpec` adds
  liveness only, which is left to the run.

## 5. Proofs

Everything is checked by TLAPS from the constants' named assumptions. Each component
is proved on its own first; `AuditorProofs` then puts the four that `verify_all` calls
together.

**`ProofChainProofs`**, from `ChainAssumption` (the absent hash is no hash, the
instants that parse are integers, a pack is any sequence of records), for packs of
any length over any hashes and nonces: `Inductive`, `TypeCorrect`,
`ValidPacksAreChained`, `ParsingPacksAreOrdered`, `RepeatsNameFirstHolder`,
`SoundPacksAreAccepted`, `LinksAreJudged`.

That VALID means chained speaks of the end and is not inductive. `IInv` says what
holds on the way: `CleanSoFar`, while no step is INVALID the records behind the index
are linked, in order and without repeats; `NoFalseAlarm`, the converse: a fault has
a record behind the index to blame; `SortedSoFar`, order of any two of them when all
instants parse (neighbours in order do not give this if one does not); `NonceMap`,
`seen` maps each nonce behind the index to its first holder; `RepeatsTraced`;
`LinksJudged`, the right step for every link behind the index; `Position`, which
parts of the state are in use at which `pc`; `VerdictFollows`. `AnyInvalidGrows`
(steps are only ever added) makes an unfaulty report now imply one before, on which
every case of `CleanStep` rests.

The same module proves, with `SeriesAssumption`, of any number of packs
(`PackSeries`): `ValidSeriesIsOneChain`, `ReplaysNeedRelinking`, `SeriesKeepsPromise`. `SInv`
adds to `IInv` that the packs behind end in the anchor of the pack in hand and are
one chain if each was VALID; a next pack is again an initial state of the walk, so
the walk's own theorems carry over. For replays the least index of a record that
recurs is taken: it is not the genesis, and its predecessor, by `~Relinked`, recurs
as well at a smaller index. The refinement maps the verdict's step to `Answer`, the
next pack to `Again` and every other step to a stutter.

**`ReceiptAuditProofs`** begins with the keys. From `KeyAssumption` and
`KeyListAssumption`, for key lists of any length: `DirectoryInductive`,
`DirectoryTypeCorrect`, `DirectoriesAreFaithful`, `RefusalsAreJustified`,
`HitsAreInForce` (a hit, and the finding that a key is revoked, exactly when they are due).
`DirectoryInv` adds `IndexSoFar`, the index is exactly the part of the
list behind the loop, and `Settled`, the index no longer changes once it answers, so an
answer given earlier is still what `Lookup` returns. `DirectoriesServe` joins the two
components: what a constructor builds from keys that are not the outsider's is a
directory as `ReceiptAssumption` takes them.

Of the audit itself, from `KeyAssumption` and `ReceiptAssumption` (no pinned key
and no key of the platform is the outsider's), for packs of any length, altered any number of
times, under any of the directories: `Inductive`, `TypeCorrect`,
`BlameFallsExactly`, `ValidPacksAreGenuine`, `FaultsNameTheField`. That exactly the records that are not
genuine are accused speaks of the end; on the way `BlameSoFar` says that the report
has a fault of a record just when the record has failed one of the checks up to
the one it is at (`Point`). `Origin` keeps where signatures come from: each is
malformed, one the platform made, or made with the outsider's key, padded or not, from which
`PassedMeansGenuine` derives that the four checks together decide whether a record is
what the platform issued. `Header` ties the steps of index 0 to the envelope. For
`FaultsNameTheField` a second invariant, `NamedSoFar`, says *which* fields are accused at
each point: `Due`, those of the checks behind it that the record fails, the
signature only under a key in force.

**`SignedEvidenceProofs`, of the tenant chain**, from `TenantAssumption`, for chains of
any length, changed any number of times, over a counter of any width: `TenantInductive`,
`TenantTypeCorrect`, `RowsAreJudged`, `ValidChainsAreUnbroken`, `AccusingInductive`,
`OneTipOneHistory`, `FirstChangeAccused`. `TenantInv` says that the rows behind the
walk are each judged (`JudgedBehind`) and, while nothing is INVALID, joined
(`CleanBehind`): parsing, resealed by their own link, hung off the row before with
the next number modulo the width. A bad number never leaves the report clean, which
is why `prevSequence` may be trusted to be the row before. What links are made of
is left open (`Listed`), since a row may be resealed over any other link; TLC cannot
evaluate that conjunct, and no run lists `TenantInv`.

`Accusing` adds what an accusation needs: `Origin`, the chain was written over one
of the histories, so its numbers count up and each link is its row's; `Reasons`, a row
that is not good is blamed, and every blame has a cause that leads back to a change.
`FirstChangeAccused` follows by looking at the least index that differs from what was
written. `OneTipOneHistory` goes the other way, from the tip down: links are
injective, a seed is no link, so equal links have equal rows and equal predecessors.

**`CentMathProofs`** holds the lemmas on money that two modules need: `Total` over a
finite set is unfolded one index at a time (`SumUnfolds`, by induction over cardinality),
added up, compared and permuted, and a sum by key is a sum of sums (`TotalGrouped`); the
truncating division is bounded (`QuotientBounds`), and texts are parsed back (`ParseOfText`);
`SplitCents` sums to its gross (`SplitSums`) and does not depend on where the lines stand
(`SplitMatched`).

**`CentSplitProofs`**, from `ScaleAssumption` and `SplitAssumption`, for any number
of lines and any width: `Inductive`, `TypeCorrect` (no amount leaves the width of
an `i64` in either build), `RemainderGoesToResidual`, `MoneyInductive`, `NoCentLost`,
`NeverPanics`, `SplitComputed`, `RoundsFairly`, `OrderIrrelevant`: all properties of the
run that are about the split. The ranking of lines (`Beats`: share, role, position) is transitive and
asymmetric; the running comparison therefore leads all lines behind it (`Leads`), and
at the end is the one line `Residual` picks. `Money` is about the amounts: the running
sum is that of the slices behind the loop, exactly in a build with checks and modulo
the width in the other; from this and from slices bounded by the gross follows that for
shares that are parts of a whole neither build goes wrong. For the order, a
permutation of the lines carries slices to slices and the residual line to the
residual line, since no two lines rank alike.

**`MeteringAuditProofs`**, from `ScaleAssumption` and `MeteringAssumption` (the mark for
absent totals is no totals; plans bill units that can be billed, at weights of at most the
places the code keeps), for packs, plans and summaries of any length:
`MeteringInductive`, `MeteringTypeCorrect`, `BilledIsBorneOut`, `HonestBillsPass`,
`OneChangeBillsTheSame`, `FaultsAreLocal`: all properties of the run; and
`MeteringVerdictIsExact`, which the composition needs. `IInv` is `Typed`; `Origin`,
sealed records are honest, sealed totals are their sums, and after one change the summary
is one of the `Variants` of what was sealed; `Control`, which holds `Summed` (the running
totals are the sums of what the records behind the index project to) and `Judged`
(exactly what is wrong so far is accused). That the totals sum *projections*, not claimed
counts, is what makes a fault local; that a clean report makes the two the same is what
makes it sound. For one change the cases are those of `Variants`: a record dropped, repeated or
added moves a sum away from the sealed total, unless it counts nothing.

**`SettlementAuditProofs`**, from `ScaleAssumption` and `AgreementAssumption` (what the
platform settles has shares that parse and make up the whole of each meter; the mark for
absent totals is no totals), for agreements of any number of meters and lines, amounts of
any size, every order of the lines and any number of changes: `SettlementInductive`,
`SettlementTypeCorrect`, `VerdictIsExact`, `EveryCentIsPaid`, `HonestSettlementsPass`,
`PayIsUnique`, `OneChangePaysTheSame`: all properties of the run that are about the audit.
The last three and `Origin` are about settlements that are `RoundedAlike`: the platform's
floors are then the audit's split, line by line.

A summary is `BorneOut` when the org, every line (`Right`), each meter's shares (`Shared`)
and the claimed totals are right. `IInv` follows the walk to that: `Judged`, the report has
a fault just when something it has looked at so far is wrong, whichever meters the map has
yielded by now (`pending`); `SummedTo`, the running totals are those of the lines behind the
index *as long as these are right*, since a wrong line is left out of the sums (unconditioned
it is false, and what the totals are compared with in a faulty report is then of no
interest, because the report is INVALID already); `Origin`, what was sealed is borne out
unless two lines tie or are rounded otherwise, and after one change the summary is one of its `Variants`. Without
`Origin` nothing relates the audited copy to the sealed one. From this `VerdictIs`: the
verdict is `BorneOut`, no more and no less. The properties are then about summaries and not
about steps:

- *Every cent*: the lines of a meter are paid its split, which sums to its gross; the sum
  over lines is exchanged for one over the meters settled (`AllIsPaid`).
- *Honest*: the settled summary is right line by line, and reordering carries expected
  amounts along, since without ties no two lines of a meter rank alike (`ReorderedIsRight`).
- *One pay*: equal parts and gross amounts make the lines of a meter match those of the
  sealed summary one to one, and matched splits pay the same (`SamePay`).
- *One change*: a line moved to another meter or role has a key that is not its own;
  another amount is not the expected one, and another share upsets the whole of its meter;
  a line dropped or repeated moves the claimed gross unless it pays nothing
  (`OneLineLess`); a change beside the lines leaves the payments alone, or is the version
  of the key, which every line then contradicts (`OneChangeKept`).

**`SignedEvidenceProofs`, of signed rows and exports**, from `EvidenceAssumption` (no pinned key and no key of the
platform is the outsider's), for any number of rows, any contents and any number of
changes: `EvidenceInductive`, `EvidenceTyped`, `RowsRightlyBlamed`,
`UnsignedEarnNothing`, `SignatureStepSpeaksOfTheText`, `ExportsRightlyJudged`,
`ExportFaultsNameTheField`: all properties of the run. Of rows, `RowInv` says what is due of each
row at the check the walk is at, where the signatures of shipped rows come from,
and that the two counters count the rows entered (`RowsCounted`: every one once, the
signed ones among the signed). Of an export, `ExportInv` has its `ExportDue`: an early
end of the audit leaves later fields unaccused.

**`AuditorProofs`**, from `KeyAssumption` and `AuditorAssumption`, for bundles of any
size, any plan the platform makes them of, any carriage of the summaries and any
number of changes: `AuditorInductive`, `AuditorTypeCorrect`, `NothingSkippedIfThere`,
`MoneyIsProven`, `OneChangeAddsNothing`: all invariants of the run; and
`VerifyAllKeepsPromise`, the safety part of `KeepsPromise`. `AuditorAssumption` joins
those of the four audits and says what a platform makes: a pack holds at least one
receipt, receipts are issued in turn, each under its own id and nonce (`InTurn`), bills
are for receipts of the pack, and what is settled was metered (`Accountable`).

The four audits share one frame, which `Begin` makes anew, over parts of one bundle. The
proofs about each are therefore instantiated for its part (`RP`, `CP`, `MP`, `SP`), with
`sealed` and the records of that part in place of the variables. `Auditor` has
instances of its own (`R`, `C`, `M`, `S`); lemmas such as `PackWalkIs` and `DomainsAre`
say that the two are the same. None of the walks' own theorems can be used as it stands,
since each begins with that audit's `Init`, and here a call begins wherever the last one
ended: what is used are the non-temporal facts below them (such as `WalkBegins`,
`WalkStep`, `VerdictIs`), from invariants that speak of a walk over evidence in any state.

`IInv` of the composition has five parts:

- `Phase`, where in `verify_all` the call is.
- `Typed`: the bundle is made of records, payloads and summaries of the right kinds,
  the sealed one was `Made` of a plan, and every signature in the pack is malformed, the
  platform's or the outsider's. Any number of changes keep this.
- `Changes`: with no change the bundle is as it was sealed but for how the summaries
  travel (`Untouched`), and with one it is one step from that (`OneAway`), in one part.
- `Frame`: in each phase the frame satisfies the invariant of the audit that runs.
- `Reported`: the reports that are there are exactly those due, and each equals its
  `Judgement`, a formula about the bundle and the keys alone, in which no step occurs.

Because of `Reported` the rest is about evidence, not about walks. What is left in the
end is `OverallHolds`: "overall" is VALID exactly when all four parts hold. From it:

- *Promise*: what holds is sound (`HoldingIsSound`), and what the platform made
  under keys that verify it holds (`FlawlessHolds`). The second is where the
  assumptions about plans are used: a chain made of receipts in turn is `Sound`
  (`SealedChainSound`), sealed metering is borne out by its own pack
  (`SealedMeteringHonest`), and settlements are right (`SealedSettlementRight`), the
  meters looked up through the records of the metering summary.
- *Money*: a settlement that is borne out names meters of the summary the metering
  audit has itself looked at, whichever of the two copies that is, and a metering that
  tallies names receipts of the pack that the pack check has found genuine.
- *One change*: by where it hit. A pack one change away from the sealed one (a field, a
  link, or its last receipt gone) and still VALID keeps every receipt it has as it was
  (`ReceiptsOneAwayKept`): a genuine receipt is a sealed one, which no other place can
  take since nonces are distinct, and a `beforeHash` is given by the predecessor. A
  change of a summary is the one-change lemma of that audit.

What is flawless, and what one change may do, is stated of settlements that platform and
audit round alike (`RoundedAlike`), and receipts are compared as they decode (`Plain`):
what was sealed decodes to itself (`SealedPlain`), so a padded text is no change of a
receipt.

tlapm takes about a quarter of an hour for this module, and a few minutes or less for
each of the others.

**Model-checked only.** That `verify_all` answers once it is called: the fair part of
`KeepsPromise`. The five runs that expect a violation have nothing to prove.
Out of the prover's reach are liveness under fairness and ENABLED. Induction theorems that take an operator cannot be
instantiated; where a proof needs induction over numbers, over the index of a recursive
function (`Written`) or over finite sets (`Total`), it is done with a least counterexample
taken from a *set* of numbers. No module declares a RECURSIVE operator.

**Assumptions of the models.** Hashes and signatures are free constructors. No
claim of a provenance row contains the separator `|`; org, event and key ids are
not empty. `kind` and `orgId` of an export are copied, not read. The running `i64`
totals of a settlement do not overflow.

## 6. Where code and text disagree

All five are runs above and findings in `PROJECT.json`, with the quotation.

1. `proof_chain.rs:162`: order is compared with the direct neighbour only, and
   not at all after an `issuedAt` that does not parse.
2. `proof_pack.rs:37`: slicing at byte 256 panics inside a character, where the README
   says audit failures never panic; `provenance.rs` guards the same cut.
3. `tenant_chain.rs:183`: `prev_seq + 1` at the largest `u64` panics or wraps.
4. `auditor.rs:27`: `Auditor::new` panics on a malformed key list, where the README
   says operational errors are returned as an `AuditorError`. `RefusalJustified` says
   only what a refusal is over.
5. `settlement_audit.rs:332`: slices of a refund are cut towards zero, not floored as
   lines 319-321 say the platform does, so that a refund with a fraction of a cent is
   refused. `SumsToGross` shows that the sums are still right.

Observations the text of the repository says nothing against, and which no
property asserts: `beforeHash` is covered neither by a receipt's signature nor by
its `afterHash`; a record's own `algorithm` is not looked at; a pack's org is not
compared with its receipts; a `notAfter` or `revokedAt` that does not parse
constrains nothing; of two receipts with one id the last is used; a repeated idem
key is not noticed; a claimed metering total that does not parse is passed over
without a step; a meter without lines is not noticed; a settlement schema
other than `settlement.v2` is read as v1; a pack or tenant chain cut short at the
end is still VALID; nonces are compared within one pack; `occurredAt` of
provenance rows and `exportedAt` of exports are not signed; a provenance row whose
algorithm is altered becomes a legacy row, which is counted and labelled but not
verified, and an altered legacy row is not noticed. The text knows two algorithms,
`ed25519` and `hmac-sha256`; the code takes every third one for a legacy row, and the
models do what the code does.

## 7. Not modelled, and what is left

Not modelled: byte-level encoders and decoders (base64url, JSON canonicalisation,
RFC 3339 parsing), which are functions over long strings better served by test
vectors; the curve arithmetic behind a signature; the wording of messages; serde
names; `errors.rs` and `lib.rs`, which have no behaviour. `types.rs` and
`hashing.rs` are modelled as far as the verifiers look at their data.

Left to do: a bundle changed twice in the `auditor` run, once TLC's time allows: its
state space grows with the square of the changes. The theorems cover it already,
`OneChangeOnlyTakesAway` apart, which is about one change; what two changes
can cover up between them (a receipt and the metering of it, say) is stated only as
`SettledMoneyIsProven` and the soundness of the promise.
