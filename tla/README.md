# A model of the governed runtime

TLA+ modules, TLC runs and TLAPS proofs about `evolving-ai`: a FastAPI server
whose runtime configuration only changes through amendments that are proposed,
evaluated, approved and released as new immutable versions. File names below are
relative to the repository.

## The system

One process serves all requests. Every handler in `app/api/main.py` is an
`async def` without an `await`, so handlers run one after the other; the store
(SQLite) is written by `store.save`, one transaction per row. What is hard is
therefore not handlers against handlers but handlers against the store: a
handler changes memory, then writes two to four rows in transactions of their
own, and between two of them the process may die or a write may raise. Memory
and store then disagree, and the next boot decides what survives. The second
hard part is the order of requests, since every handler takes an amendment in
nearly any status. The third is what an evaluation means: who chooses the suite,
which cases join it, how means of floats are compared.

| Part | State | Operations | Model |
|---|---|---|---|
| Runtime registry `app/governance/registry.py` | manifests, current pointer; rows `runtime`, `meta` | create, register candidate, roll back, load | `RuntimeRegistry`, `Governance` |
| Governor `app/governance/governor.py` | promotion lock, promotion and rollback logs; rows `audit` | build candidate, approve, reject, roll back | `Governance` |
| Handlers `app/api/main.py` | dictionary of amendments; rows `amendment` | boot, propose, evaluate, approve, reject, roll back | `Governance` |
| State store `app/storage/store.py` | table of rows, schema version | save, load_all, refuse | the `d...` variables; damaged rows and the schema: `Startup` |
| Evaluator, failure classes `app/evaluation/_init.py` | rejection cases by class (memory only) | replay suites, score, register rejections | `Evaluation` |
| Operator `app/operator/operator.py` | none | answer a task under a configuration | `Evaluation` |
| Gates `app/governance/models.py`, `constitution/constitution.yaml` | none | judge an evaluation | `Evaluation` |
| Steward `app/steward/_init.py` | rate limit (memory only) | patterns, cases, proposals | `Telemetry`; what it proposes: `Evaluation` |
| Telemetry `app/telemetry/_init.py` | trusted records, run numbers; rows `telemetry`, `telemetry_untrusted` | record, query, load | `Telemetry` |
| Governed memory `app/memory/_init.py` | lessons, their numbers; rows `lesson` | create, validate, activate, deactivate, quarantine, load | `Lessons`, `LessonLedger`, in `Startup` |
| Import of `app/api/main.py`, `constitution/constitution.py` | the constitution, its file and its pin; the store's `schema_version` | open, check, load, create v0, refuse | `Startup` |
| Review artefact, `Governor.amendment_diff` | none | apply a diff to a copy, compare | `ReviewDiff` |
| API keys, arithmetic, dashboard, scripts | | | see "Not modelled" |

What makes each part correct:

* registry: releases are immutable, numbers are never given twice, the lineage of
  a release leads to v0, the pointer names a release, a restart restores all of it;
* Governor: a release has an approved amendment, evaluated and passed, by a
  reviewer who is not the proposer; protected fields never change; the audit log
  agrees with the releases; the lock is always freed;
* handlers: evidence remains bound to what was evaluated, whatever is promoted,
  rolled back or lost in between;
* telemetry and Steward: what is stored is kept, proposals rest on trusted
  failures that are stored, a class is not proposed for over and over;
* governed memory: a number names one claim for good, a lesson only moves on, and
  no later process serves it at an earlier stage than the stored one;
* startup: the rules in force were pinned by somebody, damage surfaces, and no
  history of the server's own makes its next start impossible;
* the review artefact: what is reported is what will change;
* evaluation and gates: no choice of suite and no history of rejections lets a
  candidate pass that the required suites would refuse.

`PROJECT.json` lists the hazards at their lines, and which property covers which.

## Modules

* `RuntimeRegistry` - versions, manifests, the operations of the registry as
  operators on memory (`released`, `candidates`, `current`) and on the store
  (`dReleased`, `dCandidates`, `dCurrent`).
* `Governance` (extends it) - the handlers. `pc` is the write that the running
  handler makes next, so each action is what the code does from one write to the
  next; `idle` is between handlers, `down` between processes. `req` is what the
  handler keeps in local variables. `Crash` loses memory at any point;
  `HandlerFails` makes a write raise, which ends the handler and leaves memory as
  it is, except for the lock that `finally` frees; `BootFails` is a write that
  raises during import. The verdict of an evaluation is any of the two, so what
  holds here holds for every set of gates.
* `ReleaseLedger` - what a reader of the store may rely on: releases are only
  added, each grew out of an older one and keeps the protected entries, and the
  pointer names one of them. `Governance` implements it (`LedgerSpec`).
* `Evaluation` - the other half: the Operator's answers, the suites, regression
  and rejection cases, the gates and the amendments that pass. Handlers are
  single steps here, since `Governance` has their writes.
* `Telemetry` - how failures become proposals: run numbers shared by a trusted
  and an untrusted partition, patterns, the rate limit, and the loop that saves
  proposals, one write at a time as in `Governance`, with crashes and failed
  writes. It ends where `Governance` starts, at a proposed amendment.
* `Lessons` - governed memory: the life of a lesson, its numbers, the write behind
  every change, and the load at boot over rows that may be damaged.
* `LessonLedger` - what a reader of the rows `lesson` may rely on. `Startup`
  implements it (`LedgerSpec`).
* `Startup` (extends `Lessons`, composes it with the bootstrap of
  `RuntimeRegistry`) - the import of `main.py` step by step: schema, pin, second
  read of the constitution, rows of every kind, v0; then the lesson handlers.
  Others damage and repair files and rows in between. A process ends in a crash,
  in a write that raises during the boot, or because a check refuses; all three
  lose memory. `Start` is somebody's decision.
* `ReviewDiff` - one step per key of a diff, as `_apply_diff` walks over it, with
  the dictionaries that the copy still shares with the dump.
* `GovernanceClaims`, `EvaluationClaims`, `StartupClaims` - statements of docs,
  comments and tests that the code does not keep, one run each (that of
  `ReviewDiff` is in the module).
* `MCGovernance`, `MCEvaluation`, `MCTelemetry`, `MCStartup`, `MCReviewDiff` - the
  small instances.
* `GovernanceProofs`, `RestartProofs` (extends it), `EvidenceProofs` (extends
  that), `StartupProofs`, `TelemetryProofs`, `EvaluationProofs`,
  `ReviewDiffProofs` - the theorems;
  `NextNumberProofs` - two facts about numbers that two of them share.

Operators whose comment starts with "Mutant:" are faulty variants of the
definition that follows them. Nothing uses them; putting one in the place of the
definition shows that the property listed for it in `PROJECT.json` fails.

### Abstractions

* A manifest's content is a function from entries to values; its hash is the
  content itself. Version `v<N>` is `N`. Amendment identifiers are used once
  (`issued`); the code makes those of people of a random hypothesis id and a
  time. Those of the Steward are made of task, target and second, and
  `Telemetry` has them overwritten within a second; `Governance` assumes that no
  two analyses propose for a task in one second.
* An approval request names a reviewer and whether it cites evidence of the
  attached evaluation (`cites`); evidence is never changed in memory.
* Rejections keep their amendments in `learned`; `Evaluation` has their cases.
* `AnswerError` stands for all requests that are refused before they change
  anything.
* In `Evaluation` a configuration is its system prompt and the set of categories
  its `safety_policy` refuses, all that answers depend on. Scores are
  percentages, means are compared as sums. The code compares floats: a mean that
  is exactly 0.80 may come out on either side (`tie`), and `ShortMeans` lists the
  task counts whose mean of 0.85s is below 0.85 (7 to 21 with Python 3.11; 13, 21
  and 26, up to 40, with the compensated sum of Python 3.12). An answer scores 100,
  70, 50 or 30, so a sum of scores is written as counts of the answers that got each
  (`Rated`), which is what the proofs can add up; the assumption `ScoreAssumption` of
  `MCEvaluation` compares it with a fold over every run of up to four answers.
* `Echoes` and `Alarming` say when a prompt contains an expected answer or a
  banned word, since the Operator echoes the prompt.
* `Evaluation` gives the cases of a list one class, the pattern's, which
  `Telemetry` derives by majority (a tie is open: `max` runs over a set). Known classes and coverage are reported and decide
  nothing; they are left out.

* In `Telemetry` a record is its task and failure class. `classify_failure` is a
  table from inputs and errors to classes, so any class may come out. The clock
  counts seconds with a request in them, and `Tick` may move any older stamp out
  of the window. Runtimes are fixed (`Listed`), and hashes are those of listed
  runtimes or not. `MIN_FAILURE_FREQUENCY` and the number of sampled inputs, 3 in
  the code, are constants.

* In `Startup` the registry has v0 alone; rows of the other kinds are `sound`,
  `misshapen` (a JSON object that is no such record) or `unparseable`, the worst of
  a kind. `Validated` kinds stop the boot in either case, `Unvalidated` ones only if
  unparseable; lessons have their rows one by one, since a misshapen one is passed
  over. A hash is the content it is of. `HasYaml` says whether `yaml` can be
  imported: without it `from_file` falls back to rules without data (`Defaults`).
  `pinned` and `swapped` are history variables; no action reads them.
* In `ReviewDiff` a manifest has sections, two levels deep, and other fields; a
  field outside the manifest is absent (`None`).

## Runs

| Run | Instance | Shows |
|---|---|---|
| `gov_crash` | 2 amendments, 3 versions, 2 audit entries, 3 diffs (one forbidden), 1 crash anywhere | `RestartRestores`: after any handler a reboot would give the same registry and log. `EvidenceStaysBound`: no history makes an unchanged amendment un-approvable. `TrailReplaysCurrent`: the audit log is a chain of moves that ends at the current runtime, as long as nothing fails. `ReleaseIsTheCandidate`, `LineageReachesV0`, `ScopePreserved`, and the refinement `LedgerSpec` |
| `gov_faults` | 3 amendments, 2 diffs, two reviewers of whom one is the proposer, 1 crash and 1 failed write, no rejections; see Bounds | `ReleasedImmutable`, `ReleaseIsBacked`, `AuditSound`, `PromotedIsAudited`, `LockReleased` when memory is ahead of the store; `GapsAreFailures`: no failure leaves more than one release without its audit entry; `ReleaseIsTheEvaluated`: a version number given twice does not mislead the binding of evidence |
| `startup` | 2 lessons, 2 claims, a validated and an unvalidated kind, 2 contents of the constitution, 2 harms, 1 crash, 1 failed write | `ServedIsNotBehind`: what is served is at its stored stage or a later one. `RulesWerePinned`. The refinement `LedgerSpec`. `OnlyOthersSpoil`: nothing that the server does makes its next boot refuse a store or a constitution that it would have taken. `ServerReturns` (liveness): if others leave the files sound and somebody starts the server whenever it is down, it serves again and again |
| `eval_suites` | 3 amendments, suites of 5 tasks, 3 patterns, 3 diffs, 1 restart | `PassingIsSafe`, `PassingAnswersCore`: no choice of suite, no regression case and no history of rejections lets a candidate pass that misses the policy or the core answers; `HistoryNeverHelps`: nor does a history turn a refusal into a pass, but for an evaluation whose number of tasks is refused as such without it (`ShortMeans`: with 3.12's sums 13 answers of 0.85 fail and 14 pass). `PassingInCoreFixesItsCases`: asked for with "core", a candidate that passes gets none of the amendment's own failures wrong. `StewardChangesNothing`: a proposal of the Steward that passes changes no answer |
| `telemetry` | 4 runs, 2 tasks that fail with one class, 2 classes, 2 failures make a pattern, a clock of 2 seconds, 1 crash, 1 failed write | `TrustedKept`: no trusted row is overwritten. `ProposalsAreGrounded`: stored proposals rest on stored trusted failures. `UntrustedKept` and `OneProposalPerWindow` while the process lives: no audit row is overwritten, one task per class and window |
| `claim_exact`, `claim_review`, `claim_skipped` | as above | counterexamples, see below |
| `claim_diff` | 2 sections with 2 entries and 2 values, one with a prefix | counterexample, see below |
| `claim_cases`, `claim_replayed`, `claim_threshold` | as above, no restart | counterexamples, see below |

Bounds. `MaxVersion`, `MaxTrail`, `MaxLessons`, `MaxRuns`, `MaxNow`, `MaxCrashes`,
`MaxFaults`, `MaxHarms` and `MaxRestarts` bound counters that the code leaves
unbounded. Two amendments suffice for one to be promoted between evaluation and
approval of the other; two promotions or rollbacks suffice to look for a number
that is taken; a lost release needs a third amendment, two on the number that is
given twice and one to take it. One crash may fall before, in or after any of
them. `FailingWrites` is the constraint of `gov_faults`: nothing is rejected, and a
history is either of `TwoAmendments`, whatever fails and whoever approves, or of
`LostRelease`, three amendments where the write that fails is that of a release
and the crash comes later. Two harms are an edit of the constitution and the loss
of its pin, or damage to two rows; two lessons are one that is damaged and one
after it. The suites of the repository have five tasks
each, and so do those of `MCEvaluation`; patterns of failures have an answerable
input, an arithmetic that is refused, or an input with no expected answer. Four
runs of `Telemetry` hold two patterns of one class, or one pattern with a success
or an untrusted record before, between or after its failures (`MostlyFailures`
allows one such record).
Amendments are interchangeable, so the runs use their symmetry; no run with
symmetry checks a liveness property. The runs of `Governance`, `Telemetry` and
`Startup` check deadlock (a server can always answer an error or be started); `Evaluation` may stop when
every identifier is used, and `ReviewDiff` ends with the diff.

Fairness. Nothing in the server runs by itself: no timer, queue or background
task; every action is somebody's request or a failure. What does go on by itself
is code that has begun: an import runs to its end, and a handler that has changed
memory makes its write (no `await` in between), so `Startup` states weak fairness
for `BootStep` and `SaveRequestedLesson`. It states none for requests, for damage,
for repair or for `Start`: `docker-compose.yml` has no restart policy, so that
somebody starts the server is a premise of `ServerReturns`. The other
specifications state no fairness, and their properties are safety.

## What the code does not keep

* `claim_exact` - a promotion applies the diff to the runtime that is current, not
  to the parent that was evaluated. After a rollback, or after another promotion,
  the release is a configuration that no suite ever saw.
* `claim_review` - the approve handler sets the status to "approved" and then asks
  the Governor, which requires "review" or "approved". A rejected or promoted
  amendment passes.
* `claim_cases` - the gates look at the regressions of the suite that the request
  named, and regression cases are attached to "core". Asked for with
  `suite_id=safety_refuse`, an amendment passes that fails its own cases.
* `claim_replayed` - a rejection's case has its input under `input_data`, and the
  replay reads `input`: later amendments are tested with an empty request.
* `claim_threshold` - seven answers of 0.85 each have a float mean below 0.85: with
  two regression cases no candidate passes under "core" on Python 3.11.
* `claim_skipped` - a row of kind `lesson` that is a JSON object and no lesson is
  passed over at boot: the server serves without it, and if it was the last, its
  number is given to the next lesson, which replaces the row.
* `claim_diff` - `amendment_diff` copies the dump of the current runtime one level
  deep. A key such as `prompt_planner` is set in the dictionary that both sides
  share, so the change is in no report.

Seen while modelling and not run: a release is four transactions (its row, the
pointer, the audit entry, the amendment), so a process that dies in between leaves
one without an audit entry for good (`governor.py:350`; `GapsAreFailures` bounds
how many), while `save_many`, which would write them as one, is never called; run
numbers go on from the stored trusted records, so after a restart a new record
takes the number of an untrusted one, whose row, kept for audit, is replaced
(`telemetry/_init.py:183`); without the `yaml` module, which comes with
`uvicorn[standard]` alone, the pinned file is checked and then replaced by
defaults that require no suites (`constitution.py:123`); the file is hashed and
then read a second time (`constitution.py:99`, `:121`); a `meta` row without a
value makes v0 the current one (`registry.py:46`);
`required_validation_steps: 3` (`constitution.yaml:29`) is enforced nowhere; a
lesson whose write failed cannot be asked for that stage again, because memory is
already there (`memory/_init.py:108`); rejections are in no audit log
(`governor.py:396` against `governor.py:443`); the failure class registry, which
"never shrinks", is empty after a restart (`main.py:52`); an evaluation with an
unknown suite leaves the status "sandbox" in memory only (`governor.py:158`); a
rollback onto a release whose row could not be saved stores a pointer to nothing,
which the next boot resolves to the newest stored release; the Steward's rate
limit is lost with the process and is stamped before the proposals are saved, so
a restart repeats them and a failed write mutes a class for an hour
(`steward/_init.py:231`, `:312`); it allows one pattern, so two proposals, where
its comment says one (`:85`); failures never leave the records, so in every
window the first task of a class is proposed for again, fixed or not, and a later
task of the same class never (`:286`); a second analysis within a second
overwrites the amendments of the first (`:259`); the README's demo
cannot end with a promotion, since the Steward's prompt ("step-by-step") makes
core answers score 0.7 and its memory proposals leave v0 without a
`safety_policy`; on any runtime, what the Steward can get through the gates
changes no answer (`StewardChangesNothing`).

## Proofs

The theorems hold for every value of the constants that meets the named
assumptions of their modules: any number of amendments, versions, audit entries,
lessons, runs, crashes and failed writes, all diffs, protected entries, claims and
failure classes, prompts, suites, cases and restarts. Two kinds of theorems have a
premise more, which their statement names. Those of `RestartProofs` and
`EvidenceProofs`, but for `TrailIsReplayed`, assume `HandlersSucceed`, that no step is
`HandlerFails`: after a handler's failed write memory is ahead of the store until the
process ends, and the properties fail (a crash, a failed write of a boot and any
number of both are allowed). `RestartIsInvisible` asks for it only from any point at
which the process is down. `RulesAreRooted` assumes `HasYaml`.

| Theorem | States |
|---|---|
| `GovernanceProofs!TypeCorrect` | `TypeOK` |
| `ReleasesAreImmutable` | a stored release is never overwritten |
| `LockIsReleased` | the lock ends with its handler |
| `ScopeIsPreserved` | protected entries are those of v0 |
| `ReleasesAreBacked` | a release is stored only over a stored approval |
| `AuditIsSound` | promotion entries agree with their releases |
| `PromotionsAreAudited` | stored promotions have stored entries |
| `ReleasesAreAsEvaluated` | a release stored on its evaluated version has the evaluated content |
| `GapsAreExplained` | releases without an entry are at most as many as failures |
| `RestartProofs!RestartIsInvisible` | after any start, whatever failed before it, a boot restores what memory had, until a handler's write fails |
| `LineageIsStored` | parents of stored releases lead to v0 (no handler's write fails) |
| `RegistryIsALedger` | `Governance` implements `ReleaseLedger` (no handler's write fails) |
| `EvidenceProofs!EvidenceIsBound` | what was evaluated can be rebuilt (no handler's write fails) |
| `ReleasesAreTheCandidates` | a release on the evaluated runtime is the sandbox candidate (no handler's write fails) |
| `TrailIsReplayed` | until the first failure the audit log replays to the current runtime |
| `StartupProofs!StartupTyped` | `TypeOK`; a server that serves has a runtime and rules |
| `MemoryIsNotBehind` | no process serves an older state than the rows |
| `MemoryIsALedger` | `Startup` implements `LessonLedger`, but for damage |
| `RulesAreRooted` | the rules in force were pinned, but for a swap between two reads |
| `ServerSpoilsNothing` | a boot refuses what others damaged, never what the server did |
| `TelemetryProofs!TelemetryTyped` | `TypeOK`; a proposal has at most `Samples` cases |
| `TrustedIsKept` | a trusted row is never overwritten |
| `UntrustedIsKept` | within a process, neither is an untrusted one |
| `ProposalsRestOnRecords` | proposals rest on stored failures while no write fails |
| `ClassesAreLimited` | within a process, one task and analysis per class and window |
| `EvaluationProofs!EvaluationTyped` | `TypeOK` |
| `PassingCandidatesAreSafe` | a passing candidate treats at most 2 in 7 categories of either safety suite the wrong way |
| `PassingCandidatesAnswer` | a passing candidate answers every core task exactly |
| `CoreVerdictsFixTheirCases` | asked for with "core", a passing candidate gets none of the amendment's own cases wrong |
| `HistoryIsHarmless` | no past cases turn a refusal into a pass, but for a number of tasks that is refused as such |
| `StewardIsWithoutEffect` | what the Steward gets through the gates changes no answer |
| `ReviewDiffProofs!NestedChangesAreReported` | fields without prefixed keys are reported exactly if they change |

The inductive invariants and why they are needed:

* `TypeInv`. `TypeOK` is not inductive: a handler between two writes works on what
  it put in its locals, so `Control` says what they are at every `pc` (an amendment
  that exists, a version, a registered candidate, a non-empty log). Boot needs
  `CurrentOfResolves`: a table with a release has a newest one (well-founded
  induction on the distance to `MaxVersion`), so a server that is up has a current
  runtime.
* `StoreInv`: every stored release is in memory while the server is up, unchanged.
  That is why looking for a free number in memory is enough, and
  `ReleasesAreImmutable` follows from it and from the lemmas that list the only
  steps that touch release rows.
* `PromotionInv` follows the promotion through its writes: at each `pc` the release
  in memory is the one in the locals, the stored amendment is the approved one it
  rests on, and the last entry of the log describes it. `ReleasesAreBacked`,
  `AuditIsSound` and `PromotionsAreAudited` read it off. `EvaluatedInv` adds the
  content of the release, compared when the approval was granted.
* `GapsInv`: the releases without an entry, but for the one whose promotion is being
  written (`OpenGaps`), are at most as many as there were failures. Only a crash or
  a failed write turns the open one into a gap, and each of them counts itself.
* `Agree`: memory is what a boot would load, but for the write that is next: each
  pc says which row is still missing. `HandlerFails` is the one step that leaves
  memory and store apart; `Agree` holds of itself whenever the process is down, and so
  of every process up to its first failed handler. With `LineageInv` (parents
  are older releases) it gives the refinement; a promotion is the ledger's release
  at its first write, a pointer moves at its second.
* `EvidenceInv` binds each evaluated amendment to its candidate, in memory and in
  the store; `ContentInv` binds each release to the amendment that made it;
  `ChainInv` says that entries of the log start where the one before ended and that
  the last one ends at the current runtime, but for the write that is next. It is
  about behaviours without any failure, and rests on `faults = 0 => Agree`.
* `MemoryInv` of `StartupProofs`: once rows are loaded, every readable row is in
  memory at its stored stage or a later one, the next number is above all of them,
  and a lesson about to be saved is one that memory has. The refinement is a case
  on the one step that writes a lesson. `RulesInv`: between the comparison and the
  second read, the file is pinned or swapped. `ServerSpoilsNothing` needs that memory
  holds lessons only (`MemoryInv`): what is saved can be read.
* `Numbered` of `TelemetryProofs`: the next number is above every trusted row, and
  above every row until the first crash; a record on its way has a number that no
  row has. `GroundInv`: memory is the trusted rows and the record on its way, and a
  pattern's most common class is one of its failures' (by cardinalities).
  `WindowInv`: a proposal of the current second has the stamp of its class, an
  older one is not younger than the stamp; of the patterns of a class only the one
  with the least first failure proceeds (`LeastExists`).
* `VerdictInv` of `EvaluationProofs`: the verdict attached to an amendment is that of
  the gates on the amendment as it still is, for some history of rejections
  (`Judged`), and the Steward's amendments have the cases of their pattern. The rest
  is about `GatesPass` alone, for suites of any size. The answers of a safety suite
  score 0.30 or 1, so a mean of 0.80 leaves at most 2 misses in 7 (`FewAreMissed`).
  Under a prompt that asks for steps no answer scores more than 0.70, so no such
  candidate passes (`PassedAreNotStepwise`); the Steward's only prompt is one, which
  is why what it gets through changes nothing. Answers to past cases never score
  more than 0.70 either, so a mean of 0.80 with them is one of 0.80 without them
  (`PastNeverHelps`). The sums are cardinalities that add up over a concatenation
  (`ConcatAddsUp`).

Each proof that a step preserves an invariant has a case for each action of `Next`;
steps that leave the variables of an invariant alone are taken together.

Only model-checked: the liveness property `ServerReturns` (of whose argument
`ServerSpoilsNothing` proves that its premise, sound places, is not the server's to
lose), and the counterexamples of
the `claim_` runs. Out of the prover's reach are liveness under fairness, `ENABLED` and
induction over data; that `Rated` adds up to the sum of the scores is such a fact, and
`ScoreAssumption` checks it for short runs.

## Not modelled

* API keys: a comparison of a header with the environment, without state.
* The walk over the syntax tree of `arithmetic.py`: whether an expression has a
  value is part of a case (`Kind`).
* Read-only endpoints other than `amendment_diff`; they change nothing.
* The buckets of the rate limiter of submissions: a refusal is `AnswerRefused`.
* Known classes and coverage of the failure class registry, the Steward's lists of
  past patterns and hypotheses, counters and texts of lessons, tools and latencies:
  reported or kept, and read by no decision.
* `save_many`, `delete` and `count` of the store, which no handler calls.
* `scripts/verify_constitution_pin.py`, which makes the comparison of `CheckPin` at build
  time; the demo, the dashboard, the container.

## Plan

* `Telemetry` composed with `Governance`: proposals of the Steward that overwrite
   an amendment of the same second while it is evaluated or approved.
