# earn-or-halt: a verification project

TLA+ models of the earn-or-halt protocol, TLC runs that check them on small
instances, and TLAPS proofs of what matters most for every instance.

The repository describes a market in which open-source agent versions compete
for protocol-held capital: versions register, hold a vault, earn rewards for
objectively verified jobs, challenge each other for the active seat of their
lineage, and are ejected when they stop earning.  The rules exist as a Python
reference model (`src/arena-v0.2.0/model/arena.py`, "the source of truth for
the exact state transitions" according to the contract), as a Solidity contract
that mirrors it, and around them there is an agent runtime with a wallet, a
ledger, peer selection and a self-restart seed.

## 1. Inventory

### A. The arena reference model (`arena-v0.2.0/model/arena.py`) - modelled

One Python object whose methods anybody may call in any order.  A method checks
its preconditions and raises `ArenaError`, or changes the state.  A Python
exception does not undo the assignments that preceded it, so a call can fail
half-way.

| Part | State | Operations |
| --- | --- | --- |
| clock | `now` | `advance`, `advance_to_next_epoch` |
| money | `wallets`, `vaults`, `commons_available/reserved`, `market_escrow_reserved`, `unaccounted_surplus`, `total_minted`, books | `mint`, `fund_commons`, `direct_transfer_to_arena`, `absorb_surplus`, `donate`, `settle_operating_expense` |
| versions | `versions`, `lineage_versions`, `version_bond`, `bond_epoch`, signers | `create_lineage`, `register_version`, `reclaim_bond`, `heartbeat` |
| ranked jobs | `authorizations`, `authorization_used`, `ranked_jobs`, `proof_used`, `economies` | `authorize_ranked_job`, `create_ranked_job`, `submit_ranked_result`, `expire_ranked_job` |
| market escrow | `market_jobs` | `open_market_job`, `submit_market_result`, `accept_market_result`, `refund_market_job` |
| selection | `active_version`, `supersede_commits`, `supersede_revealed` | `supersede`, `commit_supersede`, `reveal_supersede`, `eject_stale`, `claim_vacancy` |

Interaction is through shared state: market jobs and donations resolve their
beneficiary through the seat, selection reads the economies that ranked
settlements write, ejection reads the profit mark, the bond and the vault.

Hard behaviours: calls of different actors in any order; a seat that changes
hands while money is in flight; four clocks (epochs, days, heartbeats,
staleness) compared with one another; deadlines at which two calls compete for
one reward; calls that raise half-way.

What makes it correct: tokens are conserved and each reward is paid once; the
seat is a well-behaved mutex with a history; only settled objective jobs enter
the rank; a bond is refunded for profit or forfeited; escrow is not stuck.

### B. The arena contract (`arena-v0.2.0/contracts/EohArena.sol`) - partly modelled

The Solidity counterpart of the model: the same entrypoints over `_versions`,
`activeVersion`, `economy`, `rankedJobs`, `marketJobs`, the vaults and four
running totals, next to an external ERC-20 that holds the tokens.  It differs
from the Python model in ways that need a module of their own:

* a call that reverts undoes everything, so every check is a guard wherever it
  stands; a reveal that loses can be tried again;
* tokens and accounts are two things: `accountedTokenBalance` is compared with
  what the token says, and the difference is a surplus anybody may absorb;
* `medianProfit` takes the element at `count / 2`, the model averages;
* most of the announced hardening (bond, daily cap and quorum, split of a stale
  vault, heartbeat burn) is declared and not wired into any entrypoint.

Correct means: the totals are what they stand for, tokens and books move
together, and seat and escrows keep the promises of the model's: both implement
the same two abstract specifications.  Left out: `reclaimBond` (it reverts in
every reachable state, `versionBond` is never assigned), counters nobody reads,
the reentrancy lock (1 between any two calls).

### C. The agent runtime (`earn_or_halt/`) - modelled, the ranker partly

One process per version runs `Runtime.run_mock`: quote, decide, execute, verify
and store the expense receipt, debit the wallet, deliver, verify and store the
client's receipt, credit the wallet, ask the policy whether to halt, publish a
heartbeat.

| Part | State | Operations |
| --- | --- | --- |
| runtime (`runtime.py`) | position in the cycle, job number | construction with starter credit, `run_economic_cycle`, `publish_heartbeat`, `_execute_halt` |
| wallet (`wallet.py`) | two buckets, lifetime revenue and cost, in memory | `credit_deposit`, `credit_earned`, `debit_expense` |
| ledger (`ledger.py`, `receipts/store.py`) | receipts and deposits, in SQLite | `ingest_receipt`, `ingest_deposit`, `has_receipt`, sums |
| verifier (`receipts/verify.py`) | none | expiry, uniqueness, then store |
| policy (`policy.py`) | none | `can_afford`, `should_halt` |
| peers (`selection/heartbeat.py`, `ejection.py`) | newest heartbeat per peer; live, suspect, presumed halted | `ingest`, `is_alive`, `observe_heartbeat`, `mark_suspect`, `update` |
| ranker (`selection/rank.py`) | none; reads the ledger, two sums a version | `rank` (`top_n` and `alive_versions` filter its result and are left out) |
| seed (`resurrection/`) | the directory it unpacks into; reads the release pointer | `run`: read the pointer, ask gateways and mirror, verify, unpack, exec |

The ledger outlives the process, the wallet does not; the default ledger path
is the same for every process, and `docker-compose.yml` restarts the container.
Nothing in `src/` wires the heartbeat reader and the ejection tracker to each
other or to a network: the environment of `Peers` feeds both the same stream.

Hard behaviours: a crash between the store and the wallet; a check and an
insert in two transactions; a restart that finds a ledger and an empty wallet;
a ranking that reads the ledger while it is written; heartbeats lost,
duplicated, delayed and reordered; a release pointer that changes between its
two reads, a gateway that answers anything or hangs up, a seed that is killed
half-way through unpacking.  Correct means: a running wallet is explained by the
ledger, nothing is counted twice, no income without its cost, what is published
or ranked agrees with the ledger, work is routed to peers that are alive, and
what the seed runs is the release that was pinned.

### D. Coin contracts (`contracts/`) - the coin is modelled

`EarnOrHaltToken.sol`: an ERC-20 with a commons pool, a registry of releases,
starter credit (once per release) and `collectEmission`, which anybody may call.
The supply is stored next to the balances and changed in two branches that
compute from both.  Correct means: the supply is the sum of the balances,
nothing but starter credit and the pool's own spending enters circulation, and
emission keeps to its cap.  `ReceiptsRegistry.sol`, one write-once map, is not
modelled (section 5).

### E. Tools (`arena-v0.2.0/scripts`, `tools/`) - not modelled

Sequential command-line programs around a hash (job tree, source manifest,
release signing): no interleaving, no state that outlives a call.

## 2. Modules

| Module | Models |
| --- | --- |
| `ArenaState` | constants and their assumptions, variables, `__init__`, the read-only helpers |
| `ArenaMoney`, `ArenaVersions`, `ArenaRanked`, `ArenaMarket`, `ArenaSelection` | one action per method of the class, by section of `arena.py` |
| `LineageSeat` | the abstract specification of a lineage's seat: founded, taken, handed over, vacated |
| `Escrow` | the abstract specification of a reward that waits for work: locked in full, paid once or returned to its payer |
| `Arena` | composes the above: `Next`, `Spec`, `FairSpec`, the properties, the refinements |
| `MCArena` | small instances for TLC |
| `ArenaProofs`, `ArenaMoneyProofs` | the theorems of `Arena` and their proofs: types, seat, succession, bond, median; books, escrows, rank |
| `SumProofs` | what the proofs need to know of finite sums and order statistics |
| `EohArena` | the contract: one action per entrypoint |
| `EohProperties` | what must hold of it, and its refinements of the same `LineageSeat` and `Escrow` |
| `MCEoh`, `EohProofs` | small instances of the contract; its theorems |
| `Runtime` | processes over one ledger file; a step is what lies between two transactions or provider calls |
| `RuntimeProperties`, `MCRuntime`, `RuntimeProofs` | properties, instances of `Runtime`; its theorems and those of `Ranking` |
| `Peers`, `MCPeers`, `PeersProofs` | a node's reader and tracker over a lossy network; instances; theorems |
| `Ranking`, `MCRanking` | the ranker over the ledger of `Runtime`, which goes on writing it; instances |
| `Seed`, `MCSeed`, `SeedProofs` | the resurrection seed beside a publisher that replaces the pointer; instances; theorems |
| `Token`, `MCToken`, `TokenProofs` | the coin; instances; theorems |

How `Arena` corresponds to the code (`EohArena` and `Token` likewise, except
that a revert is always a disabled action):

* An action has the name of its method in CamelCase and the method's keyword
  arguments.  Its guard is the conjunction of the checks; its primed variables
  are the assignments.  A call that raises before its first assignment is a
  disabled action.  A call that raises *after* one is a disjunct of the action:
  a registration whose quorum is bad (the bond stays taken), a `reclaim_bond`
  the commons cannot pay (the bond is forgotten), a `reveal_supersede` that
  loses the comparison (the commit is spent).
* A dictionary with a default is a function over all versions; `None` is
  `Nobody`; a lineage that is not a key of `active_version` is `Unfounded`.
* A version id is the hash of lineage, parent, operator and declaration, so
  those are functions of the id.  A job id is the hash of a nonce, so job `j`
  is element `j` of a sequence.  The commit hash is the tuple it hashes.
* `median_profit` sorts; `MedianProfit` uses order statistics.
* Left out because nothing reads it: `last_ipfs_proof_ts`, `bond_burned`,
  result and payload hashes, verifier sets (the verifier's verdict is what a
  caller brings), `top_versions`.  `mint` before the first call is the constant
  `Genesis`.
* Operators introduced by a comment "Mutant of ..." are mistakes the code could
  have made.  No specification uses them; each is the counter-experiment for
  one property: put in place of the definition it is a mutant of, the property
  must fail.

How `Runtime` corresponds to the code: `rt[v]` is the memory of the process of
version `v`, and `pc` says which transaction or call comes next: `ready` before
the quote, `execute` before the provider, `verify` before `has_receipt`,
`store` before `ingest_receipt`, `check` before `should_halt`, `done` after the
heartbeat of the last cycle.  The steps between two of them touch memory only
and belong to the action before.  A cycle without a halt ends by publishing a
heartbeat, the last one too.  A process ends by a halt, after its loop count
(`Exit`) or by a crash in any state.  `alone`
is the environment's choice, made once, whether processes take turns or run
side by side.  The `(issuer, job)` of a receipt is its kind and job number,
because one provider and one client sign all of them.

How `Ranking` corresponds to the code: it composes `Runtime` with one caller of
`rank`.  `earned_revenue` and `cost` are two transactions, so a row is
made in two steps, revenue first, and any step of a runtime may come before,
between or after them; the start of the window is fixed when the call begins.
The sort is stable, which `Place` states as a count of the rows ahead.

How `Seed` corresponds to the code: `pc` names the step that comes next.  A blob
stands for its bytes and for their hash; a pointer names a blob, and says
whether it carries a signature and a mirror.  `fetch_pointer` reads the file for
all of that, `build_version` reads it again for the signature, and the publisher
may replace or remove it at any moment.  A gateway answers with any blob, fails
with one of the exceptions its fetcher catches, or hangs up inside the body.
`sandbox` is the directory of this run, `fresh` from `mkdtemp` or `given` by the
caller and then used as it is; members are unpacked one at a time into what it
holds.  `pinned` is history: the blobs any pointer ever named.  A crash keeps
the directories and loses the rest.

## 3. Properties and runs

The runs of the arena are bounded by `MaxTime`, `MaxRankedJobs`,
`MaxMarketJobs`, `MaxMinted` and the input sets of their `.cfg`; the contract
by `MaxTime`, `MaxMarketJobs`, its input sets and the tokens its accounts hold;
the runtime and the ranking by `MaxTime`, `Loops` (the code's `mock_loops`) and
`MaxStarts`; the peers by `MaxTime`; the seed by its four blobs and two
gateways; the coin by `MaxTime`, `MaxSupply` and `Amounts`.  The clock is
scaled: an epoch is one or two ticks, `STALE_AFTER` two epochs, a heartbeat's
grace one or two ticks, which keeps the order of the thresholds of the code (a
grace below an epoch, an epoch below staleness) except where a run needs an edge
closer.

Three runs tell several stories and have a constraint that keeps the stories
apart.  TLC checks every property up to the first state outside it and does not
go on from there, so a constraint bounds what is combined, not what is done:

* `SelectionStories` (run `selection`): at most two of the three leaves are
  authorized; where a challenge is committed there is one challenger beside the
  founder, with one commit about an epoch that has a full window, and the story
  ends when it is revealed.  Chains of successions, ejections and vacancy claims
  among three versions are the other story and are not restricted.
* `BooksStories` (run `stale`): once bob, an expense or a mint has moved money,
  two days pass, and no ranked job, second version or rejected registration is
  there.  The clocks of ejection are the other story, over eight ticks.
* `Stories` (run `eoh`): a commit or the long leaf meets no market job, gift,
  donation, expense or cost; a gift meets jobs of one kind at most; an expense
  meets no gift and not jobs of both kinds.

Symmetry is declared where ids are interchangeable - proofs, the two heirs of
one founder, the versions of the ranking, the holders of the coin - and in no
run that checks liveness.

`CHECK_DEADLOCK FALSE` is set for the arena, the contract and the coin, which
are passive (their callers may stop calling, and the bounded clock ends every
behaviour), for the runtime and the ranking, whose processes end, and for the
seed, which is a call that returns.  `peers` checks deadlock.

| Run | Question | Why its bounds suffice |
| --- | --- | --- |
| `market` | Is every token accounted for, do the books explain the vaults, does only the settled job count for rank, is every reward locked, paid or returned as the abstract escrow says, to a version that can still spend it, while seats change hands, and is every escrow released in the end? | two versions, a ranked and a market job with two deadlines: both can be at any stage when the seat moves or is vacated; a donation of two and rewards of two and three, so that vaults are filled by all three ways, spent from, inherited, and divided with and without an heir, odd ones too |
| `selection` | Does the competition for the seat implement the abstract seat, and can one outlier epoch win the median path? | three versions, so that a chain of two successions, an ejection with a choice of heirs, and a vacancy claim all occur; four epochs, so that a full window closes and is challenged |
| `stale` | Do the clocks of ejection ever leave a stale version with a bond, do balances stay non-negative and is every token accounted for? | epochs of two ticks and eight ticks of time: every alignment of registration, profit and ejection inside an epoch; expenses below, at and above the quorum limit, mint, donation and surplus, over two days |
| `eoh` | Do the contract's totals, tokens, escrows and seat stay right under every entrypoint? | two versions, two leaves, one market job, a gift, a donation, an expense and a cost, each paid to alice or to the arena itself, and funding, four epochs; a commit, its reveal and a second try |
| `runtime` | Does a wallet ever disagree with the ledger, is anything counted twice, does a process end? | two versions, two jobs each, three starts: a restart with history, a restart without, and both versions on the same job number |
| `ranking` | Can a ranking read beside its writers show a version better, or more alive, than the ledger does? | two versions with two cycles, one of which may restart; window and timeout of one tick, so that every receipt can be inside, at and outside the old end of the window |
| `peers` | Do reader, tracker and suspicion agree under a bad network? | two peers, one ordered and one reordering link, timeouts of one tick in four instants: every heartbeat may arrive before, at and after each timeout |
| `seed` | Is what runs the whole release that the pointer named, whatever is published, answered or left behind meanwhile? | an old release, a new one without the entry point, one with a refused member and bytes nobody pinned; two gateways and a mirror; the state space is finite without a bound on starts or changes of the pointer |
| `coin` | Is the supply the sum of the balances, and does only credit circulate? | two holders and the pool, two releases, emission in both hours and after the end, a supply of up to twice the initial one |
| `runtime_restart` | Does a version halt as insolvent only when the ledger says so? (no) | one version, two starts |
| `seed_cut` | Does the seed ask every gateway, then the mirror, before it gives up? (no) | as `seed` |
| `coin_cap` | Does emission keep to its cap? (no) | one holder, a period of two hours |

Properties of `Arena` (each is stated in words above its definition):
`Conservation`, `DeadVaultsEmpty`, `VaultsReconcile` about money;
`ImplementsEscrow` about rewards, which includes that each pool is backed by
exactly its unresolved jobs and that an authorization locks one reward ever;
`RankIsSettledJobs`, `MarkCoversProfit`, `ClocksAgree`, `NoOutlierReveal` about
what selection reads; `SeatAgrees`, `SuccessionEnds`, `ImplementsSeat` about the
seat; `StaleForfeitsBond` about the bond; `EscrowReleased` about progress.

Properties of `EohArena`: `Accounted` (the totals are the sums, and the token
covers them), `SurplusExplained` (every entrypoint moves the tokens it books; a
surplus is a gift, or what a version paid to the arena itself), `EjectedEarnedNothing` (ejection reads a timestamp, this compares it
with the economies), and `DeadVaultsEmpty`, `RankIsSettledJobs`,
`NoOutlierReveal`, `ImplementsSeat`, `ImplementsEscrow` as above; here the
buyers' funds of the escrow are the accounts' own tokens.

Properties of `Runtime`: `WalletAgrees`, `HeartbeatMatchesLedger`,
`IncomeHasCost`, `NoDoubleCount` between memory and ledger; `RunEnds`.
`HeartbeatMatchesLedger` speaks of the heartbeat of every cycle, the last one
included.  It holds although a restart empties the wallet, because a
process that restarts with a history can never afford its first job and halts
before it publishes - which is the finding of `runtime_restart`.

Properties of `Ranking`: `RankNeverFlatters` (the order of the two sums makes a
torn read err against the version), `AliveIsNotSilent` (ranking and policy draw
the end of the window on the same side).  Properties of `Peers`:
`RoutableSeenRecently`, `SuspectServesWindow`, `HaltedMeansSilent`.  Properties
of `Seed`: `DiskHoldsPinned`, `RunsWhatWasPinned`.  Properties of `Token`:
`SupplyIsBalances`, `CirculationIsCredit`.

### Fairness

The safety specifications of the arena, the contract, the ranking, the peers,
the seed and the coin have no fairness.  `EscrowReleased` uses `Keepers`:
time passes, for every ranked job somebody eventually calls `expire_ranked_job`
(it is permissionless, and whoever wants the commons funded has a reason to),
and a buyer who is owed a refund asks for it (it is the buyer's own money).
Nothing is assumed of operators, of performers, or of buyers accepting work.

`RunEnds` assumes `WF_vars(Step(v))` for every version: a process that was
started and did not crash is scheduled by the operating system.  Its loop bound
is the code's own (`mock_loops`); nothing is assumed of the provider, which may
fail every time, or of the other process.

### What the repository says and the code does not do

Three statements are refuted by a run:

* `HaltsOnlyWhenBroke`: a profitable version that is restarted has an empty
  wallet, gets no starter credit because the ledger has its receipts, cannot
  afford its first job and halts with INSUFFICIENT_BALANCE, a reason the policy
  reserves for versions that are not earning.
* `EmissionCapped`: from `emissionEnd` on, `collectEmission` mints the cap less
  what circulates, which minting to the pool does not change, on every call;
  before it, each call mints a whole hour's worth, whatever time has passed.
* `FallsBack`: `fetch.py` says that it tries gateways in order and falls back to
  the mirror.  Its fetchers catch `URLError`, `TimeoutError` and `OSError`; a
  gateway that closes the connection inside a body of known length makes
  `read()` raise `http.client.IncompleteRead`, which is none of these, and the
  run ends although the pointer names a mirror, which is never asked.

Others were met while modelling; the modules do what the code does, and no run
asks for them:

* arena model: `create_lineage` and `register_version` take the bond before
  they validate the quorum, so a rejected registration leaves a bond without a
  version (against `docs/FORMAL_PROPERTIES.md` I11); `reclaim_bond` zeroes the
  bond before it finds the commons short; it accepts profit in whichever epoch
  closed last where I11 names the one after registration; a threshold may count
  a repeated signer that a settlement counts once.
* contract: registration takes no bond, an expense meets neither cap nor
  quorum, a stale vault goes to the commons whole (U1, U2, U9 of its header).  An
  expense or a verified cost may be paid to the arena itself, only `address(0)` is
  refused: the version is charged, the tokens stay, and what it spent is surplus
  for the commons (hence the last case of `SurplusExplained`).
* runtime: two processes on one ledger both pass the uniqueness check before
  either inserts, and both receipts are stored; a cycle whose provider fails
  returns before `should_halt`, so OUTSIDE_TOP_TIMEOUT is never noticed; the
  heartbeat carries lifetime profit where the ranker sums a window.
* peers: a late old heartbeat turns the tracker's clock back and lets a sweep
  halt a peer heard of just now (hence `Ordered` in `HaltedMeansSilent`); at
  exactly `HALT_TIMEOUT` the tracker routes to a peer the reader calls dead
  (hence the boundary case in `RoutableSeenRecently`).
* seed: `seed.py:13` promises a fresh sandbox, but a `dest_dir` that is passed
  in is used as it is: files an older release left there lie beside the new one
  (hence the second half of `RunsWhatWasPinned` speaks of `fresh` directories).

## 4. Proofs

| Theorem | States |
| --- | --- |
| `ArenaProofs!TypeCorrect` | `Spec => []TypeOK` |
| `ArenaProofs!SeatCorrect` | `Spec => []SeatAgrees` |
| `ArenaProofs!SuccessionCorrect` | `Spec => []SuccessionEnds` |
| `ArenaProofs!SeatImplemented` | `Spec => ImplementsSeat` |
| `ArenaProofs!DeadVaultsCorrect` | `Spec => []DeadVaultsEmpty` |
| `ArenaProofs!MarkCorrect` | `Spec => [](ClocksAgree /\ MarkCoversProfit /\ StaleForfeitsBond)` |
| `ArenaProofs!ForfeitCorrect` | `Spec => []StaleForfeitsBond` |
| `ArenaProofs!ClocksCorrect` | `Spec => []ClocksAgree` |
| `ArenaProofs!RevealCorrect` | `Spec => NoOutlierReveal` |
| `ArenaMoneyProofs!ConservationCorrect` | `Spec => []Conservation` |
| `ArenaMoneyProofs!ReconcileCorrect` | `Spec => []VaultsReconcile` |
| `ArenaMoneyProofs!LeavesCorrect` | `Spec => []LeavesOnce` |
| `ArenaMoneyProofs!EscrowImplemented` | `Spec => ImplementsEscrow` |
| `ArenaMoneyProofs!RankCorrect` | `Spec => []RankIsSettledJobs` |
| `EohProofs!ContractTypesCorrect` | `Spec => []ContractTypes`, the types with integer totals |
| `EohProofs!ContractTypeOK` | `Spec => []TypeOK` of `EohProperties` |
| `EohProofs!ContractSeatImplemented` | `Spec => ImplementsSeat` |
| `EohProofs!ContractDeadVaults` | `Spec => []DeadVaultsEmpty` |
| `EohProofs!EjectionCorrect` | `Spec => EjectedEarnedNothing` |
| `EohProofs!ContractRevealCorrect` | `Spec => NoOutlierReveal` |
| `EohProofs!ContractEscrowImplemented` | `Spec => ImplementsEscrow` |
| `EohProofs!TokensCorrect` | `Spec => SurplusExplained` |
| `EohProofs!TokensCover` | `Spec => [](Surplus >= 0)`, the last conjunct of `Accounted` |
| `EohProofs!AccountsCorrect` | `Spec => []Accounted` |
| `EohProofs!ContractRankCorrect` | `Spec => []RankIsSettledJobs` |
| `RuntimeProofs!NeverOverdrawn` | `Spec => []TypeOK` of `Runtime` |
| `RuntimeProofs!IncomeCorrect` | `Spec => []IncomeHasCost` |
| `RuntimeProofs!CountedOnce` | `Spec => []NoDoubleCount` |
| `RuntimeProofs!WalletCorrect` | `Spec => []WalletAgrees` |
| `RuntimeProofs!HeartbeatCorrect` | `Spec => HeartbeatMatchesLedger` |
| `RuntimeProofs!FlatteryCorrect` | `RankingSpec => RankNeverFlatters` |
| `RuntimeProofs!AliveCorrect` | `RankingSpec => []AliveIsNotSilent`, if `SURVIVAL_WINDOW <= HALT_TIMEOUT` |
| `RuntimeProofs!TableCorrect` | `RankingSpec => []TableOrdered`, defined in that module |
| `PeersProofs!PeerTypesCorrect` | `Spec => []TypeOK` of `Peers` |
| `PeersProofs!RoutableRecent` | `Spec => []RoutableSeenRecently` |
| `PeersProofs!SuspectCorrect` | `Spec => SuspectServesWindow` |
| `PeersProofs!HaltedCorrect` | `Spec => HaltedMeansSilent` |
| `SeedProofs!DiskCorrect` | `Spec => []DiskHoldsPinned` |
| `SeedProofs!RunsCorrect` | `Spec => []RunsWhatWasPinned` |
| `TokenProofs!SupplyCorrect` | `Spec => []SupplyIsBalances` |
| `TokenProofs!CirculationCorrect` | `Spec => []CirculationIsCredit` |

Those of the arena hold for any sets of lineages, versions and accounts and any
amounts, under the assumptions of `ArenaState`: ids are distinct from `Nobody` and
`Unfounded`, lengths and amounts are naturals, the heir's share is at most the
whole, and `STALE_AFTER >= 2 * EPOCH_LENGTH` (30 days and 7 days).  Those of the
contract hold under `EohAssumption`: distinct ids, natural lengths and amounts,
an epoch and a window that are not empty, and a `block.timestamp` that is never
0; of `STALE_AFTER` only that it is natural.  Where something is summed over
versions or accounts, there are finitely many of them: ids are hashes and
addresses of fixed width.  Of jobs and receipts no bound is assumed; that there
are finitely many at any moment is proved.

* *Sums.*  `SumFunction` is defined by recursion on a set, so that what it
  computes seems to need induction over data.  `SumProofs` goes another way: a
  non-empty collection of subsets of a finite set has a minimal member
  (`SmallestSubset`, from the well-foundedness of the strict subset relation).
  Applied to the subsets on which two sums differ, or no sum exists, it gives that
  the recursion has a solution, that it does not depend on the order in which
  elements are taken, and with that the lemmas every book needs: a sum grows by
  the value of a new element, changes by the change at one or at two elements,
  and is natural over naturals.  The same fact gives a finite set its highest
  member, and that its element at index `n`.
* *Types.*  Each group of variables is shown to keep its type under the few
  effects an action can have on it (debit, credit, move between pools), then
  each action is one of those effects.  The guards of the code (`CanPay`,
  `Sufficient`, the checks on the commons) are what keeps the balances natural.
* *Seat.*  `SeatAgrees` is inductive with `TypeOK`.  The refinement maps the
  seat to `active`, the contenders to the incubating versions and the retired
  to the superseded and stale ones; every selection action is a step of
  `LineageSeat`, every other action a stutter.
* *Succession.*  `SuccessionEnds` says that no set of superseded versions is
  closed under `successor`.  Given `SeatAgrees` it is inductive: a successor is
  recorded when it takes the seat, so that it is active and in no such set, and
  a version that is superseded never comes back.
* *Dead vaults.*  Inductive with `SeatAgrees`: money is only added to a live
  version or to the live holder of the seat, and whoever loses its status loses
  its vault in the same step.
* *Bond.*  `StaleForfeitsBond` is not inductive: ejection compares
  `last_positive_profit_at` with the clock, the slashing helper compares
  `bond_epoch` with the epoch and reads the profit of the last closed epoch.
  `ClocksAgree` ties the mark and the bond epoch to the registration time, and
  `MarkCoversProfit` says a profitable last epoch would have left a recent mark.
  The three together are inductive; that `STALE_AFTER` covers two epochs is
  where the last step uses the assumption.
* *Escrow.*  Every call is reduced to one of three effects on a pool: its deposits
  are kept, one is locked, one is released, and a lemma shows once for each that
  it is a step of `Escrow`.  The ids of the model's ranked escrow are the
  authorizations, so that a second lock of one of them has to be excluded:
  `LeavesOnce` says that every job's authorization is marked used and that no two
  jobs share one.
* *Money.*  Every call conserves what all wallets, vaults and pools hold less what
  was minted (`Conserves`), and either leaves the difference of vaults and books
  (`Explains`) or is an ejection, which takes from the vaults what no book records
  (`Forfeits`).  `Conservation` and `VaultsReconcile` are inductive with `TypeOK`.
* *Rank.*  A call leaves settled jobs and economies alone, or settles one open job
  and books its reward and cost on its winner's current epoch; the sums of the
  other versions and epochs range over the jobs they ranged over before.  For the
  contract the record of a settled job keeps its verified cost as history: the code
  adds it to the economy and emits it.
* *Median.*  `OrderStatistic` shows that the `CHOOSE` behind the median has
  something to choose.  At most half of three or more values lie below it, so
  at least two are not below, and with it they are positive.  For the average of
  the model's even window it is the upper of the two values that is positive,
  because an order statistic is not below an earlier one (`NthGrows`).
* *Contract: types and seat.*  `ContractTypes` takes the four totals as integers;
  `ContractTypeOK` adds that they are natural, which is a fact about the sums they
  are, once `Accounted` is known.  Every entrypoint has
  one of five effects on statuses, pointer and lineages; `SeatInv` (active exactly
  when it holds the pointer, and the pointer only of a founded lineage) makes each
  a step of `LineageSeat`.
* *Contract: ejection.*  `EjectedEarnedNothing` compares the economies with the
  clock, the code compares the mark.  `MarkInv` ties the two: the mark of a version
  is never older than the beginning of an epoch with profit and never ahead of
  the clock, and a version that is not registered has no profit.  The theorem
  needs no relation between `STALE_AFTER` and the epoch length, because the
  contract, unlike the model, does not look at the bond.
* *Contract: tokens.*  Every entrypoint feeds, draws, settles or shifts: the token
  of the arena and the sum of the four totals change by the same amount.  Three
  exceptions are those the property names: gifts, the absorption of the surplus,
  and an expense or a cost that a version pays to the arena itself, which leaves
  the vault and the total and not the token (`SelfPayment`).
* *Contract: totals.*  The three effects of the escrow proof say what a call does
  to open jobs and their total, so that each total is its sum before the call
  exactly if it is afterwards; a payment or an inheritance changes the vaults and
  their total at one version or two.
* *Runtime.*  `TypeOK` alone is not inductive: that a wallet is not overdrawn
  when the expense is debited rests on the check two transactions earlier.
  `RuntimeInv` adds, for every process between the decision and the debit, that
  it can still afford the price and that its pending receipt is its own
  (`Prepared`), and `IncomeHasCost` with, for a process whose client has paid,
  the expense that is already in the ledger.  Assumed: a positive price, and
  durations and amounts that are naturals.  Other processes and crashes only
  add receipts or clear memory, which one lemma shows once for all.
  `CountedOnce` is about processes that take turns: then at most one is up
  (`OneUp`), and a receipt that its process has verified and not yet stored is
  not in the ledger (`Unstored`).
* *Wallet and heartbeat.*  `LedgerInv` says of every running process that its wallet
  is empty or `Explained` by the ledger: totals are the sums of its receipts, the
  balance is credit plus profit.  It carries the second half of the argument as
  well: a process between the decision and the store is not the one with an
  empty wallet, so what it stores and books keeps the two in step.
* *Ranking.*  `RankerInv` says what the ranker may rely on while the ledger grows
  under it: the revenue it has read is not more than the ledger's by now, and for
  every row with a profit there is a receipt that earned it in the window.
  `RankNeverFlatters` needs the first half and the order of the two reads; for
  `AliveIsNotSilent` that receipt is no later than the version's last one.  It
  assumes a window no longer than `HALT_TIMEOUT` (both ship as 30 days), without
  which the statement is false.  `TableOrdered`, about the table that is returned, is
  checked by no run: ranks are distinct and follow the profit because the rows ahead
  of a row are ahead of every row behind it (`PlacesGrow`).
* *Peers.*  `PeerInv` adds to the types that the tracker's clock is never ahead
  of the reader's, equals it behind an ordered link and is set for a live peer
  (`TrackedBehind`), and that whoever was suspected and no longer is has waited
  out the window (`Served`).  Nothing is assumed of the timeouts but that they
  are naturals.

* *Seed.*  `SeedInv` adds to the types that from the verification on, the tarball
  in memory and on disk is the blob of the pointer that was read first
  (`HoldsPinned`), that every member of it is written or still to be written
  (`WritesAll`), and that a fresh directory holds nothing that is not one of its
  members (`NothingElse`).  Assumed: the sets of blobs are what their names say.

* *Coin.*  A transfer moves tokens between two accounts or leaves the one alone,
  a mint adds to one account and to the supply.  `CirculationIsCredit` rests on
  `PoolAllowsNothing`: while the pool spends nothing nobody has an allowance of it,
  so that tokens leave the pool with a new release only.

Only model-checked: `EscrowReleased` and `RunEnds`, which are liveness under
fairness and out of the prover's reach, and the three runs that refute a
statement.  Every other property of a passing run is a theorem.  What stays with
TLC besides is that the instances are not vacuous: the runs fire every action,
and each property fails for a mutant of a definition it is about.

## 5. Not modelled

* *Verifiers and mocks of the contract*: stateless functions of their input.
  `EohArena` takes their verdict, cost and recipient from the caller, so that a
  module of them would have no step of its own.
* *Settlement token of the contract*: external; `EohArena` has its balances and
  moves amounts as `IERC20` calls in `EohArena.sol` do.
* *Providers*: mock quotes and signatures, nothing outlives a call.  `Runtime` has
  the outcomes a cycle can see, success and failure.
* *Coin client*: wraps RPC calls; the economic cycle never makes one.
* *`ReceiptsRegistry.sol`*: one map written once per key and read by nobody; the
  only property would restate its guard.
* *Job tree and release tools, demo, `keccak256.py`*: sequential programs around a
  hash, without state that outlives a call; the contract sees one verdict of them.
* *`top_n`, `alive_versions`, `top_versions`, `fetch_or_raise`*: filters and
  wrappers without a caller in a component that is modelled.

## 6. Plan

Done: the arena model, the contract, the runtime with its ranker, the peers, the
seed and the coin; the two abstract specifications, each implemented by the model
and by the contract; every safety property of a passing run, on small instances
and as a theorem.  Left, in this order:

1. *Lower bounds of the coin*: that while the pool spends nothing, what circulates
   is exactly what credits paid out less what came back.
2. *The daily cap of the model's expenses* over a day's boundary, and the Merkle
   schedule of `make_job_tree.py` against a reference definition.
