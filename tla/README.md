# Stellar-work: a TLA+ development

Stellar-work is a marketplace for freelance work on the Stellar network. Clients post jobs and pay
into a Soroban smart contract, which holds the money until the job ends; a second contract keeps
recurring agreements; a web client is how people use both. This directory specifies the contracts
and the web client in TLA+, checks the specifications with TLC on small instances, and proves the
most important properties with TLAPS for every value of the constants.

## The system and its parts

Lines are those of `contracts/escrow/src/lib.rs` unless another file is named. Files of the web
client are below `frontend/`.

| Part | State | Operations | What is hard | What makes it correct |
|---|---|---|---|---|
| **Job life** (1186-2286, 2508) | `Job(id)`, `JobsCount`, counters per user | post (four entry points), accept, submit, reject, extend, top up, approve, five cancellations | many parties call in any order; the deadline passes in between | a job moves along its life cycle only, terms are fixed, nobody joins who may not |
| **Custody** (5373-5425, 5636-5727) | `JobEscrowBalance`, `TotalEscrowBalance`, `TokenActiveEscrow`, `TokenFees`, `BurnPool`, balances | internal to every call | eleven paths end a job and each must update all of it | the ledgers agree, every unit put in comes out once |
| **Fees** (2550-2585, 3240-3296, 5880-5912) | base rate, ten tiers, exemptions, late fee, burn share | setters, `calculate_fee_for_amount` | truncation, overflow of products, rates read at settlement | divisions are whole and not negative |
| **Disputes, oracles** (2288-2466, 4416-4648, 5110-5264) | raiser, deposit, assignment, registry | raise, resolve, split, verdict, registry | fees and registry change between raising and deciding | the deposit returns, no dispute is stuck |
| **Approvals** (1053-1162, 1869-2011) | approvers, records, threshold, quorum | settings, multi-approver branch of `approve_work` | records outlive what they approved | only a full quorum releases a large payment |
| **Access, hold, pause, limits, ratings** (607-742, 3360-3410, 3680-3760, 3990-4116) | lists, flags | setters, checks at the head of other calls | settings change under running jobs | joins are admitted, held and frozen jobs do not advance |
| **Incentives** (956-1040, 3883-3987) | codes, links, earnings, onboarding bonus | register, credit, withdraw, claim | paid from the common balance | credited once |
| **Nonces** (1165-1249) | `ClientNonce`, its counter | post with nonce | retry of a call that may have landed | a nonce names one job, the client's own |
| **Archive** (4271-4402, 5459-5506, 5594) | `ArchivedJob`, `AllJobIds`, `CompletedAt`, `CancelledAt` | archive, unarchive | a job lives under one of two keys, its id in a list or not | a job is in exactly one place, and no money is put away |
| **Recovery** (4816-5095, 5537) | stuck threshold, signers, proposals | propose, approve, execute | a timelock against a job that moves on | a job that ended is not paid again |
| **Administration, upgrade** (2873-2952, 3784-3877) | admin, nomination, pending upgrade | direct transfer, two-step transfer, timelock | both ways of transfer interleave, proposals are replaced | no nomination outlives its maker, code waits |
| **Retainer contract** (`contracts/retainer/src/lib.rs`) | agreements, windows of calls, trusted addresses | create, renew, cancel, export, import | either party renews at any time, inside a window of his own | renewals are paced and bounded |
| **Calls to the contract** (`lib/stellar.ts`, `lib/contract-retry.ts`, its banner) | attempts, circuit, queue of failed writes | call, retry, queue, sweep, reset | answers get lost, attempts are repeated, the page is reloaded | what a call reports is all that came of it unless a verdict was missed, no queued write is lost but by a shared id, calls end |
| **Page of a job** (`app/job/[id]/page.tsx` and what it shows) | job, dialogs, event stream | six actions, subscription, description, views, similar jobs | wallet and job change while requests are under way | one write at a time, news never dry up |
| **Dashboard, lists, home feed** | lists, caches, selections, filters | load, page, act on several, swipe, pull | aborted and overtaken loads, gestures that outlive what they began on | a gesture does what was offered, every hash is fetched |
| **Posting** (`app/post-job/page.tsx`) | form, draft, limit, estimate | edit, upload, estimate, submit | the wallet changes under the form | one submission at a time |
| **Profile, celebration** | portfolio, availability, resume | edit, highlight, share | kept in this browser, shown against the contract | highlights are earned |
| **Messages, meetings, notices** | threads, slots, preferences in local storage | send, read, propose, confirm | two tabs with copies of their own | no two confirmed meetings overlap, unread counts agree |
| **Administration and disputes pages** | log, lists, flags, announcements | withdraw, switch, publish, resolve | shared storage, role chosen on the page | one write at a time |
| **Wallet, network** (`lib/wallet-context.tsx`, `lib/network-*.ts`) | session, terms, attempts, network | connect, restore, switch, leave | timers and watchers beside what the user does | consent is asked, leaving is final |
| **Transactions** (`app/transactions`) | two histories, export | load, page, export | the ledger grows while it is read | an export has no gap and nothing twice |

**How they interact.** Every entry point of a contract is one atomic transaction on its storage; a
panic rolls all of it back. There is no concurrency inside a call: the interleaving is the order in
which calls of clients, freelancers, approvers, signers, oracles, relayers and the administrator are
executed, with the ledger's clock moving between them. The web client is asynchronous: a page asks,
goes on, and is answered later; local storage is shared by the tabs; every page reaches the contract
through the one layer of calls. Contract and client are composed where they meet for a page: the
client sees jobs that other people move while it works.

## Modules

### The contracts

| Module | Models |
|---|---|
| `SorobanEnv` | the addresses that call and the ledger's clock, common to both contracts |
| `FeeMath` | rates, tiers, truncating and overflowing arithmetic; every way a job can end yields a *split*, the shares of client, freelancer, fee ledger and burn pool |
| `Custody` | the variables of the escrow contract; the shared guards; `set_job` with its counters, `set_escrow_balance` with its totals, transfers, and `Settle`, the end common to all paths |
| `JobLifecycle` | one action per entry point from posting to approval and cancellation |
| `Disputes` | raising, the three ways to decide, deposits and oracles |
| `Settings` | one action per setter, with the bounds it checks, and the calls that pay money out beside jobs |
| `Escrow` | their composition: `Init`, `Next`, `Spec`, `TypeOK`; the sets the inputs come from |
| `EscrowLedger` | the abstract specification: a job is funded, may be topped up while alive, and is divided once and in full |
| `EscrowProperties`, `EscrowClaims` | what must hold, with the refinement mapping to `EscrowLedger`; statements of the repository that the contract does not keep |
| `Lists` | a list without some of its members, for the list of ids and the queue of failed writes |
| `Records` | what is kept beside a job: stamps, list of ids, archive, nonces; `EscrowCall` is any call of `Escrow` with the stamps it sets |
| `Recovery` | emergency recovery of a stuck job |
| `Governance` | administrator, nomination, upgrade with its timelock |
| `Retainer` | the retainer contract |
| `Contracts` | both contracts on one clock |
| `EscrowProofs`, `LedgerProofs`, `GuardProofs`, `SolvencyProofs`, `ContractsProofs`, `ListProofs` | the proofs |
| `MCEscrow`, `MCContracts` | the instances for TLC |

**State.** A storage key that is absent reads as a default (`unwrap_or`), so each per-job key is a
total function holding that default. Boolean keys are sets of those for which they are true; what
the code writes together, such as the set and the count of approvals, is one variable. `paid`,
`depositPaid`, `sentWith`, `nominator` and `announced` are history variables: they record what
happened and guard nothing. `jobs[j]` is the record of job `j` wherever it is stored, under `Job(j)`
or `ArchivedJob(j)`; `archived` says which.

**Actions.** A call that panics or returns an error is an action that is not enabled. The signature
of the caller (`require_auth`) is the choice of the actor; setters check for the administrator first
and the model lets only him call them. Only `Governance` minds who the administrator is. The token
contract, whose code is not part of the repository, is modelled by its transfers: it refuses what
the balance does not cover, and negative amounts.

**What is abstracted.** Descriptions, categories, visibility, metadata, events, the audit log,
storage rent and views. The bonus branches of `approve_work`, `cancel_job` and `relay_cancel_job`
need a stored bonus above 0, which posting never writes. The cool-down and milestone constants are
used nowhere. `rate_job` writes a rating that nothing reads. One referral code stands for those of a
referrer. Tokens other than the native one differ only in name. Times are natural numbers: the
additions of `Retainer` and `Recovery` that could exceed 64 bits, at intervals of billions of years,
are left out.

### The web client

| Module | Models |
|---|---|
| `Browser` | what pages share: wallet, jobs moved by others, requests and their answers, `ui` and `store` |
| `JobPage`, `JobExtras` | the page of a job and its actions; event stream with fallback, description, views, similar jobs, the confirmation dialog |
| `Dashboard`, `JobLists` | the dashboard, actions on several jobs, bookmarks; batched reads, order, widgets, recent calls |
| `HomeFeed`, `HomeWidgets` | the feed and its cache; filters, search, preferences, swiping, pulling, fetching of descriptions |
| `PostJob`, `Profile`, `Talk`, `Desk`, `Wallet`, `Transactions` | the parts of these names in the table above (`Desk`: administration and disputes pages) |
| `RpcClient` | `callContract` with attempts, backoff, circuit breaker, the queue of failed writes and its sweep, the banner, reloads, and the fate of each transaction on the ledger |
| `Client` | the composition, with fairness |
| `ClientProperties`, `ClientClaims`, `MCClient` | properties, a statement that does not hold, the instance for TLC |
| `ClientProofs`, `RpcProofs` | the proofs |

A mounted page or widget is the record `ui`, the part of local and session storage it uses is
`store`. Two pages or widgets that share no state are not interleaved with each other: `focus` names
the one a behaviour is about, the initial state picks it, and one run explores all of them. A
request is an element of `asks`: it is made by one action, answered by another (`...Answer`, at any
time, with what is true then, or with an error), and what the page does with the answer is a third
(`...Step`). Several may be under way and they are answered in any order. Closures that keep an old
value keep it in the request (`arg`, `seen`). Two tabs, where the code shares storage between tabs,
are two copies in `ui`. Texts, layout, icons, translations, and animation are left out.

Operators named `Fault_...` are wrong versions of the definition below them. They take part in no
specification; substituted for it they must break the property they are paired with, which shows
that the property can tell the difference.

## What is checked

### The contracts

`QuietInputs` closes every optional call; each instance opens those its question is about. Inputs,
jobs (`MaxJobs`) and the clock (`MaxTime`) are the bounds; `maxAmount` bounds top-ups and
`maxRatings` ratings. `CHECK_DEADLOCK FALSE` is right: when all jobs allowed have ended, time is at
its bound and no setting is open, nothing is left to do.

| Run | Instance | Shows |
|---|---|---|
| `life` | 1 job, 2 users, time 0..4, top-up, three deadlines, four shares, late fees of 15% and 100%, exemptions | types; escrow entries match the status; a job that ended was divided in full; only legal moves; fixed terms |
| `two_jobs` | 2 jobs, 3 users, 2 tokens, limits of 1, a relayer | totals and counters kept by differences agree with the jobs |
| `disputes` | 1 job, 2 oracles, i128 narrowed, tiers, changing deposit, oracle fee lowered | solvency, deposits, a way out of every active job |
| `approvals` | 1 job, 3 users as approvers, quorum 1 to 3, threshold on both sides of the amount, holds | quorum, attestations, holds |
| `access` | 1 job, blacklist, whitelist, ratings, relayer, pause, onboarding bonus | who may join, who may move a job |
| `upkeep` | both contracts (`MCContracts`), see below | referrals, burning, archive, nonces, nominations, upgrades, renewals; all of it still implements `EscrowLedger` |

Why these bounds are enough: no guard relates more than one job except the limits, the counters, the
list of ids and the common balances, for which two jobs are checked; three users are the fewest
among whom one can be client of one job and freelancer of another with a third party beside them;
time 4 lets a job be late, be extended and be on time again. Rates of 25%, 50% and 33.33% on amounts
of 7 and 12 make every division truncate. Where `I128_MAX` is small, products overflow at amounts
TLC reaches; the guard is the same at 2^127-1.

`upkeep` explores one *concern* at a time: what the calls of one concern write no call of another
reads, but for the jobs, so their interleavings add nothing that a concern with the life of a job
does not have. *Incentives*: two jobs of referred clients, all ends, burning, the onboarding bonus.
*Records*: posting with nonces 0 and 1 (0 is also what the counter reads before any use), jobs that
end, archive with a cutoff below and above now, return, again and again. *Recovery*: a job that two
parties and a dispute carry through its whole life while proposals on it (two at most), approvals of
two signers of whom two are needed, changes of threshold and of signers go on. *Administration*: two
users and two hashes of code. *Retainers*: one agreement, intervals of 0 and 1, up to two renewals,
limits of one call in two units of time, lifted and set again. Time goes to 2 and every timelock is
1, so that each can be too early, in time and late.

Three instances deserve a word. `Solvent` is checked without referral earnings, without onboarding
bonuses and with an oracle fee that can only fall: otherwise it is false, see below. In `access`
only the Jobs module can be paused, since Payments is a module that no call asks about.
`NoEscrowTrapped` is stated with `ENABLED`; its guards are proved.

### The web client

Run `client` explores every page and widget, and the layer of calls, with two users and two jobs.

| Bound | Value | Why enough |
|---|---|---|
| `JobIds`, `PageSize`, `AdminPageSize` | 2, 1, 2 | the page's own job and another; a second page exists |
| `MaxAsks` | 2 | one answer can overtake another |
| `BatchCount`, `BatchPageSize`, `MaxConcurrent` | 7, 2, 2 | two groups of batches, the last one short |
| `Hashes`, `FetchLimit` | 3, 2 | one hash must wait |
| `MaxTokens`, `PageLimit`, `ExportLimit`, `ExportCap` | 7, 1, 2, 3 | several pages, transactions arriving between them, a limit that cuts |
| `FeedWallets` | the worker | the wallet is switched under a dialog, a call or a refresh of the feed; one that leaves only allows less |
| `Methods` | a read, a write the contract accepts again | two writes of one method, with their own arguments, may fail in one millisecond |
| `MaxCalls`, `MaxAtOnce`, `MaxRetries` | 2, 2, 2 | two calls interleave; a first and a last attempt |
| `Threshold`, `Cooldown`, `QueueSize` | 2, 1, 2 | a failure below, at and above the threshold; the clock passes the cool-down; the sweep meets a queue that changes |
| `MaxMeetings`, `MaxMessages`, `MaxNotices`, `MaxRecent`, `MaxCompare`, `MaxPostsPerHour`, `MaxSkills`, `MaxLinks`, `MaxHighlights` | 1 or 2 | below the limit, at it, and refused |

| Property | Says |
|---|---|
| `WritesOneAtATime` | where a page shuts its buttons during a write, no second one starts, by any dialog or change of wallet |
| `NeverBlind` | a page that watches its job has the event stream or polls |
| `SimilarMatchesChoice` | an old search never replaces a newer one |
| `SwipeWasOffered` | a gesture does only what the card offered when it acted |
| `DescriptionsPumped` | the fetcher keeps to its limit, does not idle, forgets no hash |
| `StoredIsShown` | network, recent calls, resume and notices shown are those stored |
| `HighlightsEarned` | only completed work is highlighted |
| `UnreadAgrees`, `MeetingsDisjoint` | counts kept beside messages agree with them; confirmed meetings do not overlap in any tab |
| `ConsentAsked`, `StaysDisconnected` | who has not accepted is asked; who left stays away after a reload |
| `ExportComplete` | an export is in order, has nothing twice and no gap, while the ledger grows |
| `ReportsAreComplete` | unless a call gave up on a transaction without its verdict, it took effect at most once, and not behind an error |
| `SuccessWasApplied` | what is reported as confirmed was applied |
| `LostOnlyBySharedId` | a queued write leaves because it was retried with success, the user emptied the queue, the queue was full, or another write has its id |
| `CallsEnd`, `CircuitRecovers` | liveness, below |

Reloads (the crash and restart of a page) and lost answers are actions of `RpcClient` and `Wallet`:
what is not in local storage is gone afterwards, what was sent may have been applied or not.

### Liveness and fairness

The contracts take no step by themselves: they only answer calls, and nothing obliges anybody to
call. Fairness would be an assumption about people and not about the code, so their specification
assumes none; instead `NoEscrowTrapped` says that a call that ends the job, or hands it over, is
always possible.

The layer of calls does go on by itself. `CallLayerGoesOn` is weak fairness of the next step of each
call that has begun (an answer, an error, or a timer of the code ends every wait; polling gives up
after a fixed time), of the ledger's verdict on a transaction that was sent, of the clock, and of
the timer by which the banner looks at the circuit once a second. Nothing is assumed of users, nor
that answers are good. Under it `CallsEnd` (no retry, backoff or poll goes on for ever) and
`CircuitRecovers` (an open circuit closes, unless the breaker is switched off) hold.

### Statements the code does not keep

* `claim_bonus_refunded`: a bonus passed to `post_job_with_categories` is transferred with the
  amount but stored as 0. No call returns it, and no ledger accounts for it.
* `claim_hold_freezes`: `freelancer_cancel_job`, `enforce_deadline`, `mutual_cancel`,
  `raise_dispute` and `relay_cancel_job` do not look at the hold (neither does `execute_recovery`).
* `claim_on_time_is_free`: a recorded late fee is never cleared. Deliver late, have it rejected, get
  an extension, deliver on time: the fee is charged.
* `claim_escrow_backed`: the referral bonus comes on top of a division that already gives everything
  away, and is paid in native tokens from the common balance. The onboarding bonus, and an oracle
  fee raised after the deposit was collected, have the same effect.
* `claim_every_job_fetched`: after a rate-limit error `useBatchJobs` asks for the first half of its
  page and goes on to the next; the promise resolves without the other half.

## What is proved

Proofs hold for every value of the constants that satisfies the assumptions of the modules: the
native token is a token, "no one" is not an address, bounds and timelocks are natural numbers,
inputs and initial settings have their types; in the client, limits are positive, job ids are
positive (`next_job_id` counts from 1), time slots are pairs of numbers, a captcha is asked for before
failures stop being counted. TLC evaluates these assumptions on every run.

| Module | Theorem | States |
|---|---|---|
| `EscrowProofs` | `TypeCorrect` | `[]TypeOK` |
| `LedgerProofs` | `MoneySafe` | `[](EscrowMatchesStatus /\ SettledInFull /\ CancelledFreeOfFees)` |
| | `LifeIsLegal`, `TermsNeverChange` | `LegalMoves`, `TermsAreFixed` |
| | `LedgerImplemented` | `ImplementsLedger` |
| `GuardProofs` | `QuorumIsNeeded`, `HoldStopsProgress`, `BlacklistFreezes` | `QuorumReleases`, `HeldDoesNotAdvance`, `FrozenWithParties` |
| | `JoiningIsChecked`, `DepositsAreReturned` | `OnlyAdmittedJoin`, `DepositReturned` |
| | `AttestationsAreClean` | `[]AttestedUndisputed` |
| | `CountersAreRight` | `[]CountersMatchJobs`, if no call changes the limits |
| | `CountersNeverDrift` | `[]CountsMatchJobs` and that no call exceeds a limit of the moment, however limits change |
| `SolvencyProofs` | `LedgersAlwaysAgree` | `[]LedgersAgree` |
| | `AlwaysSolvent` | `[]Solvent`, if nothing is paid out of the common balance and the oracle fee does not rise |
| | `SolventTokenByToken` | the same of each token by itself |
| | `NobodyIsTrapped` | the guards of `NoEscrowTrapped`: `[](Solvent => NobodyTrapped)`, and job by job |
| `ContractsProofs` | `ContractsMoneySafe`, `ContractsKeepLives`, `ContractsImplementLedger` | the same of both contracts together, with archive, nonces, recovery, administration |
| | `ContractsStaySolvent` | `[](LedgersAgree /\ Solvent)` of both contracts, under the hypothesis of `AlwaysSolvent` |
| | `ContractsGuardJobs`, `ContractsCountJobs`, `ContractsCountWithinLimits`, `ContractsTrapNobody` | what `GuardProofs` and `NobodyIsTrapped` say, of both contracts |
| | `RecoveryUnfreezes`, `RecoveryRefundsOnce` | who may move a frozen job now; `[]RecoveredOnce` |
| | `ContractsAreTyped` | `[]ContractsTypeOK` |
| | `BurnIsAccounted`, `ReferralsPayOnce` | `[]BurnAccounted`, `[]ReferralCreditedOnce` |
| | `ArchiveHoldsNoMoney` | `[]ArchivedSettled` |
| | `EveryJobIsKept` | `[]JobsKeptOnce` |
| | `NoncesNameTheirJobs` | `[]NonceNamesItsJob` |
| | `GovernanceImplemented`, `RetainerImplemented` | on the common clock, both behave as they do alone (`GovernanceSpec`, `RetainerSpec`) |
| | `NominationsAreCurrent`, `UpgradesWait`, `RenewalsArePaced` | `[]NominationIsCurrent`, `UpgradeWaits`, `[]RetainersPaced` |
| `RpcProofs` | `RetriesAreSafe`, `SuccessIsReal`, `WritesAreRemembered` | `[]ReportsAreComplete`, `[]SuccessWasApplied`, `LostOnlyBySharedId` |
| `ClientProofs` | `CallsAreSafe` | the three of `RpcProofs`, of the whole client |
| | `OneWriteAtATime`, `ExportsAreComplete` | `[]WritesOneAtATime`, `[]ExportComplete` |
| | `NewsNeverStops`, `SimilarJobsMatchTheChoice` | `[]NeverBlind`, `[]SimilarMatchesChoice` |
| | `SwipesAreOffered`, `DescriptionsKeepFlowing` | `[]SwipeWasOffered`, `[]DescriptionsPumped` |
| | `ConsentIsAsked`, `DisconnectedForGood` | `[]ConsentAsked`, `[]StaysDisconnected` |
| | `NoDoubleBooking`, `UnreadCountsAgree` | `[]MeetingsDisjoint`, `[]UnreadAgrees` |
| | `HighlightsAreEarned`, `StoredListsAreShown` | `[]HighlightsEarned`, `[]StoredIsShown` |

**Escrow.** `TypeOK` is inductive by itself, shown one lemma per call. For the money, the roughly
sixty calls fall into five shapes (`MoneyStep`): jobs and their money stay the same (*Calm*), a job
is *Opened*, its record *Edited*, its amount *Raised*, or it is *Closed* with a split whose shares
are natural numbers adding up to the amount. `EveryStepIsMoneyStep` proves this once for all calls.
It needs the arithmetic lemmas about each split of `FeeMath`: with truncation the parts add up, and
only the guard on the payout keeps the freelancer's share from being negative. The inductive
invariant (`CancelInv`) joins the three money invariants, because none is inductive alone: a closing
job pays what the *record* says, so the record must agree with the escrow entry, and an opened job
must be the next free one, with an empty history. Each theorem then follows from the shapes.
`LedgerImplemented` maps `stage` to the status, `pot` to the escrow entry and `shares` to `paid`,
and shows that *Opened* and *Raised* put in, *Closed* divides, and the rest stutters.

**Who may move a job.** A second classification (`GuardedStep`) keeps the guards: a job is
`PostedBy`, `AcceptedBy`, `EditedBy`, `ReleasedBy` or `CalledOffBy` a user, is `JudgedBy` somebody
else, or nothing about it changes. Each definition says what the caller had to be and what the call
leaves alone, and each theorem is one pass over the seven kinds. `HeldDoesNotAdvance` needs that
only a posted job is ever held, since otherwise a posting would change a held one;
`AttestedUndisputed` needs that a job not yet disputed bears no trace of a dispute, and that an
active job has paid nobody, which is the money invariant. Both join the induction (`GuardInv`).

**Counters.** `set_job` moves the counters of the client and of the freelancer from the difference
of two records. `StepIsChange` proves that what it computes for a user is the change of his
membership in the set of jobs counted, given that no active job has one user on both sides
(`TwoParties`, part of the induction), and that a freelancer is only ever put where there was none.
`OneMember` turns that into cardinalities. The limits follow since a set that grows passed the
check, as long as no call lowers a limit. `CountersNeverDrift` does without that hypothesis: the
counts are right under any change of the limits, and a step that makes the set of a user's active
jobs larger leaves it within the limit that step has read (`WithinLimits`). A limit set below what a
user has therefore takes no job from him and only stops him from engaging again.

**The books.** `LedgersAgree`, `Solvent` and `BurnAccounted` compare a number moved by differences
with a sum over all jobs. The library defines sums by a fold over a set; what it computes for every
set would be shown by induction, which the prover cannot instantiate. `SmallestSet` stands in for
it: among the sets of a nonempty family one has the fewest members. Applied to the sets for which a
statement fails, it gives the few facts needed: equal functions have equal sums (`SumsAgree`), a sum
changes by what one entry changes (`SumChange`), and grows with its entries (`SumMonotone`). The calls are classified once more, by what they do to the books
(`BookStep`): a job is *Noted*, *Funded*, *Contested* or *Divided*, or money moves *Outside* jobs;
each kind changes one summand.

`Solvent` is not inductive: it speaks of escrows, burned shares, open deposits and fees, but the fee
of an assigned oracle also lies in the balance until the verdict, and the verdict pays it. `Covered`
adds that share for every open dispute that has an oracle, which needs that an oracle is assigned by
raising a dispute and not before (`AssignedInDispute`); solvency follows since no share is negative.
The hypothesis `NoPayout` (no withdrawal of referral earnings, no onboarding bonus, no rise of the
oracle fee) cannot be dropped, as the run `claim_escrow_backed` shows; it allows every other call,
and the instance of the run `disputes` satisfies it. `Covered` is kept for each token by itself, and
so is what it needs: `NoPayoutIn(t)` asks for no bonus paid in `t`, and about earnings and the oracle
fee only if `t` is the native token. Elsewhere solvency holds whatever is withdrawn.

**The way out of a job.** `NoEscrowTrapped` says with `ENABLED` that an active job can be ended now.
The guards of the four calls are written out (`MayCancel`, `MayGiveUp`, `MayPart`, `MayRefund`; the
lemma `WaysOutAreGuarded` only confirms that they are those of the calls), among them that the
balance covers what is paid (`Payable`). `NobodyIsTrapped` proves them. Three facts join the induction (`WayOutInv`): every active job
has its parties (`Staffed`), no settlement books a negative fee (`FeesOwed`), and no call pays out
more than there is (`NeverOverdrawn`). A sum of natural numbers is no less than one of them
(`OneOfMany`), so a contract that owns what it owes in a token can pay each single job in it; of
other tokens the call moves nothing. What `ENABLED` would add is that values for the assigned
variables exist; that step, from guard to `ENABLED`, stays with TLC.

That a referrer earns half a percent of *one* approved job per client needs that the best share
among a client's approved jobs never shrinks (`SharesGrow`), hence that an attested job keeps its
record, and that whoever was credited for is linked to a referrer (`Credited`). `CreditStep` names
the calls that matter: an approval attests a job and may credit, all others attest nothing and let
earnings only fall.

**Both contracts.** `ContractStep` shows that every step of both contracts is a `MoneyStep` again: a
recovery is one more *Closed*, which needs that a job that has not ended is active; archive,
administration and retainer are *Calm*. So the escrow theorems carry over, and those about the books
in the same way, a recovery being one more *Divided*. Administration and retainer read and write
nothing of the escrow contract but the clock, which only moves forward: the composition implements
their own specifications, and what is proved of these alone holds of it. The archive invariant
adds that archived jobs are untouched by other calls, the nonce invariant that jobs not yet posted
bear no nonce and that a job bears the nonce under which its client finds it. For the guards,
`GuardedCall` is a `GuardedStep` or a recovery: that asks neither parties nor hold nor judge, only a
proposal that is due and approved (`Ripe`). It is therefore the one further way in which a job with
two blacklisted parties may move. A posting with a nonce is the same `CreateJob` as any other.

**Recovery.** That no two proposals recover one job follows since the first recovery ends the job
and a job that has ended is not recoverable. That it waited for the timelock after the *posting*
needs that the stamp of a posted job stays (`PostedKeeps`), because a proposal copies a time computed from
the stamp when it is made; and that the client got it whole needs that a settled job's division
stays as it is (the same lemma).

**Administration.** `NominationIsCurrent` is inductive with the types. `UpgradeWaits` needs that a
pending deadline is that of the *last* proposal of the pending hash (`DeadlineOfLastProposal`).

**Retainer.** That `n` renewals took `n` intervals is not inductive: each renewal is measured from
the one before. `Paced` therefore bounds the time of the last renewal from below, and the property
follows from it.

**Calls.** `ReportsAreComplete` is not inductive: it says what has come of transactions, and not why
there is at most one of them. `CallInv` adds that a call that missed no verdict sends one transaction
and then waits for it: it has sent none before it polls, and exactly one from then on, whose verdict
is what it returns. `LostOnlyBySharedId` is about the queue of failed writes. An entry's id is its
millisecond and its method (`Id`), so that it may be shared; a new entry takes the place of one with
its id, and a sweep removes by the id of *its copy* of an entry once a call made for that copy has
ended well. `QueueInv` says why that call is a later one for the same write whenever the ids are not
shared: entries, queued or copied, are those of calls that have begun, and a sweep waits for a call
that began after the entry in its hands. `CallsAreSafe` carries all three over to the client, whose
pages leave this layer alone.

**Lists.** `archive_old_jobs` filters the list of ids, the client its queue, an export its rows. `Without` is
a recursive function rather than `SelectSeq`, which the prover cannot look into. `ListProofs` shows
that the function exists and what it returns: the members that are not gone, no more often than
before. As with sums, a smallest counterexample takes the place of induction (`FirstOf`). With that,
`JobsKeptOnce` needs only that list and archive divide the ids given out and that the list has none
twice (`KeptInv`).

**Pages.** Since `focus` never changes and a step of one page is a step of no other (`PagesApart`),
each theorem needs an invariant of its page only. Some properties are inductive once the shape of
`ui` is known (`NeverBlind`, `SwipeWasOffered`, `StoredIsShown`). Others need more. `SimilarInv`:
a search that has been overtaken is marked as cancelled when the next begins, so that every search
not so marked is for the present key. `WalletInv`: after leaving, the stored flag is off, and after
the reload only requests the user made are under way. `MeetingsInv`: each copy of the list is free
of overlaps by itself, since a confirmation is checked against the list that is then stored.
`MessagesInv` asks of counts only that they are natural numbers or absent; the proof shows that
delivery, reading and deletion move count and marks together. `ProfileInv`: what the draft and every
answer under way call completed is completed, and stays so. `DescriptionsInv`: requests under way
are for active hashes, no two for the same; the queue has no hash twice and none that is active, so
that each answer frees one place and the next in the queue takes it.

`WritesOneAtATime` says that no page has two writing calls under way. What a page does to that end
is set a flag, which is not the fact itself: the flag is checked at the click, cleared by an answer,
and other requests run besides. For each page the invariant names the *chain* that the flag stands
for, and says that what the click set stays until the chain has ended. On the page of a job the
chain is an action with its consent and its reload, and the flag is `loading`; in the feed it is the
call and the refresh after it, with the marks for acting, for the dialog and for cancelling
excluding each other. A bulk cancellation has a total other than 0 and its dialog closed while it
runs, and a change of the wallet aborts its fetches but not its calls. Posting and the two calls of
the administration page keep their own flag, whatever is read meanwhile; connecting and switching
share one.

`ExportComplete` is about a file that is put together from pages of a ledger which grows meanwhile.
`Gathered` says of the rows so far that they fall, reach down to the cursor and lack nothing above it;
`PageGathered` carries this over one page, whose omissions are all older than what it has (`PageIs`).
New transactions do no harm because every page asks for what is older than its cursor. The lists
themselves come from `NewestFirst`, which picks the falling list of a set; that there is one
(`ListedExists`) is again shown by a smallest counterexample.

Only model-checked: the step from the proved guards of `NoEscrowTrapped` to `ENABLED`; and liveness
(`CallsEnd`, `CircuitRecovers`), which the prover does not do.

## Noticed while modelling

These are what the code does, as modelled. They have no run of their own.

*Escrow contract.* `resolve_dispute_split` with a share of 10000 completes the job where
`docs/TOKENOMICS.md` says both resolutions cancel it, and leaves the deposit where it is, as
`submit_verdict` and `execute_recovery` do; with equal shares the raiser loses the deposit, while
the comment at 5146 says 50% wins; three of the four posting entry points ignore a paused Jobs
module, and no call asks about Payments. `is_job_stuck` speaks of the time "in its current status"
(5534) but counts from the posting, so a job that has just been submitted can be proposed for
recovery; whether it is stuck is not asked again at execution; a threshold of 0 needs no approval,
and approvals outlast the removal of the signer. A job that returns from the archive has lost the
time of its end, so that the time of its posting stands in and it may be archived again at once.
`get_jobs_batch` panics on a page with an archived id. Seven calls that move a job record no event,
so that an indexer cannot reconstruct state as 816-818 says it does. An upgrade proposed by a former
administrator waits for his successor to execute it.

*Retainer contract.* The window of the limit is fixed, not sliding as `docs/retainer-reference.md`
has it, so nearly twice the calls fit into a window's length; `interval_ledgers` is compared with
timestamps; `import_job` looks at nothing that was exported; an agreement completes only by a call
one interval after its last renewal, while the tests (`contracts/retainer/src/lib.rs:511-528`,
540-551, 850-856) and `docs/retainer-reference.md:9` expect it completed by that renewal. `RetainersPaced` takes no side in this: it asks that a completed
agreement has had all its renewals.

*Calls.* A wallet on another network raises an error whose text counts as a network error, so it is
retried, counted and queued although `stellar.ts:329` says it is rejected; an error
while polling is retried, which repeats the transaction; so is a poll that times out if the hash at
the end of its message happens to contain 429 or 503, since retryable errors are told by looking for
such texts (`contract-retry.ts:115`); two writes of one method, for two jobs say, that fail in the
same millisecond have one id, and one of them is lost; the circuit is looked at only
when a call starts; a result reported as failed on the ledger closes it; a retry by hand leaves the
queued copy to be swept as well. A transaction still pending is returned like a confirmed one.

*Pages.* `postJob` is called with eight arguments where nine are expected, so that encoding throws
and nothing can be posted from the page: `PostJob` models this, and what follows a success is
unreachable there. `resolveDispute` gets percent where basis points are due and encodes a named
struct as a vector. Fifteen methods that `lib/contract.ts` calls are not in the contract. A
celebration starts and success messages appear after calls that failed. Overlapping loads of the job
page, of the dashboard after a change of wallet, and of the transactions page are not ordered: an
older answer may replace a newer one. The feed shows an empty list from page 2 on. The dashboard
remembers one job under action, so a second click on another card, then on the first, repeats a
write. Clicking the active criterion of similar jobs shows the skeleton for ever. Two tabs overwrite
each other's bookmarks and meetings. `rescheduleProposal` is handed to the card of a meeting, which
never calls it (`app/meetings/page.tsx:385`, 413, 423), so that no meeting is moved. The accounts
watcher sets a new wallet without clearing what belonged to the old one. "Net flow" subtracts the fee
twice. A banner in the page's own tab never removes its listener.

## Not modelled

* **Event log and replayer.** The log is only appended to and never pruned; a cursor over it cannot
  go wrong by any order of calls. Since seven calls are not recorded, it is no second account of the
  state with which the first could be compared. The replayer folds a file once, in memory.
* **Attachment Merkle tree.** Pure functions of hashes, correct if the hash is; a model would have
  to assume what it should show.
* **Metadata, visibility, audit log, views, storage rent.** Writes of single keys that no modelled
  guard reads.
* **`app/page.tsx`** holds the remains of a merge, with two default exports; the home feed is
  modelled from its components.
* **Settings, templates, calls, palette, onboarding, layout.** Little state, which meets nothing
  else.
* **Encoding of arguments** in `lib/contract.ts`, apart from the one that throws: conversions
  without state.
* **Deployment, monitoring, load tests, `old_lib.rs`.** No program state.
