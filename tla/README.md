# StellarInsure in TLA+

A verification project for StellarInsure: parametric insurance on Stellar, made of
two Soroban contracts (`smartcontract/`), a FastAPI backend (`backend/`) and a
Next.js frontend (`frontend/`). The modules are translated from the source; TLC
checks small instances of them, and TLAPS checks proofs that hold for every value of
their constants.

`PROJECT.json` gives, for each definition, the lines of the source it models, for
each run its properties, for each property a slip in the code that it notices, and
the hazards the properties are for.

## 1. Inventory

| Component | State | Operations | Modelled in |
|---|---|---|---|
| Insurance contract (`lib.rs`, `storage.rs`, `policy.rs`, `types.rs`) | policies, claims, policy counter and cap, pause flag, premium and payout totals, links to a token and a pool | create, pay, claim, cancel, increase, extend, renew, change beneficiary, check expiration; process a claim; settings and pause | `StellarInsure` |
| Admin board (`multisig.rs`, `lib.rs`) | admin list, threshold, votes per policy | add, remove, set threshold, vote | `StellarInsure` |
| Risk pool contract (`risk_pool.rs`, `storage.rs`) | positions, provider list, total liquidity, total yield, reserve ratio | add and withdraw liquidity, distribute and claim yield, fund a payout, set the ratio | `RiskPool` |
| Premium calculation (`premium.rs`) | none | the price of a policy | `Premium` |
| Soroban and the token contract | balances | transfer, storage writes, overflow traps | `Soroban` (external) |
| Oracle entry points (`oracle.rs`, `lib.rs`, `storage.rs`) | oracle registry, quorum, last price and its timestamp, freshness window | update the feed, set window and quorum, register, update, remove, verify, trigger | `OracleTrigger` |
| Backend: policies, claims and the cache of lists | SQL rows, Redis entries, what each worker is at | create, list, cancel, claim, decide, delete a claim or the account | `PolicyCache` |
| Backend: payments of premiums | transactions, idempotency records | record a payment, or replay it | `PaymentRecords` |
| Backend: webhooks | webhooks, deliveries, background tasks | create, update, delete, dispatch, deliver with retries | `WebhookDelivery` |
| Frontend: drafts (`use-autosave.ts`) | React state per tab, two keys of localStorage, timers | edit, save, discard, undo, adopt another tab's draft | `Autosave` |
| Frontend: creating a policy, wallet | steps, form, providers, submission; connection | the page's buttons, the extension's answers, timers | `CreatePolicy`, `WalletProvider` |
| Frontend: a policy's page | loading, support form, payment dialog | edit, submit, pay, close | `PolicyDetail` |
| Frontend: history and retries | filters, page, details, retry panel | filter in transitions, page, expand, retry | `TransactionHistory` |
| Frontend: claim form, documents | form, evidence, preview, checks, files | edit, preview, submit, attach, remove | `ClaimForm`, `DocumentUpload` |
| Frontend: deposits and withdrawals | two dialogues, balance | choose, enter, confirm, close, reopen | `PoolFlows` |
| Frontend: settings, address book | form, saved form; entries per window and stored | edit, save; add, edit, remove | `SettingsPage` |
| Frontend: header, notifications, introduction, banner, toasts | flags, lists, timers | open, read, clear, go on, dismiss | `AppShell` |
| Frontend: network, theme, copy button | the choice and what is saved of it, feedback | choose, warn, follow the system, copy | `HeaderControls` |
| Frontend: pagination, claim list | the address, filters | page, filter, sort | `ListControls` |
| Frontend: unsaved changes, optimistic lists | pending navigation, items with their status | guard, confirm, add, answer, retry | `PageHooks` |
| Frontend: session, gate, a claim's page | session and its stored copy, navigation, the claim loaded | sign in and out, redirect, load, reload | `Access` |
| Everything else | | | see section 6 |

How they interact. The insurance contract calls the token (`transfer`) and, once an
admin has linked it, the pool: `pay_premium` sends the premium to the pool's account,
records it as liquidity of the insurance contract and distributes it as yield;
`process_claim` has the pool pay. Both contracts share `storage.rs` (each in its own
instance storage). The backend keeps its own copy of policies and claims in SQL and
is never called by the contracts; its workers share the database and Redis, and each
keeps its background tasks in memory. The frontend's pages, as committed, work on
fixtures: they wait for timers, for the wallet extension, for the browser's storage
and for the router, but for no server.

What is hard in each part, and what makes it correct:

* *Insurance contract.* An invocation is atomic, an error undoes it, so the hazards
  are sequences of calls: a claim is checked against the coverage when it is filed
  and paid later, while other claims, renewals, increases and the clock go on; its
  amount is stored twice; two authorities (the `Admin` key by `process_claim`, the
  board by `vote_claim`) settle the same claim; expiry is visible before it is
  stored. Correct: never more paid than covered, each claim paid once, whole, to its
  policyholder, policies that ended stay so, the treasury totals match the tokens.
* *Board.* The quorum changes while votes are open. Correct: the threshold can always
  be met and a vote cannot run out of voters before it is decided.
* *Premium.* Divisions round before what they leave is multiplied on, the surcharge jumps
  at the tiers' borders, each product may overflow. Correct: the price stays near the
  exact one, never above it but for the minimum, and more never costs less.
* *Risk pool.* Two structures hold the providers, a total is kept beside the
  positions it sums, shares are rounded, i128 is signed and its subtractions are not
  checked for sign. Correct: registry and positions agree, nothing goes negative,
  yield is not created or forfeited, one provider's calls leave the others alone.
* *Oracle entry points.* An error undoes the pause that came before it, except where
  the caller swallows it; the approval path is a third one and differs from the other
  two; list and entries of the registry are written apart; price, window, registry and
  quorum change while a claim is pending. Correct: what is paid stays covered, by a
  fresh price and a full quorum.
* *Both contracts together.* Providers and the pool's admin call the pool between the
  insurance contract's invocations. Correct: the premiums it holds are exactly the
  insurance contract's contribution and were shared out.
* *Backend.* Handlers of several workers interleave between look, commit and
  invalidation; Redis fails silently; commits that belong together are separate;
  tasks die with their worker. Correct: a cached list is wrong only for a reason that
  the code has and never longer than its time to live, answers of payments stand, and
  a delivery's record says what the endpoint said.
* *Frontend.* Timers and answers outlive the state they belong to, a user may press
  anything meanwhile, and tabs share localStorage. Correct: nothing is sent twice, what
  is shown is so, what is awaited comes, and edits and decisions are kept.

## 2. Modules

| Module | What it is |
|---|---|
| `Soroban` | Integer widths (`Fits`), token transfers, storage maps. External code as the contracts use it. |
| `Premium` | `calculate_premium`: annual base, duration, tier surcharge, minimum, and `CanPrice`, the inputs for which no product overflows. |
| `RiskPool` | The pool as a state machine of its own. The effect of each entry point is an operator on the pool's record (`Deposited`, `Distributed`, `Funded`, ...), because the insurance contract makes the same calls inside its invocations. |
| `StellarInsure` | The insurance contract, board and treasury; extends `RiskPool` and `Premium` and composes with them. |
| `OracleTrigger` | The oracle entry points; extends `StellarInsure` with the registry and the feed. `verify_oracle_condition` is the operator `Verifies`: called from outside it changes nothing, because the pause it sets is undone by the error it returns. |
| `InsuranceWithPool` | `StellarInsure` with `RiskPool`'s direct calls in between. |
| `CoverageLedger` | What a policyholder is promised: an account with a limit, of which one claim at a time is opened, paid in full or declined, until it is closed. |
| `PolicyCache`, `PaymentRecords`, `WebhookDelivery` | The backend's three stateful parts; `Backend` puts them side by side. |
| `Autosave` | Drafts in several tabs. |
| `WalletProvider`, `CreatePolicy` | The wallet, and the page that signs by it; the latter extends the former. |
| `PolicyDetail`, `TransactionHistory`, `ClaimForm`, `DocumentUpload`, `PoolFlows`, `SettingsPage`, `AppShell`, `HeaderControls`, `ListControls`, `PageHooks`, `Access` | The other pages, controls and hooks; `Frontend` puts them side by side. |
| `Lists` | `Array.prototype.filter`, with which the address book, the optimistic list and the queue of messages remove entries and the validation of files keeps what is valid. |
| `MCRiskPool`, `MCStellarInsure`, `MCOracleTrigger`, `MCInsuranceWithPool`, `MCAutosave`, `MCCreatePolicy`, `MCFrontend`, `MCBackend` | Instances for TLC, the refinement mapping to `CoverageLedger`, and the statements of documents and tests that the code contradicts. |
| `Arithmetic` | Lemmas about products, quotients, sums over finite sets and folds of lists. |
| `RiskPoolProofs`, `StellarInsureProofs` (premiums too), `OracleTriggerProofs`, `InsuranceWithPoolProofs`, `CreatePolicyProofs` (drafts too), `FrontendProofs`, `BackendProofs` | Theorems and their proofs. |

### Contracts: how state and actions correspond to code

* One action per entry point, with its name in CamelCase. The guard is every
  condition under which the invocation does not return an error or trap. Whatever
  an invocation wrote before failing is undone by Soroban, so failed calls are
  stutters. `pay_premium` and `process_claim`, which call other contracts, are one
  action: the nested calls fail or succeed with the whole.
* `require_auth` is what the parameters of an action stand for: a policyholder acts
  on policies of their own, the `Admin` key belongs to `Founder`, and the board's
  calls are made by any listed address.
* Instance storage is variables; `Policy(id)`, `Claim(id)` and `ClaimVotes(id)` are
  functions on the identifiers in use. Address lists that are only searched and
  pushed to after a search are sets.
* `token` holds the balances of the one asset in use. `now` is the ledger clock.
* `get_policy` shows an Active policy past its end as Expired: `StatusOf`. Entry
  points that store this and then fail undo it, so only `CheckExpiration` (and
  renewal, which overwrites it) has an effect of its own.
* `yield_claimed` is not storage: it sums the amounts that `claim_yield` returns,
  so that over-allocation can be stated across claims.
* `premium`, which a caller of `create_policy` passes, is refused unless it equals the
  calculated one: it is no parameter of `CreatePolicy`.
* `register_oracle` and `update_oracle` write the same; the latter's requirement only
  makes it rarer, so both are `RegisterOracle`. The price itself is read by no entry
  point, only its timestamp. The caller of `evaluate_oracle_trigger` is the `Admin`
  key or the type's oracle, either of which exists for every registered type.
* `beneficiary` is stored and changed but never paid: payouts go to the policyholder.
* Left out as data no property reads: trigger conditions and proofs (with their
  length limits), start times, events, error codes. Subtractions that i128 allows to
  go below zero are plain integers; the type invariants say that they never do.

### Backend

* The deployment runs several `uvicorn` workers. Handlers are `async` functions that
  call the database and Redis synchronously, so a worker serves one request at a
  time, and workers interleave at the calls. A request is cut where another worker's
  step can matter: its look at the rows, each commit, the look-up of the keys, their
  deletion. `WorkerStops`, `WorkerDies` and `Stopped` may come at any cut.
* `cache.py` catches every error of Redis, so each call may have no effect. Its time
  to live is one `Tick` of the model: an entry is gone before a second one. A worker's
  reading of a list and its setting of the entry fall into one tick (`NothingRead`);
  the time to live is five minutes.
* `slips` records for the property when something happened that can leave a list
  wrong: the handlers that do not invalidate (`submit_claim`, `delete_account`), an
  invalidation lost, a list overtaken by a commit.
* In `PaymentRecords` a request is its key and its transaction hash. An integrity error
  rolls back the commit it comes from and nothing before.
* In `WebhookDelivery` an endpoint may answer 2xx, answer something final, answer
  something worth a retry, or not answer within the limit, although the post may
  have arrived. Deleting a webhook deletes its deliveries; the task that is at it
  raises, and with that ends.
* The three parts share no state: `inUse` picks one at the start.

### Frontend

* The state of a component is one record variable (`detail`, `history`, `claim`, ...)
  whose fields are its `useState`s and `useRef`s with their names where possible, plus
  the timers and promises it has under way; a constant `...Mounted` is the state after
  mounting. `Autosave` has one such record per tab and the shared `localStorage`.
* One action per event handler, effect or timer callback. A state set in a handler is
  seen by the next handler; a transition, a storage event's render and a navigation
  come later and are actions of their own (`RenderAdopted`, for instance).
* A timer that the code cancels is cancelled in the action that does it; one that it
  does not cancel stays, also after the page is left, where the callback still has an
  effect (`LateTimer`, orphaned retries, dismissals, abandoned withdrawals).
* In `Access` a user signs in by a component that calls `signIn`, as those of the tests do.
  A write to sessionStorage may fail, after which reloading the page brings back what was
  stored before. The other pages behind the gate are modelled as opened by a signed-in user.
* Writes to `localStorage` that may fail where it matters are two outcomes of the action:
  the address of the wallet (`WalletGrants` ends in `error` with it), the network
  (`SetNetwork` throws before the menu and the warning are closed) and the theme
  (`ToggleTheme`), besides those of `Autosave`. Other tabs write the theme and the network
  (`OtherTabChooses`, `OtherTabSetsNetwork`); nothing in the page listens to it.
* The fields `outside` of `claimList`, `apart` of `network` and `unsaved` of `theme` are not
  the code's: they record for the property alone that the address was changed by others,
  that the saved network need not be the one set here, that the last choice was not
  stored. No guard and no other field depends on them.
* The arrow keys of the settings' tabs start at the tab that has the focus, which stays
  where it is: `ArrowRight` and `ArrowLeft` have it as their parameter.
* Answers of the wallet extension come when its user decides, or never.
* Texts are values of small sets or right/wrong; layout, wording, focus, sharing and
  downloading are left out.
* `Frontend` fixes at the start which part is in use. Pages are mounted alone and the
  parts share no state, so that nothing is lost by not interleaving them; what is
  shared (wallet, draft) is in `CreatePolicy` and `Autosave`.

A definition named `Bad...` stands just before the definition it is a slip of: a
dropped guard, a forgotten reset, a rounding the wrong way. The specifications never
use it. `mutants` in `PROJECT.json` pairs each property with the slip that, put in
place of the right definition, makes TLC report that property violated.

## 3. Runs

| Run | Question | Instance | Distinct states |
|---|---|---|---|
| `pool_safety` | Do the pool's books hold up under every order of calls? | two interchangeable providers, amounts 1..3, ratios 2/10 and 5/10, liquidity up to 6, yield up to 5, an account of 3 tokens | 270,250 |
| `claims_votes` | Can a vote get stuck, or decide another claim than was filed? | three admins, one policy, claims of 1 or 2 out of 2 | 46,896 |
| `policy_lifecycle` | Does one policy keep its promise through its whole life? | coverage 2 or 3, durations 1 or 2, clock 0..4, grace period 1, one admin | 30,810 |
| `treasury` | Do tokens, totals and policies agree on each payment path? | two holders, up to two policies, a pool that may be linked at any moment | 846,976 |
| `oracle_trigger` | Does the third way of approving keep the promises of the other two? | one holder and policy (coverage 2), types Price and Weather, windows 1 and 0, quorums 1 and 2 (0 refused), clock 0..2, timestamps 0..3, claims of 1 and 2, a pool that may be linked | 660,736 |
| `pool_with_insurance` | Do the pool's books account for both of its users? | one provider and the insurance contract, amounts 1 and 2, ratio 5/10, liquidity up to 4, yield up to 3, one policy | 764,548 |
| `draft_autosave` | Is an edit kept, whatever the other tab does? | two tabs, two drafts, two moments of editing, one failing write | 118,920 |
| `create_policy` | Can the page get stuck, or sign twice? | types with two providers, with one and with none, drafts of another tab blank or complete, with and without the wallet extension, one late answer | 791,878 |
| `frontend_pages` | Do the other pages keep what they promise while timers and answers come late? | two or three of each thing, see the configuration | 85,011 |
| `backend` | What do workers running beside each other, dying, or without Redis leave behind? | two workers, a policy, a claim, two filters; two keys and hashes, two payments; two webhooks, an event, three attempts | 761,069 |
| `stale_votes`, `undo_discard` | Does the code do what this comment or test says? | those of `claims_votes` and `draft_autosave` (the answer is no) | |

Passing runs, property by property:

* `pool_safety`. `PoolTypeOK`: no withdrawal or payout makes an amount negative,
  although contributions exceed the liquidity once payouts were made.
  `RegistryConsistent`: the provider list and the entries agree, so that
  `distribute_yield` neither fails nor skips anybody.
  `LiquidityIsContributionsLessPayouts`: the separate total is explained.
  `YieldNotOverAllocated`: floor shares never add up to more than was distributed,
  *as long as the pool has paid nothing out*. After a payout the denominator is
  smaller than the sum of the contributions and more can be credited than was
  distributed; `fuzz_tests.rs` (188-191) says the same, so the property carries that
  condition. `ProvidersKeepTheirOwn`: a provider's call changes no other position,
  and no yield is forfeited by withdrawing.
* `claims_votes`. `ThresholdAttainable`; `OpenClaimMatchesRecord`: the amount opened
  on the policy is the claim record's; `VotingCanGoOn`: after a vote that settles
  nothing some admin has still to vote, even though votes of removed admins count on.
* `policy_lifecycle`. `LifecycleSound`: payments and open claims stay within the
  coverage (`CoverageRespected`), a policy is closed exactly when it is exhausted
  (`ApprovedMeansExhausted`), claims are filed in term (`ClaimsFiledInTerm`).
  `StopsHold`: a policy that ended stays so and a pause freezes the business, with the
  code's exceptions (it does not stop `process_claim`). `ImplementsLedger`: the contract
  implements `CoverageLedger` under `LedgerOf`.
* `treasury`. `TreasuryReconciles`, `PayoutsAreClaimsPaid`, `OnlyPendingClaimsPay`.
* `oracle_trigger`. `OracleRegistryConsistent` (the quorum is counted over a list, the
  caller is authorised by an entry), `PricePaysOnlyWhenFresh` (with windows narrowed
  and timestamps ahead of the clock), `OraclesApproveInQuorum` (with oracles removed
  and quorums moved while the claim is pending), and again `CoverageRespected`: the
  oracle's payout is not added to `total_claimed`, and coverage holds only because the
  policy is closed at once, so that nothing can be claimed again.
* `pool_with_insurance`. `PremiumsAreContributions` (what the pool's account holds is
  explained by payouts and premiums), `PremiumsSharedOnce`.
* `draft_autosave`. `DraftsIdentified`: the times by which tabs decide who is newer do
  identify drafts. `SavedMeansStored`: "Draft saved" is true of the tab that wrote last.
  `EditsAreSaved`, `NoTabStaysBehind`: edits reach storage, and what is stored reaches
  every open tab, unless a write failed or was torn (a save that falls between the
  adoption of another tab's draft and its render).
* `create_policy`. `WalletConsistent`: one request at a time, and nothing but its answer is
  awaited while connecting; connected, there is an address, and an address without a
  connection is what a request leaves that was granted but could not be stored
  (`wallet-provider.tsx:148`), until the next one is answered. `PageSound`: providers on the
  page are those of the draft's type and one is selected (`ReadyForType`); the last step
  always waits for something or offers a way on, although the 1200 ms timer is never
  cancelled (`NeverStuckSubmitting`); and a draft has the provider of *another* type only if
  it was brought in with it, or by the effect of `create-page-client.tsx:398-408`, which
  selects the first of the providers still on the page when the type changes
  (`ForeignOnlyFromBefore`). The code does the latter, see section 4; a late load or a
  choice of the user's never makes such a draft. `OneSubmissionAtATime`. `AwaitedArrives`:
  what is signed gets its receipt unless the page is left, and providers come in.
* `frontend_pages`, one property per question, each a conjunction over the parts:
  `NothingIsSentTwice` (support packets, payments, claims), `MoneyMovesAsConfirmed` and
  `DepositsWithinBounds` (deposits and withdrawals), `ScreenIsTrue` (listed errors,
  outages, eligibility checks and what is concluded from them, filters in the address,
  unread counts, the dialog about unsaved changes, the claim behind the gate),
  `WithinLimits` (types, files, pages, the introduction), `AwaitedComes` (packets,
  retries, checks, withdrawals, notifications, toasts, feedback of copying, the session
  and the claim), `EditsAreKept` (settings edited during a save, addresses edited and
  removed in two windows), `DecisionsStand` (mainnet left after a warning only, a
  chosen theme, confirmed items; who is turned away has no session left to come back).
  Three of the parts depend on what others may do to the address or to `localStorage`, and
  say until when they hold. `FiltersInAddress`: the address names the filters on screen
  until somebody else changes it on the same page (Back, a link), for the list reads it
  only when it is mounted (`claim-history-list.tsx:104-106`), and again from the next filter
  that is set. `MainnetLeftKnowingly`: a warning on screen asks about the network that
  mainnet is left for, and a reload leaves it only where this page could not save its
  choice, or another tab has saved one since. `ThemeAsChosen`: changes of the system leave
  a chosen theme alone, what newly appears is what the next visit will show, and the
  choice is forgotten by a reload only if it could not be stored.
* `backend`. `ListsAreRecent`: a cached list that differs from the rows is about to be
  invalidated, or something slipped within its time to live. `AnsweredForGood`: once
  a payment was answered, its key names that transaction for good.
  `OutcomeAsReceived`: delivered means that the endpoint said so, given up that it
  never did, pending that the task is at it or lost. `TasksConclude`: no endpoint's
  silence holds a task up for ever.

Bounds and why they are enough. Amounts 1 to 3 against coverages 2 and 3 give a
claim below, at and above what is left, two partial payouts that exhaust a policy,
and an increase in between. Two providers with contributions 1..3 give shares that
round; liquidity up to 6 lets a provider deposit twice before the other does. Three
admins are the fewest for which removal, a threshold of 2 and a split vote meet.
The clock to 4 with durations of 1 and 2 and grace 1 reaches a decision after the
end, renewal inside and after the grace period, and the `MAX_U64` trap (5). The
price constants put the coverages 2 and 3 into two price tiers and make the minimum
premium bind for an increase by 1 and nothing else. The overflow traps that are
reached are the reserve's product in `pool_safety` and the sum of time and duration
in `policy_lifecycle`; the other sums stay below `MAX_I128`. `Seed` is what accounts
hold when the contracts are deployed; the contract is funded, as the repository's
tests do, since otherwise no first claim could be paid. Two tabs, two workers and two
windows are what a race needs; two moments of editing let each tab be the newer one;
two policies, filters, files or pools are what an answer for the wrong one needs; three
attempts have a first, a middle and a last. Three transactions on pages of two make
a second page that a filter removes. Named checking bounds in guards: `MaxTime`,
`MaxLiquidity`, `MaxYield` (in `InsuranceWithPool` also for the yield that premiums
add), `MaxNow`, `MaxFailures`, `MaxRequests`, `MaxPackets`, `MaxOrphans`,
`MaxEvidence`, `MaxChecks`, `MaxBatch`, `MaxAbandoned`, `MaxLoads`, `MaxMoves`,
`MaxCopies`, `MaxItems`, `MaxPayments`.

The contracts' configurations leave deadlock detection on: the admin may always pause
or unpause, and the pool's admin may always set the ratio. The frontend's and the
backend's switch it off: a page really stops when its user does nothing more and
its timers have run out, a task really ends, and the bounds on visits, timers,
payments and moments of editing run out.

`PoolHasToken` says whether the pool's storage has a token address. In the code as
committed nothing writes it, so the deployed value is `FALSE`, and no claim can then be
approved through the pool. `treasury`, `oracle_trigger` and `pool_with_insurance` set it
to `TRUE`, the deployment that `integration_test.rs` expects, so that payouts by the
pool are checked as well; with `FALSE` the same properties hold over fewer behaviours.

Fairness. Weak fairness is on what neither a user nor a server has a hand in:

* the frontend's own timers and the promises it makes of timers: in `Autosave` the
  500 ms debounce, the delivery of storage events and React's render; in `CreatePolicy`
  the loading of providers (650 ms), sending (1200 ms) and confirming (2000 ms); in
  `Frontend` the packet (420 ms), a retry (1500 ms), a check (800 ms), a withdrawal
  (2000 ms, a timer in the page), notifications (500 ms), toasts (5 s), copying (1.8 s),
  the claim (240 ms) and the effect that reads the session;
* in `Backend` the steps of a delivery task: a post ends with its time limit
  (`webhook_delivery_timeout`) and a backoff with its sleep.

None is on users, on the wallet's user, on requests or on the contracts, which act only
when called. What stands in for progress there are safety properties: the threshold
can be met, a vote can go on, a policy with cover left is not closed, a page that waits
for the wallet says so.

## 4. Disagreements between code and documents

1. `stale_votes`: `process_claim` leaves the votes on the claim it settles; they count
   towards the policy's next claim. `storage.rs:67` says votes are cleared.
2. `undo_discard`: undoing a discard is offered and does nothing, because the discard
   counts as an edit newer than the backup; `use-autosave.test.ts:73` expects the draft.

Further ones that the actions show at a glance and that have no run:

* Removing an admin or lowering the threshold can decide an open vote, which
  nevertheless stays pending, for the outcome is evaluated only when somebody votes;
  `lib.rs:1057` says it is automatic.
* No payout through the pool works as deployed (`PoolHasToken`);
  `integration_test.rs:103` expects it.
* An oracle's approval is not what `process_claim` does, which `docs/ORACLE.md:319`
  shows in its place: the amount is not counted as claimed, the open amount stays, and
  coverage that is left is lost.
* Oracle types that the contract does not know verify everything; a test
  (`test.rs:1258`) expects an error.
* The reserve is a share of the liquidity and looks at no claim;
  `docs/ARCHITECTURE.md:233` says pending claims block withdrawals.
* An increase of coverage is priced by the amount added alone, so that a policy raised
  into a higher tier pays no surcharge; `premium.rs:121` says that it is added when a
  policy's coverage amount falls in a higher tier.
* A rejected claim leaves the policy Active, where a test (`test.rs:211`) expects
  `ClaimRejected`; renewal is priced anew (`lib.rs:1199` says at the original premium);
  `add_liquidity` moves no token (`storage.rs:39` says "currently held");
  `update_price_feed` may pause the contract on anybody's call
  (`docs/ARCHITECTURE.md:221` says only an admin pauses); `vote_claim` pays from the
  contract also when a pool is linked (`docs/ARCHITECTURE.md:158` has the pool pay).
* A payment whose worker died between its two commits fails on every replay, by the
  unique hash; `routes/transactions.py:51` promises the original record.
* A draft resumed at the review step was never validated by the step before it, whose
  tests are in `app/create/page.test.tsx` (51, 73).
* Seven pages are behind `ProtectedPage`, but no component calls `signIn`: as committed
  they can be reached only with a session that something else has stored, or one
  restored from an earlier load.
* Where a draft's type changes while providers are on the page (another type is chosen
  after going back, a draft is adopted), the effect of `create-page-client.tsx:398` selects the first
  of the old ones, which the new type's selector does not offer. The page goes on with it:
  the review step shows "Not selected" and the receipt the bare id (line 456).
* Back, or a link to the list of claims with other filters, changes the address and not
  the list: `claim-history-list.tsx:104` reads it in the initialiser of a state.
* A network or an address of the wallet that cannot be stored is nevertheless in use:
  the switcher's warning stays open, and the wallet shows an error beside its address.
* The gate sends a signed-out visitor away once; if another navigation supersedes that
  one and ends on the same page, the page stays blank, for the effect does not run again.
* The policies list page reads `item.item` and calls functions that
  `use-optimistic-list.ts` does not return: it throws at its first render.
* `api-error-boundary.tsx` uses its count of errors as key, so that catching an error
  mounts the failing children anew.

As committed the crate refers to `DataKey::OracleQuorumThreshold` and
`Error::InvalidQuorumThreshold`, which are not declared, so it does not compile. Only
the quorum uses them; `OracleTrigger` models it as written, with the key present.
Components that no page uses are modelled from their own code: the claim form and claim
list, the deposit dialogue, pagination, the toast queue, file validation, the guard.

## 5. Proofs

| Theorem | Says |
|---|---|
| `PremiumRounded` | above the minimum, a premium is at most the exact price (`Exact / Denominator`), and short of it by less than `Lost` |
| `PremiumGrows` | more coverage, duration or rate never costs less, and what is refused for its size stays refused when it grows |
| `PoolTypeCorrect` | `PoolSpec => []PoolTypeOK` |
| `RegistryCorrect` | `PoolSpec => []RegistryConsistent` |
| `ProvidersCorrect` | `PoolSpec => ProvidersKeepTheirOwn`, an action property |
| `LiquidityCorrect` | `PoolSpec => []LiquidityIsContributionsLessPayouts` |
| `YieldCorrect` | `PoolSpec => []YieldNotOverAllocated` |
| `TypeCorrect` | `Spec => []TypeOK` |
| `ThresholdCorrect` | `Spec => []ThresholdAttainable` |
| `TreasuryCorrect` | `Spec => []TreasuryReconciles` |
| `LifecycleCorrect` | `Spec => [](LifecycleSound /\ OpenClaimMatchesRecord)` |
| `RecordCorrect`, `PaidCorrect` | `Spec => []OpenClaimMatchesRecord`, `[]PayoutsAreClaimsPaid` |
| `StopsCorrect`, `VotingCorrect`, `PayoutsCorrect` | `Spec => StopsHold`, `VotingCanGoOn`, `OnlyPendingClaimsPay`, action properties |
| `LedgerImplemented` | `Spec => Ledger!LedgerSpec`, where `Ledger` is `CoverageLedger` over `LedgerOf` with `Amount <- Nat` |
| `OracleTypeCorrect` | `OracleSpec => [](TypeOK /\ OracleTypeOK)` |
| `OracleRegistryCorrect` | `OracleSpec => []OracleRegistryConsistent` |
| `OracleTreasuryCorrect` | `OracleSpec => []TreasuryReconciles` |
| `OracleCoverageCorrect` | `OracleSpec => []CoverageRespected` |
| `PriceCorrect`, `QuorumCorrect` | `OracleSpec => PricePaysOnlyWhenFresh`, `OraclesApproveInQuorum`, action properties |
| `SystemTypeCorrect` | `SystemSpec => []TypeOK` |
| `SystemRegistryCorrect` | `SystemSpec => []RegistryConsistent` |
| `PremiumsRecorded`, `PremiumsShared` | `SystemSpec => []PremiumsAreContributions`, `[]PremiumsSharedOnce` |
| `WalletSafe` | `CreateSpec => []WalletConsistent` |
| `OneSubmission` | `CreateSpec => []OneSubmissionAtATime` |
| `PageCorrect` | `CreateSpec => PageSound`, invariants and the action property `ForeignOnlyFromBefore` |
| `DraftsTold`, `SavedIsStored` | `AutosaveSpec => []DraftsIdentified`, `[]SavedMeansStored` |
| `DetailSafe`, `ClaimSafe`, `SentOnce` | `FrontendSpec => []NothingIsSentTwice`, in two halves |
| `DepositSafe`, `WithdrawalSafe`, `MoneySafe` | `FrontendSpec => []MoneyMovesAsConfirmed`, in two halves |
| `DepositBounds` | `FrontendSpec => DepositsWithinBounds`, an action property |
| `OutageAlwaysKnown`, `AddressNamesFilters`, `ScreenCorrect` | `FrontendSpec => []OutageIsKnown`, `[]FiltersInAddress`, and all of `[]ScreenIsTrue` |
| `EditsKept` | `FrontendSpec => EditsAreKept`, action properties and `[]AddressesDistinct` |
| `MainnetSafe`, `ThemeSafe`, `ConfirmedSafe`, `SignedOutSafe`, `DecisionsHold` | `FrontendSpec => DecisionsStand`, in four parts and together |
| `LimitsHold` | `FrontendSpec => []WithinLimits` |
| `AnswersStand` | `BackendSpec => []AnsweredForGood` |
| `ListsExplained` | `BackendSpec => []ListsAreRecent` |
| `OutcomesTrue` | `BackendSpec => []OutcomeAsReceived` |

They assume the `ASSUME`s of the modules they are about and nothing else: any numbers
of holders, providers, admins, policies, workers, webhooks, any amounts, durations,
rates and widths. TLC evaluates the assumptions in each run. Some were found by the
prover: `AddressNamesFilters` needs that no filter is called `"none"`, `PageCorrect`
that "no type" and "no oracle" name none (`CreateAssumption`), and the optimistic list that
the items it begins with are a list (`HooksAssumption`). `LimitsHold` needs that the
bounds on what is under way are natural numbers, that there are finitely many ids of
messages and of entries of the address book, since no longer list of distinct ones is in
the type, and that the history has a transaction (`HistoryAssumption`; the page's list is
written in its source): with none there is no page.

The argument, for the contracts. Each effect operator has a lemma that it keeps the
type (`DepositedType`, `WithdrawnType`, ...), proved field by field; a step lemma has
one case per entry point. `PoolTypeOK` is not inductive by what `withdraw_liquidity`
checks of contributions alone: that liquidity stays a natural number rests on the
reserve being non-negative (`ReserveType`), and that is why the lemma about withdrawal
uses the reserve check. The registry invariant is proved together with the type, since
a distribution's lookups need both. `TreasuryReconciles` needs no strengthening beyond
the type: `Held` names what contract and pool hold, each payment changes it by what it
adds to a total (`CollectHeld`, `PaymentHeld`), and holders and the two accounts are
distinct by `ContractAssumption`. `CoverageRespected` is not inductive alone. A payout
adds the *record's* amount, so `OpenClaimMatchesRecord` is needed; that a closed policy
is exhausted, and conversely, needs the payout to have been within coverage; renewal
and expiry need `ClaimsFiledInTerm`'s half about `Expired`. The four are proved as one
invariant, `LifecycleInv`, which says `Sound(p)` of every policy; each entry point
writes one policy (`OthersSound` handles the rest).

The action properties and the refinement follow from the type and `LifecycleInv`.
`StopsHold`: `HolderChange` and `DecisionChange` say that each entry point writes only a
policy that is Active, Expired or ClaimPending. `VotingCanGoOn` is about sizes
(`SomebodyLeft`): a claim stays pending only while the approvals are short of the
threshold and the rejections leave enough admins to reach it, and then the two together
are fewer than the admins, also when votes of admins removed since are among them.
`OnlyPendingClaimsPay`: premiums take from holders (`CollectGives`), a payment gives to
one holder (`PaymentGives`), and by `LifecycleInv` the amount of the claim record is the
policy's open claim. `LedgerImplemented` maps the sale to `Issue`, `submit_claim` to
`OpenClaim`, an approval to `Pay`, a rejection to `Decline`, the cancellation to `Close`
and a higher coverage to `Raise` (`SaleIssues`, `HolderLedger`, `DecisionLedger`);
premiums, renewals, expiry, beneficiaries, votes that decide nothing and the board's
calls leave the ledger alone. That an approval pays what the account has open, and
within its limit, is `LifecycleInv` again. `ProvidersKeepTheirOwn` needs only the type:
deposit, withdrawal and claim write one position (`DepositedApart`, `WithdrawnApart`,
`YieldTakenApart`).

Sums. `LiquidityCorrect`, `YieldCorrect`, `PaidCorrect`, `PremiumsRecorded` and
`PremiumsShared` are about sums over a finite function. A library theorem about induction
takes an operator, which the provers cannot instantiate; `Arithmetic` has induction over
the subsets of a set in first-order form instead (`SubsetInduction`, `SumInduction`: a set
of subsets with the empty one that is closed under adding an element has them all), and
from it what a changed, added or removed summand does to a sum, and that a sum of shares
rounded down is at most the whole. `PoolBooks` is the inductive invariant of the pool: the
two properties, that the positions are finitely many, and that the account never holds
more than at the start; the last is what makes "nothing was paid out" an equation that no
later step can restore. Under both contracts it becomes `SystemBooks`, in which the insurance
contract is one of the providers, and is proved as a relation between the pool's record
and its account's balance (`Balanced`), for `pay_premium` makes two of the pool's calls in
one invocation (`PremiumBalanced`).

Oracles. `CoverageRespected` with oracles needs an invariant of its own, `CoverageInv`: an
oracle approves a claim by setting both statuses and paying, and leaves `claim_amount`
as it was, so that `OpenClaimMatchesRecord` and the rest of `LifecycleInv` do not hold
there. What survives is `Covered(p)`: paid and open together are within the coverage, a
pending claim has one amount in policy and record, and an amount is left open only by a
policy that is pending or approved.
`PriceCorrect` and `QuorumCorrect` read the guard of the approving step against the feed
and the registry of that very step.

The theorems of the two composed systems
reuse these steps: an oracle's approval pays by the same operators, so that
`PaymentHeld` asks only for what it adds to the totals, and a direct call of the pool
is a step of the pool alone (`DirectIsPoolStep`).

For premiums (at the end of `StellarInsureProofs`). No run checks the price alone: a few amounts, which is what the tests of
`premium.rs` have, say little about three floor divisions in a row, and the theorems say
it of all. `DivisionBounds` replaces a quotient by its remainder's bounds, and
`ProductGrows` and `DivisionGrows` carry an order through products and quotients;
`StepBounds` and `StepsGrow` apply them to each line of the calculation in turn, and
`ChainedRounding` multiplies the three bounds out: the last division loses less than 1,
the second less than the surcharge's factor, the first less than that times the
duration in years. That more never costs less rests on `PremiumAssumption`: a higher
tier begins no lower and has no lower surcharge.

For the frontend. `PartSteps` turns a step of `FrontendNext` into a step, or a stutter,
of each part, so that a part's invariant is proved over the part's own next-state
relation: `DetailInv` (a packet's timer runs exactly while the form says so, and a
payment exactly while its dialog does), `DepositInv`, `TreasuryInv` (a request belongs
to the pool and amount on screen, unless its dialogue was closed), `NetInv`,
`ClaimListInv` (the list's own navigation, if one is under way, goes to the filters on
screen), and `IsForm` with `OneClaimAtATime`. `WalletInv` is `WalletConsistent` with the
type, proved field by field; it adds that an address, or a request for one, means that the
extension is there (`HasApi`), without which `connect` could turn a wallet that holds an
address into an unsupported one.
`OneSubmissionAtATime` is proved from `Sound(page)`, which ties step, requests, timers,
failure and receipt together; every action of the page makes its new state by few
operators on it, and each of these has a lemma. `PageSound` needs more (`Good`): a list
of providers that has come is that of the draft's type (`ForType`), and on the last step a page that
waits for nothing has failed or has its receipt (`Attended`), for which a signature that is
awaited must have a submitted draft. For `ForeignOnlyFromBefore`, `Known` says of a
draft how it may follow the page's: every operator that gives the page a new draft is
shown to give a `Known` one, and the effect that selects a provider to keep it so
(`RedraftedKnown`).

For the drafts, over any number of tabs. Every copy of a draft (in a tab, in the storage,
in the backup, in an event on its way) has a time that is not yet to come, and copies of
the same time are equal (`StampsInv`). `Explained` says of each copy after a step where it
comes from: it was there, has no time, is of the edit just made, or was stored by a save that
fell between an adoption and its rendering, the one exception `DraftsIdentified` has.
`SavedMeansStored` is proved step by step for the tab that wrote last (`DraftsInv`).

For what is on screen and what is kept. `ScreenInv` collects, part by part: the errors
listed are of fields on screen; bell and panel know the same store; the guard's dialog
asks about a page (`GuardInv`); the verdict shown, or the last check under way, is of the
type chosen (`Checkable`); and of a visitor of a claim's page that a session is there
exactly for who is signed in and that what is loaded is of the address (`SessionSound`,
`ClaimSound`). `EditsAreKept` rests on `Distinct`: neither an id nor an address is twice in
a list, since an edit replaces the entry of its id and only the address is checked. `MainnetSafe`
needs that the network in use is the one a reload would read while no write failed and no
other tab wrote (`NetworkInv`), `ThemeSafe` that a choice is stored or known not to be
(`ThemeInv`), `ConfirmedSafe` that entries of one id are equal and that an
answer finds an unconfirmed entry by the id it was made with (`OptimisticInv`).

For the limits. `LimitsInv` is the conjunction of the parts' invariants; where the type
alone is not inductive, it says why the operations do not leave it. A page of the history
exists (`HistoryGood`) because a change of the filter waits at the first page, and a page
chosen meanwhile is what `raced` records. The introduction (`IntroGood`) has one move
under way at most while its user is in no hurry, and that move leads to a step there is
(`Unhurried`). Messages and entries of the address book are no more than there are ids
because theirs are distinct (`NoLongerThan`). `NumbersSound` goes through the shapes that
the row of page numbers can have, for every total and every current page. That the two
validations of files agree rests on `BatchSieved`: after each file, what the loop of
`handleFiles` has taken are the valid ones among those seen, as far as there is room, and
an error is there unless they were all (`Sieved`).

Lists are treated as runs. `FoldRuns` of `Arithmetic` turns a fold over a list into a run,
a sequence of values that starts with the base and goes on by the step, which is
first-order, and `KeptInOrder` concludes what
`Array.prototype.filter` keeps: elements of the list, each once, in the order they had.
`RemoveItem`, `RemoveEntry`, `DismissedToast` and `Valid` are written with `Lists`' `Kept`
for that reason; `SelectSeq` of the standard modules has no definition in the prover. The
history's filtered list keeps the order of the ids, so that it is the set of its ids
there, and a page of it is a set by index. `HandleFiles` is such a run too (`SiftRuns`).

For the backend. `PaymentsInv` says that every record points at the row with its hash
(`RecordsStored`), that whoever is between the two commits has such a row
(`ServingStored`), and that answers are on record (`AnswersRecorded`): a record is
written only under a free key, so no answer is ever overwritten. `ListsAreRecent` is
inductive with the types: the cases that matter are a commit (every list becomes one
that is about to be invalidated), a deletion by another worker and a tick (what slipped
now slipped before, and what is old is gone). `HooksInv` ties each row to the step of its
task (`RowSound`): a row is pending only at the task's own webhook, its attempts are
below the limit while the task will post again, and an acknowledgement is never left
with a task that could still give up.

Every invariant and action property of the passing runs has a theorem. Only
model-checked is liveness (`AwaitedArrives`, `AwaitedComes`, `EditsAreSaved`,
`NoTabStaysBehind`, `TasksConclude`), which is out of the provers' reach: it rests on
fairness, and so on `ENABLED`. The refinement of `CoverageLedger` is checked as
`ImplementsLedger` on the instance, which fixes the ledger's amounts, and proved as
`LedgerImplemented` for all of them. The properties of the two runs that expect a
violation are false and have none.

## 6. Not modelled, and the plan

Not modelled:

* Contracts: `upgrade` (replaces the code), calls before `init`, storage expiry (the
  code never extends a TTL), events and error codes.
* Backend: issue and check of tokens, the rate limiter, file storage (calls of
  libraries and of Redis without steps of their own; `delete_account` and `delete_file`
  are actions of `PolicyCache`), schema, configuration, start-up, listing transactions
  and deliveries, Horizon and Soroban RPC.
* Frontend: the policies list (it throws at its first render), error
  boundaries (React's recovery decides what is rendered when), pages that show fixtures
  without state of their own, translations, metadata, the API client, which no page calls.
* Deployment manifests.

Within what is modelled: amounts of claims and the end of a policy's term in the
backend (either may only refuse a claim), the limit of webhooks per user, durations of
timers against each other except where the code relies on equal ones.

Planned, in order:

1. Amounts of claims in `PolicyCache`, with the checks of `create_claim`.
2. Listing transactions and deliveries in the backend, with what they read meanwhile.
