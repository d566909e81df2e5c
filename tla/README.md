# TLA+ models of the CosmWasm contracts

This directory holds TLA+ specifications of the contracts under
`src/contracts/`, TLC configurations that model-check them on small chains,
and TLAPS proofs, for all values of the constants, of every safety property
the passing runs check: the invariants of the three contracts, and that the
escrow and the faucet each implement an abstract specification of what they
promise. `PROJECT.json` lists the runs, the mutants each property must kill,
the source lines each definition translates, the findings and the hazards.

## The system

There are three independent CosmWasm contracts. They do not call each other.
Each one talks only to the host chain.

| part | source | state | operations that change state |
|---|---|---|---|
| escrow | `escrow/src/{contract,state,msg,error}.rs` | `STATE`: buyer, seller, amount (Coin), expiration (u64), status | `instantiate`, `Deposit`, `Release`, `Refund` |
| faucet | `faucet/src/{contract,state,msg,error}.rs` | `CONFIG` (cooldown_seconds, amount); `LAST_CLAIM`: Addr -> u64 | `instantiate`, `Claim` |
| simple-crud | `simple-crud/src/contract.rs` | `DATA` map (its `state.rs` is not in the repository) | create, update, delete |
| host chain | (not in the repository) | balances, block time | bank transfers, new blocks |

The host chain governs how the contracts behave, and the models treat it as
the environment of each contract:

- **Transactions are all-or-nothing.** An invocation commits or rolls back as
  one unit, together with the funds attached to it (`info.funds`) and the
  `BankMsg::Send` it returns. Any of these causes a rollback: a returned `Err`,
  a panic (u64 overflow when overflow checks are on), or a send that the bank
  refuses. This is why a model's action is the whole handler, send included.
  An error path (`Fail`) changes only `outcome`.
- **The bank refuses some sends.** It refuses a send of a zero coin (invalid
  coins) and a send that overdraws the sender.
- **Time is the block time.** It is a u64 count of seconds that only grows
  (`Tick`).

## Modules

### `Escrow.tla` — the escrow contract (`escrow/src/contract.rs`)

**Variables:**
- `state`: the stored `State`, or `NoState` before instantiation.
- `now`: the block time.
- `bank`: balances per account and denom.
- `sent`: the history of completed transfers out of the contract.
- `outcome`: the result of the last invocation.
- `created`: the block time and `lock_time` of the instantiation. This is
  history, used to state the expiration property.

**Actions:**
- `instantiate` (lines 15-37): `addr_validate` fails for `BadAddr`. The sum
  `block time + lock_time` is a u64 addition of `TimeWidth` bits. It panics if
  `OverflowChecks` is on and wraps otherwise.
- `execute_deposit` (55-88). Its early returns come in the code's order:
  `AlreadyFunded`, `Unauthorized`, no coin of the denom (`InsufficientFunds`),
  and too little (`InsufficientFunds`). A surplus is accepted.
- `execute_release` (92-128) and `execute_refund` (132-168). Their checks are
  `Unauthorized`, `NotFunded`, then `Expired` (`now >= expiration`) or
  `NotExpired` (`now < expiration`). Both end in `Settle`, which saves the
  terminal status and sends `amount` to the payee in one step. If the bank
  refuses the send, the save is rolled back (`SendFailed`).
- `Tick`: the next block.

Inputs come from small sets: the senders are the buyer, the seller and a
stranger, plus every vector of attached funds over two denoms.

### `Faucet.tla` — the faucet contract (`faucet/src/contract.rs`)

**Variables:**
- `config`: the stored `CONFIG`.
- `lastClaim`: `LAST_CLAIM`.
- `now`: the block time.
- `bank`: balances in the faucet's denom.
- `paidAt`: history, the block times at which each address was paid.
- `outcome`: the result of the last invocation.

**Actions:**
- `instantiate` (17-38): `cooldown_hours * 3600` as a u64 product (`MulU64`).
  The product is scaled: `HourSeconds` stands for 3600.
- `execute_claim` (58-92):
  - It checks `now < last + cooldown` (`AddU64`) only when the sender has an
    entry.
  - It saves `LAST_CLAIM`.
  - It sends `config.amount`.
  - A refused send rolls back the save.
- `Donate`: a plain bank transfer to the faucet.
- `Tick`: the next block.

### Model-checking modules

- `MCEscrow.tla` instantiates `Escrow` with two addresses and two denoms as
  model values. Its symmetry permutes the addresses and the denoms.
- `MCFaucet.tla` instantiates `Faucet` with two senders. Its symmetry permutes
  them. The constraint `ClaimBound` allows at most 2 payments per address,
  because `paidAt` would otherwise grow forever.
- `MCSimpleCrud.tla` instantiates `SimpleCrud` with two keys and two values
  as model values. Its symmetry permutes each set. The constraint
  `HistoryBound` stops after 5 successful invocations (`MaxOps`).

### `SimpleCrud.tla` — the key-value contract (`simple-crud/src/contract.rs`)

**Variables:**
- `data`: `DATA`, a function from keys to values or `Absent`. The code's
  `state.rs` is not in the repository, so the map's type comes from its uses.
- `outcome`: the result of the last invocation.
- `log`: history, the successful invocations in order.

**Actions:** `execute_create` (32-41) fails with `KeyAlreadyExists` when
`DATA.has(key)`, `execute_update` (43-52) and `execute_delete` (54-62) fail
with `KeyNotFound` when it does not. Otherwise each one saves (or removes) the
entry and commits. `instantiate` writes nothing, so `DATA` starts empty. The
caller's address is never read and is left out.

### `EscrowAbstract.tla` — what the escrow promises

The deal (terms and phase), a clock, and the payments made. `Open` needs a
deadline not before the clock, `Fund` moves Idle to Funded, `PaySeller` pays
the seller strictly before the deadline and `PayBuyer` the buyer from the
deadline on, each once. There is no bank, caller or error.
`Escrow.tla` maps onto it: the deal is what `query_config` returns (or
`NoState`), the clock is the block time, the payments are `sent`. A rolled-back
invocation and a donation are abstract stutters.

### `FaucetAbstract.tla` — what the faucet promises

A setting (cooldown and amount), a clock, and the times of the payments to
each requester. `Configure` saves the setting once; `Dispense(a)` pays `a` at
the current time when `Due(a)`: never paid, or last paid at least a cooldown
before the clock. There is no bank, overflow or error. `Faucet.tla` maps onto
it: the setting is `CONFIG` (or `NoConfig`), the clock the block time, the
payments `paidAt`. A rolled-back invocation and a donation are stutters.

### Addition to `Faucet.tla`

`requested` is history: the `cooldown_hours` of the instantiating message.
It is used to state that the stored cooldown is the requested one.

### `EscrowProofs.tla` — TLAPS proofs about `Escrow`

See the Proofs section below.

## Runs

| run | cfg | result | shows |
|---|---|---|---|
| escrow_safety | `MCEscrow.cfg` | pass | `TypeOK`, `EscrowSolvent` (a funded escrow is covered by the contract's balance), `PayoutMatchesStatus` (the transfers out are exactly one payment of `amount` to the party the terminal status names, and none before settlement), and `StatusOnlyAdvances` (the status only moves Idle → Funded → Released/Refunded, and the terms never change) |
| escrow_liveness | `MCEscrowLiveness.cfg` | pass | `FundedPositiveSettles`: a funded escrow for a positive amount is eventually settled |
| escrow_zero_amount | `MCEscrowZeroAmount.cfg` | violation | `FundedSettles` fails: an escrow for amount 0 never settles, because its zero-coin send is refused |
| escrow_stranded | `MCEscrowStranded.cfg` | violation | `NoStrandedFunds` fails: a deposit surplus, and funds attached to the other messages, stay in the contract forever |
| escrow_wrap | `MCEscrowWrap.cfg` | violation | without overflow checks the expiration wraps below the creation time |
| faucet_safety | `MCFaucet.cfg` | pass | `TypeOK`, `CooldownRespected` (two payments to an address are at least `cooldown_seconds` apart), and `LastClaimMatchesPayments` (`LAST_CLAIM` is the time of the last payment, and is rolled back when the faucet is empty) |
| faucet_wrap | `MCFaucetWrap.cfg` | violation | without overflow checks, `last + cooldown` wraps and a sender is paid again at once |
| faucet_mul_wrap | `MCFaucetMulWrap.cfg` | violation | without overflow checks, `cooldown_hours * 3600` wraps and the stored cooldown is shorter than requested (`CooldownIsRequestedHours`) |
| escrow_refinement | `MCEscrowRefinement.cfg` | pass | `RefinesAbstract`: with overflow checks, every behaviour of the contract, read through `query_config`, is a behaviour of `EscrowAbstract` |
| faucet_refinement | `MCFaucetRefinement.cfg` | pass | `RefinesAbstract`: with overflow checks, every behaviour of the faucet is a behaviour of `FaucetAbstract` |
| simplecrud_history | `MCSimpleCrud.cfg` | pass | `DataIsReplayOfHistory`: replaying the successful calls on an empty map meets no illegal step (create of a present key, update or delete of an absent one) and gives what `query_read` returns for every key |

**Escrow bounds:**
- Amounts and balances are at most 2.
- `InitBalance` = 2.
- The clock has 2 bits (times 0..3).

These bounds are enough for every case that matters to happen: a deposit
below, at and above the amount; a zero amount; the wrong denom; an expiration
equal to `now`; an expiration at the clock's last value; a wrapping or
panicking sum; and a refused send.

**Faucet bounds:**
- The clock has 3 bits.
- `MaxHours` = 4 and `HourSeconds` = 2. Cooldowns are therefore 0, 2, 4
  and 6, `last + 4` overflows for `last` ≥ 4, and the product `4 * 2` itself
  overflows the 3 bits.
- A claim pays 1 coin (`MaxCoin` = 1), and the faucet starts with what
  instantiate attaches (0 or 1) plus the donations of the two senders, so it
  holds at most 3 coins and is often empty. That makes the empty-faucet path
  common.

**Fairness** (liveness run only): `WF_vars(Tick) /\ WF_vars(BuyerRefund)`.
Blocks keep being produced. A buyer whose escrow is funded keeps submitting
`Refund` while it is enabled. Nothing in the contract schedules anything, so
liveness holds only under these assumptions about the chain and the buyer.
The seller cannot force settlement. That is a design fact, not something the
model checks.

**Simple-crud bounds:** two keys and five operations are enough for a key
to be created, deleted and created again while the other key is updated, and
for every error path to be taken on both keys.

## Findings

1. **Zero amount** (`contract.rs:26`, spec §4.1 requires a positive amount):
   - `instantiate` does not check that the amount is positive.
   - A deposit of any positive quantity of the denom then funds the escrow.
   - Release and refund both return a send of a zero coin, which the bank
     refuses.
   - The escrow stays `Funded` forever, with the deposit locked.
2. **Stranded surplus** (`contract.rs:77`, and `info.funds` of the other
   messages): the contract keeps everything above `amount` after settlement,
   and no code path can withdraw it. Spec §9 lists the surplus as open.
3. **Escrow expiration wrap** (`contract.rs:27`):
   - If the build has no overflow checks, `block time + lock_time` wraps.
   - The escrow is then already expired, so release is impossible.
   - With overflow checks on, the same input makes `instantiate` panic.
4. **Faucet cooldown wrap** (`faucet/src/contract.rs:71`):
   - Without overflow checks, the cooldown can be bypassed.
   - With them, `last + cooldown` panics forever for that sender. The sender
     is locked out, which no run checks yet.
5. **Faucet cooldown product wrap** (`faucet/src/contract.rs:28`): without
   overflow checks, `cooldown_hours * 3600` wraps, and a large requested
   cooldown becomes a short (or zero) one. With them, `instantiate` panics.

## Proofs (all checked by `tlapm`)

### `EscrowProofs.tla`

- `TypeCorrect`: `Spec => []TypeOK`. It rests on these lemmas:
  - the typing lemmas for `Attach`, `BankSend`, `Fail` and `Settle`;
  - `NoStateAssumption`, which the proof needs to keep `state` typed.
- `CustodyInvariant`: `Spec => [](EscrowSolvent /\ PayoutMatchesStatus)`.
  - Neither property is inductive by itself.
  - The inductive invariant is `IInv == TypeOK /\ EscrowSolvent /\ PayoutMatchesStatus`:
    - `TypeOK` is needed for the arithmetic.
    - `PayoutMatchesStatus` is needed to know that a Funded state has sent
      nothing yet.
    - `EscrowSolvent` is needed to know that `Settle`'s send succeeds.
  - `SettleInv` proves the settlement step once, for both release and refund.
- `StatusMonotone`: `Spec => [][StatusAdvance]_vars`. The proof goes through
  `TypeOK` and `StatusStep`.
- `SolventInvariant`: `Spec => []EscrowSolvent`, a corollary of
  `CustodyInvariant`.

### `EscrowRefinementProof.tla`

- `Refinement`: assuming `OverflowChecks`, `Spec => RefinesAbstract`.
  - The initial states map to `Abstract!Init`.
  - `RefinementStep`: under `TypeOK`, every step maps to an abstract step or
    a stutter. `FailStutter` covers every error path, `InstantiateOpens` shows
    that the checked sum `now + lock_time` is a deadline not before the clock,
    and `SettlePays` shows that a release or refund is the abstract payment
    (or, when the bank refuses, a stutter). `DealIsState` says that
    `query_config` reads back the whole saved record.
  - `TypeCorrect` supplies `[]TypeOK`, and PTL combines the two.

### `FaucetProofs.tla`

- `TypeCorrect`: `Spec => []TypeOK`, with lemmas on the ranges of `AddU64`
  and `MulU64` (`U64Results`), and that `Panic` is not a time.
- `LastClaimInvariant`: `Spec => []LastClaimMatchesPayments`, inductive
  together with `TypeOK` (`LInv`). The save of `LAST_CLAIM` and the payment
  are one step, and a refused send undoes both.
- `CooldownInvariant`: assuming `OverflowChecks`,
  `Spec => []CooldownRespected`. It is not inductive by itself. The inductive invariant `CInv` adds to `LInv`:
  - `UnconfiguredUnpaid`: no payment before instantiation, so the first
    claim of a sender after it has no earlier payment to be near;
  - `PaidInPast`: every payment time is at most the block time, so a new
    payment at `now` comes after all earlier ones.
  `ClaimKeepsCooldown` proves the claim step: the checked sum
  `last + cooldown` does not wrap, so passing the check means that
  `now - last >= cooldown`.

### `FaucetRefinementProof.tla`

- `Refinement`: assuming `OverflowChecks`, `Spec => RefinesAbstract` (the
  faucet implements `FaucetAbstract`).
  - The initial states map to `Abstract!Init`.
  - `RefinementStep`: under `LInv` (`TypeOK` and `LastClaimMatchesPayments`)
    every step maps to an abstract step or a stutter. `InstantiateConfigures`
    shows that a product that does not panic is a setting. `ClaimDue` shows
    that a sender who passes the cooldown test is due: `LAST_CLAIM` is their
    last payment (this is where `LInv` is needed), and the checked sum
    `last + cooldown_seconds` equals the true sum, so it is at most the
    block time.
  - `LInvariant` (`Spec => []LInv`, from `TypeCorrect` and
    `LastClaimInvariant`) and PTL combine the two.

### `SimpleCrudProofs.tla`

- `ReplayInvariant`: `Spec => []DataIsReplayOfHistory`, for every set of
  keys and values.
  - `HeldAfter(s, n, k, x)` states the replay of the first `n` entries of
    the history without recursion: `x` is the value of the last of those
    entries for key `k`, or `Absent` when there is none.
  - The lemmas `HeldEmpty`, `HeldPrefix`, `HeldLast`, `HeldOther` and
    `HeldUnique` say what appending one entry does to a replay, and that a
    replay holds one value per key.
  - The inductive invariant is `TypeOK /\ DataIsReplayOfHistory`.
    `CommitStep` proves every successful call once. A create commits only
    when `DATA.has` is false, so by `HeldUnique` the key was absent in the
    replay; update and delete are the converse. `FailStep` covers the
    error returns.
  - TLC checked that this statement agrees with a replay by `FoldLeft` (the
    form used before) in every state of the run, and also in the states
    reached when the `DATA.has` tests are dropped.

### What stays with TLC

Liveness (`FundedPositiveSettles`) is only model-checked: TLAPS does not
handle `ENABLED` and fairness with these backends. The violations
(`NoStrandedFunds`, `FundedSettles`, and the wrapped builds) are shown by TLC
counterexamples. The theorems about overflow assume `OverflowChecks`. The repository holds
no Cargo profile that sets `overflow-checks`, and Rust's release default is
off, so this is an assumption about the build. Without it the same
statements are false, as the `*_wrap` runs show.

## Not modelled

- **Faucet queries:** `query_config` and `query_last_claim` only copy storage
  (`query_last_claim` shows a missing entry as 0). The escrow's
  `query_config` and simple-crud's `query_read` are modelled, as the
  refinement mapping and in `DataIsReplayOfHistory`.
- **Message decoding** (`msg.rs`): each message variant is an action with its
  fields as inputs from small sets.
- **cw2 `set_contract_version`:** it writes constant metadata.
- **Other parts of the host:** gas, fees, migration and admin are left out.
- **Escrow seller equal to the contract's own address:** this is accepted by
  `addr_validate`, and it would lock the funds. It is listed as a hazard; the
  model's addresses exclude the contract.
- **Faucet lock-out in the checked build:** once `last + cooldown` overflows
  for a sender, every claim of theirs panics. No property states it yet.
