------------------------------- MODULE Faucet -------------------------------
(***************************************************************************)
(* The faucet contract of contracts/faucet (CosmWasm): a fixed coin paid   *)
(* to any sender at most once per cooldown, with the per-address time of  *)
(* the last claim in the map LAST_CLAIM.  As in module Escrow, each        *)
(* invocation is one transaction that the host rolls back entirely when    *)
(* the contract errs, panics or its BankMsg::Send fails, and the u64       *)
(* seconds are TimeWidth-bit numbers.  The faucet pays in one denomination *)
(* (config.amount); balances are kept only of that denomination.           *)
(***************************************************************************)
EXTENDS Integers, Sequences

CONSTANTS
    Addr,            \* account addresses (senders)
    FaucetAcct,      \* the faucet contract's own account
    NoConfig,        \* CONFIG not yet saved
    None,            \* no LAST_CLAIM entry for an address
    MaxCoin,         \* bound on a coin quantity
    MaxHours,        \* bound on cooldown_hours in InstantiateMsg
    HourSeconds,     \* the factor 3600 of instantiate (scaled down)
    InitBalance,     \* what each address holds at the start
    TimeWidth,       \* bit width of the seconds counter (64 in the code)
    OverflowChecks   \* TRUE: u64 overflow panics; FALSE: it wraps

ASSUME FaucetAssumptions ==
    /\ FaucetAcct \notin Addr
    /\ MaxCoin \in Nat
    /\ MaxHours \in Nat
    /\ HourSeconds \in Nat \ {0}
    /\ InitBalance \in Nat
    /\ TimeWidth \in Nat \ {0}
    /\ 2^TimeWidth \in Nat \ {0}
    /\ OverflowChecks \in BOOLEAN

TimeModulus == 2^TimeWidth

Time == 0 .. (TimeModulus - 1)

Accounts == Addr \cup {FaucetAcct}

\* Config (state.rs): cooldown in seconds and the quantity paid per claim.
Config == [cooldown_seconds : Time, amount : 0 .. MaxCoin]

ASSUME NoConfigAssumption == NoConfig \notin Config /\ None \notin Time

Outcomes == {"none", "ok", "Overflow", "ClaimCooldownNotExpired", "SendFailed"}

VARIABLES
    config,     \* CONFIG, or NoConfig
    lastClaim,  \* LAST_CLAIM: address -> time of the last claim, or None
    now,        \* env.block.time.seconds()
    bank,       \* balances of the faucet's denomination
    paidAt,     \* history: the block times of the claims paid to each address
    outcome,    \* the result of the last invocation
    requested   \* history: cooldown_hours of the instantiation (0 before)

vars == <<config, lastClaim, now, bank, paidAt, outcome, requested>>

-----------------------------------------------------------------------------

\* The invocation fails: the transaction is rolled back.
Fail(err) ==
    /\ outcome' = err
    /\ UNCHANGED <<config, lastClaim, now, bank, paidAt, requested>>

\* The result of a u64 operation that panics (no u64 is negative).
Panic == -1

\* u64 addition as the build compiles it: Panic when it overflows and
\* overflow checks are on, the wrapped sum otherwise.
AddU64(x, y) ==
    IF x + y < TimeModulus THEN x + y
    ELSE IF OverflowChecks THEN Panic ELSE (x + y) % TimeModulus

\* Mutant: the multiplication wraps whatever the build.
MulU64Wrapping(x, y) == (x * y) % TimeModulus

\* u64 multiplication, likewise.
MulU64(x, y) ==
    IF x * y < TimeModulus THEN x * y
    ELSE IF OverflowChecks THEN Panic ELSE (x * y) % TimeModulus

\* instantiate: cooldown_seconds = cooldown_hours * 3600; the funds attached
\* to the instantiation are what the faucet starts with.
instantiate(sender, hours, amount, q) ==
    /\ config = NoConfig
    /\ q <= bank[sender]
    /\ IF MulU64(hours, HourSeconds) = Panic
         THEN Fail("Overflow")
         ELSE /\ config' = [cooldown_seconds |-> MulU64(hours, HourSeconds),
                            amount |-> amount]
              /\ bank' = [bank EXCEPT ![sender] = @ - q,
                                      ![FaucetAcct] = @ + q]
              /\ outcome' = "ok"
              /\ requested' = hours
              /\ UNCHANGED <<lastClaim, now, paidAt>>

\* The early returns of execute_claim: a panic of last + cooldown_seconds
\* in u64, and the cooldown test, made only when LAST_CLAIM has an entry.
ClaimError(sender) ==
    LET last == lastClaim[sender]
        due  == AddU64(last, config.cooldown_seconds)
    IN  IF last = None THEN "ok"
        ELSE IF due = Panic THEN "Overflow"
        ELSE IF now < due THEN "ClaimCooldownNotExpired"
        ELSE "ok"

\* Mutant: the bank pays out whatever the faucet holds.
FaucetSendOkUnchecked == TRUE

\* The BankMsg::Send of config.amount from the faucet: the bank refuses a
\* zero coin and an overdraft.
FaucetSendOk == config.amount > 0 /\ bank[FaucetAcct] >= config.amount

\* The payment and the save of LAST_CLAIM, committed together.
Pay(sender) ==
    /\ bank' = [bank EXCEPT ![FaucetAcct] = @ - config.amount,
                            ![sender] = @ + config.amount]
    /\ paidAt' = [paidAt EXCEPT ![sender] = Append(@, now)]
    /\ outcome' = "ok"

\* Mutant: execute_claim does not save LAST_CLAIM.
execute_claimNoSave(sender) ==
    /\ config # NoConfig
    /\ IF ClaimError(sender) # "ok" THEN Fail(ClaimError(sender))
       ELSE IF ~FaucetSendOk THEN Fail("SendFailed")
       ELSE Pay(sender) /\ UNCHANGED <<config, lastClaim, now, requested>>

\* execute_claim: the cooldown test, the save of now in LAST_CLAIM and the
\* BankMsg::Send of config.amount to the sender; a failed send rolls back
\* the save.
execute_claim(sender) ==
    /\ config # NoConfig
    /\ IF ClaimError(sender) # "ok" THEN Fail(ClaimError(sender))
       ELSE IF ~FaucetSendOk THEN Fail("SendFailed")
       ELSE /\ lastClaim' = [lastClaim EXCEPT ![sender] = now]
            /\ Pay(sender)
            /\ UNCHANGED <<config, now, requested>>

\* Anyone may send coins to the faucet's account with a plain bank transfer.
Donate(sender, q) ==
    /\ 0 < q /\ q <= bank[sender]
    /\ bank' = [bank EXCEPT ![sender] = @ - q, ![FaucetAcct] = @ + q]
    /\ UNCHANGED <<config, lastClaim, now, paidAt, outcome, requested>>

\* A new block.
Tick ==
    /\ now < TimeModulus - 1
    /\ now' = now + 1
    /\ UNCHANGED <<config, lastClaim, bank, paidAt, outcome, requested>>

Init ==
    /\ config = NoConfig
    /\ lastClaim = [a \in Addr |-> None]
    /\ now \in Time
    /\ bank = [a \in Accounts |-> IF a = FaucetAcct THEN 0 ELSE InitBalance]
    /\ paidAt = [a \in Addr |-> <<>>]
    /\ outcome = "none"
    /\ requested = 0

Next ==
    \/ \E sender \in Addr, hours \in 0 .. MaxHours, amount \in 0 .. MaxCoin,
          q \in 0 .. MaxCoin :
          instantiate(sender, hours, amount, q)
    \/ \E sender \in Addr : execute_claim(sender)
    \/ \E sender \in Addr, q \in 1 .. MaxCoin : Donate(sender, q)
    \/ Tick

Spec == Init /\ [][Next]_vars

-----------------------------------------------------------------------------
(* Properties.                                                             *)

TypeOK ==
    /\ config \in Config \cup {NoConfig}
    /\ lastClaim \in [Addr -> Time \cup {None}]
    /\ now \in Time
    /\ bank \in [Accounts -> Nat]
    /\ paidAt \in [Addr -> Seq(Time)]
    /\ outcome \in Outcomes
    /\ requested \in 0 .. MaxHours

\* The cooldown of execute_claim: two claims paid to the same address are
\* at least cooldown_seconds apart in block time.
CooldownRespected ==
    \A a \in Addr : \A i \in 1 .. (Len(paidAt[a]) - 1) :
        paidAt[a][i + 1] - paidAt[a][i] >= config.cooldown_seconds

\* LAST_CLAIM is saved together with the payment and rolled back with it:
\* an address has an entry exactly when it has been paid, and the entry is
\* the time of its last payment.
LastClaimMatchesPayments ==
    \A a \in Addr :
        IF paidAt[a] = <<>> THEN lastClaim[a] = None
        ELSE lastClaim[a] = paidAt[a][Len(paidAt[a])]

\* instantiate stores the cooldown the instantiating message asked for:
\* cooldown_seconds is cooldown_hours * 3600, not a wrapped remainder of it.
CooldownIsRequestedHours ==
    config # NoConfig => config.cooldown_seconds = requested * HourSeconds

-----------------------------------------------------------------------------
(* Refinement of the faucet's promise (module FaucetAbstract): the saved   *)
(* CONFIG is the setting, the block time the clock, the payments made by   *)
(* execute_claim the abstract payments.  A rolled-back invocation and a    *)
(* donation are stutters.                                                  *)

Abstract == INSTANCE FaucetAbstract
    WITH Requester <- Addr, Instant <- Time, Money <- 0 .. MaxCoin,
         NoSetting <- NoConfig, setting <- config, clock <- now, paid <- paidAt

\* The faucet implements its promise: CONFIG is saved once by instantiate,
\* and execute_claim pays a sender only when LAST_CLAIM has no entry for
\* them or the last payment is at least cooldown_seconds before the block
\* time, stamped with that block time.
RefinesAbstract == Abstract!Spec

=============================================================================
