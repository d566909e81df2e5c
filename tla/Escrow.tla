------------------------------- MODULE Escrow -------------------------------
(***************************************************************************)
(* The escrow contract of contracts/escrow (CosmWasm), together with the   *)
(* part of the host chain it relies on: the bank balances, the block       *)
(* clock and the all-or-nothing execution of one transaction.              *)
(*                                                                         *)
(* One action per entry point: instantiate, execute_deposit,               *)
(* execute_release, execute_refund.  Each invocation is one transaction:   *)
(* the attached funds move from the sender to the contract, the contract   *)
(* runs, and the bank messages it returns are executed; if the contract    *)
(* returns an error, or a returned BankMsg::Send fails, everything is      *)
(* rolled back and only the outcome is observed.  Block time advances by   *)
(* Tick.  The u64 seconds of the code are TimeWidth-bit numbers here, so   *)
(* that the addition in instantiate can overflow on a small model.         *)
(***************************************************************************)
EXTENDS Integers, Sequences

CONSTANTS
    Addr,           \* valid account addresses (buyers, sellers, callers)
    Contract,       \* the escrow contract's own account
    BadAddr,        \* a seller string that deps.api.addr_validate rejects
    NoState,        \* STATE not yet saved (before a successful instantiate)
    Denoms,         \* coin denominations
    MaxCoin,        \* bound on a coin quantity in a message or in funds
    InitBalance,    \* what each account holds of each denom at the start
    TimeWidth,      \* bit width of the seconds counter (64 in the code)
    OverflowChecks  \* TRUE: u64 overflow panics; FALSE: it wraps

ASSUME EscrowAssumptions ==
    /\ Contract \notin Addr
    /\ BadAddr \notin Addr
    /\ Denoms # {}
    /\ MaxCoin \in Nat
    /\ InitBalance \in Nat
    /\ TimeWidth \in Nat \ {0}
    /\ 2^TimeWidth \in Nat \ {0}
    /\ OverflowChecks \in BOOLEAN

\* The number of values of the seconds counter (2^64 in the code).
TimeModulus == 2^TimeWidth

Time == 0 .. (TimeModulus - 1)

Accounts == Addr \cup {Contract}

\* cosmwasm_std::Coin: one denomination and a quantity.
Coin == [denom : Denoms, amount : 0 .. MaxCoin]

\* MessageInfo.funds: the quantity attached of each denom, 0 for a denom
\* that is absent from the list (the host never lists a zero coin).
Funds == [Denoms -> 0 .. MaxCoin]

NoFunds == [d \in Denoms |-> 0]

\* EscrowStatus (state.rs).
Status == {"Idle", "Funded", "Released", "Refunded"}

\* State (state.rs), the record saved under the key "state".
EscrowState ==
    [buyer : Addr, seller : Addr, amount : Coin, expiration : Time,
     status : Status]

\* NoState marks the absence of a record: it is none of the records.
ASSUME NoStateAssumption == NoState \notin EscrowState

\* A BankMsg::Send returned by the contract and executed by the host.
Transfer == [to : Addr, coin : Coin]

Outcomes ==
    {"none", "ok", "InvalidAddress", "Overflow", "AlreadyFunded",
     "Unauthorized", "InsufficientFunds", "NotFunded", "Expired",
     "NotExpired", "SendFailed"}

VARIABLES
    state,    \* STATE: the saved escrow record, or NoState
    now,      \* env.block.time.seconds()
    bank,     \* bank balances: account -> denom -> quantity
    sent,     \* the BankMsg::Send messages the contract has had executed
    outcome,  \* the result of the last invocation: "ok" or the error
    created   \* history: block time and lock_time of the instantiate

vars == <<state, now, bank, sent, outcome, created>>

-----------------------------------------------------------------------------
(* The host.                                                               *)

\* Mutant: the host lets a sender attach funds it does not hold.
CoversUnchecked(b, a, f) == TRUE

\* The sender holds the funds it attaches (otherwise the host rejects the
\* transaction before the contract runs).
Covers(b, a, f) == \A d \in Denoms : f[d] <= b[a][d]

\* Move the attached funds f from account a to the contract.
Attach(b, a, f) ==
    [b EXCEPT ![a] = [d \in Denoms |-> b[a][d] - f[d]],
              ![Contract] = [d \in Denoms |-> b[Contract][d] + f[d]]]

\* Executing BankMsg::Send { to_address, amount: vec![c] } from the
\* contract: the bank refuses a zero coin and an overdraft.
BankSendOk(b, c) == c.amount > 0 /\ b[Contract][c.denom] >= c.amount

BankSend(b, to, c) ==
    [b EXCEPT ![Contract][c.denom] = @ - c.amount,
              ![to][c.denom] = @ + c.amount]

\* The invocation returns Err(err): the transaction is rolled back.
Fail(err) ==
    /\ outcome' = err
    /\ UNCHANGED <<state, now, bank, sent, created>>

-----------------------------------------------------------------------------
(* The contract.                                                           *)

\* Mutant: the overflow test of instantiate misses now + lockTime = 2^w.
instantiateOffByOne(sender, sellerStr, amount, lockTime, f) ==
    /\ state = NoState
    /\ Covers(bank, sender, f)
    /\ IF sellerStr = BadAddr
         THEN Fail("InvalidAddress")
       ELSE IF OverflowChecks /\ now + lockTime > TimeModulus
         THEN Fail("Overflow")
       ELSE /\ state' = [buyer |-> sender, seller |-> sellerStr,
                         amount |-> amount,
                         expiration |-> (now + lockTime) % TimeModulus,
                         status |-> "Idle"]
            /\ bank' = Attach(bank, sender, f)
            /\ created' = [at |-> now, lock |-> lockTime]
            /\ outcome' = "ok"
            /\ UNCHANGED <<now, sent>>

\* instantiate: the sender becomes the buyer, the seller is validated, and
\* expiration = block time + lock_time in u64 arithmetic.
instantiate(sender, sellerStr, amount, lockTime, f) ==
    /\ state = NoState
    /\ Covers(bank, sender, f)
    /\ IF sellerStr = BadAddr
         THEN Fail("InvalidAddress")
       ELSE IF OverflowChecks /\ now + lockTime >= TimeModulus
         THEN Fail("Overflow")
       ELSE /\ state' = [buyer |-> sender, seller |-> sellerStr,
                         amount |-> amount,
                         expiration |-> (now + lockTime) % TimeModulus,
                         status |-> "Idle"]
            /\ bank' = Attach(bank, sender, f)
            /\ created' = [at |-> now, lock |-> lockTime]
            /\ outcome' = "ok"
            /\ UNCHANGED <<now, sent>>

\* Mutant: execute_deposit without the AlreadyFunded check.
DepositErrorNoStatus(sender, f) ==
    IF sender # state.buyer THEN "Unauthorized"
    ELSE IF f[state.amount.denom] = 0 THEN "InsufficientFunds"
    ELSE IF f[state.amount.denom] < state.amount.amount
         THEN "InsufficientFunds"
    ELSE "ok"

\* Mutant: execute_deposit without the quantity check.
DepositErrorNoQuantity(sender, f) ==
    IF state.status # "Idle" THEN "AlreadyFunded"
    ELSE IF sender # state.buyer THEN "Unauthorized"
    ELSE IF f[state.amount.denom] = 0 THEN "InsufficientFunds"
    ELSE "ok"

\* The early returns of execute_deposit, in the code's order.
DepositError(sender, f) ==
    IF state.status # "Idle" THEN "AlreadyFunded"
    ELSE IF sender # state.buyer THEN "Unauthorized"
    ELSE IF f[state.amount.denom] = 0 THEN "InsufficientFunds"
    ELSE IF f[state.amount.denom] < state.amount.amount
         THEN "InsufficientFunds"
    ELSE "ok"

execute_deposit(sender, f) ==
    /\ state # NoState
    /\ Covers(bank, sender, f)
    /\ IF DepositError(sender, f) # "ok"
         THEN Fail(DepositError(sender, f))
         ELSE /\ state' = [state EXCEPT !.status = "Funded"]
              /\ bank' = Attach(bank, sender, f)
              /\ outcome' = "ok"
              /\ UNCHANGED <<now, sent, created>>

\* Mutant: execute_release still pays at the expiration second.
ReleaseErrorLate(sender) ==
    IF sender # state.buyer THEN "Unauthorized"
    ELSE IF state.status # "Funded" THEN "NotFunded"
    ELSE IF now > state.expiration THEN "Expired"
    ELSE "ok"

\* The early returns of execute_release, in the code's order.
ReleaseError(sender) ==
    IF sender # state.buyer THEN "Unauthorized"
    ELSE IF state.status # "Funded" THEN "NotFunded"
    ELSE IF now >= state.expiration THEN "Expired"
    ELSE "ok"

\* Mutant: execute_refund without the NotFunded check.
RefundErrorNoStatus(sender) ==
    IF sender # state.buyer THEN "Unauthorized"
    ELSE IF now < state.expiration THEN "NotExpired"
    ELSE "ok"

\* Mutant: execute_refund opens one second late.
RefundErrorLate(sender) ==
    IF sender # state.buyer THEN "Unauthorized"
    ELSE IF state.status # "Funded" THEN "NotFunded"
    ELSE IF now <= state.expiration THEN "NotExpired"
    ELSE "ok"

\* The early returns of execute_refund, in the code's order.
RefundError(sender) ==
    IF sender # state.buyer THEN "Unauthorized"
    ELSE IF state.status # "Funded" THEN "NotFunded"
    ELSE IF now < state.expiration THEN "NotExpired"
    ELSE "ok"

\* Save the terminal status and have the host execute the returned
\* BankMsg::Send of state.amount to payee; a failed send rolls back all.
Settle(sender, f, newStatus, payee) ==
    LET b == Attach(bank, sender, f)
    IN  IF ~BankSendOk(b, state.amount)
          THEN Fail("SendFailed")
          ELSE /\ state' = [state EXCEPT !.status = newStatus]
               /\ bank' = BankSend(b, payee, state.amount)
               /\ sent' = Append(sent, [to |-> payee, coin |-> state.amount])
               /\ outcome' = "ok"
               /\ UNCHANGED <<now, created>>

execute_release(sender, f) ==
    /\ state # NoState
    /\ Covers(bank, sender, f)
    /\ IF ReleaseError(sender) # "ok"
         THEN Fail(ReleaseError(sender))
         ELSE Settle(sender, f, "Released", state.seller)

execute_refund(sender, f) ==
    /\ state # NoState
    /\ Covers(bank, sender, f)
    /\ IF RefundError(sender) # "ok"
         THEN Fail(RefundError(sender))
         ELSE Settle(sender, f, "Refunded", state.buyer)

\* A new block: the clock moves forward (bounded by the counter's width).
Tick ==
    /\ now < TimeModulus - 1
    /\ now' = now + 1
    /\ UNCHANGED <<state, bank, sent, outcome, created>>

-----------------------------------------------------------------------------

Init ==
    /\ state = NoState
    /\ now \in Time
    /\ bank = [a \in Accounts |->
                 [d \in Denoms |-> IF a = Contract THEN 0 ELSE InitBalance]]
    /\ sent = <<>>
    /\ outcome = "none"
    /\ created = [at |-> 0, lock |-> 0]

Next ==
    \/ \E sender \in Addr, sellerStr \in Addr \cup {BadAddr},
          amount \in Coin, lockTime \in Time, f \in Funds :
          instantiate(sender, sellerStr, amount, lockTime, f)
    \/ \E sender \in Addr, f \in Funds :
          \/ execute_deposit(sender, f)
          \/ execute_release(sender, f)
          \/ execute_refund(sender, f)
    \/ Tick

Spec == Init /\ [][Next]_vars

\* The buyer retrying refund without funds, the step whose eventual
\* occurrence the liveness properties assume.
BuyerRefund == state # NoState /\ execute_refund(state.buyer, NoFunds)

\* Blocks keep coming, and a buyer waiting for the refund keeps asking.
FairSpec == Spec /\ WF_vars(Tick) /\ WF_vars(BuyerRefund)

-----------------------------------------------------------------------------
(* Properties.                                                             *)

Terminal == {"Released", "Refunded"}

Settled == state # NoState /\ state.status \in Terminal

\* The statuses execute_* may move a saved status to (itself included).
NextStatus ==
    [Idle |-> {"Idle", "Funded"}, Funded |-> {"Funded", "Released", "Refunded"},
     Released |-> {"Released"}, Refunded |-> {"Refunded"}]

\* The transfers the contract should have made, given its saved status.
Payouts(s) ==
    IF s = NoState \/ s.status \in {"Idle", "Funded"} THEN <<>>
    ELSE IF s.status = "Released"
         THEN <<[to |-> s.seller, coin |-> s.amount]>>
         ELSE <<[to |-> s.buyer, coin |-> s.amount]>>

TypeOK ==
    /\ state \in EscrowState \cup {NoState}
    /\ now \in Time
    /\ bank \in [Accounts -> [Denoms -> Nat]]
    /\ sent \in Seq(Transfer)
    /\ outcome \in Outcomes
    /\ created \in [at : Time, lock : Time]

\* Custody: while the saved status is Funded, the contract's bank balance
\* covers the promised amount, so the BankMsg::Send of execute_release or
\* execute_refund can be paid (the quantity check of execute_deposit).
EscrowSolvent ==
    state # NoState /\ state.status = "Funded"
        => bank[Contract][state.amount.denom] >= state.amount.amount

\* Exactly-once, mutually exclusive settlement: the BankMsg::Send messages
\* executed so far are none before settlement, then exactly one transfer of
\* state.amount, to the seller if Released and to the buyer if Refunded.
PayoutMatchesStatus == sent = Payouts(state)

\* A step that keeps the saved record, moves its status only forward along
\* Idle -> Funded -> Released | Refunded (terminal statuses are final), and
\* leaves the buyer, seller, amount and expiration of instantiate alone.
StatusAdvance ==
    state # NoState =>
        /\ state' # NoState
        /\ state'.status \in NextStatus[state.status]
        /\ [state' EXCEPT !.status = state.status] = state

\* Every step of execute_deposit, execute_release and execute_refund (and
\* every rolled-back invocation) is a StatusAdvance.
StatusOnlyAdvances == [][StatusAdvance]_vars

\* instantiate: expiration is the block time plus lock_time, as a number
\* (no wrap-around of the u64 addition).
ExpirationIsCreationPlusLock ==
    state # NoState => state.expiration = created.at + created.lock

\* A funded escrow for a positive amount is eventually settled when the
\* buyer keeps asking for the refund: the refund path of execute_refund
\* always opens and its transfer always goes through.
FundedPositiveSettles ==
    (state # NoState /\ state.status = "Funded" /\ state.amount.amount > 0)
        ~> Settled

\* The same for every escrow that instantiate accepts (the spec requires a
\* positive amount of instantiate).
FundedSettles ==
    (state # NoState /\ state.status = "Funded") ~> Settled

\* Once the escrow is settled the contract holds no coins: every coin that
\* execute_deposit, instantiate or a settlement call took in was paid out.
NoStrandedFunds ==
    Settled => bank[Contract] = NoFunds

-----------------------------------------------------------------------------
(* Refinement: the contract with its host implements EscrowAbstract.  The  *)
(* abstract deal is the record query_config reads, its clock the block     *)
(* time and its payments the executed transfers; the bank, the outcome     *)
(* and the attached funds are hidden.                                      *)

\* query_config: the record a client reads back, the status rendered by
\* format!("{:?}") as its variant's name.
query_config ==
    [buyer |-> state.buyer, seller |-> state.seller, amount |-> state.amount,
     expiration |-> state.expiration, status |-> state.status]

\* The abstract deal is what query_config returns once STATE is saved.
dealBar == IF state = NoState THEN NoState ELSE query_config

Abstract ==
    INSTANCE EscrowAbstract
        WITH Party <- Addr, Money <- Coin, Instant <- Time, NoDeal <- NoState,
             deal <- dealBar, clock <- now, paid <- sent

\* Every behaviour of instantiate, execute_deposit, execute_release,
\* execute_refund and the clock is one of the abstract escrow: a deal that
\* opens with a deadline not in the past, is funded once, and pays once,
\* to the seller strictly before expiration or to the buyer from then on.
RefinesAbstract == Abstract!Spec

=============================================================================
