---------------------------- MODULE EscrowProofs ----------------------------
(***************************************************************************)
(* Proofs about the escrow contract (module Escrow), for every set of      *)
(* accounts and denominations, every coin bound and every counter width.   *)
(***************************************************************************)
EXTENDS Escrow, TLAPS

BankType == [Accounts -> [Denoms -> Nat]]

LEMMA TimeModulusPositive == TimeModulus \in Nat \ {0}
BY EscrowAssumptions DEF TimeModulus

\* Moving attached funds the sender holds keeps every balance a natural.
LEMMA AttachType ==
    ASSUME NEW b \in BankType, NEW a \in Addr, NEW f \in Funds,
           Covers(b, a, f)
    PROVE  Attach(b, a, f) \in BankType
BY EscrowAssumptions DEF BankType, Attach, Covers, Funds, Accounts

\* A send the bank accepts keeps every balance a natural.
LEMMA BankSendType ==
    ASSUME NEW b \in BankType, NEW to \in Addr, NEW c \in Coin,
           BankSendOk(b, c)
    PROVE  BankSend(b, to, c) \in BankType
BY EscrowAssumptions DEF BankType, BankSend, BankSendOk, Coin, Accounts

\* The contract's balance only grows when a sender attaches funds.
LEMMA AttachContract ==
    ASSUME NEW b \in BankType, NEW a \in Addr, NEW f \in Funds,
           NEW d \in Denoms
    PROVE  Attach(b, a, f)[Contract][d] >= b[Contract][d]
BY EscrowAssumptions DEF BankType, Attach, Funds, Accounts

-----------------------------------------------------------------------------
(* Type correctness.                                                       *)

\* A failed invocation changes only the outcome, to one of Outcomes.
LEMMA FailType ==
    ASSUME TypeOK, NEW err \in Outcomes, Fail(err)
    PROVE  TypeOK'
BY DEF Fail, TypeOK

\* Saving a terminal status and paying state.amount keeps the types.
LEMMA SettleType ==
    ASSUME TypeOK, state # NoState, NEW sender \in Addr, NEW f \in Funds,
           Covers(bank, sender, f),
           NEW st \in Status, NEW payee \in Addr,
           Settle(sender, f, st, payee)
    PROVE  TypeOK'
<1> DEFINE b == Attach(bank, sender, f)
<1>1. b \in BankType
  BY AttachType DEF TypeOK, BankType
<1>2. state \in EscrowState
  BY DEF TypeOK
<1>3. CASE ~BankSendOk(b, state.amount)
  BY <1>3, FailType DEF Settle, Outcomes
<1>4. CASE BankSendOk(b, state.amount)
  <2>1. bank' = BankSend(b, payee, state.amount)
        /\ state' = [state EXCEPT !.status = st]
        /\ sent' = Append(sent, [to |-> payee, coin |-> state.amount])
        /\ outcome' = "ok" /\ UNCHANGED <<now, created>>
    BY <1>4 DEF Settle
  <2>2. bank' \in BankType
    BY <1>1, <1>2, <1>4, <2>1, BankSendType DEF EscrowState
  <2>3. state' \in EscrowState
    BY <1>2, <2>1 DEF EscrowState
  <2>4. sent' \in Seq(Transfer)
    BY <1>2, <2>1 DEF TypeOK, EscrowState, Transfer
  <2>. QED
    BY <2>1, <2>2, <2>3, <2>4 DEF TypeOK, BankType, Outcomes
<1>. QED
  BY <1>3, <1>4

\* Type correctness of every step.
LEMMA TypeStep == TypeOK /\ [Next]_vars => TypeOK'
<1> SUFFICES ASSUME TypeOK, [Next]_vars PROVE TypeOK'
  OBVIOUS
<1>0. TimeModulus \in Nat \ {0}
  BY TimeModulusPositive
<1>1. ASSUME NEW sender \in Addr, NEW sellerStr \in Addr \cup {BadAddr},
             NEW amount \in Coin, NEW lockTime \in Time, NEW f \in Funds,
             instantiate(sender, sellerStr, amount, lockTime, f)
      PROVE  TypeOK'
  <2>1. CASE sellerStr = BadAddr
    BY <1>1, <2>1, FailType DEF instantiate, Outcomes
  <2>2. CASE sellerStr # BadAddr /\ OverflowChecks
                /\ now + lockTime >= TimeModulus
    BY <1>1, <2>2, FailType DEF instantiate, Outcomes
  <2>3. CASE sellerStr # BadAddr /\ ~(OverflowChecks
                /\ now + lockTime >= TimeModulus)
    <3>1. bank' = Attach(bank, sender, f)
          /\ state' = [buyer |-> sender, seller |-> sellerStr,
                       amount |-> amount,
                       expiration |-> (now + lockTime) % TimeModulus,
                       status |-> "Idle"]
          /\ created' = [at |-> now, lock |-> lockTime]
          /\ outcome' = "ok" /\ UNCHANGED <<now, sent>>
      BY <1>1, <2>3 DEF instantiate
    <3>2. bank' \in BankType
      BY <1>1, <3>1, AttachType DEF TypeOK, BankType, instantiate
    <3>3. (now + lockTime) % TimeModulus \in Time
      BY <1>0, <1>1 DEF TypeOK, Time
    <3>4. state' \in EscrowState
      BY <2>3, <3>1, <3>3 DEF EscrowState, Status
    <3>. QED
      BY <1>1, <3>1, <3>2, <3>4 DEF TypeOK, BankType, Outcomes
  <2>. QED
    BY <2>1, <2>2, <2>3
<1>2. ASSUME NEW sender \in Addr, NEW f \in Funds,
             execute_deposit(sender, f)
      PROVE  TypeOK'
  <2>1. DepositError(sender, f) \in Outcomes
    BY DEF DepositError, Outcomes
  <2>2. CASE DepositError(sender, f) # "ok"
    BY <1>2, <2>1, <2>2, FailType DEF execute_deposit
  <2>3. CASE DepositError(sender, f) = "ok"
    <3>1. state # NoState /\ bank' = Attach(bank, sender, f)
          /\ state' = [state EXCEPT !.status = "Funded"]
          /\ outcome' = "ok" /\ UNCHANGED <<now, sent, created>>
      BY <1>2, <2>3 DEF execute_deposit
    <3>2. bank' \in BankType
      BY <1>2, <3>1, AttachType DEF TypeOK, BankType, execute_deposit
    <3>3. state' \in EscrowState
      BY <3>1 DEF TypeOK, EscrowState, Status
    <3>. QED
      BY <3>1, <3>2, <3>3 DEF TypeOK, BankType, Outcomes
  <2>. QED
    BY <2>2, <2>3
<1>3. ASSUME NEW sender \in Addr, NEW f \in Funds,
             execute_release(sender, f)
      PROVE  TypeOK'
  <2>1. ReleaseError(sender) \in Outcomes
    BY DEF ReleaseError, Outcomes
  <2>2. CASE ReleaseError(sender) # "ok"
    BY <1>3, <2>1, <2>2, FailType DEF execute_release
  <2>3. CASE ReleaseError(sender) = "ok"
    <3>1. state \in EscrowState
      BY <1>3 DEF execute_release, TypeOK
    <3>. QED
      BY <1>3, <2>3, <3>1, SettleType DEF execute_release, EscrowState,
         Status
  <2>. QED
    BY <2>2, <2>3
<1>4. ASSUME NEW sender \in Addr, NEW f \in Funds,
             execute_refund(sender, f)
      PROVE  TypeOK'
  <2>1. RefundError(sender) \in Outcomes
    BY DEF RefundError, Outcomes
  <2>2. CASE RefundError(sender) # "ok"
    BY <1>4, <2>1, <2>2, FailType DEF execute_refund
  <2>3. CASE RefundError(sender) = "ok"
    <3>1. state \in EscrowState
      BY <1>4 DEF execute_refund, TypeOK
    <3>. QED
      BY <1>4, <2>3, <3>1, SettleType DEF execute_refund, EscrowState,
         Status
  <2>. QED
    BY <2>2, <2>3
<1>5. CASE Tick
  BY <1>0, <1>5 DEF Tick, TypeOK, Time
<1>6. CASE UNCHANGED vars
  BY <1>6 DEF vars, TypeOK
<1>. QED
  BY <1>1, <1>2, <1>3, <1>4, <1>5, <1>6 DEF Next

\* The escrow's variables always have their types.
THEOREM TypeCorrect == Spec => []TypeOK
<1>1. Init => TypeOK
  BY TimeModulusPositive, EscrowAssumptions
  DEF Init, TypeOK, Accounts, Time, Outcomes
<1>. QED
  BY <1>1, TypeStep, PTL DEF Spec

-----------------------------------------------------------------------------
(* Custody and exactly-once settlement.                                    *)

\* The attached funds land in the contract's account.
LEMMA AttachContractValue ==
    ASSUME NEW b \in BankType, NEW a \in Addr, NEW f \in Funds,
           NEW d \in Denoms
    PROVE  Attach(b, a, f)[Contract][d] = b[Contract][d] + f[d]
BY EscrowAssumptions DEF BankType, Attach, Funds, Accounts

\* The inductive invariant: solvency and the payout log are preserved
\* together with the types (solvency needs the balances to be naturals,
\* the payout log needs sent = <<>> while the escrow is still Funded).
IInv == TypeOK /\ EscrowSolvent /\ PayoutMatchesStatus

\* A rolled-back invocation preserves IInv.
LEMMA FailInv ==
    ASSUME IInv, NEW err \in Outcomes, Fail(err)
    PROVE  IInv'
BY FailType DEF IInv, Fail, EscrowSolvent, PayoutMatchesStatus, Payouts

\* A settlement from Funded preserves IInv.
LEMMA SettleInv ==
    ASSUME IInv, state # NoState, state.status = "Funded",
           NEW sender \in Addr, NEW f \in Funds, Covers(bank, sender, f),
           NEW st \in Terminal, NEW payee \in Addr,
           payee = IF st = "Released" THEN state.seller ELSE state.buyer,
           Settle(sender, f, st, payee)
    PROVE  IInv'
<1>1. TypeOK'
  BY SettleType DEF IInv, Terminal, Status
<1>2. CASE ~BankSendOk(Attach(bank, sender, f), state.amount)
  BY <1>2, FailInv DEF Settle, Outcomes
<1>3. CASE BankSendOk(Attach(bank, sender, f), state.amount)
  <2>1. state' = [state EXCEPT !.status = st]
        /\ sent' = Append(sent, [to |-> payee, coin |-> state.amount])
    BY <1>3 DEF Settle
  <2>2. sent = <<>>
    BY DEF IInv, PayoutMatchesStatus, Payouts
  <2>3. state \in EscrowState
    BY DEF IInv, TypeOK
  <2>8. state' \in EscrowState
    BY <2>1, <2>3 DEF EscrowState, Terminal, Status
  <2>4. /\ state' # NoState
        /\ state'.status = st
        /\ state'.buyer = state.buyer /\ state'.seller = state.seller
        /\ state'.amount = state.amount
    <3>1. state' # NoState
      BY <2>8, NoStateAssumption
    <3>2. state'.status = st /\ state'.buyer = state.buyer
          /\ state'.seller = state.seller /\ state'.amount = state.amount
      BY <2>1, <2>3 DEF EscrowState
    <3>. QED
      BY <3>1, <3>2
  <2>5. sent' = <<[to |-> payee, coin |-> state.amount]>>
    BY <2>1, <2>2
  <2>6. PayoutMatchesStatus'
    BY <2>4, <2>5 DEF PayoutMatchesStatus, Payouts, Terminal
  <2>7. EscrowSolvent'
    BY <2>4 DEF EscrowSolvent, Terminal
  <2>. QED
    BY <1>1, <2>6, <2>7 DEF IInv
<1>. QED
  BY <1>2, <1>3

LEMMA InvStep == IInv /\ [Next]_vars => IInv'
<1> SUFFICES ASSUME IInv, [Next]_vars PROVE IInv'
  OBVIOUS
<1>0. TypeOK /\ TypeOK'
  BY TypeStep DEF IInv
<1>1. ASSUME NEW sender \in Addr, NEW sellerStr \in Addr \cup {BadAddr},
             NEW amount \in Coin, NEW lockTime \in Time, NEW f \in Funds,
             instantiate(sender, sellerStr, amount, lockTime, f)
      PROVE  IInv'
  <2>1. CASE sellerStr = BadAddr
    BY <1>1, <2>1, FailInv DEF instantiate, Outcomes
  <2>3. CASE sellerStr # BadAddr /\ OverflowChecks
                /\ now + lockTime >= TimeModulus
    BY <1>1, <2>3, FailInv DEF instantiate, Outcomes
  <2>2. CASE sellerStr # BadAddr /\ ~(OverflowChecks
                /\ now + lockTime >= TimeModulus)
    <3>0. state' \in EscrowState
      <4>1. state' = [buyer |-> sender, seller |-> sellerStr,
                      amount |-> amount,
                      expiration |-> (now + lockTime) % TimeModulus,
                      status |-> "Idle"]
        BY <1>1, <2>2 DEF instantiate
      <4>2. (now + lockTime) % TimeModulus \in Time
        BY <1>1, TimeModulusPositive DEF IInv, TypeOK, Time
      <4>. QED
        BY <2>2, <4>1, <4>2 DEF EscrowState, Status
    <3>1. state = NoState /\ state'.status = "Idle" /\ state' # NoState
          /\ sent' = sent
      <4>1. state = NoState /\ state'.status = "Idle" /\ sent' = sent
        BY <1>1, <2>2 DEF instantiate
      <4>. QED
        BY <3>0, <4>1, NoStateAssumption
    <3>2. sent = <<>>
      BY <3>1 DEF IInv, PayoutMatchesStatus, Payouts
    <3>. QED
      BY <1>0, <3>1, <3>2 DEF IInv, EscrowSolvent, PayoutMatchesStatus,
         Payouts
  <2>. QED
    BY <2>1, <2>2, <2>3
<1>2. ASSUME NEW sender \in Addr, NEW f \in Funds,
             execute_deposit(sender, f)
      PROVE  IInv'
  <2>1. CASE DepositError(sender, f) # "ok"
    BY <1>2, <2>1, FailInv DEF execute_deposit, DepositError, Outcomes
  <2>2. CASE DepositError(sender, f) = "ok"
    <3>1. state \in EscrowState /\ bank \in BankType
      BY <1>2 DEF execute_deposit, IInv, TypeOK, BankType
    <3>2. state.status = "Idle"
          /\ f[state.amount.denom] >= state.amount.amount
      BY <2>2, <3>1 DEF DepositError, EscrowState, Coin, Funds
    <3>3. bank' = Attach(bank, sender, f)
          /\ state' = [state EXCEPT !.status = "Funded"]
          /\ sent' = sent
      BY <1>2, <2>2 DEF execute_deposit
    <3>4. bank'[Contract][state.amount.denom]
            = bank[Contract][state.amount.denom] + f[state.amount.denom]
      BY <3>1, <3>3, AttachContractValue DEF EscrowState, Coin
    <3>5. EscrowSolvent'
      BY <3>1, <3>2, <3>3, <3>4 DEF EscrowSolvent, EscrowState, BankType,
         Accounts, Coin, Funds
    <3>6. PayoutMatchesStatus'
      BY <3>1, <3>2, <3>3 DEF IInv, PayoutMatchesStatus, Payouts,
         EscrowState
    <3>. QED
      BY <1>0, <3>5, <3>6 DEF IInv
  <2>. QED
    BY <2>1, <2>2
<1>3. ASSUME NEW sender \in Addr, NEW f \in Funds,
             execute_release(sender, f)
      PROVE  IInv'
  <2>1. CASE ReleaseError(sender) # "ok"
    BY <1>3, <2>1, FailInv DEF execute_release, ReleaseError, Outcomes
  <2>2. CASE ReleaseError(sender) = "ok"
    <3>0. state # NoState
      BY <1>3 DEF execute_release
    <3>1. state # NoState /\ state.status = "Funded"
      BY <3>0, <2>2 DEF ReleaseError
    <3>2. Covers(bank, sender, f)
          /\ Settle(sender, f, "Released", state.seller)
      BY <1>3, <2>2 DEF execute_release
    <3>3. state.seller \in Addr
      BY <3>0 DEF IInv, TypeOK, EscrowState
    <3>4. state.seller = IF "Released" = "Released" THEN state.seller ELSE state.buyer
      OBVIOUS
    <3>5. "Released" \in Terminal
      BY DEF Terminal
    <3>. QED
      BY <3>1, <3>2, <3>3, <3>4, <3>5, SettleInv
  <2>. QED
    BY <2>1, <2>2
<1>4. ASSUME NEW sender \in Addr, NEW f \in Funds,
             execute_refund(sender, f)
      PROVE  IInv'
  <2>1. CASE RefundError(sender) # "ok"
    BY <1>4, <2>1, FailInv DEF execute_refund, RefundError, Outcomes
  <2>2. CASE RefundError(sender) = "ok"
    <3>0. state # NoState
      BY <1>4 DEF execute_refund
    <3>1. state # NoState /\ state.status = "Funded"
      BY <3>0, <2>2 DEF RefundError
    <3>2. Covers(bank, sender, f)
          /\ Settle(sender, f, "Refunded", state.buyer)
      BY <1>4, <2>2 DEF execute_refund
    <3>3. state.buyer \in Addr
      BY <3>0 DEF IInv, TypeOK, EscrowState
    <3>4. state.buyer = IF "Refunded" = "Released" THEN state.seller ELSE state.buyer
      OBVIOUS
    <3>5. "Refunded" \in Terminal
      BY DEF Terminal
    <3>. QED
      BY <3>1, <3>2, <3>3, <3>4, <3>5, SettleInv
  <2>. QED
    BY <2>1, <2>2
<1>5. CASE Tick \/ UNCHANGED vars
  BY <1>0, <1>5 DEF Tick, vars, IInv, EscrowSolvent, PayoutMatchesStatus,
     Payouts
<1>. QED
  BY <1>1, <1>2, <1>3, <1>4, <1>5 DEF Next

\* The contract's balance always covers a funded escrow, and the transfers
\* the contract has made are exactly the one its settled status calls for.
THEOREM CustodyInvariant == Spec => [](EscrowSolvent /\ PayoutMatchesStatus)
<1>1. Init => IInv
  BY TypeCorrect, TimeModulusPositive, EscrowAssumptions
  DEF Init, IInv, TypeOK, Accounts, Time, Outcomes, EscrowSolvent,
      PayoutMatchesStatus, Payouts
<1>2. IInv => EscrowSolvent /\ PayoutMatchesStatus
  BY DEF IInv
<1>. QED
  BY <1>1, <1>2, InvStep, PTL DEF Spec

\* While the escrow is Funded, the contract's bank balance in the deal's
\* denom is at least amount, so the BankMsg::Send of execute_release or
\* execute_refund never bounces for lack of funds.
THEOREM SolventInvariant == Spec => []EscrowSolvent
BY CustodyInvariant, PTL

-----------------------------------------------------------------------------
(* Status only advances; the configuration is immutable.                   *)

\* Rewriting a record's status along NextStatus is a StatusAdvance.
LEMMA StatusRewrite ==
    ASSUME state \in EscrowState, NEW st \in Status,
           st \in NextStatus[state.status],
           state' = [state EXCEPT !.status = st]
    PROVE  StatusAdvance
<1>1. state' \in EscrowState
  BY DEF EscrowState
<1>2. state' # NoState
  BY <1>1, NoStateAssumption
<1>. QED
  BY <1>2 DEF StatusAdvance, EscrowState

LEMMA StatusStep == TypeOK /\ [Next]_vars => [StatusAdvance]_vars
<1> SUFFICES ASSUME TypeOK, [Next]_vars, state # NoState
             PROVE  StatusAdvance
  BY DEF StatusAdvance
<1>0. state \in EscrowState
  BY DEF TypeOK
<1>1. state.status \in NextStatus[state.status]
  BY <1>0 DEF EscrowState, Status, NextStatus
<1>2. CASE state' = state
  BY <1>0, <1>1, <1>2, StatusRewrite DEF EscrowState, Status
<1>3. ASSUME NEW sender \in Addr, NEW sellerStr \in Addr \cup {BadAddr},
             NEW amount \in Coin, NEW lockTime \in Time, NEW f \in Funds,
             instantiate(sender, sellerStr, amount, lockTime, f)
      PROVE  FALSE
  BY <1>3 DEF instantiate
<1>4. ASSUME NEW sender \in Addr, NEW f \in Funds,
             execute_deposit(sender, f), DepositError(sender, f) = "ok"
      PROVE  StatusAdvance
  <2>1. state.status = "Idle" /\ state' = [state EXCEPT !.status = "Funded"]
    BY <1>4 DEF execute_deposit, DepositError
  <2>. QED
    BY <1>0, <2>1, StatusRewrite DEF NextStatus, Status
<1>5. ASSUME NEW sender \in Addr, NEW f \in Funds, NEW st \in Terminal,
             NEW payee \in Addr, state.status = "Funded",
             Settle(sender, f, st, payee)
      PROVE  StatusAdvance
  <2>1. CASE ~BankSendOk(Attach(bank, sender, f), state.amount)
    BY <1>5, <2>1, <1>2 DEF Settle, Fail
  <2>2. CASE BankSendOk(Attach(bank, sender, f), state.amount)
    <3>1. state' = [state EXCEPT !.status = st]
      BY <1>5, <2>2 DEF Settle
    <3>. QED
      BY <1>0, <1>5, <3>1, StatusRewrite DEF NextStatus, Terminal, Status
  <2>. QED
    BY <2>1, <2>2
<1>6. ASSUME NEW sender \in Addr, NEW f \in Funds,
             execute_release(sender, f)
      PROVE  StatusAdvance
  <2>1. CASE ReleaseError(sender) # "ok"
    BY <1>2, <1>6, <2>1 DEF execute_release, Fail
  <2>2. CASE ReleaseError(sender) = "ok"
    <3>1. state.status = "Funded"
      BY <2>2 DEF ReleaseError
    <3>2. Settle(sender, f, "Released", state.seller)
      BY <1>6, <2>2 DEF execute_release
    <3>3. state.seller \in Addr /\ "Released" \in Terminal
      BY <1>0 DEF EscrowState, Terminal
    <3>. QED
      BY <3>1, <3>2, <3>3, <1>5
  <2>. QED
    BY <2>1, <2>2
<1>7. ASSUME NEW sender \in Addr, NEW f \in Funds,
             execute_refund(sender, f)
      PROVE  StatusAdvance
  <2>1. CASE RefundError(sender) # "ok"
    BY <1>2, <1>7, <2>1 DEF execute_refund, Fail
  <2>2. CASE RefundError(sender) = "ok"
    <3>1. state.status = "Funded"
      BY <2>2 DEF RefundError
    <3>2. Settle(sender, f, "Refunded", state.buyer)
      BY <1>7, <2>2 DEF execute_refund
    <3>3. state.buyer \in Addr /\ "Refunded" \in Terminal
      BY <1>0 DEF EscrowState, Terminal
    <3>. QED
      BY <3>1, <3>2, <3>3, <1>5
  <2>. QED
    BY <2>1, <2>2
<1>8. ASSUME NEW sender \in Addr, NEW f \in Funds,
             execute_deposit(sender, f)
      PROVE  StatusAdvance
  <2>1. CASE DepositError(sender, f) # "ok"
    BY <1>2, <1>8, <2>1 DEF execute_deposit, Fail
  <2>. QED
    BY <1>4, <1>8, <2>1
<1>. QED
  BY <1>2, <1>3, <1>6, <1>7, <1>8 DEF Next, Tick, vars

\* Every step keeps the saved record, moves its status only forward and
\* leaves buyer, seller, amount and expiration as instantiate set them.
THEOREM StatusMonotone == Spec => StatusOnlyAdvances
BY TypeCorrect, StatusStep, PTL DEF Spec, StatusOnlyAdvances

-----------------------------------------------------------------------------
(* Arithmetic used by the refinement proof.                               *)

\* A residue of a number below the modulus is the number itself.
LEMMA ModSmall ==
    ASSUME NEW x \in Nat, NEW m \in Nat \ {0}, x < m
    PROVE  x % m = x
BY SMT

=============================================================================
