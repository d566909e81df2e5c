------------------------ MODULE EscrowRefinementProof ------------------------
(***************************************************************************)
(* The escrow contract with its host implements the abstract escrow of     *)
(* module EscrowAbstract under the refinement mapping of module Escrow     *)
(* (the saved record is the deal, the block time the clock, the executed   *)
(* transfers the payments), for every value of the constants, when a u64   *)
(* overflow panics.                                                        *)
(***************************************************************************)
EXTENDS EscrowProofs

absVars == <<dealBar, now, sent>>

\* Once STATE is saved, query_config reads back the whole record.
LEMMA DealIsState ==
    ASSUME TypeOK
    PROVE  dealBar = state
BY DEF TypeOK, EscrowState, dealBar, query_config

\* A rolled-back invocation is an abstract stutter.
LEMMA FailStutter ==
    ASSUME NEW err, Fail(err)
    PROVE  UNCHANGED absVars
BY DEF Fail, absVars, dealBar, query_config

\* A successful instantiate opens the deal with expiration now + lock_time,
\* which the overflow check keeps at or after the block time.
LEMMA InstantiateOpens ==
    ASSUME OverflowChecks, TypeOK,
           NEW sender \in Addr, NEW sellerStr \in Addr \cup {BadAddr},
           NEW amount \in Coin, NEW lockTime \in Time, NEW f \in Funds,
           instantiate(sender, sellerStr, amount, lockTime, f)
    PROVE  [Abstract!Next]_absVars
<1>1. CASE sellerStr = BadAddr \/ now + lockTime >= TimeModulus
  BY <1>1, FailStutter DEF instantiate
<1>2. CASE sellerStr # BadAddr /\ ~(now + lockTime >= TimeModulus)
  <2> DEFINE t == (now + lockTime) % TimeModulus
  <2>1. now \in Nat /\ lockTime \in Nat /\ now + lockTime < TimeModulus
    BY <1>2, TimeModulusPositive DEF TypeOK, Time
  <2>2. t = now + lockTime
    BY <2>1, TimeModulusPositive, ModSmall
  <2>3. t \in Time /\ now <= t
    <3>1. now + lockTime \in Time /\ now <= now + lockTime
      BY <2>1, TimeModulusPositive DEF Time
    <3>. QED
      BY <2>2, <3>1
  <2>4. state = NoState
        /\ state' = [buyer |-> sender, seller |-> sellerStr, amount |-> amount,
                     expiration |-> t, status |-> "Idle"]
        /\ now' = now /\ sent' = sent
    BY <1>2 DEF instantiate
  <2>5. Abstract!Open(sender, sellerStr, amount, t)
    BY <2>3, <2>4, NoStateAssumption DEF Abstract!Open, dealBar, query_config
  <2>. QED
    BY <1>2, <2>3, <2>5 DEF Abstract!Next
<1>. QED
  BY <1>1, <1>2

\* A successful settlement is the abstract payment to the payee.
LEMMA SettlePays ==
    ASSUME TypeOK, state # NoState, NEW sender, NEW f, NEW st, NEW payee,
           Settle(sender, f, st, payee)
    PROVE  \/ UNCHANGED absVars
           \/ Abstract!Pay(st, payee)
<1>1. CASE ~BankSendOk(Attach(bank, sender, f), state.amount)
  BY <1>1, FailStutter DEF Settle
<1>2. CASE BankSendOk(Attach(bank, sender, f), state.amount)
  BY <1>2, NoStateAssumption DEF Settle, Abstract!Pay, dealBar, query_config, TypeOK, EscrowState
<1>. QED
  BY <1>1, <1>2

LEMMA RefinementStep ==
    ASSUME OverflowChecks
    PROVE  TypeOK /\ [Next]_vars => [Abstract!Next]_absVars
<1> SUFFICES ASSUME TypeOK, [Next]_vars PROVE [Abstract!Next]_absVars
  OBVIOUS
<1>1. ASSUME NEW sender \in Addr, NEW sellerStr \in Addr \cup {BadAddr},
             NEW amount \in Coin, NEW lockTime \in Time, NEW f \in Funds,
             instantiate(sender, sellerStr, amount, lockTime, f)
      PROVE  [Abstract!Next]_absVars
  BY <1>1, InstantiateOpens
<1>2. ASSUME NEW sender \in Addr, NEW f \in Funds, execute_deposit(sender, f)
      PROVE  [Abstract!Next]_absVars
  <2>1. CASE DepositError(sender, f) # "ok"
    BY <1>2, <2>1, FailStutter DEF execute_deposit
  <2>2. CASE DepositError(sender, f) = "ok"
    <3>1. state # NoState /\ state.status = "Idle"
          /\ state' = [state EXCEPT !.status = "Funded"]
          /\ now' = now /\ sent' = sent
      BY <1>2, <2>2 DEF execute_deposit, DepositError
    <3>2. Abstract!Fund
      BY <3>1, NoStateAssumption DEF Abstract!Fund, dealBar, query_config, TypeOK, EscrowState
    <3>. QED
      BY <3>2 DEF Abstract!Next
  <2>. QED
    BY <2>1, <2>2
<1>3. ASSUME NEW sender \in Addr, NEW f \in Funds, execute_release(sender, f)
      PROVE  [Abstract!Next]_absVars
  <2>1. CASE ReleaseError(sender) # "ok"
    BY <1>3, <2>1, FailStutter DEF execute_release
  <2>2. CASE ReleaseError(sender) = "ok"
    <3>1. state # NoState /\ state.status = "Funded"
          /\ Settle(sender, f, "Released", state.seller)
      BY <1>3, <2>2 DEF execute_release, ReleaseError
    <3>2. now < state.expiration
      <4>1. ~(now >= state.expiration)
        BY <2>2, <3>1 DEF ReleaseError
      <4>2. now \in Nat /\ state.expiration \in Nat
        BY <3>1 DEF TypeOK, EscrowState, Time
      <4>. QED
        BY <4>1, <4>2
    <3>3. UNCHANGED absVars \/ Abstract!Pay("Released", state.seller)
      BY <3>1, SettlePays
    <3>. QED
      BY <3>1, <3>2, <3>3, DealIsState DEF Abstract!Next, Abstract!PaySeller
  <2>. QED
    BY <2>1, <2>2
<1>4. ASSUME NEW sender \in Addr, NEW f \in Funds, execute_refund(sender, f)
      PROVE  [Abstract!Next]_absVars
  <2>1. CASE RefundError(sender) # "ok"
    BY <1>4, <2>1, FailStutter DEF execute_refund
  <2>2. CASE RefundError(sender) = "ok"
    <3>1. state # NoState /\ state.status = "Funded"
          /\ Settle(sender, f, "Refunded", state.buyer)
      BY <1>4, <2>2 DEF execute_refund, RefundError
    <3>2. state.expiration <= now
      <4>1. ~(now < state.expiration)
        BY <2>2, <3>1 DEF RefundError
      <4>2. now \in Nat /\ state.expiration \in Nat
        BY <3>1 DEF TypeOK, EscrowState, Time
      <4>. QED
        BY <4>1, <4>2
    <3>3. UNCHANGED absVars \/ Abstract!Pay("Refunded", state.buyer)
      BY <3>1, SettlePays
    <3>. QED
      BY <3>1, <3>2, <3>3, DealIsState DEF Abstract!Next, Abstract!PayBuyer
  <2>. QED
    BY <2>1, <2>2
<1>5. CASE Tick
  BY <1>5 DEF Tick, Abstract!Next, Abstract!Advance, dealBar, query_config, absVars
<1>6. CASE UNCHANGED vars
  BY <1>6 DEF vars, absVars, dealBar, query_config
<1>. QED
  BY <1>1, <1>2, <1>3, <1>4, <1>5, <1>6 DEF Next

\* With overflow checks on, every behaviour of the contract and its host
\* is a behaviour of the abstract escrow: opened with a deadline not in the
\* past, funded once, paid once, to the seller strictly before expiration
\* or to the buyer from then on.
THEOREM Refinement ==
    ASSUME OverflowChecks
    PROVE  Spec => RefinesAbstract
<1>1. Init => Abstract!Init
  BY DEF Init, Abstract!Init, dealBar
<1>2. TypeOK /\ [Next]_vars => [Abstract!Next]_absVars
  BY RefinementStep
<1>. QED
  BY <1>1, <1>2, TypeCorrect, PTL
  DEF Spec, RefinesAbstract, Abstract!Spec, absVars
=============================================================================
