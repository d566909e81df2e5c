---------------------------- MODULE FaucetProofs ----------------------------
(***************************************************************************)
(* Proofs about the faucet contract (module Faucet), for every set of      *)
(* senders, every coin and cooldown bound and every counter width.         *)
(***************************************************************************)
EXTENDS Faucet, TLAPS

LEMMA TimeModulusPositive == TimeModulus \in Nat \ {0}
BY FaucetAssumptions DEF TimeModulus

\* The u64 operations yield a time or Panic, and, when overflow checks are
\* on and they do not panic, the exact result.
LEMMA U64Results ==
    ASSUME NEW x \in Nat, NEW y \in Nat
    PROVE  /\ AddU64(x, y) \in Time \cup {Panic}
           /\ MulU64(x, y) \in Time \cup {Panic}
           /\ OverflowChecks /\ AddU64(x, y) # Panic => AddU64(x, y) = x + y
           /\ OverflowChecks /\ MulU64(x, y) # Panic => MulU64(x, y) = x * y
BY TimeModulusPositive, FaucetAssumptions
DEF AddU64, MulU64, Time, Panic

LEMMA PanicNotTime == Panic \notin Time
BY DEF Panic, Time

-----------------------------------------------------------------------------
(* Type correctness.                                                       *)

LEMMA FailType ==
    ASSUME TypeOK, NEW err \in Outcomes, Fail(err)
    PROVE  TypeOK'
BY DEF Fail, TypeOK

LEMMA ClaimErrorType ==
    ASSUME NEW sender \in Addr
    PROVE  ClaimError(sender) \in Outcomes
BY DEF ClaimError, Outcomes

LEMMA TypeStep == TypeOK /\ [Next]_vars => TypeOK'
<1> SUFFICES ASSUME TypeOK, [Next]_vars PROVE TypeOK'
  OBVIOUS
<1>0. TimeModulus \in Nat \ {0} /\ HourSeconds \in Nat /\ MaxCoin \in Nat
  BY TimeModulusPositive, FaucetAssumptions
<1>1. ASSUME NEW sender \in Addr, NEW hours \in 0 .. MaxHours,
             NEW amount \in 0 .. MaxCoin, NEW q \in 0 .. MaxCoin,
             instantiate(sender, hours, amount, q)
      PROVE  TypeOK'
  <2>1. CASE MulU64(hours, HourSeconds) = Panic
    BY <1>1, <2>1, FailType DEF instantiate, Outcomes
  <2>2. CASE MulU64(hours, HourSeconds) # Panic
    <3>1. MulU64(hours, HourSeconds) \in Time
      BY <1>0, <2>2, U64Results
    <3>2. config' = [cooldown_seconds |-> MulU64(hours, HourSeconds),
                     amount |-> amount]
          /\ bank' = [bank EXCEPT ![sender] = @ - q, ![FaucetAcct] = @ + q]
          /\ q <= bank[sender] /\ outcome' = "ok" /\ requested' = hours
          /\ UNCHANGED <<lastClaim, now, paidAt>>
      BY <1>1, <2>2 DEF instantiate
    <3>3. bank' \in [Accounts -> Nat]
      BY <3>2 DEF TypeOK, Accounts
    <3>. QED
      BY <3>1, <3>2, <3>3 DEF TypeOK, Config, Outcomes
  <2>. QED
    BY <2>1, <2>2
<1>2. ASSUME NEW sender \in Addr, execute_claim(sender)
      PROVE  TypeOK'
  <2>1. CASE ClaimError(sender) # "ok"
    BY <1>2, <2>1, ClaimErrorType, FailType DEF execute_claim
  <2>2. CASE ClaimError(sender) = "ok" /\ ~FaucetSendOk
    BY <1>2, <2>2, FailType DEF execute_claim, Outcomes
  <2>3. CASE ClaimError(sender) = "ok" /\ FaucetSendOk
    <3>1. config \in Config
      BY <1>2 DEF execute_claim, TypeOK
    <3>2. lastClaim' = [lastClaim EXCEPT ![sender] = now]
          /\ bank' = [bank EXCEPT ![FaucetAcct] = @ - config.amount,
                                  ![sender] = @ + config.amount]
          /\ paidAt' = [paidAt EXCEPT ![sender] = Append(@, now)]
          /\ outcome' = "ok" /\ UNCHANGED <<config, now, requested>>
      BY <1>2, <2>3 DEF execute_claim, Pay
    <3>3. bank' \in [Accounts -> Nat]
      BY <2>3, <3>1, <3>2 DEF TypeOK, Accounts, Config, FaucetSendOk
    <3>. QED
      BY <3>2, <3>3 DEF TypeOK, Outcomes
  <2>. QED
    BY <2>1, <2>2, <2>3
<1>3. ASSUME NEW sender \in Addr, NEW q \in 1 .. MaxCoin, Donate(sender, q)
      PROVE  TypeOK'
  BY <1>3 DEF Donate, TypeOK, Accounts
<1>4. CASE Tick
  BY <1>0, <1>4 DEF Tick, TypeOK, Time
<1>5. CASE UNCHANGED vars
  BY <1>5 DEF vars, TypeOK
<1>. QED
  BY <1>1, <1>2, <1>3, <1>4, <1>5 DEF Next

\* The faucet's variables always have their types; in particular no
\* balance goes negative, whether u64 overflow panics or wraps.
THEOREM TypeCorrect == Spec => []TypeOK
<1>1. Init => TypeOK
  BY TimeModulusPositive, FaucetAssumptions, NoConfigAssumption
  DEF Init, TypeOK, Accounts, Time, Outcomes
<1>. QED
  BY <1>1, TypeStep, PTL DEF Spec

-----------------------------------------------------------------------------
(* LAST_CLAIM and the payments.                                            *)

LInv == TypeOK /\ LastClaimMatchesPayments

\* A step that leaves LAST_CLAIM and the payments alone keeps LInv.
LEMMA LInvUnchanged ==
    ASSUME LInv, TypeOK', lastClaim' = lastClaim, paidAt' = paidAt
    PROVE  LInv'
BY DEF LInv, LastClaimMatchesPayments

LEMMA LInvStep == LInv /\ [Next]_vars => LInv'
<1> SUFFICES ASSUME LInv, [Next]_vars PROVE LInv'
  OBVIOUS
<1>0. TypeOK'
  BY TypeStep DEF LInv
<1>1. ASSUME NEW sender \in Addr, execute_claim(sender),
             ClaimError(sender) = "ok", FaucetSendOk
      PROVE  LInv'
  <2>1. lastClaim' = [lastClaim EXCEPT ![sender] = now]
        /\ paidAt' = [paidAt EXCEPT ![sender] = Append(@, now)]
    BY <1>1 DEF execute_claim, Pay
  <2>2. ASSUME NEW a \in Addr
        PROVE  IF paidAt'[a] = <<>> THEN lastClaim'[a] = None
               ELSE lastClaim'[a] = paidAt'[a][Len(paidAt'[a])]
    <3>1. CASE a = sender
      <4>1. paidAt'[a] = Append(paidAt[a], now) /\ lastClaim'[a] = now
        BY <2>1, <3>1 DEF LInv, TypeOK
      <4>2. paidAt[a] \in Seq(Time)
        BY DEF LInv, TypeOK
      <4>. QED
        BY <4>1, <4>2
    <3>2. CASE a # sender
      BY <2>1, <3>2 DEF LInv, TypeOK, LastClaimMatchesPayments
    <3>. QED
      BY <3>1, <3>2
  <2>. QED
    BY <1>0, <2>2 DEF LInv, LastClaimMatchesPayments
<1>2. ASSUME NEW sender \in Addr, execute_claim(sender),
             ~(ClaimError(sender) = "ok" /\ FaucetSendOk)
      PROVE  LInv'
  BY <1>0, <1>2, LInvUnchanged DEF execute_claim, Fail
<1>3. ASSUME NEW sender \in Addr, NEW hours \in 0 .. MaxHours,
             NEW amount \in 0 .. MaxCoin, NEW q \in 0 .. MaxCoin,
             instantiate(sender, hours, amount, q)
      PROVE  LInv'
  BY <1>0, <1>3, LInvUnchanged DEF instantiate, Fail
<1>4. CASE \/ \E sender \in Addr, q \in 1 .. MaxCoin : Donate(sender, q)
           \/ Tick \/ UNCHANGED vars
  BY <1>0, <1>4, LInvUnchanged DEF Donate, Tick, vars
<1>. QED
  BY <1>1, <1>2, <1>3, <1>4 DEF Next

\* LAST_CLAIM is saved with the payment and rolled back with a failed
\* send: it always holds the time of the sender's last payment.
THEOREM LastClaimInvariant == Spec => []LastClaimMatchesPayments
<1>1. Init => LInv
  BY TypeCorrect, TimeModulusPositive, FaucetAssumptions, NoConfigAssumption
  DEF Init, LInv, TypeOK, Accounts, Time, Outcomes, LastClaimMatchesPayments
<1>. QED
  BY <1>1, LInvStep, PTL DEF Spec, LInv

-----------------------------------------------------------------------------
(* The cooldown, with overflow checks on.                                  *)

\* No one is paid before instantiate saves the configuration.
UnconfiguredUnpaid == config = NoConfig => \A a \in Addr : paidAt[a] = <<>>

\* Every payment was made at a block time not after the current one.
PaidInPast == \A a \in Addr : \A i \in 1 .. Len(paidAt[a]) : paidAt[a][i] <= now

\* The inductive invariant: the cooldown test of execute_claim compares now
\* with LAST_CLAIM, so the gap it enforces is a gap between payments only
\* because LAST_CLAIM is the last payment (LInv), the configuration is
\* fixed before the first payment, and the clock never runs backwards.
CInv ==
    /\ LInv /\ UnconfiguredUnpaid /\ PaidInPast /\ CooldownRespected

\* A step that changes none of config, paidAt and now keeps the cooldown
\* conjuncts.
LEMMA CInvFrame ==
    ASSUME CInv, LInv', config' = config, paidAt' = paidAt, now' = now
    PROVE  CInv'
BY DEF CInv, UnconfiguredUnpaid, PaidInPast, CooldownRespected

\* The paying step of execute_claim keeps the gap between the sender's
\* last two payments at least cooldown_seconds.
LEMMA ClaimKeepsCooldown ==
    ASSUME OverflowChecks, CInv, NEW sender \in Addr, execute_claim(sender),
           ClaimError(sender) = "ok", FaucetSendOk
    PROVE  CInv'
<1>0. LInv'
  BY LInvStep DEF CInv, Next
<1>1. config # NoConfig /\ config' = config /\ requested' = requested
      /\ now' = now
      /\ paidAt' = [paidAt EXCEPT ![sender] = Append(@, now)]
  BY DEF execute_claim, Pay
<1>2. config \in Config /\ paidAt \in [Addr -> Seq(Time)] /\ now \in Time
      /\ lastClaim \in [Addr -> Time \cup {None}]
  BY <1>1 DEF CInv, LInv, TypeOK
<1>3. Time \subseteq Nat
  BY TimeModulusPositive DEF Time
<1>4. ASSUME paidAt[sender] # <<>>
      PROVE  now - paidAt[sender][Len(paidAt[sender])] >= config.cooldown_seconds
  <2> DEFINE last == lastClaim[sender]
             cd   == config.cooldown_seconds
  <2>1. last = paidAt[sender][Len(paidAt[sender])] /\ last # None
    <3>1. last = paidAt[sender][Len(paidAt[sender])]
      BY <1>4 DEF CInv, LInv, LastClaimMatchesPayments
    <3>2. paidAt[sender][Len(paidAt[sender])] \in Time
      BY <1>2, <1>4
    <3>. QED
      BY <3>1, <3>2, NoConfigAssumption
  <2>2. last \in Nat /\ cd \in Nat
    BY <1>2, <1>3, <2>1 DEF Config
  <2>3. AddU64(last, cd) # Panic /\ ~(now < AddU64(last, cd))
    BY <2>1 DEF ClaimError
  <2>4. AddU64(last, cd) = last + cd
    BY <2>2, <2>3, U64Results
  <2>. QED
    BY <1>2, <1>3, <2>1, <2>2, <2>3, <2>4
<1>5. CooldownRespected'
  <2> SUFFICES ASSUME NEW a \in Addr, NEW i \in 1 .. (Len(paidAt'[a]) - 1)
               PROVE  paidAt'[a][i + 1] - paidAt'[a][i] >= config.cooldown_seconds
    BY <1>1 DEF CooldownRespected
  <2>1. CASE a # sender
    BY <1>1, <2>1 DEF CInv, CooldownRespected
  <2>2. CASE a = sender
    <3> DEFINE p == paidAt[sender]
    <3>1. p \in Seq(Time) /\ paidAt'[a] = Append(p, now)
      BY <1>1, <1>2, <2>2
    <3>2. CASE i < Len(p)
      <4>1. i \in 1 .. (Len(p) - 1)
            /\ paidAt'[a][i] = p[i] /\ paidAt'[a][i + 1] = p[i + 1]
        BY <3>1, <3>2
      <4>2. \A j \in 1 .. (Len(p) - 1) : p[j + 1] - p[j] >= config.cooldown_seconds
        BY DEF CInv, CooldownRespected
      <4>. QED
        BY <4>1, <4>2
    <3>3. CASE i = Len(p)
      <4>1. p # <<>> /\ paidAt'[a][i + 1] = now /\ paidAt'[a][i] = p[Len(p)]
        BY <3>1, <3>3
      <4>. QED
        BY <1>4, <4>1
    <3>. QED
      BY <3>1, <3>2, <3>3
  <2>. QED
    BY <2>1, <2>2
<1>6. PaidInPast'
  BY <1>1, <1>2, <1>3 DEF CInv, PaidInPast
<1>7. UnconfiguredUnpaid'
  BY <1>1 DEF CInv, UnconfiguredUnpaid
<1>. QED
  BY <1>0, <1>5, <1>6, <1>7 DEF CInv

LEMMA CInvStep ==
    ASSUME OverflowChecks
    PROVE  CInv /\ [Next]_vars => CInv'
<1> SUFFICES ASSUME CInv, [Next]_vars PROVE CInv'
  OBVIOUS
<1>0. LInv'
  BY LInvStep DEF CInv
<1>1. ASSUME NEW sender \in Addr, execute_claim(sender)
      PROVE  CInv'
  <2>1. CASE ClaimError(sender) = "ok" /\ FaucetSendOk
    BY <1>1, <2>1, ClaimKeepsCooldown
  <2>2. CASE ~(ClaimError(sender) = "ok" /\ FaucetSendOk)
    BY <1>0, <1>1, <2>2, CInvFrame DEF execute_claim, Fail
  <2>. QED
    BY <2>1, <2>2
<1>2. ASSUME NEW sender \in Addr, NEW hours \in 0 .. MaxHours,
             NEW amount \in 0 .. MaxCoin, NEW q \in 0 .. MaxCoin,
             instantiate(sender, hours, amount, q)
      PROVE  CInv'
  <2>1. CASE MulU64(hours, HourSeconds) = Panic
    BY <1>0, <1>2, <2>1, CInvFrame DEF instantiate, Fail
  <2>2. CASE MulU64(hours, HourSeconds) # Panic
    <3>1. config = NoConfig /\ paidAt' = paidAt /\ now' = now
      BY <1>2, <2>2 DEF instantiate
    <3>2. \A a \in Addr : paidAt'[a] = <<>>
      BY <3>1 DEF CInv, UnconfiguredUnpaid
    <3>3. CooldownRespected' /\ UnconfiguredUnpaid' /\ PaidInPast'
      BY <3>2 DEF CooldownRespected, UnconfiguredUnpaid, PaidInPast
    <3>. QED
      BY <1>0, <3>3 DEF CInv
  <2>. QED
    BY <2>1, <2>2
<1>3. ASSUME NEW sender \in Addr, NEW q \in 1 .. MaxCoin, Donate(sender, q)
      PROVE  CInv'
  BY <1>0, <1>3, CInvFrame DEF Donate
<1>4. CASE Tick
  <2>1. now' = now + 1 /\ now \in Nat
        /\ UNCHANGED <<config, paidAt>>
    BY <1>4, TimeModulusPositive DEF Tick, CInv, LInv, TypeOK, Time
  <2>2. PaidInPast'
    <3> SUFFICES ASSUME NEW a \in Addr, NEW i \in 1 .. Len(paidAt[a])
                 PROVE  paidAt[a][i] <= now + 1
      BY <2>1 DEF PaidInPast
    <3>1. paidAt[a][i] <= now
      BY DEF CInv, PaidInPast
    <3>2. paidAt[a][i] \in Time
      BY DEF CInv, LInv, TypeOK
    <3>. QED
      BY <2>1, <3>1, <3>2, TimeModulusPositive DEF Time
  <2>. QED
    BY <1>0, <2>1, <2>2 DEF CInv, UnconfiguredUnpaid, CooldownRespected
<1>5. CASE UNCHANGED vars
  BY <1>0, <1>5, CInvFrame DEF vars
<1>. QED
  BY <1>1, <1>2, <1>3, <1>4, <1>5 DEF Next

\* With overflow checks on, two payments of execute_claim to one address
\* are always at least cooldown_seconds apart.
THEOREM CooldownInvariant ==
    ASSUME OverflowChecks
    PROVE  Spec => []CooldownRespected
<1>1. Init => CInv
  BY TimeModulusPositive, FaucetAssumptions, NoConfigAssumption
  DEF Init, CInv, LInv, TypeOK, Accounts, Time, Outcomes,
      LastClaimMatchesPayments, UnconfiguredUnpaid, PaidInPast,
      CooldownRespected
<1>. QED
  BY <1>1, CInvStep, PTL DEF Spec, CInv

=============================================================================
