------------------------- MODULE FaucetRefinementProof -------------------------
(***************************************************************************)
(* The faucet contract with its host implements the faucet's promise of    *)
(* module FaucetAbstract under the refinement mapping of module Faucet     *)
(* (CONFIG is the setting, the block time the clock, the payments the      *)
(* abstract payments), for every value of the constants, when a u64        *)
(* overflow panics.                                                        *)
(***************************************************************************)
EXTENDS FaucetProofs

absVars == <<config, now, paidAt>>

\* LAST_CLAIM is the last payment in every reachable state.
LEMMA LInvariant == Spec => []LInv
BY TypeCorrect, LastClaimInvariant, PTL DEF LInv

\* A rolled-back invocation is an abstract stutter.
LEMMA FailStutter ==
    ASSUME NEW err, Fail(err)
    PROVE  UNCHANGED absVars
BY DEF Fail, absVars

\* With overflow checks on, a successful instantiate saves a setting: the
\* product hours * 3600 is a time whenever it does not panic.
LEMMA InstantiateConfigures ==
    ASSUME OverflowChecks, TypeOK,
           NEW sender \in Addr, NEW hours \in 0 .. MaxHours,
           NEW amount \in 0 .. MaxCoin, NEW q \in 0 .. MaxCoin,
           instantiate(sender, hours, amount, q)
    PROVE  [Abstract!Next]_absVars
<1>1. CASE MulU64(hours, HourSeconds) = Panic
  BY <1>1, FailStutter DEF instantiate
<1>2. CASE MulU64(hours, HourSeconds) # Panic
  <2>1. MulU64(hours, HourSeconds) \in Time
    BY <1>2, U64Results, FaucetAssumptions
  <2>2. /\ config = NoConfig
        /\ config' = [cooldown_seconds |-> MulU64(hours, HourSeconds),
                      amount |-> amount]
        /\ now' = now /\ paidAt' = paidAt
    BY <1>2 DEF instantiate
  <2>3. config' \in Abstract!Setting
    BY <2>1, <2>2 DEF Abstract!Setting
  <2>. QED
    BY <2>2, <2>3 DEF Abstract!Next, Abstract!Configure
<1>. QED
  BY <1>1, <1>2

\* With overflow checks on, a sender that passes the cooldown test of
\* execute_claim is due: LAST_CLAIM is their last payment, and the checked
\* sum last + cooldown_seconds is at most the block time.
LEMMA ClaimDue ==
    ASSUME OverflowChecks, LInv, config # NoConfig,
           NEW sender \in Addr, ClaimError(sender) = "ok"
    PROVE  Abstract!Due(sender)
<1>1. config \in Config /\ paidAt[sender] \in Seq(Time) /\ now \in Time
  BY DEF LInv, TypeOK
<1>2. Time \subseteq Nat
  BY TimeModulusPositive DEF Time
<1>3. CASE paidAt[sender] = <<>>
  BY <1>3 DEF Abstract!Due
<1>4. CASE paidAt[sender] # <<>>
  <2> DEFINE last == lastClaim[sender]
             cd   == config.cooldown_seconds
  <2>1. last = paidAt[sender][Len(paidAt[sender])] /\ last \in Time
    BY <1>1, <1>4 DEF LInv, LastClaimMatchesPayments
  <2>2. last # None /\ last \in Nat /\ cd \in Nat
    BY <1>1, <1>2, <2>1, NoConfigAssumption DEF Config
  <2>3. AddU64(last, cd) # Panic /\ ~(now < AddU64(last, cd))
    BY <2>2 DEF ClaimError
  <2>4. AddU64(last, cd) = last + cd
    BY <2>2, <2>3, U64Results
  <2>5. last + cd <= now
    BY <1>1, <1>2, <2>2, <2>3, <2>4
  <2>. QED
    BY <2>1, <2>5 DEF Abstract!Due
<1>. QED
  BY <1>3, <1>4

LEMMA RefinementStep ==
    ASSUME OverflowChecks
    PROVE  LInv /\ [Next]_vars => [Abstract!Next]_absVars
<1> SUFFICES ASSUME LInv, [Next]_vars PROVE [Abstract!Next]_absVars
  OBVIOUS
<1>1. ASSUME NEW sender \in Addr, NEW hours \in 0 .. MaxHours,
             NEW amount \in 0 .. MaxCoin, NEW q \in 0 .. MaxCoin,
             instantiate(sender, hours, amount, q)
      PROVE  [Abstract!Next]_absVars
  BY <1>1, InstantiateConfigures DEF LInv
<1>2. ASSUME NEW sender \in Addr, execute_claim(sender)
      PROVE  [Abstract!Next]_absVars
  <2>1. CASE ClaimError(sender) # "ok" \/ ~FaucetSendOk
    BY <1>2, <2>1, FailStutter DEF execute_claim
  <2>2. CASE ClaimError(sender) = "ok" /\ FaucetSendOk
    <3>1. /\ config # NoConfig
          /\ paidAt' = [paidAt EXCEPT ![sender] = Append(@, now)]
          /\ config' = config /\ now' = now
      BY <1>2, <2>2 DEF execute_claim, Pay
    <3>2. Abstract!Due(sender)
      BY <2>2, <3>1, ClaimDue
    <3>3. Abstract!Dispense(sender)
      BY <3>1, <3>2 DEF Abstract!Dispense
    <3>. QED
      BY <3>3 DEF Abstract!Next
  <2>. QED
    BY <2>1, <2>2
<1>3. ASSUME NEW sender \in Addr, NEW q \in 1 .. MaxCoin, Donate(sender, q)
      PROVE  [Abstract!Next]_absVars
  BY <1>3 DEF Donate, absVars
<1>4. CASE Tick
  BY <1>4 DEF Tick, Abstract!Next, Abstract!Advance
<1>5. CASE UNCHANGED vars
  BY <1>5 DEF vars, absVars
<1>. QED
  BY <1>1, <1>2, <1>3, <1>4, <1>5 DEF Next

\* With overflow checks on, every behaviour of the faucet and its host is
\* a behaviour of its promise: configured once, and paying a sender only
\* when never paid before or last paid at least a cooldown ago.
THEOREM Refinement ==
    ASSUME OverflowChecks
    PROVE  Spec => RefinesAbstract
<1>1. Init => Abstract!Init
  BY DEF Init, Abstract!Init
<1>2. LInv /\ [Next]_vars => [Abstract!Next]_absVars
  BY RefinementStep
<1>. QED
  BY <1>1, <1>2, LInvariant, PTL
  DEF Spec, RefinesAbstract, Abstract!Spec, absVars

=============================================================================
