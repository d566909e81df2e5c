--------------------------- MODULE EscrowAbstract ---------------------------
(***************************************************************************)
(* What the escrow promises (spec.md sections 4.1 and 8), with no bank,    *)
(* no callers and no errors: a deal between a buyer and a seller is        *)
(* opened with a deadline no earlier than the current time, funded once,   *)
(* and then paid out once, to the seller strictly before the deadline or   *)
(* to the buyer at or after it.  The clock only moves forward.             *)
(***************************************************************************)
EXTENDS Naturals, Sequences

CONSTANTS
    Party,    \* the accounts that may be buyer or seller
    Money,    \* the amounts a deal may be for
    Instant,  \* the values of the clock
    NoDeal    \* before a deal is opened

VARIABLES
    deal,     \* NoDeal, or the terms of the deal and its phase
    clock,    \* the current time
    paid      \* the payments made so far, in order

Phase == {"Idle", "Funded", "Released", "Refunded"}

Deal ==
    [buyer : Party, seller : Party, amount : Money, expiration : Instant,
     status : Phase]

Payment == [to : Party, coin : Money]

Init ==
    /\ deal = NoDeal
    /\ clock \in Instant
    /\ paid = <<>>

\* A deal is opened: nothing is paid, and the deadline is not in the past.
Open(b, s, m, t) ==
    /\ deal = NoDeal
    /\ clock <= t
    /\ deal' = [buyer |-> b, seller |-> s, amount |-> m, expiration |-> t,
                status |-> "Idle"]
    /\ UNCHANGED <<clock, paid>>

\* The buyer's funds are committed to the deal.
Fund ==
    /\ deal # NoDeal
    /\ deal.status = "Idle"
    /\ deal' = [deal EXCEPT !.status = "Funded"]
    /\ UNCHANGED <<clock, paid>>

\* Settlement: the one payment of the deal's amount to the payee.
Pay(newStatus, payee) ==
    /\ deal' = [deal EXCEPT !.status = newStatus]
    /\ paid' = Append(paid, [to |-> payee, coin |-> deal.amount])
    /\ UNCHANGED clock

PaySeller ==
    /\ deal # NoDeal
    /\ deal.status = "Funded"
    /\ clock < deal.expiration
    /\ Pay("Released", deal.seller)

PayBuyer ==
    /\ deal # NoDeal
    /\ deal.status = "Funded"
    /\ deal.expiration <= clock
    /\ Pay("Refunded", deal.buyer)

Advance ==
    /\ clock' = clock + 1
    /\ UNCHANGED <<deal, paid>>

Next ==
    \/ \E b, s \in Party, m \in Money, t \in Instant : Open(b, s, m, t)
    \/ Fund
    \/ PaySeller
    \/ PayBuyer
    \/ Advance

Spec == Init /\ [][Next]_<<deal, clock, paid>>

=============================================================================
