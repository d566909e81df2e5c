--------------------------- MODULE FaucetAbstract ---------------------------
(***************************************************************************)
(* What the faucet promises (spec.md section 4.2), with no bank, no        *)
(* overflow and no errors: it is configured once with a cooldown and an    *)
(* amount, and then pays a requester at the current time when it has never *)
(* paid them or paid them last at least a cooldown ago.  The clock only    *)
(* moves forward.                                                          *)
(***************************************************************************)
EXTENDS Naturals, Sequences

CONSTANTS
    Requester,  \* the accounts that may claim
    Instant,    \* the values of the clock
    Money,      \* the amounts a claim may pay
    NoSetting   \* before the faucet is configured

VARIABLES
    setting,    \* NoSetting, or the cooldown and the amount
    clock,      \* the current time
    paid        \* requester -> the times of the payments to them, in order

Setting == [cooldown_seconds : Instant, amount : Money]

Init ==
    /\ setting = NoSetting
    /\ clock \in Instant
    /\ paid = [a \in Requester |-> <<>>]

Configure(c) ==
    /\ setting = NoSetting
    /\ setting' = c
    /\ UNCHANGED <<clock, paid>>

\* The requester is due: never paid, or last paid a cooldown or more ago.
Due(a) ==
    \/ paid[a] = <<>>
    \/ paid[a][Len(paid[a])] + setting.cooldown_seconds <= clock

Dispense(a) ==
    /\ setting # NoSetting
    /\ Due(a)
    /\ paid' = [paid EXCEPT ![a] = Append(@, clock)]
    /\ UNCHANGED <<setting, clock>>

Advance ==
    /\ clock' = clock + 1
    /\ UNCHANGED <<setting, paid>>

Next ==
    \/ \E c \in Setting : Configure(c)
    \/ \E a \in Requester : Dispense(a)
    \/ Advance

Spec == Init /\ [][Next]_<<setting, clock, paid>>

=============================================================================
