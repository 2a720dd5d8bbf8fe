----------------------------- MODULE DailyMeter -----------------------------
(***************************************************************************)
(* What a daily read budget promises: on no day are more reads spent than  *)
(* the day's limit, whoever spends them.                                   *)
(***************************************************************************)
EXTENDS Integers

CONSTANTS Limit, Days

VARIABLES spent     \* [Days -> Nat] reads X charged for against that day

MeterInit == spent = [d \in Days |-> 0]

Spend(d, reads) ==
    /\ spent[d] + reads <= Limit
    /\ spent' = [spent EXCEPT ![d] = @ + reads]

MeterNext == \E d \in Days, reads \in 0..Limit : Spend(d, reads)

MeterSpec == MeterInit /\ [][MeterNext]_spent
=============================================================================
