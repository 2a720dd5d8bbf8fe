---------------------------- MODULE LedgerProofs ----------------------------
(***************************************************************************)
(* Theorems about PaperLedger: for any markets, traders, prices and        *)
(* limits, the types are kept, the positions are what the fills add up to, *)
(* a settled row has its settlement in the log, and each watcher pays a    *)
(* market out at most once; with a lone watcher, a market is paid out once *)
(* and its realized P&L is final; a lone trader keeps the position limit.  *)
(***************************************************************************)
EXTENDS PaperLedger, SetLemmas

\* What a fill is made of, and whether it settles, is read off everywhere.
USE DEF Fill, Settles, Logged

(* What the writers compute is well typed.                                 *)

\* The lesser and the greater of two integers.
LEMMA LesserOfTwo ==
    ASSUME NEW x \in Int, NEW y \in Int
    PROVE  Min({x, y}) \in Int /\ Min({x, y}) <= x /\ Min({x, y}) <= y
<1>1. PICK z \in {x, y} : \A w \in {x, y} : z <= w
  <2>1. x <= y \/ y <= x
    OBVIOUS
  <2> QED
    BY <2>1
<1>2. Min({x, y}) \in {x, y} /\ \A w \in {x, y} : Min({x, y}) <= w
  BY <1>1 DEF Min
<1> QED
  BY <1>2

LEMMA GreaterOfTwo ==
    ASSUME NEW x \in Int, NEW y \in Int
    PROVE  Max({x, y}) \in {x, y} /\ x <= Max({x, y}) /\ y <= Max({x, y})
<1>1. PICK z \in {x, y} : \A w \in {x, y} : z >= w
  <2>1. x <= y \/ y <= x
    OBVIOUS
  <2> QED
    BY <2>1
<1>2. Max({x, y}) \in {x, y} /\ \A w \in {x, y} : Max({x, y}) >= w
  BY <1>1 DEF Max
<1> QED
  BY <1>2

LEMMA NegationType ==
    ASSUME NEW n \in Int
    PROVE  -n \in Int /\ (n # 0 => -n # 0)
OBVIOUS

LEMMA TargetPositionType ==
    ASSUME NEW pHat \in Int, NEW mark \in Int
    PROVE  TargetPosition(pHat, mark) \in Int
<1> DEFINE cap == MaxShares * Scale
           sized == (pHat - mark) * MaxShares
<1>1. cap \in Int /\ -cap \in Int /\ sized \in Int
  BY LedgerAssumption
<1> HIDE DEF cap, sized
<1>2. Min({cap, sized}) \in Int
  BY <1>1, LesserOfTwo
<1>3. Max({-cap, Min({cap, sized})}) \in Int
  BY <1>1, <1>2, GreaterOfTwo
<1> QED
  BY <1>3 DEF TargetPosition, cap, sized

LEMMA FillType ==
    ASSUME NEW m \in Markets, NEW action \in {"buy", "sell", "settle"},
           NEW quantity \in Nat \ {0}, NEW qty \in Int, NEW cash \in Int
    PROVE  Fill("fill", m, action, quantity, qty, cash) \in TaskType
BY DEF TaskType

LEMMA AbsoluteValue ==
    ASSUME NEW n \in Int
    PROVE  /\ AbsInt(n) \in Nat /\ (n # 0 => AbsInt(n) # 0)
           /\ IF n > 0 THEN n = AbsInt(n) ELSE n = -AbsInt(n)
           /\ n = AbsInt(n) \/ n = -AbsInt(n)
           /\ -n = AbsInt(n) \/ -n = -AbsInt(n)
BY DEF AbsInt

\* A fill in flight has typed fields, and so has the drop it leaves behind.
LEMMA InFlightType ==
    ASSUME LedgerTypeOK, NEW a \in Actors, task[a] # Idle
    PROVE  /\ task[a].market \in Markets /\ task[a].qty \in Int
           /\ task[a].quantity \in Nat /\ task[a].cash \in Int
           /\ task[a].action \in {"buy", "sell", "settle"}
           /\ PaidBy(task[a]) \in Int
           /\ \A action : LoggedAs(action, task[a]) \in Nat
<1>1. task[a] \in [step : {"fill", "apply"}, market : Markets,
                  action : {"buy", "sell", "settle"}, quantity : Nat \ {0},
                  qty : Int, cash : Int]
  BY DEF LedgerTypeOK, TaskType
<1> QED
  BY <1>1 DEF PaidBy, LoggedAs

LEMMA DroppedType ==
    ASSUME LedgerTypeOK, NEW a \in Actors
    PROVE  DroppedWith(a) \in
             [Markets -> [qty : Int, cash : Int, paid : Int, settles : Nat]]
<1>1. dropped \in [Markets -> [qty : Int, cash : Int, paid : Int, settles : Nat]]
  BY DEF LedgerTypeOK
<1>2. CASE task[a].step # "apply"
  BY <1>1, <1>2 DEF DroppedWith
<1>3. CASE task[a].step = "apply"
  <2>1. task[a] # Idle
    BY <1>3 DEF Idle
  <2>2. /\ task[a].market \in Markets /\ task[a].qty \in Int
        /\ task[a].cash \in Int /\ PaidBy(task[a]) \in Int
    BY <2>1, InFlightType
  <2>3. \A m \in Markets : /\ dropped[m].qty \in Int /\ dropped[m].cash \in Int
                           /\ dropped[m].paid \in Int /\ dropped[m].settles \in Nat
    BY <1>1
  <2> QED
    BY <1>1, <1>3, <2>2, <2>3 DEF DroppedWith
<1> QED
  BY <1>2, <1>3

\* The five statements of the ledger keep its types, whoever executes them.
LEMMA LedgerStepType ==
    ASSUME LedgerTypeOK, NEW a \in Actors,
           \/ \E m \in Markets, pHat \in PHats, mark \in Marks :
                 Rebalance(a, m, pHat, mark)
           \/ \E m \in Markets, o \in Outcomes : Settle(a, m, o)
           \/ RecordFill(a) \/ ApplyToPosition(a) \/ Crash(a)
    PROVE  LedgerTypeOK'
<1> USE DEF LedgerTypeOK
<1>1. ASSUME NEW m \in Markets, NEW pHat \in PHats, NEW mark \in Marks,
             Rebalance(a, m, pHat, mark)
      PROVE  LedgerTypeOK'
  <2> DEFINE delta == TargetPosition(pHat, mark) - position[m].qty
  <2>1. pHat \in Int /\ mark \in Int
    BY LedgerAssumption
  <2>2. TargetPosition(pHat, mark) \in Int
    BY <2>1, TargetPositionType
  <2>3. delta \in Int /\ delta # 0
    BY <1>1, <2>2 DEF Rebalance
  <2>4. delta * mark \in Int
    BY <2>1, <2>3
  <2> HIDE DEF delta
  <2>5. -(delta * mark) \in Int
    BY <2>4, NegationType
  <2>6. /\ AbsInt(delta) \in Nat \ {0}
        /\ (IF delta > 0 THEN "buy" ELSE "sell") \in {"buy", "sell", "settle"}
    BY <2>3, AbsoluteValue
  <2>7. RebalanceFill(m, delta, mark) \in TaskType
    BY <2>3, <2>5, <2>6, FillType DEF RebalanceFill
  <2> QED
    BY <1>1, <2>7 DEF Rebalance, delta
<1>2. ASSUME NEW m \in Markets, NEW o \in Outcomes, Settle(a, m, o)
      PROVE  LedgerTypeOK'
  <2>1. position[m].qty \in Int /\ position[m].qty # 0
    BY <1>2 DEF Settle, HasOpenPosition
  <2>2. position[m].qty * o * Scale \in Int
    BY <2>1, LedgerAssumption DEF Outcomes
  <2>3. -(position[m].qty) \in Int /\ AbsInt(position[m].qty) \in Nat \ {0}
    BY <2>1, NegationType, AbsoluteValue
  <2>4. SettleFill(m, position[m].qty, o) \in TaskType
    BY <2>2, <2>3, FillType DEF SettleFill
  <2> QED
    BY <1>2, <2>4 DEF Settle
<1>3. CASE RecordFill(a)
  <2>1. task[a] # Idle /\ task[a] \in TaskType
    BY <1>3 DEF RecordFill, Idle
  <2>2. /\ task[a].market \in Markets /\ task[a].qty \in Int
        /\ task[a].cash \in Int /\ PaidBy(task[a]) \in Int
        /\ \A action : LoggedAs(action, task[a]) \in Nat
    BY <2>1, InFlightType
  <2>3. [task[a] EXCEPT !.step = "apply"] \in TaskType
    BY <2>1 DEF TaskType
  <2>4. task' \in [Actors -> TaskType]
    BY <1>3, <2>3 DEF RecordFill
  <2>5. replay' \in [Markets -> [bought : Nat, sold : Nat, closed : Nat, cash : Int,
                                 paid : Int, settles : Nat, trades : Nat]]
    BY <1>3, <2>2 DEF RecordFill
  <2> QED
    BY <1>3, <2>4, <2>5 DEF RecordFill
<1>4. CASE ApplyToPosition(a)
  <2>1. task[a] # Idle /\ task[a] \in TaskType
    BY <1>4 DEF ApplyToPosition, Idle
  <2>2. /\ task[a].market \in Markets /\ task[a].qty \in Int
        /\ task[a].cash \in Int
        /\ PaidBy(task[a]) \in Int
    BY <2>1, InFlightType
  <2>3. Idle \in TaskType
    BY DEF TaskType
  <2>4. position' \in [Markets -> [qty : Int, cash : Int, realized : Int,
                                   settled : BOOLEAN]]
    BY <1>4, <2>2 DEF ApplyToPosition
  <2> QED
    BY <1>4, <2>3, <2>4 DEF ApplyToPosition
<1>5. CASE Crash(a)
  BY <1>5, DroppedType DEF Crash, TaskType
<1> QED
  BY <1>1, <1>2, <1>3, <1>4, <1>5

LEMMA LedgerTypeInit == LedgerInit => LedgerTypeOK
BY DEF LedgerInit, LedgerTypeOK, TaskType, Idle

\* Every step of the ledger and of the venue keeps the types.
LEMMA LedgerTypeNext ==
    LedgerTypeOK /\ [LedgerNext]_<<outcome, ledgerVars>> => LedgerTypeOK'
<1> SUFFICES ASSUME LedgerTypeOK, [LedgerNext]_<<outcome, ledgerVars>>
             PROVE  LedgerTypeOK'
  OBVIOUS
<1>1. Traders \subseteq Actors /\ Settlers \subseteq Actors
  BY DEF Actors
<1>2. ASSUME NEW m \in Markets, NEW o \in Outcomes, Publish(m, o)
      PROVE  LedgerTypeOK'
  BY <1>2 DEF Publish, ledgerVars, LedgerTypeOK
<1>3. ASSUME NEW t \in Traders, Trade(t)
      PROVE  LedgerTypeOK'
  BY <1>1, <1>3, LedgerStepType DEF Trade
<1>4. ASSUME NEW s \in Settlers, SettleStep(s)
      PROVE  LedgerTypeOK'
  <2>1. \A m \in Markets : outcome[m] # None => outcome[m] \in Outcomes
    BY DEF LedgerTypeOK
  <2> QED
    BY <1>1, <1>4, <2>1, LedgerStepType DEF SettleStep
<1>5. ASSUME NEW a \in Actors, Crash(a)
      PROVE  LedgerTypeOK'
  BY <1>5, LedgerStepType
<1>6. CASE UNCHANGED <<outcome, ledgerVars>>
  BY <1>6 DEF ledgerVars, LedgerTypeOK
<1> QED
  BY <1>2, <1>3, <1>4, <1>5, <1>6 DEF LedgerNext

\* The tables and the writers' locals keep their types: no interleaving, crash
\* or rebalance ever makes a fill of quantity zero (CHECK (quantity > 0)).
THEOREM LedgerTypesAreKept == LedgerSpec => []LedgerTypeOK
BY LedgerTypeInit, LedgerTypeNext, PTL DEF LedgerSpec

(* SettledHasFill is inductive together with what ApplyToPosition relies   *)
(* on: a settlement that is about to be applied is in the log.             *)

SettleLogged ==
    \A a \in Actors : task[a].step = "apply" /\ Settles(task[a]) =>
        replay[task[a].market].settles > 0

LoggedInv == LedgerTypeOK /\ SettledHasFill /\ SettleLogged

LEMMA LoggedInit == LedgerInit => LoggedInv
BY LedgerTypeInit DEF LedgerInit, Idle, LoggedInv, SettledHasFill, SettleLogged

\* Nothing is ever taken back from the log.
LEMMA LogGrows ==
    ASSUME LedgerTypeOK, NEW a \in Actors, RecordFill(a), NEW m \in Markets
    PROVE  /\ replay'[m].settles >= replay[m].settles
           /\ Settles(task[a]) /\ m = task[a].market => replay'[m].settles > 0
<1>1. task[a].market \in Markets /\ replay[m].settles \in Nat
  BY InFlightType DEF RecordFill, Idle, LedgerTypeOK
<1> QED
  BY <1>1 DEF RecordFill, LedgerTypeOK

LEMMA LoggedNext ==
    LoggedInv /\ [LedgerNext]_<<outcome, ledgerVars>> => LoggedInv'
<1> SUFFICES ASSUME LoggedInv, [LedgerNext]_<<outcome, ledgerVars>>
             PROVE  SettledHasFill' /\ SettleLogged'
  BY LedgerTypeNext DEF LoggedInv
<1> USE DEF LoggedInv, SettledHasFill, SettleLogged
<1>1. /\ Traders \subseteq Actors /\ Settlers \subseteq Actors
      /\ task \in [Actors -> TaskType]
      /\ \A m \in Markets : replay[m].settles \in Nat
  BY DEF Actors, LedgerTypeOK
<1>2. ASSUME UNCHANGED <<replay, position>>, NEW a \in Actors,
             task'[a].step # "apply", \A b \in Actors \ {a} : task'[b] = task[b]
      PROVE  SettledHasFill' /\ SettleLogged'
  BY <1>2
<1>3. ASSUME NEW a \in Actors, RecordFill(a)
      PROVE  SettledHasFill' /\ SettleLogged'
  <2>1. /\ UNCHANGED position /\ task[a].market \in Markets
        /\ task'[a].market = task[a].market /\ Settles(task'[a]) = Settles(task[a])
        /\ \A b \in Actors \ {a} : task'[b] = task[b]
    BY <1>1, <1>3, InFlightType DEF RecordFill, Idle, TaskType
  <2>2. \A b \in Actors : task[b].step = "apply" => task[b].market \in Markets
    BY <1>1 DEF Idle, TaskType
  <2>3. \A m \in Markets : /\ replay[m].settles > 0 => replay'[m].settles > 0
                           /\ replay'[m].settles \in Nat
    BY <1>1, <1>3, LogGrows, LedgerTypeNext DEF LedgerTypeOK
  <2>4. Settles(task[a]) => replay'[task[a].market].settles > 0
    BY <1>3, <2>1, LogGrows
  <2> QED
    BY <2>1, <2>2, <2>3, <2>4
<1>4. ASSUME NEW a \in Actors, ApplyToPosition(a)
      PROVE  SettledHasFill' /\ SettleLogged'
  <2>1. /\ UNCHANGED replay /\ task'[a].step # "apply"
        /\ \A b \in Actors \ {a} : task'[b] = task[b]
    BY <1>1, <1>4 DEF ApplyToPosition, Idle
  <2>2. \A m \in Markets : position'[m].settled =>
            position[m].settled \/ (m = task[a].market /\ Settles(task[a]))
    BY <1>4, InFlightType DEF ApplyToPosition, LedgerTypeOK, Idle
  <2> QED
    BY <1>4, <2>1, <2>2 DEF ApplyToPosition
<1>5. CASE UNCHANGED <<replay, position, task>>
  BY <1>5
<1>6. ASSUME NEW t \in Traders, Trade(t)
      PROVE  SettledHasFill' /\ SettleLogged'
  BY <1>1, <1>2, <1>3, <1>4, <1>6 DEF Trade, Rebalance, RebalanceFill
<1>7. ASSUME NEW s \in Settlers, SettleStep(s)
      PROVE  SettledHasFill' /\ SettleLogged'
  BY <1>1, <1>2, <1>3, <1>4, <1>7 DEF SettleStep, Settle, SettleFill
<1>8. ASSUME NEW a \in Actors, Crash(a)
      PROVE  SettledHasFill' /\ SettleLogged'
  BY <1>1, <1>2, <1>8 DEF Crash, Idle
<1> QED
  BY <1>5, <1>6, <1>7, <1>8 DEF LedgerNext, Publish, ledgerVars

\* Whoever trades, settles or dies in between, with any number of watchers: a
\* row is marked settled only when its settlement is in the log.
THEOREM SettledRowsHaveFill == LedgerSpec => []SettledHasFill
<1>1. LoggedInv => SettledHasFill
  BY DEF LoggedInv
<1> QED
  BY <1>1, LoggedInit, LoggedNext, PTL DEF LedgerSpec

(* PositionsDeriveFromFills is inductive with the types and with what a    *)
(* fill in flight says of its row: a fill is always in the position,       *)
(* dropped or still to be applied.                                         *)

QtyOf(t) == [a \in Actors |-> t[a].qty]
CashOf(t) == [a \in Actors |-> t[a].cash]
PaidOf(t) == [a \in Actors |-> PaidBy(t[a])]
UnappliedIn(t, m) == {a \in Actors : t[a].step = "apply" /\ t[a].market = m}

HeldIn(rows, drops, t, m) ==
    rows[m].qty + drops[m].qty + SumFunctionOnSet(QtyOf(t), UnappliedIn(t, m))

\* What the log tells of the shares that were closed out, and of those held,
\* given the outcome.
TellsClosed(total, closedOut, result) ==
    /\ closedOut \in -total.closed .. total.closed
    /\ result = None => total.closed = 0
    /\ result # 0 => closedOut * Scale = -total.paid

Tells(total, held, result) ==
    TellsClosed(total, held - (total.bought - total.sold), result)

Derives(log, rows, drops, t, m, result) ==
    /\ log[m].cash = rows[m].cash + drops[m].cash
          + SumFunctionOnSet(CashOf(t), UnappliedIn(t, m))
    /\ log[m].paid = rows[m].realized + drops[m].paid
          + SumFunctionOnSet(PaidOf(t), UnappliedIn(t, m))
    /\ Tells(log[m], HeldIn(rows, drops, t, m), result)

LEMMA DerivedMeans ==
    /\ PositionsDeriveFromFills <=> \A m \in Markets :
           Derives(replay, position, dropped, task, m, outcome[m])
    /\ PositionsDeriveFromFills' <=> \A m \in Markets :
           Derives(replay', position', dropped', task', m, outcome'[m])
BY DEF PositionsDeriveFromFills, Held, ClosedOut, SumOver, Unapplied, QtyOf,
       CashOf, PaidOf, UnappliedIn, HeldIn, TellsClosed, Tells, Derives

\* A fill adds to the position what its row says, with the sign of its action;
\* a settlement adds the quantity with one sign or the other, and pays what it
\* takes at the published outcome.
SaysItsSign(fill, result) ==
    /\ fill.action = "buy" => fill.qty = fill.quantity
    /\ fill.action = "sell" => fill.qty = -fill.quantity
    /\ fill.action = "settle" =>
          /\ fill.qty = fill.quantity \/ fill.qty = -fill.quantity
          /\ result # None
          /\ fill.cash = (-fill.qty) * result * Scale

FillsSayTheirSign ==
    \A a \in Actors : task[a] # Idle => SaysItsSign(task[a], outcome[task[a].market])

LEMMA ProductSign ==
    ASSUME NEW x \in Int, NEW y \in Int
    PROVE  (x + y) * Scale = x * Scale + y * Scale /\ (-x) * Scale = -(x * Scale)
           /\ x * Scale \in Int
BY LedgerAssumption

\* Logging a fill keeps what the log tells.
LEMMA TellsOn ==
    ASSUME NEW total, NEW more, NEW held \in Int, NEW result \in Outcomes \union {None},
           NEW fill,
           Tells(total, held, result),
           total.bought \in Nat, total.sold \in Nat, total.closed \in Nat,
           total.paid \in Int, fill.quantity \in Nat, fill.qty \in Int, fill.cash \in Int,
           fill.action \in {"buy", "sell", "settle"},
           SaysItsSign(fill, result),
           more.bought = total.bought + LoggedAs("buy", fill),
           more.sold = total.sold + LoggedAs("sell", fill),
           more.closed = total.closed + LoggedAs("settle", fill),
           more.paid = total.paid + PaidBy(fill)
    PROVE  Tells(more, held + fill.qty, result)
<1> DEFINE taken == held - (total.bought - total.sold)
           now == (held + fill.qty) - (more.bought - more.sold)
<1>1. /\ taken \in Int /\ Scale \in Nat
      /\ taken \in -total.closed .. total.closed
      /\ result = None => total.closed = 0
      /\ result # 0 => taken * Scale = -total.paid
  BY LedgerAssumption DEF Tells, TellsClosed
<1>2. \/ /\ fill.action \in {"buy", "sell"} /\ now = taken
         /\ more.closed = total.closed /\ more.paid = total.paid
      \/ /\ fill.action = "settle" /\ now = taken + fill.qty
         /\ more.closed = total.closed + fill.quantity
         /\ more.paid = total.paid + fill.cash
  <2>1. CASE fill.action = "buy"
    BY <2>1 DEF LoggedAs, PaidBy, SaysItsSign
  <2>2. CASE fill.action = "sell"
    BY <2>2 DEF LoggedAs, PaidBy, SaysItsSign
  <2>3. CASE fill.action = "settle"
    BY <2>3 DEF LoggedAs, PaidBy
  <2> QED
    BY <2>1, <2>2, <2>3
<1> HIDE DEF taken, now
<1>4. ASSUME fill.action \in {"buy", "sell"}
      PROVE  TellsClosed(more, now, result)
  BY <1>1, <1>2, <1>4 DEF TellsClosed
<1>5. ASSUME fill.action = "settle"
      PROVE  TellsClosed(more, now, result)
  <2>1. /\ now = taken + fill.qty
        /\ more.closed = total.closed + fill.quantity
        /\ more.paid = total.paid + fill.cash
    BY <1>2, <1>5
  <2>2. now \in -more.closed .. more.closed
    <3>1. fill.qty = fill.quantity \/ fill.qty = -fill.quantity
      BY <1>5 DEF SaysItsSign
    <3> QED
      BY <1>1, <2>1, <3>1
  <2>3. ASSUME result # 0
        PROVE  now * Scale = -more.paid
    <3>1. result = 1
      BY <1>5, <2>3 DEF Outcomes, SaysItsSign
    <3>2. fill.cash = -(fill.qty * Scale)
      BY <1>1, <1>5, <3>1, ProductSign DEF SaysItsSign
    <3>3. now * Scale = taken * Scale + fill.qty * Scale
      BY <1>1, <2>1, ProductSign
    <3>4. taken * Scale = -total.paid /\ fill.qty * Scale \in Int
      BY <1>1, <2>3, ProductSign
    <3> QED
      BY <2>1, <3>2, <3>3, <3>4
  <2> QED
    BY <1>5, <2>2, <2>3 DEF TellsClosed, SaysItsSign
<1>6. TellsClosed(more, now, result)
  BY <1>2, <1>4, <1>5
<1> QED
  BY <1>6 DEF Tells, now

LEMMA FieldsType ==
    ASSUME NEW t \in [Actors -> TaskType]
    PROVE  /\ IsFiniteSet(Actors)
           /\ QtyOf(t) \in [Actors -> Int] /\ CashOf(t) \in [Actors -> Int]
           /\ PaidOf(t) \in [Actors -> Int]
<1>1. \A a \in Actors : t[a].qty \in Int /\ t[a].cash \in Int
  BY DEF TaskType, Idle
<1>2. \A a \in Actors : PaidBy(t[a]) \in Int
  BY <1>1 DEF PaidBy
<1> QED
  BY <1>1, <1>2, LedgerAssumption, FS_Union DEF Actors, QtyOf, CashOf, PaidOf

LEMMA SumsType ==
    ASSUME NEW t \in [Actors -> TaskType], NEW m
    PROVE  /\ SumFunctionOnSet(QtyOf(t), UnappliedIn(t, m)) \in Int
           /\ SumFunctionOnSet(CashOf(t), UnappliedIn(t, m)) \in Int
           /\ SumFunctionOnSet(PaidOf(t), UnappliedIn(t, m)) \in Int
<1>1. UnappliedIn(t, m) \in SUBSET Actors
  BY DEF UnappliedIn
<1> QED
  BY <1>1, FieldsType, SumLaws

\* The sums over the fills that are not applied: unchanged while those are, and
\* greater by a fill that joins them.
LEMMA SumsStay ==
    ASSUME NEW t \in [Actors -> TaskType], NEW u \in [Actors -> TaskType], NEW m,
           UnappliedIn(u, m) = UnappliedIn(t, m),
           \A a \in UnappliedIn(t, m) : u[a] = t[a]
    PROVE  LET S == UnappliedIn(t, m)
           IN  /\ SumFunctionOnSet(QtyOf(u), S) = SumFunctionOnSet(QtyOf(t), S)
               /\ SumFunctionOnSet(CashOf(u), S) = SumFunctionOnSet(CashOf(t), S)
               /\ SumFunctionOnSet(PaidOf(u), S) = SumFunctionOnSet(PaidOf(t), S)
<1> DEFINE S == UnappliedIn(t, m)
<1>1. S \subseteq Actors
  BY DEF UnappliedIn
<1>2. \A a \in S : /\ QtyOf(u)[a] = QtyOf(t)[a] /\ CashOf(u)[a] = CashOf(t)[a]
                   /\ PaidOf(u)[a] = PaidOf(t)[a]
  BY <1>1 DEF QtyOf, CashOf, PaidOf
<1> HIDE DEF S
<1>3. /\ SumFunctionOnSet(QtyOf(u), S) = SumFunctionOnSet(QtyOf(t), S)
      /\ SumFunctionOnSet(CashOf(u), S) = SumFunctionOnSet(CashOf(t), S)
      /\ SumFunctionOnSet(PaidOf(u), S) = SumFunctionOnSet(PaidOf(t), S)
  BY <1>1, <1>2, FieldsType, SumsAgree
<1> QED
  BY <1>3 DEF S

LEMMA SumsGain ==
    ASSUME NEW t \in [Actors -> TaskType], NEW u \in [Actors -> TaskType], NEW m,
           NEW a \in Actors, a \notin UnappliedIn(t, m),
           UnappliedIn(u, m) = UnappliedIn(t, m) \union {a},
           \A b \in UnappliedIn(t, m) : u[b] = t[b]
    PROVE  LET S == UnappliedIn(t, m)
               T == UnappliedIn(u, m)
           IN  /\ SumFunctionOnSet(QtyOf(u), T) = SumFunctionOnSet(QtyOf(t), S) + u[a].qty
               /\ SumFunctionOnSet(CashOf(u), T) = SumFunctionOnSet(CashOf(t), S) + u[a].cash
               /\ SumFunctionOnSet(PaidOf(u), T) =
                     SumFunctionOnSet(PaidOf(t), S) + PaidBy(u[a])
<1> DEFINE S == UnappliedIn(t, m)
<1>1. S \in SUBSET Actors
  BY DEF UnappliedIn
<1>2. \A b \in S : /\ QtyOf(t)[b] = QtyOf(u)[b] /\ CashOf(t)[b] = CashOf(u)[b]
                   /\ PaidOf(t)[b] = PaidOf(u)[b]
  BY <1>1 DEF QtyOf, CashOf, PaidOf
<1>3. /\ QtyOf(u)[a] = u[a].qty /\ CashOf(u)[a] = u[a].cash
      /\ PaidOf(u)[a] = PaidBy(u[a])
  BY DEF QtyOf, CashOf, PaidOf
<1>4. a \in Actors \ S
  OBVIOUS
<1> HIDE DEF S
<1>5. LET T == S \union {a}
      IN  /\ SumFunctionOnSet(QtyOf(u), T) = SumFunctionOnSet(QtyOf(t), S) + QtyOf(u)[a]
          /\ SumFunctionOnSet(CashOf(u), T) = SumFunctionOnSet(CashOf(t), S) + CashOf(u)[a]
          /\ SumFunctionOnSet(PaidOf(u), T) = SumFunctionOnSet(PaidOf(t), S) + PaidOf(u)[a]
  BY <1>1, <1>2, <1>4, FieldsType, SumWithOneMore
<1> QED
  BY <1>3, <1>5 DEF S

\* A step that leaves the tables and the unapplied fills alone.
LEMMA DerivesOn ==
    ASSUME LedgerTypeOK, LedgerTypeOK', PositionsDeriveFromFills,
           UNCHANGED <<outcome, replay, position, dropped>>,
           NEW a \in Actors, task[a].step # "apply", task'[a].step # "apply",
           \A b \in Actors \ {a} : task'[b] = task[b]
    PROVE  PositionsDeriveFromFills'
<1>1. task \in [Actors -> TaskType] /\ task' \in [Actors -> TaskType]
  BY DEF LedgerTypeOK
<1>2. ASSUME NEW m
      PROVE  /\ UnappliedIn(task', m) = UnappliedIn(task, m)
             /\ \A b \in UnappliedIn(task, m) : task'[b] = task[b]
  BY DEF UnappliedIn
<1> QED
  BY <1>1, <1>2, SumsStay, DerivedMeans DEF Derives, HeldIn

LEMMA RecordDerives ==
    ASSUME LedgerTypeOK, LedgerTypeOK', PositionsDeriveFromFills, FillsSayTheirSign,
           NEW a \in Actors, RecordFill(a)
    PROVE  PositionsDeriveFromFills'
<1>1. task \in [Actors -> TaskType] /\ task' \in [Actors -> TaskType]
  BY DEF LedgerTypeOK
<1>2. /\ task[a].step = "fill" /\ UNCHANGED <<outcome, position, dropped>>
      /\ \A b \in Actors \ {a} : task'[b] = task[b]
  BY <1>1 DEF RecordFill
<1>3. /\ task'[a].step = "apply" /\ task'[a].market = task[a].market
      /\ task'[a].qty = task[a].qty /\ task'[a].cash = task[a].cash
      /\ PaidBy(task'[a]) = PaidBy(task[a])
  BY <1>1 DEF RecordFill, TaskType, Idle, PaidBy
<1>4. /\ task[a].market \in Markets /\ task[a].qty \in Int /\ task[a].cash \in Int
      /\ PaidBy(task[a]) \in Int
  BY <1>2, InFlightType DEF Idle
<1>5. \A m \in Markets :
          /\ replay[m].bought \in Nat /\ replay[m].sold \in Nat
          /\ replay[m].closed \in Nat
          /\ replay[m].cash \in Int /\ replay[m].paid \in Int
          /\ outcome[m] \in Outcomes \union {None}
          /\ position[m].qty \in Int /\ position[m].cash \in Int
          /\ position[m].realized \in Int
          /\ dropped[m].qty \in Int /\ dropped[m].cash \in Int /\ dropped[m].paid \in Int
  BY DEF LedgerTypeOK
<1> SUFFICES ASSUME NEW m \in Markets
             PROVE  Derives(replay', position', dropped', task', m, outcome'[m])
  BY <1>2, DerivedMeans
<1>6. CASE m = task[a].market
  <2>1. /\ UnappliedIn(task', m) = UnappliedIn(task, m) \union {a}
        /\ a \notin UnappliedIn(task, m)
        /\ \A b \in UnappliedIn(task, m) : task'[b] = task[b]
    BY <1>2, <1>3, <1>6 DEF UnappliedIn
  <2>2. /\ replay'[m].bought = replay[m].bought + LoggedAs("buy", task[a])
        /\ replay'[m].sold = replay[m].sold + LoggedAs("sell", task[a])
        /\ replay'[m].closed = replay[m].closed + LoggedAs("settle", task[a])
        /\ replay'[m].cash = replay[m].cash + task[a].cash
        /\ replay'[m].paid = replay[m].paid + PaidBy(task[a])
    BY <1>4, <1>6 DEF RecordFill, LedgerTypeOK
  <2>3. /\ SumFunctionOnSet(QtyOf(task'), UnappliedIn(task', m)) =
              SumFunctionOnSet(QtyOf(task), UnappliedIn(task, m)) + task[a].qty
        /\ SumFunctionOnSet(CashOf(task'), UnappliedIn(task', m)) =
              SumFunctionOnSet(CashOf(task), UnappliedIn(task, m)) + task[a].cash
        /\ SumFunctionOnSet(PaidOf(task'), UnappliedIn(task', m)) =
              SumFunctionOnSet(PaidOf(task), UnappliedIn(task, m)) + PaidBy(task[a])
    <3>1. /\ SumFunctionOnSet(QtyOf(task'), UnappliedIn(task', m)) =
                SumFunctionOnSet(QtyOf(task), UnappliedIn(task, m)) + task'[a].qty
          /\ SumFunctionOnSet(CashOf(task'), UnappliedIn(task', m)) =
                SumFunctionOnSet(CashOf(task), UnappliedIn(task, m)) + task'[a].cash
          /\ SumFunctionOnSet(PaidOf(task'), UnappliedIn(task', m)) =
                SumFunctionOnSet(PaidOf(task), UnappliedIn(task, m)) + PaidBy(task'[a])
      BY <1>1, <2>1, SumsGain, ZenonT(30)
    <3> QED
      BY <1>3, <3>1
  <2>4. /\ SumFunctionOnSet(QtyOf(task), UnappliedIn(task, m)) \in Int
        /\ SumFunctionOnSet(CashOf(task), UnappliedIn(task, m)) \in Int
        /\ SumFunctionOnSet(PaidOf(task), UnappliedIn(task, m)) \in Int
    BY <1>1, SumsType
  <2>5. Derives(replay, position, dropped, task, m, outcome[m])
    BY DerivedMeans
  <2>6. /\ HeldIn(position', dropped', task', m) =
              HeldIn(position, dropped, task, m) + task[a].qty
        /\ HeldIn(position, dropped, task, m) \in Int
    BY <1>2, <1>4, <1>5, <2>3, <2>4 DEF HeldIn
  <2>7. Tells(replay[m], HeldIn(position, dropped, task, m), outcome[m])
    BY <2>5 DEF Derives
  <2>8. SaysItsSign(task[a], outcome[m])
    BY <1>2, <1>6 DEF FillsSayTheirSign, Idle
  <2>9. task[a].quantity \in Nat /\ task[a].action \in {"buy", "sell", "settle"}
    BY <1>2, InFlightType DEF Idle
  <2>10. Tells(replay'[m], HeldIn(position, dropped, task, m) + task[a].qty, outcome[m])
    BY <1>4, <1>5, <2>2, <2>6, <2>7, <2>8, <2>9, TellsOn
  <2> QED
    BY <1>2, <1>4, <1>5, <2>2, <2>3, <2>4, <2>5, <2>6, <2>10 DEF Derives
<1>7. CASE m # task[a].market
  <2>1. /\ UnappliedIn(task', m) = UnappliedIn(task, m)
        /\ \A b \in UnappliedIn(task, m) : task'[b] = task[b]
    BY <1>2, <1>3, <1>7 DEF UnappliedIn
  <2>2. replay'[m] = replay[m]
    BY <1>4, <1>7 DEF RecordFill, LedgerTypeOK
  <2> QED
    BY <1>1, <1>2, <2>1, <2>2, SumsStay, DerivedMeans DEF Derives, HeldIn
<1> QED
  BY <1>6, <1>7

\* A fill that stops being unapplied is added to the row, or to the drops.
LEMMA UnapplyDerives ==
    ASSUME LedgerTypeOK, LedgerTypeOK', PositionsDeriveFromFills,
           NEW a \in Actors, task[a].step = "apply",
           ApplyToPosition(a) \/ Crash(a)
    PROVE  PositionsDeriveFromFills'
<1>1. task \in [Actors -> TaskType] /\ task' \in [Actors -> TaskType]
  BY DEF LedgerTypeOK
<1>2. /\ task'[a].step # "apply" /\ UNCHANGED <<outcome, replay>>
      /\ \A b \in Actors \ {a} : task'[b] = task[b]
  BY <1>1 DEF ApplyToPosition, Crash, Idle
<1>3. /\ task[a].market \in Markets /\ task[a].qty \in Int /\ task[a].cash \in Int
      /\ PaidBy(task[a]) \in Int
  BY InFlightType DEF Idle
<1>4. /\ position \in [Markets -> [qty : Int, cash : Int, realized : Int,
                                   settled : BOOLEAN]]
      /\ dropped \in [Markets -> [qty : Int, cash : Int, paid : Int, settles : Nat]]
      /\ replay \in [Markets -> [bought : Nat, sold : Nat, closed : Nat, cash : Int,
                                 paid : Int, settles : Nat, trades : Nat]]
  BY DEF LedgerTypeOK
<1> SUFFICES ASSUME NEW m \in Markets
             PROVE  Derives(replay', position', dropped', task', m, outcome'[m])
  BY <1>2, DerivedMeans
<1>5. CASE m = task[a].market
  <2>1. /\ UnappliedIn(task, m) = UnappliedIn(task', m) \union {a}
        /\ a \notin UnappliedIn(task', m)
        /\ \A b \in UnappliedIn(task', m) : task[b] = task'[b]
    BY <1>2, <1>5 DEF UnappliedIn
  <2>2. \/ /\ dropped' = dropped
           /\ position'[m].qty = position[m].qty + task[a].qty
           /\ position'[m].cash = position[m].cash + task[a].cash
           /\ position'[m].realized = position[m].realized + PaidBy(task[a])
        \/ /\ position' = position
           /\ dropped'[m].qty = dropped[m].qty + task[a].qty
           /\ dropped'[m].cash = dropped[m].cash + task[a].cash
           /\ dropped'[m].paid = dropped[m].paid + PaidBy(task[a])
    BY <1>3, <1>4, <1>5 DEF ApplyToPosition, Crash, DroppedWith
  <2>3. /\ replay[m].cash \in Int /\ replay[m].paid \in Int
        /\ position[m].qty \in Int /\ position[m].cash \in Int
        /\ position[m].realized \in Int
        /\ dropped[m].qty \in Int /\ dropped[m].cash \in Int /\ dropped[m].paid \in Int
    BY <1>4
  <2>4. /\ SumFunctionOnSet(QtyOf(task), UnappliedIn(task, m)) =
              SumFunctionOnSet(QtyOf(task'), UnappliedIn(task', m)) + task[a].qty
        /\ SumFunctionOnSet(CashOf(task), UnappliedIn(task, m)) =
              SumFunctionOnSet(CashOf(task'), UnappliedIn(task', m)) + task[a].cash
        /\ SumFunctionOnSet(PaidOf(task), UnappliedIn(task, m)) =
              SumFunctionOnSet(PaidOf(task'), UnappliedIn(task', m)) + PaidBy(task[a])
    BY <1>1, <2>1, SumsGain, ZenonT(30)
  <2>5. /\ SumFunctionOnSet(QtyOf(task'), UnappliedIn(task', m)) \in Int
        /\ SumFunctionOnSet(CashOf(task'), UnappliedIn(task', m)) \in Int
        /\ SumFunctionOnSet(PaidOf(task'), UnappliedIn(task', m)) \in Int
    BY <1>1, SumsType
  <2>6. Derives(replay, position, dropped, task, m, outcome[m])
    BY DerivedMeans
  <2>7. HeldIn(position', dropped', task', m) = HeldIn(position, dropped, task, m)
    BY <1>3, <2>2, <2>3, <2>4, <2>5 DEF HeldIn
  <2> QED
    BY <1>2, <1>3, <2>2, <2>3, <2>4, <2>5, <2>6, <2>7 DEF Derives
<1>6. CASE m # task[a].market
  <2>1. /\ UnappliedIn(task', m) = UnappliedIn(task, m)
        /\ \A b \in UnappliedIn(task, m) : task'[b] = task[b]
    BY <1>2, <1>6 DEF UnappliedIn
  <2>2. position'[m] = position[m] /\ dropped'[m] = dropped[m]
    BY <1>3, <1>4, <1>6 DEF ApplyToPosition, Crash, DroppedWith
  <2> QED
    BY <1>1, <1>2, <2>1, <2>2, SumsStay, DerivedMeans DEF Derives, HeldIn
<1> QED
  BY <1>5, <1>6

DerivedInv == LedgerTypeOK /\ FillsSayTheirSign /\ PositionsDeriveFromFills

LEMMA DerivedInit == LedgerInit => DerivedInv
<1> SUFFICES ASSUME LedgerInit PROVE FillsSayTheirSign /\ PositionsDeriveFromFills
  BY LedgerTypeInit DEF DerivedInv
<1>1. task \in [Actors -> TaskType]
  BY LedgerTypeInit DEF LedgerTypeOK
<1>2. \A m : UnappliedIn(task, m) = {}
  BY DEF LedgerInit, UnappliedIn, Idle
<1>3. /\ SumFunctionOnSet(QtyOf(task), {}) = 0 /\ SumFunctionOnSet(CashOf(task), {}) = 0
      /\ SumFunctionOnSet(PaidOf(task), {}) = 0
  BY <1>1, FieldsType, SumLaws
<1>4. FillsSayTheirSign
  BY DEF LedgerInit, FillsSayTheirSign
<1>5. 0 * Scale = 0
  BY LedgerAssumption
<1>6. ASSUME NEW m \in Markets
      PROVE  Derives(replay, position, dropped, task, m, outcome[m])
  <2>1. /\ replay[m].bought = 0 /\ replay[m].sold = 0 /\ replay[m].closed = 0
        /\ replay[m].cash = 0 /\ replay[m].paid = 0
        /\ position[m].qty = 0 /\ position[m].cash = 0 /\ position[m].realized = 0
        /\ dropped[m].qty = 0 /\ dropped[m].cash = 0 /\ dropped[m].paid = 0
    BY DEF LedgerInit
  <2>2. HeldIn(position, dropped, task, m) = 0
    BY <1>2, <1>3, <2>1 DEF HeldIn
  <2>3. Tells(replay[m], HeldIn(position, dropped, task, m), outcome[m])
    BY <1>5, <2>1, <2>2 DEF Tells, TellsClosed
  <2> QED
    BY <1>2, <1>3, <2>1, <2>3 DEF Derives
<1> QED
  BY <1>4, <1>6, DerivedMeans

LEMMA SignNext ==
    ASSUME LedgerTypeOK, FillsSayTheirSign, [LedgerNext]_<<outcome, ledgerVars>>
    PROVE  FillsSayTheirSign'
<1>1. /\ Traders \subseteq Actors /\ Settlers \subseteq Actors
      /\ task \in [Actors -> TaskType]
      /\ \A m \in Markets : position[m].qty \in Int
      /\ \A m \in Markets : outcome[m] \in Outcomes \union {None}
  BY DEF Actors, LedgerTypeOK
<1>2. ASSUME NEW a \in Actors, UNCHANGED outcome,
             \/ task'[a] = Idle
             \/ /\ task[a] # Idle /\ task'[a].market = task[a].market
                /\ task'[a].action = task[a].action
                /\ task'[a].quantity = task[a].quantity
                /\ task'[a].qty = task[a].qty /\ task'[a].cash = task[a].cash,
             \A b \in Actors \ {a} : task'[b] = task[b]
      PROVE  FillsSayTheirSign'
  BY <1>2 DEF FillsSayTheirSign, SaysItsSign
<1>3. ASSUME NEW a \in Actors, RecordFill(a)
      PROVE  FillsSayTheirSign'
  BY <1>1, <1>2, <1>3 DEF RecordFill, Idle, TaskType
<1>4. ASSUME NEW a \in Actors, ApplyToPosition(a) \/ Crash(a)
      PROVE  FillsSayTheirSign'
  BY <1>1, <1>2, <1>4 DEF ApplyToPosition, Crash
<1>5. ASSUME NEW t \in Traders, NEW m \in Markets, NEW pHat \in PHats,
             NEW mark \in Marks, Rebalance(t, m, pHat, mark)
      PROVE  FillsSayTheirSign'
  <2> DEFINE delta == TargetPosition(pHat, mark) - position[m].qty
  <2>1. pHat \in Int /\ mark \in Int
    BY LedgerAssumption
  <2>2. delta \in Int
    <3>1. TargetPosition(pHat, mark) \in Int
      BY <2>1, TargetPositionType
    <3> QED
      BY <1>1, <3>1
  <2> HIDE DEF delta
  <2>3. /\ UNCHANGED outcome /\ \A b \in Actors \ {t} : task'[b] = task[b]
        /\ task'[t] = RebalanceFill(m, delta, mark)
    BY <1>1, <1>5 DEF Rebalance, delta
  <2>4. /\ task'[t].action = IF delta > 0 THEN "buy" ELSE "sell"
        /\ task'[t].quantity = AbsInt(delta) /\ task'[t].qty = delta
    BY <2>3 DEF RebalanceFill
  <2>5. IF delta > 0 THEN delta = AbsInt(delta) ELSE delta = -AbsInt(delta)
    BY <2>2, AbsoluteValue
  <2> QED
    BY <2>3, <2>4, <2>5 DEF FillsSayTheirSign, SaysItsSign
<1>6. ASSUME NEW s \in Settlers, NEW m \in Markets, outcome[m] # None,
             Settle(s, m, outcome[m])
      PROVE  FillsSayTheirSign'
  <2> DEFINE held == position[m].qty
  <2>1. held \in Int /\ -(-held) = held
    BY <1>1
  <2>2. /\ UNCHANGED outcome /\ \A b \in Actors \ {s} : task'[b] = task[b]
        /\ task'[s] = SettleFill(m, held, outcome[m])
    BY <1>1, <1>6 DEF Settle
  <2> HIDE DEF held
  <2>3. /\ task'[s].action = "settle" /\ task'[s].quantity = AbsInt(held)
        /\ task'[s].qty = -held /\ task'[s].market = m
        /\ task'[s].cash = held * outcome[m] * Scale
    BY <2>2 DEF SettleFill
  <2>4. -held = AbsInt(held) \/ -held = -AbsInt(held)
    BY <2>1, AbsoluteValue
  <2>5. task'[s].cash = (-task'[s].qty) * outcome'[m] * Scale
    BY <2>1, <2>2, <2>3
  <2> QED
    BY <1>6, <2>2, <2>3, <2>4, <2>5 DEF FillsSayTheirSign, SaysItsSign
<1>7. ASSUME NEW m \in Markets, NEW o \in Outcomes, Publish(m, o)
      PROVE  FillsSayTheirSign'
  <2>1. /\ task' = task
        /\ \A n \in Markets : outcome[n] # None => outcome'[n] = outcome[n]
    BY <1>7 DEF Publish, ledgerVars, LedgerTypeOK
  <2> QED
    BY <2>1, InFlightType DEF FillsSayTheirSign, SaysItsSign
<1>8. CASE UNCHANGED <<outcome, ledgerVars>>
  BY <1>8 DEF ledgerVars, FillsSayTheirSign
<1> QED
  BY <1>1, <1>3, <1>4, <1>5, <1>6, <1>7, <1>8 DEF LedgerNext, Trade, SettleStep

LEMMA DerivedNext ==
    DerivedInv /\ [LedgerNext]_<<outcome, ledgerVars>> => DerivedInv'
<1> SUFFICES ASSUME DerivedInv, [LedgerNext]_<<outcome, ledgerVars>>
             PROVE  PositionsDeriveFromFills'
  BY LedgerTypeNext, SignNext DEF DerivedInv
<1> USE DEF DerivedInv
<1>1. LedgerTypeOK' /\ Traders \subseteq Actors /\ Settlers \subseteq Actors
  BY LedgerTypeNext DEF Actors
<1>2. ASSUME NEW a \in Actors, RecordFill(a)
      PROVE  PositionsDeriveFromFills'
  BY <1>1, <1>2, RecordDerives
<1>3. ASSUME NEW a \in Actors, ApplyToPosition(a)
      PROVE  PositionsDeriveFromFills'
  BY <1>1, <1>3, UnapplyDerives DEF ApplyToPosition
<1>4. ASSUME NEW a \in Actors, Crash(a)
      PROVE  PositionsDeriveFromFills'
  <2>1. CASE task[a].step = "apply"
    BY <1>1, <1>4, <2>1, UnapplyDerives
  <2>2. CASE task[a].step # "apply"
    <3>1. /\ UNCHANGED <<outcome, replay, position, dropped>>
          /\ task'[a].step # "apply"
          /\ \A b \in Actors \ {a} : task'[b] = task[b]
      BY <1>4, <2>2 DEF Crash, DroppedWith, Idle, LedgerTypeOK
    <3> QED
      BY <1>1, <2>2, <3>1, DerivesOn
  <2> QED
    BY <2>1, <2>2
<1>5. ASSUME NEW a \in Actors, task[a] = Idle, task'[a].step = "fill",
             UNCHANGED <<outcome, replay, position, dropped>>,
             \A b \in Actors \ {a} : task'[b] = task[b]
      PROVE  PositionsDeriveFromFills'
  BY <1>1, <1>5, DerivesOn DEF Idle
<1>6. ASSUME NEW t \in Traders, Trade(t)
      PROVE  PositionsDeriveFromFills'
  <2>1. ASSUME NEW m \in Markets, NEW pHat \in PHats, NEW mark \in Marks,
               Rebalance(t, m, pHat, mark)
        PROVE  PositionsDeriveFromFills'
    BY <1>1, <1>5, <2>1 DEF Rebalance, RebalanceFill, LedgerTypeOK
  <2> QED
    BY <1>1, <1>2, <1>3, <1>6, <2>1 DEF Trade
<1>7. ASSUME NEW s \in Settlers, SettleStep(s)
      PROVE  PositionsDeriveFromFills'
  <2>1. ASSUME NEW m \in Markets, Settle(s, m, outcome[m])
        PROVE  PositionsDeriveFromFills'
    BY <1>1, <1>5, <2>1 DEF Settle, SettleFill, LedgerTypeOK
  <2> QED
    BY <1>1, <1>2, <1>3, <1>7, <2>1 DEF SettleStep
<1>8. CASE UNCHANGED <<outcome, ledgerVars>>
  BY <1>8, DerivedMeans DEF ledgerVars, Derives
<1>9. ASSUME NEW m \in Markets, NEW o \in Outcomes, Publish(m, o)
      PROVE  PositionsDeriveFromFills'
  <2>1. /\ UNCHANGED <<replay, position, task, dropped>>
        /\ \A n \in Markets : outcome'[n] # outcome[n] =>
              outcome[n] = None /\ outcome'[n] # None
    BY <1>9, LedgerAssumption DEF Publish, ledgerVars, LedgerTypeOK, Outcomes
  <2>2. None # 0
    BY LedgerAssumption
  <2> QED
    BY <2>1, <2>2, DerivedMeans DEF Derives, Tells, TellsClosed
<1> QED
  BY <1>4, <1>6, <1>7, <1>8, <1>9 DEF LedgerNext

\* The position row is what the fill log adds up to, but for fills in flight and
\* those whose writer died, for any number of markets, traders and watchers and
\* however their statements interleave (rebalance, _settle_position).
THEOREM PositionsAreDerived == LedgerSpec => []PositionsDeriveFromFills
<1>1. DerivedInv => PositionsDeriveFromFills
  BY DEF DerivedInv
<1> QED
  BY <1>1, DerivedInit, DerivedNext, PTL DEF LedgerSpec

(* With one watcher, what it read stays so until its fill is applied: only *)
(* a settlement settles a row, and only the watcher makes settlements.     *)

SettlesUnsettled ==
    \A a \in Actors : Settles(task[a]) =>
        /\ a \in Settlers
        /\ outcome[task[a].market] # None
        /\ ~position[task[a].market].settled

\* A settlement of `m` is accounted for: it was applied, or is about to be.
Marked(m) ==
    \/ position[m].settled
    \/ \E a \in Actors :
          task[a].step = "apply" /\ Settles(task[a]) /\ task[a].market = m

SettlesCounted ==
    \A m \in Markets : ~Marked(m) => replay[m].settles <= dropped[m].settles

PaidInv == LedgerTypeOK /\ SettlesUnsettled /\ SettlesCounted /\ PaidOutOnce

LEMMA PaidInit == LedgerInit => PaidInv
BY LedgerTypeInit
DEF LedgerInit, Idle, PaidInv, SettlesUnsettled, SettlesCounted, PaidOutOnce

\* What RecordFill, ApplyToPosition and Crash do to the counts.
LEMMA RecordCounts ==
    ASSUME LedgerTypeOK, NEW a \in Actors, RecordFill(a), NEW m \in Markets
    PROVE  LET pays == Settles(task[a]) /\ task[a].market = m
           IN /\ pays => replay'[m].settles = replay[m].settles + 1
              /\ ~pays => /\ replay'[m].settles = replay[m].settles
                          /\ replay'[m].paid = replay[m].paid
<1>1. /\ task[a].market \in Markets /\ Settles(task[a]) \in BOOLEAN
      /\ replay[m].paid \in Int
  BY InFlightType DEF RecordFill, Idle, LedgerTypeOK
<1> QED
  BY <1>1 DEF RecordFill, LedgerTypeOK, PaidBy

LEMMA ApplySettles ==
    ASSUME LedgerTypeOK, NEW a \in Actors, ApplyToPosition(a), NEW m \in Markets
    PROVE  LET pays == Settles(task[a]) /\ task[a].market = m
           IN /\ position'[m].settled <=> position[m].settled \/ pays
              /\ ~pays => position'[m].realized = position[m].realized
<1>1. /\ task[a].market \in Markets /\ Settles(task[a]) \in BOOLEAN
      /\ position[m].realized \in Int
  BY InFlightType DEF ApplyToPosition, Idle, LedgerTypeOK
<1> HIDE DEF Settles
<1> QED
  BY <1>1 DEF ApplyToPosition, LedgerTypeOK, PaidBy

LEMMA CrashCounts ==
    ASSUME LedgerTypeOK, NEW a \in Actors, Crash(a), NEW m \in Markets
    PROVE  LET loses == /\ task[a].step = "apply" /\ Settles(task[a])
                        /\ task[a].market = m
           IN /\ loses => dropped'[m].settles = dropped[m].settles + 1
              /\ ~loses => dropped'[m].settles = dropped[m].settles
<1>1. task[a].market \in Markets /\ Settles(task[a]) \in BOOLEAN
  BY InFlightType DEF Crash
<1> QED
  BY <1>1 DEF Crash, DroppedWith, LedgerTypeOK

LEMMA PaidNext ==
    ASSUME \A r, s \in Settlers : r = s, PaidInv,
           [LedgerNext]_<<outcome, ledgerVars>>
    PROVE  PaidInv'
<1> USE DEF PaidInv
<1>1. /\ Traders \subseteq Actors /\ Settlers \subseteq Actors
      /\ task \in [Actors -> TaskType] /\ ~Settles(Idle) /\ Idle.step = "idle"
      /\ \A m \in Markets : /\ replay[m].settles \in Nat
                            /\ dropped[m].settles \in Nat
      /\ \A a, b \in Actors : Settles(task[a]) /\ Settles(task[b]) => a = b
  BY DEF Actors, LedgerTypeOK, Idle, SettlesUnsettled
<1>2. LedgerTypeOK'
  BY LedgerTypeNext
<1> DEFINE Goal == SettlesUnsettled' /\ SettlesCounted' /\ PaidOutOnce'
<1>3. ASSUME UNCHANGED <<outcome, ledgerVars>>
      PROVE  Goal
  BY <1>3 DEF ledgerVars, SettlesUnsettled, SettlesCounted, Marked, PaidOutOnce
<1>4. ASSUME NEW m \in Markets, NEW o \in Outcomes, Publish(m, o)
      PROVE  Goal
  <2>1. /\ UNCHANGED <<replay, position, task, dropped>>
        /\ \A n \in Markets : outcome[n] # None => outcome'[n] # None
    BY <1>4 DEF Publish, ledgerVars, LedgerTypeOK
  <2>2. \A a \in Actors : Settles(task[a]) => task[a].market \in Markets
    BY <1>1, InFlightType
  <2>3. SettlesUnsettled'
    BY <2>1, <2>2 DEF SettlesUnsettled
  <2> QED
    BY <2>1, <2>3 DEF SettlesCounted, Marked, PaidOutOnce
<1>5. ASSUME NEW t \in Traders, NEW m \in Markets, NEW pHat \in PHats,
             NEW mark \in Marks, Rebalance(t, m, pHat, mark)
      PROVE  Goal
  <2>1. /\ UNCHANGED <<outcome, replay, position, dropped>>
        /\ ~Settles(task[t]) /\ ~Settles(task'[t])
        /\ \A b \in Actors \ {t} : task'[b] = task[b]
    BY <1>1, <1>5 DEF Rebalance, RebalanceFill
  <2>2. \A n \in Markets : Marked(n)' <=> Marked(n)
    BY <2>1 DEF Marked
  <2> QED
    BY <2>1, <2>2 DEF SettlesUnsettled, SettlesCounted, PaidOutOnce
<1>6. ASSUME NEW s \in Settlers, NEW m \in Markets, outcome[m] # None,
             Settle(s, m, outcome[m])
      PROVE  Goal
  <2>1. /\ UNCHANGED <<outcome, replay, position, dropped>>
        /\ task[s] = Idle /\ task'[s].step = "fill" /\ task'[s].market = m
        /\ ~position[m].settled
        /\ \A b \in Actors \ {s} : task'[b] = task[b]
    BY <1>1, <1>6 DEF Settle, SettleFill, HasOpenPosition
  <2>2. \A n \in Markets : Marked(n)' <=> Marked(n)
    BY <1>1, <2>1 DEF Marked
  <2> QED
    BY <1>6, <2>1, <2>2 DEF SettlesUnsettled, SettlesCounted, PaidOutOnce
<1>7. ASSUME NEW a \in Actors, RecordFill(a)
      PROVE  Goal
  <2>1. /\ UNCHANGED <<outcome, position, dropped>> /\ task[a].step = "fill"
        /\ task[a].market \in Markets
        /\ task'[a].step = "apply" /\ task'[a].market = task[a].market
        /\ Settles(task'[a]) = Settles(task[a])
        /\ \A b \in Actors \ {a} : task'[b] = task[b]
    BY <1>1, <1>7, InFlightType DEF RecordFill, Idle, TaskType
  <2>2. SettlesUnsettled'
    BY <2>1 DEF SettlesUnsettled
  <2>3. ASSUME NEW m \in Markets, Settles(task[a]), task[a].market = m
        PROVE  ~Marked(m) /\ Marked(m)' /\ outcome[m] # None
    BY <1>1, <2>1, <2>3 DEF Marked, SettlesUnsettled
  <2>4. ASSUME NEW m \in Markets, ~(Settles(task[a]) /\ task[a].market = m)
        PROVE  Marked(m)' <=> Marked(m)
    BY <2>1, <2>4 DEF Marked
  <2>5. SettlesCounted'
    BY <1>7, <2>1, <2>3, <2>4, RecordCounts DEF SettlesCounted
  <2>6. PaidOutOnce'
    BY <1>1, <1>7, <2>1, <2>3, RecordCounts DEF SettlesCounted, PaidOutOnce
  <2> QED
    BY <2>2, <2>5, <2>6
<1>8. ASSUME NEW a \in Actors, ApplyToPosition(a)
      PROVE  Goal
  <2>1. /\ UNCHANGED <<outcome, replay, dropped>> /\ task[a].market \in Markets
        /\ ~Settles(task'[a]) /\ \A b \in Actors \ {a} : task'[b] = task[b]
    BY <1>1, <1>8, InFlightType DEF ApplyToPosition, Idle
  <2>2. ASSUME NEW b \in Actors, Settles(task'[b])
        PROVE  /\ b # a /\ task'[b] = task[b] /\ ~Settles(task[a])
               /\ task[b].market \in Markets
    BY <1>1, <2>1, <2>2, InFlightType
  <2>3. SettlesUnsettled'
    BY <1>8, <2>1, <2>2, ApplySettles DEF SettlesUnsettled
  <2>4. \A m \in Markets : Marked(m) => Marked(m)'
    BY <1>8, <2>1, ApplySettles DEF Marked
  <2> QED
    BY <2>1, <2>3, <2>4 DEF SettlesCounted, PaidOutOnce
<1>9. ASSUME NEW a \in Actors, Crash(a)
      PROVE  Goal
  <2>1. /\ UNCHANGED <<outcome, replay, position>>
        /\ ~Settles(task'[a]) /\ \A b \in Actors \ {a} : task'[b] = task[b]
    BY <1>1, <1>9 DEF Crash
  <2>2. SettlesUnsettled'
    BY <2>1 DEF SettlesUnsettled
  <2>3. ASSUME NEW m \in Markets,
               task[a].step = "apply" /\ Settles(task[a]) /\ task[a].market = m
        PROVE  replay'[m].settles <= dropped'[m].settles
    BY <1>1, <1>9, <2>1, <2>3, CrashCounts DEF PaidOutOnce
  <2>4. ASSUME NEW m \in Markets,
               ~(task[a].step = "apply" /\ Settles(task[a]) /\ task[a].market = m)
        PROVE  (Marked(m)' <=> Marked(m)) /\ dropped'[m].settles = dropped[m].settles
    BY <1>9, <2>1, <2>4, CrashCounts DEF Marked
  <2>5. SettlesCounted'
    BY <2>1, <2>3, <2>4 DEF SettlesCounted
  <2>6. \A m \in Markets : replay'[m].settles <= 1 + dropped'[m].settles
    BY <1>1, <2>1, <2>3, <2>4, CrashCounts, <1>9 DEF PaidOutOnce
  <2> QED
    BY <2>1, <2>2, <2>5, <2>6 DEF PaidOutOnce
<1> HIDE DEF Goal
<1>10. ASSUME NEW t \in Traders, Trade(t)
       PROVE  Goal
  BY <1>1, <1>5, <1>7, <1>8, <1>10 DEF Trade
<1>11. ASSUME NEW s \in Settlers, SettleStep(s)
       PROVE  Goal
  BY <1>1, <1>6, <1>7, <1>8, <1>11 DEF SettleStep
<1>12. Goal \/ UNCHANGED <<outcome, ledgerVars>>
  BY <1>4, <1>9, <1>10, <1>11 DEF LedgerNext
<1> QED
  BY <1>2, <1>3, <1>12 DEF Goal

\* With a single watcher, whoever trades or dies meanwhile: a market is paid out
\* once, and only after its result.
THEOREM LoneWatcherPaysOnce ==
    ASSUME \A r, s \in Settlers : r = s
    PROVE  LedgerSpec => []PaidOutOnce
<1>1. PaidInv => PaidOutOnce
  BY DEF PaidInv
<1>2. PaidInv /\ [LedgerNext]_<<outcome, ledgerVars>> => PaidInv'
  BY PaidNext
<1> QED
  BY <1>1, <1>2, PaidInit, PTL DEF LedgerSpec

\* A step changes what a settled row has realized only by applying a settlement,
\* and with a single watcher none is under way.
LEMMA RealizedStep ==
    ASSUME PaidInv, [LedgerNext]_<<outcome, ledgerVars>>
    PROVE  \A m \in Markets : position[m].settled =>
               /\ position'[m].settled
               /\ position'[m].realized = position[m].realized
<1> USE DEF PaidInv
<1>1. Traders \subseteq Actors /\ Settlers \subseteq Actors
  BY DEF Actors
<1>2. ASSUME NEW a \in Actors, ApplyToPosition(a), NEW m \in Markets,
             position[m].settled
      PROVE  position'[m].settled /\ position'[m].realized = position[m].realized
  <2>1. ~(Settles(task[a]) /\ task[a].market = m)
    BY <1>2 DEF SettlesUnsettled
  <2> QED
    BY <1>2, <2>1, ApplySettles
<1>3. UNCHANGED position \/ \E a \in Actors : ApplyToPosition(a)
  BY <1>1 DEF LedgerNext, Publish, Trade, SettleStep, Rebalance, Settle, RecordFill,
     Crash, ledgerVars
<1> QED
  BY <1>2, <1>3

\* With a single watcher, the realized P&L of a settled row is final, though
\* traders go on trading it.
THEOREM LoneWatcherPnlIsFinal ==
    ASSUME \A r, s \in Settlers : r = s
    PROVE  LedgerSpec => RealizedIsFinal
<1>1. PaidInv /\ [LedgerNext]_<<outcome, ledgerVars>> => PaidInv'
  BY PaidNext
<1>2. PaidInv /\ [LedgerNext]_<<outcome, ledgerVars>> =>
          [\A m \in Markets : position[m].settled =>
              /\ position'[m].settled
              /\ position'[m].realized = position[m].realized]_<<outcome, ledgerVars>>
  BY RealizedStep
<1> QED
  BY <1>1, <1>2, PaidInit, PTL DEF LedgerSpec, RealizedIsFinal

(* With several watchers each may pay a market out, but only once: until   *)
(* the row is marked, what is in the log was dropped or is about to be     *)
(* applied; after that nobody starts a settlement, and those under way     *)
(* are of different watchers.                                              *)

InHand(t, m, step) ==
    {s \in Settlers : Settles(t[s]) /\ t[s].market = m /\ t[s].step = step}

SettlesAreSettlers == \A a \in Actors : Settles(task[a]) => a \in Settlers

Counts(rows, log, drops, t, m) ==
    IF rows[m].settled
    THEN log[m].settles + Cardinality(InHand(t, m, "fill"))
             <= drops[m].settles + Cardinality(Settlers)
    ELSE log[m].settles = drops[m].settles + Cardinality(InHand(t, m, "apply"))

CountInv ==
    /\ LedgerTypeOK
    /\ SettlesAreSettlers
    /\ \A m \in Markets : Counts(position, replay, dropped, task, m)

LEMMA InHandType ==
    ASSUME NEW t, NEW m, NEW step
    PROVE  /\ IsFiniteSet(InHand(t, m, step))
           /\ Cardinality(InHand(t, m, step)) \in Nat
           /\ Cardinality(InHand(t, m, step)) <= Cardinality(Settlers)
           /\ Cardinality(Settlers) \in Nat
<1>1. IsFiniteSet(Settlers) /\ InHand(t, m, step) \in SUBSET Settlers
  BY LedgerAssumption DEF InHand
<1> QED
  BY <1>1, FS_Subset, FS_CardinalityType

\* No watcher is in two steps at once.
LEMMA HandsAreApart ==
    ASSUME NEW t, NEW m
    PROVE  Cardinality(InHand(t, m, "fill")) + Cardinality(InHand(t, m, "apply"))
               <= Cardinality(Settlers)
<1> DEFINE F == InHand(t, m, "fill")
           A == InHand(t, m, "apply")
<1>1. F \union A \in SUBSET Settlers /\ F \intersect A = {} /\ IsFiniteSet(Settlers)
  BY LedgerAssumption DEF InHand
<1>2. IsFiniteSet(F) /\ IsFiniteSet(A) /\ Cardinality(F) \in Nat /\ Cardinality(A) \in Nat
  BY InHandType
<1>3. Cardinality(F \union A) <= Cardinality(Settlers)
  BY <1>1, FS_Subset
<1> HIDE DEF F, A
<1>4. Cardinality(F \union A) = Cardinality(F) + Cardinality(A)
  <2>1. Cardinality(F \intersect A) = 0
    BY <1>1, FS_EmptySet
  <2>2. Cardinality(F \union A) =
            Cardinality(F) + Cardinality(A) - Cardinality(F \intersect A)
    BY <1>2, FS_Union
  <2> QED
    BY <1>2, <2>1, <2>2
<1> QED
  BY <1>3, <1>4 DEF F, A

\* A settlement that is taken in hand, or let go.
LEMMA OneMoreInHand ==
    ASSUME NEW t, NEW u, NEW m, NEW step, NEW a, a \notin InHand(t, m, step),
           InHand(u, m, step) = InHand(t, m, step) \union {a}
    PROVE  Cardinality(InHand(u, m, step)) = Cardinality(InHand(t, m, step)) + 1
BY InHandType, FS_AddElement

LEMMA CountInit == LedgerInit => CountInv
<1> SUFFICES ASSUME LedgerInit PROVE CountInv
  OBVIOUS
<1>1. \A m : InHand(task, m, "apply") = {}
  BY DEF LedgerInit, InHand, Idle, Actors
<1>2. \A m : Cardinality(InHand(task, m, "apply")) = 0
  BY <1>1, FS_EmptySet
<1>3. \A m \in Markets : Counts(position, replay, dropped, task, m)
  BY <1>2 DEF LedgerInit, Counts
<1> QED
  BY <1>3, LedgerTypeInit DEF LedgerInit, CountInv, SettlesAreSettlers, Idle

LEMMA CountNext ==
    CountInv /\ [LedgerNext]_<<outcome, ledgerVars>> => CountInv'
<1> SUFFICES ASSUME CountInv, [LedgerNext]_<<outcome, ledgerVars>>
             PROVE  SettlesAreSettlers'
                    /\ \A m \in Markets : Counts(position', replay', dropped', task', m)
  BY LedgerTypeNext DEF CountInv, Counts
<1> DEFINE Goal == /\ SettlesAreSettlers'
                   /\ \A m \in Markets : Counts(position', replay', dropped', task', m)
<1>1. /\ Traders \subseteq Actors /\ Settlers \subseteq Actors
      /\ Traders \intersect Settlers = {} /\ LedgerTypeOK
      /\ task \in [Actors -> TaskType] /\ ~Settles(Idle) /\ Idle.step = "idle"
      /\ \A m \in Markets : /\ replay[m].settles \in Nat /\ dropped[m].settles \in Nat
                            /\ Counts(position, replay, dropped, task, m)
      /\ \A a \in Actors : Settles(task[a]) => a \in Settlers
  BY LedgerAssumption DEF Actors, CountInv, LedgerTypeOK, Idle, SettlesAreSettlers
\* What is in hand for other markets, or of other watchers, stays.
<1>2. ASSUME NEW a \in Actors, \A b \in Actors \ {a} : task'[b] = task[b],
             NEW m, NEW step,
             (a \in InHand(task, m, step)) <=> (a \in InHand(task', m, step))
      PROVE  InHand(task', m, step) = InHand(task, m, step)
  BY <1>1, <1>2 DEF InHand
<1>3. ASSUME NEW a \in Actors, \A b \in Actors \ {a} : task'[b] = task[b],
             NEW m, NEW step,
             a \in InHand(task, m, step), a \notin InHand(task', m, step)
      PROVE  Cardinality(InHand(task, m, step)) = Cardinality(InHand(task', m, step)) + 1
  <2>1. InHand(task, m, step) = InHand(task', m, step) \union {a}
    BY <1>1, <1>3 DEF InHand
  <2> QED
    BY <1>3, <2>1, OneMoreInHand
<1>4. ASSUME NEW a \in Actors, \A b \in Actors \ {a} : task'[b] = task[b],
             NEW m, NEW step,
             a \notin InHand(task, m, step), a \in InHand(task', m, step)
      PROVE  Cardinality(InHand(task', m, step)) = Cardinality(InHand(task, m, step)) + 1
  <2>1. InHand(task', m, step) = InHand(task, m, step) \union {a}
    BY <1>1, <1>4 DEF InHand
  <2> QED
    BY <1>4, <2>1, OneMoreInHand
<1>5. ASSUME NEW t \in Traders, NEW m \in Markets, NEW pHat \in PHats,
             NEW mark \in Marks, Rebalance(t, m, pHat, mark)
      PROVE  Goal
  <2>1. /\ UNCHANGED <<replay, position, dropped>> /\ ~Settles(task'[t])
        /\ task[t] = Idle /\ \A b \in Actors \ {t} : task'[b] = task[b]
    BY <1>1, <1>5 DEF Rebalance, RebalanceFill
  <2>2. \A n, step : InHand(task', n, step) = InHand(task, n, step)
    BY <1>1, <1>2, <2>1 DEF InHand
  <2> QED
    BY <1>1, <2>1, <2>2 DEF SettlesAreSettlers, Counts
<1>6. ASSUME NEW s \in Settlers, NEW m \in Markets, Settle(s, m, outcome[m])
      PROVE  Goal
  <2>1. /\ UNCHANGED <<replay, position, dropped>> /\ ~position[m].settled
        /\ task[s] = Idle /\ task'[s].market = m /\ task'[s].step = "fill"
        /\ \A b \in Actors \ {s} : task'[b] = task[b]
    BY <1>1, <1>6 DEF Settle, SettleFill, HasOpenPosition
  <2>2. /\ \A n : InHand(task', n, "apply") = InHand(task, n, "apply")
        /\ \A n \in Markets \ {m} : InHand(task', n, "fill") = InHand(task, n, "fill")
    BY <1>1, <1>2, <2>1 DEF InHand
  <2> QED
    BY <1>1, <2>1, <2>2 DEF SettlesAreSettlers, Counts
<1>7. ASSUME NEW a \in Actors, RecordFill(a)
      PROVE  Goal
  <2>1. /\ UNCHANGED <<position, dropped>> /\ task[a].step = "fill"
        /\ task'[a].step = "apply" /\ task'[a].market = task[a].market
        /\ Settles(task'[a]) = Settles(task[a])
        /\ \A b \in Actors \ {a} : task'[b] = task[b]
    BY <1>1, <1>7 DEF RecordFill, Idle, TaskType
  <2>2. ASSUME NEW m \in Markets, Settles(task[a]), task[a].market = m
        PROVE  Counts(position', replay', dropped', task', m)
    <3>1. /\ a \in InHand(task, m, "fill") /\ a \notin InHand(task', m, "fill")
          /\ a \notin InHand(task, m, "apply") /\ a \in InHand(task', m, "apply")
      BY <1>1, <2>1, <2>2 DEF InHand
    <3>2. /\ Cardinality(InHand(task, m, "fill")) = Cardinality(InHand(task', m, "fill")) + 1
          /\ Cardinality(InHand(task', m, "apply")) = Cardinality(InHand(task, m, "apply")) + 1
      BY <1>3, <1>4, <2>1, <3>1
    <3>3. replay'[m].settles = replay[m].settles + 1
      BY <1>1, <1>7, <2>2, RecordCounts
    <3>4. /\ Cardinality(InHand(task', m, "fill")) \in Nat
          /\ Cardinality(InHand(task, m, "apply")) \in Nat
          /\ Cardinality(Settlers) \in Nat
      BY InHandType
    <3> QED
      BY <1>1, <2>1, <3>2, <3>3, <3>4 DEF Counts
  <2>3. ASSUME NEW m \in Markets, ~(Settles(task[a]) /\ task[a].market = m)
        PROVE  Counts(position', replay', dropped', task', m)
    <3>1. \A step : InHand(task', m, step) = InHand(task, m, step)
      BY <1>2, <2>1, <2>3 DEF InHand
    <3>2. replay'[m].settles = replay[m].settles
      BY <1>1, <1>7, <2>3, RecordCounts
    <3> QED
      BY <1>1, <2>1, <3>1, <3>2 DEF Counts
  <2> QED
    BY <1>1, <2>1, <2>2, <2>3 DEF SettlesAreSettlers
<1>8. ASSUME NEW a \in Actors, ApplyToPosition(a)
      PROVE  Goal
  <2>1. /\ UNCHANGED <<replay, dropped>> /\ task[a].step = "apply"
        /\ ~Settles(task'[a]) /\ \A b \in Actors \ {a} : task'[b] = task[b]
    BY <1>1, <1>8 DEF ApplyToPosition
  <2>2. ASSUME NEW m \in Markets, Settles(task[a]), task[a].market = m
        PROVE  Counts(position', replay', dropped', task', m)
    <3>1. position'[m].settled
      BY <1>1, <1>8, <2>2, ApplySettles
    <3>2. InHand(task', m, "fill") = InHand(task, m, "fill")
      <4>1. a \notin InHand(task, m, "fill") /\ a \notin InHand(task', m, "fill")
        BY <2>1 DEF InHand
      <4> QED
        BY <1>2, <2>1, <4>1
    <3>3. /\ Cardinality(InHand(task, m, "fill")) \in Nat
          /\ Cardinality(InHand(task, m, "apply")) \in Nat
          /\ Cardinality(Settlers) \in Nat
          /\ Cardinality(InHand(task, m, "fill")) + Cardinality(InHand(task, m, "apply"))
                 <= Cardinality(Settlers)
      BY InHandType, HandsAreApart
    <3> QED
      BY <1>1, <2>1, <3>1, <3>2, <3>3 DEF Counts
  <2>3. ASSUME NEW m \in Markets, ~(Settles(task[a]) /\ task[a].market = m)
        PROVE  Counts(position', replay', dropped', task', m)
    <3>1. \A step : InHand(task', m, step) = InHand(task, m, step)
      BY <1>2, <2>1, <2>3 DEF InHand
    <3>2. position'[m].settled <=> position[m].settled
      BY <1>1, <1>8, <2>3, ApplySettles
    <3> QED
      BY <1>1, <2>1, <3>1, <3>2 DEF Counts
  <2> QED
    BY <1>1, <2>1, <2>2, <2>3 DEF SettlesAreSettlers
<1>9. ASSUME NEW a \in Actors, Crash(a)
      PROVE  Goal
  <2>1. /\ UNCHANGED <<replay, position>> /\ ~Settles(task'[a])
        /\ \A b \in Actors \ {a} : task'[b] = task[b]
    BY <1>1, <1>9 DEF Crash
  <2>2. ASSUME NEW m \in Markets
        PROVE  Counts(position', replay', dropped', task', m)
    <3>1. \A step : a \notin InHand(task', m, step)
      BY <2>1 DEF InHand
    <3>2. \A step :
              IF a \in InHand(task, m, step)
              THEN Cardinality(InHand(task, m, step)) =
                       Cardinality(InHand(task', m, step)) + 1
              ELSE InHand(task', m, step) = InHand(task, m, step)
      BY <1>2, <1>3, <2>1, <3>1
    <3>3. IF a \in InHand(task, m, "apply")
          THEN dropped'[m].settles = dropped[m].settles + 1
          ELSE dropped'[m].settles = dropped[m].settles
      BY <1>1, <1>9, <2>2, CrashCounts DEF InHand
    <3>4. a \in InHand(task, m, "apply") => a \notin InHand(task, m, "fill")
      BY DEF InHand
    <3>5. /\ \A step : /\ Cardinality(InHand(task, m, step)) \in Nat
                       /\ Cardinality(InHand(task', m, step)) \in Nat
          /\ Cardinality(Settlers) \in Nat
      BY InHandType
    <3> QED
      BY <1>1, <2>1, <3>2, <3>3, <3>4, <3>5 DEF Counts
  <2> QED
    BY <1>1, <2>1, <2>2 DEF SettlesAreSettlers
<1> HIDE DEF Goal
<1>10. ASSUME NEW t \in Traders, Trade(t)
       PROVE  Goal
  BY <1>1, <1>5, <1>7, <1>8, <1>10 DEF Trade
<1>11. ASSUME NEW s \in Settlers, SettleStep(s)
       PROVE  Goal
  BY <1>1, <1>6, <1>7, <1>8, <1>11 DEF SettleStep
<1>12. ASSUME UNCHANGED <<replay, position, task, dropped>>
       PROVE  Goal
  <2>1. \A m \in Markets : Counts(position', replay', dropped', task', m)
    BY <1>1, <1>12
  <2>2. SettlesAreSettlers'
    BY <1>1, <1>12 DEF SettlesAreSettlers
  <2> QED
    BY <2>1, <2>2 DEF Goal
<1>13. Goal
  BY <1>9, <1>10, <1>11, <1>12 DEF LedgerNext, Publish, ledgerVars
<1> QED
  BY <1>13 DEF Goal

\* What any number of watchers pay out: once each, and again only for a payout
\* whose watcher died before it could mark the row (_settle_position).
PaidOncePerWatcher ==
    \A m \in Markets :
        replay[m].settles <= Cardinality(Settlers) + dropped[m].settles

\* However many watchers sweep at the same time (the schedule, the CLI), a market
\* is paid out at most once by each of them that does not die on it, although
\* each of them reads the position and writes the payout in different statements.
THEOREM EachWatcherPaysOnce == LedgerSpec => []PaidOncePerWatcher
<1>1. CountInv => PaidOncePerWatcher
  <2> SUFFICES ASSUME CountInv, NEW m \in Markets
               PROVE  replay[m].settles <= Cardinality(Settlers) + dropped[m].settles
    BY DEF PaidOncePerWatcher
  <2>1. replay[m].settles \in Nat /\ dropped[m].settles \in Nat
    BY DEF CountInv, LedgerTypeOK
  <2>2. /\ Cardinality(InHand(task, m, "fill")) \in Nat
        /\ Cardinality(InHand(task, m, "apply")) \in Nat
        /\ Cardinality(InHand(task, m, "apply")) <= Cardinality(Settlers)
        /\ Cardinality(Settlers) \in Nat
    BY InHandType
  <2> QED
    BY <2>1, <2>2 DEF CountInv, Counts
<1> QED
  BY <1>1, CountInit, CountNext, PTL DEF LedgerSpec

(* The position limit.  What a trader has in hand brings the row to its    *)
(* target, so long as nothing else moves the row; a settlement that comes  *)
(* between takes away what it read before.                                 *)

Within(n, x) == -n <= x /\ x <= n

Cap == MaxShares * Scale

LoneWatcher == \A r, s \in Settlers : r = s

\* The position of an unsettled market is within the limit of targetPosition,
\* and what a settlement can leave, where a trade came between its read and its
\* update, is within twice the limit (augury.paper.max-position-shares).
PositionsWithinLimit ==
    \A m \in Markets :
        /\ ~position[m].settled => Within(Cap, position[m].qty)
        /\ position[m].settled /\ LoneWatcher => Within(2 * Cap, position[m].qty)

\* The bound of a row that is settled or not; there is none where several
\* watchers settle the same row.
Bounded(settled, x) ==
    IF settled THEN LoneWatcher => Within(2 * Cap, x) ELSE Within(Cap, x)

LimitInv ==
    /\ LedgerTypeOK
    /\ \A a \in Actors : task[a] # Idle => (Settles(task[a]) <=> a \in Settlers)
    /\ \A m \in Markets : Bounded(position[m].settled, position[m].qty)
    /\ \A t \in Traders : \A m \in Markets :
          task[t] # Idle /\ task[t].market = m =>
              Bounded(position[m].settled, position[m].qty + task[t].qty)
    /\ \A s \in Settlers : \A m \in Markets :
          task[s] # Idle /\ task[s].market = m /\ ~position[m].settled =>
              Within(Cap, task[s].qty)

LEMMA TargetIsWithin ==
    ASSUME NEW pHat \in Int, NEW mark \in Int
    PROVE  Cap \in Nat /\ TargetPosition(pHat, mark) \in Int
           /\ Within(Cap, TargetPosition(pHat, mark))
<1> DEFINE sized == (pHat - mark) * MaxShares
           least == Min({Cap, sized})
<1>1. Cap \in Nat /\ -Cap \in Int /\ sized \in Int /\ -Cap <= Cap
  BY LedgerAssumption DEF Cap
<1> HIDE DEF sized
<1>2. least \in Int /\ least <= Cap
  BY <1>1, LesserOfTwo
<1> HIDE DEF least
<1>3. Within(Cap, Max({-Cap, least}))
  BY <1>1, <1>2, GreaterOfTwo DEF Within
<1>4. TargetPosition(pHat, mark) \in {0, Max({-Cap, least})}
  BY DEF TargetPosition, Cap, least, sized
<1>5. TargetPosition(pHat, mark) \in Int
  BY TargetPositionType
<1> QED
  BY <1>1, <1>3, <1>4, <1>5 DEF Within

LEMMA LimitInit == LedgerInit => LimitInv
<1> SUFFICES ASSUME LedgerInit PROVE LimitInv
  OBVIOUS
<1>1. Cap \in Nat
  BY LedgerAssumption DEF Cap
<1>2. Traders \subseteq Actors /\ Settlers \subseteq Actors
  BY DEF Actors
<1>3. \A a \in Actors : task[a] = Idle
  BY DEF LedgerInit
<1>4. \A m \in Markets : Bounded(position[m].settled, position[m].qty)
  BY <1>1 DEF LedgerInit, Bounded, Within
<1> QED
  BY <1>2, <1>3, <1>4, LedgerTypeInit DEF LimitInv

\* Within twice the limit are the limit itself and the sum of two such.
LEMMA BoundsAdd ==
    ASSUME NEW x \in Int, Within(Cap, x)
    PROVE  /\ Bounded(TRUE, x) /\ Bounded(FALSE, x)
           /\ \A y \in Int : Within(Cap, y) => Bounded(TRUE, x + y)
<1>1. Cap \in Nat
  BY LedgerAssumption DEF Cap
<1> QED
  BY <1>1 DEF Bounded, Within

LEMMA LimitNext ==
    ASSUME \A t, u \in Traders : t = u, LoneWatcher => SettlesUnsettled,
           LimitInv, [LedgerNext]_<<outcome, ledgerVars>>
    PROVE  LimitInv'
<1> DEFINE Rest ==
        /\ \A a \in Actors : task'[a] # Idle => (Settles(task'[a]) <=> a \in Settlers)
        /\ \A m \in Markets : Bounded(position'[m].settled, position'[m].qty)
        /\ \A t \in Traders : \A m \in Markets :
              task'[t] # Idle /\ task'[t].market = m =>
                  Bounded(position'[m].settled, position'[m].qty + task'[t].qty)
        /\ \A s \in Settlers : \A m \in Markets :
              task'[s] # Idle /\ task'[s].market = m /\ ~position'[m].settled =>
                  Within(Cap, task'[s].qty)
<1>1. /\ Traders \subseteq Actors /\ Settlers \subseteq Actors
      /\ Traders \intersect Settlers = {} /\ Traders \union Settlers = Actors
      /\ LedgerTypeOK /\ DOMAIN task = Actors /\ Cap \in Nat
      /\ \A m \in Markets : position[m].qty \in Int /\ position[m].settled \in BOOLEAN
      /\ \A a \in Actors : task[a] # Idle => (Settles(task[a]) <=> a \in Settlers)
      /\ \A m \in Markets : Bounded(position[m].settled, position[m].qty)
      /\ \A t \in Traders : \A m \in Markets :
            task[t] # Idle /\ task[t].market = m =>
                Bounded(position[m].settled, position[m].qty + task[t].qty)
      /\ \A s \in Settlers : \A m \in Markets :
            task[s] # Idle /\ task[s].market = m /\ ~position[m].settled =>
                Within(Cap, task[s].qty)
  BY LedgerAssumption DEF Actors, LimitInv, LedgerTypeOK, Cap
<1>2. ASSUME NEW t \in Traders, NEW m \in Markets, NEW pHat \in PHats,
             NEW mark \in Marks, Rebalance(t, m, pHat, mark)
      PROVE  Rest
  <2> DEFINE target == TargetPosition(pHat, mark)
  <2>1. pHat \in Int /\ mark \in Int
    BY LedgerAssumption
  <2>2. target \in Int /\ Within(Cap, target)
    BY <2>1, TargetIsWithin
  <2> HIDE DEF target
  <2>3. /\ position' = position /\ ~Settles(task'[t]) /\ task'[t].market = m
        /\ task'[t].qty = target - position[m].qty
        /\ \A b \in Actors \ {t} : task'[b] = task[b]
    BY <1>1, <1>2 DEF Rebalance, RebalanceFill, target
  <2>4. position[m].qty + task'[t].qty = target
    BY <1>1, <2>2, <2>3
  <2>5. Bounded(position[m].settled, target)
    BY <1>1, <2>2, BoundsAdd
  <2>6. \A a \in Actors : task'[a] # Idle => (Settles(task'[a]) <=> a \in Settlers)
    BY <1>1, <2>3
  <2>7. \A u \in Traders : \A n \in Markets :
            task'[u] # Idle /\ task'[u].market = n =>
                Bounded(position'[n].settled, position'[n].qty + task'[u].qty)
    BY <1>1, <2>3, <2>4, <2>5
  <2>8. \A s \in Settlers : task'[s] = task[s]
    BY <1>1, <2>3
  <2> QED
    BY <1>1, <2>3, <2>6, <2>7, <2>8
<1>3. ASSUME NEW s \in Settlers, NEW m \in Markets, Settle(s, m, outcome[m])
      PROVE  Rest
  <2>1. /\ position' = position /\ Settles(task'[s]) /\ task'[s].market = m
        /\ task'[s].qty = -position[m].qty /\ ~position[m].settled
        /\ \A b \in Actors \ {s} : task'[b] = task[b]
    BY <1>1, <1>3 DEF Settle, SettleFill, HasOpenPosition
  <2>2. Within(Cap, -position[m].qty)
    <3>1. Within(Cap, position[m].qty)
      BY <1>1, <2>1 DEF Bounded
    <3> QED
      BY <1>1, <3>1 DEF Within
  <2>3. \A t \in Traders : task'[t] = task[t]
    BY <1>1, <2>1
  <2>4. \A r \in Settlers : \A n \in Markets :
            task'[r] # Idle /\ task'[r].market = n /\ ~position'[n].settled =>
                Within(Cap, task'[r].qty)
    BY <1>1, <2>1, <2>2
  <2> QED
    BY <1>1, <2>1, <2>3, <2>4
<1>4. ASSUME NEW a \in Actors, RecordFill(a)
      PROVE  Rest
  <2>1. /\ position' = position /\ task[a] # Idle
        /\ task'[a].market = task[a].market /\ task'[a].qty = task[a].qty
        /\ Settles(task'[a]) = Settles(task[a])
        /\ \A b \in Actors \ {a} : task'[b] = task[b]
    BY <1>1, <1>4 DEF RecordFill, Idle, LedgerTypeOK, TaskType
  <2>2. \A b \in Actors : task'[b] # Idle =>
            /\ task[b] # Idle /\ task'[b].market = task[b].market
            /\ task'[b].qty = task[b].qty /\ Settles(task'[b]) = Settles(task[b])
    BY <2>1
  <2> QED
    BY <1>1, <2>1, <2>2
<1>5. ASSUME NEW a \in Actors, ApplyToPosition(a)
      PROVE  Rest
  <2> DEFINE m == task[a].market
             qty == task[a].qty
  <2>1. /\ task[a] # Idle /\ task'[a] = Idle
        /\ \A b \in Actors \ {a} : task'[b] = task[b]
    BY <1>1, <1>5 DEF ApplyToPosition, Idle
  <2>2. m \in Markets /\ qty \in Int /\ Settles(task[a]) \in BOOLEAN
    BY <1>1, <2>1, InFlightType
  <2>3. /\ position'[m].qty = position[m].qty + qty
        /\ position'[m].settled = (position[m].settled \/ Settles(task[a]))
        /\ \A n \in Markets \ {m} : position'[n] = position[n]
    BY <1>1, <1>5, <2>2 DEF ApplyToPosition, LedgerTypeOK
  <2>4. \A b \in Actors : task'[b] # Idle => b # a /\ task'[b] = task[b]
    BY <2>1
  <2>5. \A b \in Actors : task'[b] # Idle => (Settles(task'[b]) <=> b \in Settlers)
    BY <1>1, <2>4
  <2> HIDE DEF m, qty
  <2>6. CASE a \in Traders
    <3>1. position'[m].settled = position[m].settled
      BY <1>1, <2>1, <2>2, <2>3, <2>6
    <3>2. Bounded(position[m].settled, position[m].qty + qty)
      BY <1>1, <2>1, <2>2, <2>6 DEF m, qty
    <3>3. \A n \in Markets : Bounded(position'[n].settled, position'[n].qty)
      BY <1>1, <2>3, <3>1, <3>2
    <3>4. \A t \in Traders : task'[t] = Idle
      BY <2>1, <2>6
    <3>5. \A n \in Markets : position'[n].settled = position[n].settled
      BY <2>3, <3>1
    <3>6. \A s \in Settlers : \A n \in Markets :
              task'[s] # Idle /\ task'[s].market = n /\ ~position'[n].settled =>
                  Within(Cap, task'[s].qty)
      BY <1>1, <2>4, <3>5
    <3> QED
      BY <2>5, <3>3, <3>4, <3>6
  <2>7. CASE a \in Settlers
    <3>1. position'[m].settled
      BY <1>1, <2>1, <2>3, <2>7
    <3>2. LoneWatcher => ~position[m].settled
      BY <1>1, <2>1, <2>7 DEF SettlesUnsettled, m
    <3>3. LoneWatcher => Within(Cap, qty) /\ Within(Cap, position[m].qty)
      BY <1>1, <2>1, <2>2, <2>7, <3>2 DEF Bounded, m, qty
    <3>4. Bounded(TRUE, position'[m].qty)
      BY <1>1, <2>2, <2>3, <3>3 DEF Bounded, Within
    <3>5. ASSUME NEW t \in Traders, task'[t] # Idle, task'[t].market = m
          PROVE  Bounded(TRUE, position'[m].qty + task'[t].qty)
      <4>1. task[t] = task'[t] /\ task[t] # Idle /\ task[t].qty \in Int
        BY <1>1, <2>4, <3>5, InFlightType
      <4>2. LoneWatcher => Within(Cap, position[m].qty + task[t].qty)
        BY <1>1, <2>2, <3>2, <3>5, <4>1 DEF Bounded
      <4>3. position'[m].qty + task'[t].qty = (position[m].qty + task[t].qty) + qty
        BY <1>1, <2>2, <2>3, <4>1
      <4> QED
        BY <1>1, <2>2, <3>3, <4>1, <4>2, <4>3 DEF Bounded, Within
    <3>6. \A n \in Markets : Bounded(position'[n].settled, position'[n].qty)
      BY <1>1, <2>3, <3>1, <3>4
    <3>7. ASSUME NEW t \in Traders, NEW n \in Markets,
                 task'[t] # Idle, task'[t].market = n
          PROVE  Bounded(position'[n].settled, position'[n].qty + task'[t].qty)
      <4>1. CASE n = m
        BY <3>1, <3>5, <3>7, <4>1 DEF Bounded
      <4>2. CASE n # m
        <5>1. task'[t] = task[t] /\ position'[n] = position[n]
          BY <1>1, <2>3, <2>4, <3>7, <4>2
        <5> QED
          BY <1>1, <3>7, <5>1
      <4> QED
        BY <4>1, <4>2
    <3>8. \A s \in Settlers : \A n \in Markets :
              task'[s] # Idle /\ task'[s].market = n /\ ~position'[n].settled =>
                  Within(Cap, task'[s].qty)
      BY <1>1, <2>3, <2>4, <3>1
    <3> QED
      BY <2>5, <3>6, <3>7, <3>8
  <2> QED
    BY <1>1, <2>6, <2>7
<1>6. ASSUME NEW a \in Actors, Crash(a)
      PROVE  Rest
  <2>1. position' = position /\ \A b \in Actors : task'[b] # Idle => task'[b] = task[b]
    BY <1>1, <1>6 DEF Crash
  <2> QED
    BY <1>1, <2>1
<1>7. ASSUME UNCHANGED <<position, task>>
      PROVE  Rest
  BY <1>1, <1>7
<1> HIDE DEF Rest
<1>8. Rest
  BY <1>1, <1>2, <1>3, <1>4, <1>5, <1>6, <1>7
  DEF LedgerNext, Publish, Trade, SettleStep, ledgerVars
<1> QED
  BY <1>8, LedgerTypeNext DEF Rest, LimitInv

\* With one API thread at a time that rebalances, an unsettled position keeps
\* the limit whatever the watchers do; the watcher's close-out is computed from
\* what it read, and a trade in between can leave up to twice the limit.
THEOREM LoneTraderKeepsLimit ==
    ASSUME \A t, u \in Traders : t = u
    PROVE  LedgerSpec => []PositionsWithinLimit
<1>1. LedgerSpec => [](LoneWatcher => SettlesUnsettled)
  <2>1. CASE LoneWatcher
    <3>1. PaidInv /\ [LedgerNext]_<<outcome, ledgerVars>> => PaidInv'
      BY <2>1, PaidNext DEF LoneWatcher
    <3>2. PaidInv => (LoneWatcher => SettlesUnsettled)
      BY DEF PaidInv
    <3> QED
      BY <3>1, <3>2, PaidInit, PTL DEF LedgerSpec
  <2>2. CASE ~LoneWatcher
    <3>1. LoneWatcher => SettlesUnsettled
      BY <2>2
    <3> QED
      BY <3>1, PTL
  <2> QED
    BY <2>1, <2>2
<1>2. /\ LoneWatcher => SettlesUnsettled
      /\ LimitInv /\ [LedgerNext]_<<outcome, ledgerVars>>
      => LimitInv'
  BY LimitNext
<1>3. LimitInv => PositionsWithinLimit
  BY DEF LimitInv, PositionsWithinLimit, Bounded
<1> QED
  BY <1>1, <1>2, <1>3, LimitInit, PTL DEF LedgerSpec
=============================================================================
