--------------------------- MODULE ExchangeRates ---------------------------
(***************************************************************************)
(* The exchange rates (model/exchange_rates_manager.cpp). The user chooses *)
(* the unit of the rates or turns them off; the manager keeps one rate for *)
(* each currency, in whatever unit it came, and the time of the last ones. *)
(* The wallet is external: it hands out all rates it has, in all units.    *)
(***************************************************************************)
EXTENDS Integers, Sequences, FiniteSets

CONSTANTS
    Currencies,     \* what is priced
    Units,          \* what it may be priced in
    Off,            \* Currency::UNKNOWN, no unit chosen
    MaxTime,        \* bound on the time
    MaxRatesUnderWay

ASSUME RatesAssumption == Off \notin Units /\ MaxTime \in Nat \ {0} /\ MaxRatesUnderWay \in Nat

VARIABLES
    market,         \* the wallet's rates: the time of each, 0 for none
    clock,
    switchedOn,     \* the wallet fetches rates
    rateCalls,      \* requests to the wallet, in order
    rateEvents,     \* its answers and news, in order
    rateUnit,       \* m_rateUnit
    rates,          \* m_rates: unit and time of the rate, NoRate for none
    updateTime      \* m_updateTime

ratesVars == <<market, clock, switchedOn, rateCalls, rateEvents, rateUnit, rates, updateTime>>

Time == 0..MaxTime
Market == [Currencies -> [Units -> Time]]
NoRate == [unit |-> Off, time |-> 0]

RatesTypeOK ==
    /\ market \in Market
    /\ clock \in Time
    /\ switchedOn \in BOOLEAN
    /\ rateCalls \in Seq({"on", "off", "get"})
    /\ rateEvents \in Seq(Market)
    /\ rateUnit \in Units \cup {Off}
    /\ rates \in [Currencies -> [unit: Units \cup {Off}, time: Time]]
    /\ updateTime \in Time

\* The unit is that of the settings; the wallet may have rates of before.
RatesInit ==
    /\ clock = 1
    /\ market \in [Currencies -> [Units -> {0, 1}]]
    /\ rateUnit \in Units \cup {Off}
    /\ switchedOn = (rateUnit # Off)
    /\ rateCalls = IF rateUnit = Off THEN <<>> ELSE <<"get">>
    /\ rateEvents = <<>>
    /\ rates = [c \in Currencies |-> NoRate]
    /\ updateTime = 0

RatesUnderWay == Len(rateCalls) + Len(rateEvents)

-----------------------------------------------------------------------------
\* The wallet fetches rates of some currencies and tells all it has.
MarketMoves(currencies, unit) ==
    /\ switchedOn /\ clock < MaxTime /\ RatesUnderWay < MaxRatesUnderWay
    /\ clock' = clock + 1
    /\ market' = [c \in Currencies |->
                    IF c \in currencies THEN [market[c] EXCEPT ![unit] = clock'] ELSE market[c]]
    /\ rateEvents' = Append(rateEvents, market')
    /\ UNCHANGED <<switchedOn, rateCalls, rateUnit, rates, updateTime>>

RunRateCall ==
    /\ rateCalls # <<>>
    /\ rateCalls' = Tail(rateCalls)
    /\ \/ /\ Head(rateCalls) = "get"
          /\ rateEvents' = Append(rateEvents, market)
          /\ UNCHANGED switchedOn
       \/ /\ Head(rateCalls) \in {"on", "off"}
          /\ switchedOn' = (Head(rateCalls) = "on")
          /\ UNCHANGED rateEvents
    /\ UNCHANGED <<market, clock, rateUnit, rates, updateTime>>

\* A mutant: the time of the former unit's rates stays as well.
ChooseUnit_KeepsTime(unit) ==
    /\ unit # rateUnit /\ RatesUnderWay < MaxRatesUnderWay
    /\ rateCalls' = rateCalls \o (IF unit = Off THEN <<"off">> ELSE <<"on", "get">>)
    /\ rateUnit' = unit
    /\ UNCHANGED <<market, clock, switchedOn, rateEvents, rates, updateTime>>

\* secondCurrencyChanged, setRateUnit: the rates stay, their time does not.
ChooseUnit(unit) ==
    /\ unit # rateUnit /\ RatesUnderWay < MaxRatesUnderWay
    /\ rateCalls' = rateCalls \o (IF unit = Off THEN <<"off">> ELSE <<"on", "get">>)
    /\ rateUnit' = unit
    /\ updateTime' = 0
    /\ UNCHANGED <<market, clock, switchedOn, rateEvents, rates>>

\* onExchangeRatesUpdate: those of the unit are taken over.
TakenOver(told) == {c \in Currencies : rateUnit # Off /\ told[c][rateUnit] # 0}

OnExchangeRates ==
    /\ rateEvents # <<>>
    /\ rateEvents' = Tail(rateEvents)
    /\ LET told == Head(rateEvents)
           new == TakenOver(told)
       IN  /\ rates' = [c \in Currencies |->
                           IF c \in new THEN [unit |-> rateUnit, time |-> told[c][rateUnit]]
                           ELSE rates[c]]
           /\ LET times == {updateTime} \cup {told[c][rateUnit] : c \in new}
              IN  \E last \in times : /\ \A t \in times : t <= last
                                      /\ updateTime' = last
    /\ UNCHANGED <<market, clock, switchedOn, rateCalls, rateUnit>>

RatesNext ==
    \/ \E currencies \in SUBSET Currencies, unit \in Units : MarketMoves(currencies, unit)
    \/ RunRateCall
    \/ \E unit \in Units \cup {Off} : ChooseUnit(unit)
    \/ OnExchangeRates

RatesSpec == RatesInit /\ [][RatesNext]_ratesVars

-----------------------------------------------------------------------------
\* The time shown is that of a rate in the unit chosen, whatever was under way
\* when the unit changed. Once nothing is under way, each rate the wallet has
\* in the unit is the one kept, and none of those is in a former unit
\* (exchange_rates_manager.cpp: setRateUnit, onExchangeRatesUpdate).
RatesAreOfUnit ==
    /\ updateTime # 0 => \E c \in Currencies : rates[c] = [unit |-> rateUnit, time |-> updateTime]
    /\ rateUnit # Off /\ rateCalls = <<>> /\ rateEvents = <<>> =>
           \A c \in Currencies :
               market[c][rateUnit] # 0 => rates[c] = [unit |-> rateUnit, time |-> market[c][rateUnit]]
=============================================================================
