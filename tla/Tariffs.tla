------------------------------ MODULE Tariffs ---------------------------------
(***************************************************************************)
(* What a charge costs (teslai/costs.py and _cost of teslai/days.py): the  *)
(* time-of-use windows of the home tariff, and the slices that a charge is *)
(* priced in.                                                              *)
(*                                                                         *)
(* Local time is counted in steps from the midnight a week begins with; a  *)
(* day has Day of them.  Money is an integer: charge_cost multiplies the   *)
(* share of a slice with the energy and rounds, Charged is the sum before  *)
(* that, in price times step.                                              *)
(***************************************************************************)
EXTENDS Integers, Sequences, FiniteSetsExt

CONSTANTS Day,    \* steps of a day
          Week,   \* days of a week
          Slice   \* steps of a slice (15 minutes)

ASSUME TariffAssumption == Day \in Nat \ {0} /\ Week \in Nat \ {0} /\ Slice \in Nat \ {0}

Weekday(t) == (t \div Day) % Week
TimeOfDay(t) == t % Day

\* What load_tariffs accepts: a window begins at a time of day, and ends at one or at
\* Day ("24:00").
Windows(days, ends, prices) ==
    [days : days, start : 0 .. Day - 1, end : ends, price : prices]

MatchesToday(w, t) ==  \* mutant: the part after midnight belongs to its own day
    /\ Weekday(t) \in w.days
    /\ IF w.start < w.end THEN w.start <= TimeOfDay(t) /\ TimeOfDay(t) < w.end
       ELSE TimeOfDay(t) >= w.start \/ TimeOfDay(t) < w.end

Matches(w, t) ==
    LET tod == TimeOfDay(t)
    IN  IF w.start < w.end
        THEN Weekday(t) \in w.days /\ w.start <= tod /\ tod < w.end
        ELSE \/ tod >= w.start /\ Weekday(t) \in w.days
             \/ tod < w.start /\ tod < w.end /\ (Weekday(t) - 1) % Week \in w.days

\* The first window that matches has the price.
HomePrice(tariffs, t) ==
    LET fits == {i \in DOMAIN tariffs.windows : Matches(tariffs.windows[i], t)}
    IN  IF fits = {} THEN tariffs.home ELSE tariffs.windows[Min(fits)].price

PriceAt(tariffs, kind, t) ==
    CASE kind = "free" -> 0
      [] kind = "supercharger" -> tariffs.supercharger
      [] kind = "public" -> tariffs.public
      [] kind = "home" -> HomePrice(tariffs, t)

\* The place where a charge ends, or else begins, decides; DC charging that is
\* not free is a Supercharger's.
PriceKind(charge) ==
    LET kind == IF charge.endPlace # "none" THEN charge.endPlace ELSE charge.startPlace
    IN  CASE charge.dc /\ kind # "free" -> "supercharger"
          [] ~(charge.dc /\ kind # "free") /\ kind \in {"home", "free", "supercharger"} -> kind
          [] OTHER -> "public"

\* The slices of a charge begin where it does, and the last one may be short.
SliceStarts(charge) ==
    {t \in charge.start .. charge.end - 1 : (t - charge.start) % Slice = 0}

SliceEnd(charge, t) == IF t + Slice < charge.end THEN t + Slice ELSE charge.end

Charged(tariffs, charge) ==
    MapThenSumSet(LAMBDA t : (SliceEnd(charge, t) - t) * PriceAt(tariffs, PriceKind(charge), t),
                  SliceStarts(charge))

NoInvoice == -1

\* _cost and charge_cost: the amount, and whether it is the invoice's.
ChargeCost(tariffs, charge) ==
    CASE charge.invoice # NoInvoice -> charge.invoice
      [] charge.invoice = NoInvoice /\ (~charge.energy \/ charge.end <= charge.start) -> 0
      [] OTHER -> Charged(tariffs, charge)

-----------------------------------------------------------------------------
(* What the owner means by a tariff, without slices.                       *)

\* A window covers an interval that begins on each of its days, and that goes on
\* into the next day when it ends before, or when, it begins.
Covers(w, t) ==
    \E d \in -1 .. t \div Day :
        /\ d % Week \in w.days
        /\ d * Day + w.start <= t
        /\ t < (IF w.start < w.end THEN d * Day + w.end ELSE (d + 1) * Day + w.end)

FairPrice(tariffs, t) ==
    IF \E i \in DOMAIN tariffs.windows : Covers(tariffs.windows[i], t)
    THEN tariffs.windows[CHOOSE i \in DOMAIN tariffs.windows :
                            /\ Covers(tariffs.windows[i], t)
                            /\ \A j \in 1 .. i - 1 : ~Covers(tariffs.windows[j], t)].price
    ELSE tariffs.home

\* Charging at home at constant power costs what each step of it costs.
FairCost(tariffs, charge) ==
    MapThenSumSet(LAMBDA t : FairPrice(tariffs, t), charge.start .. charge.end - 1)

\* The price changes within a slice, between two of its steps.
SplitSlices(tariffs, charge) ==
    {t \in SliceStarts(charge) :
        \E u \in t + 1 .. SliceEnd(charge, t) - 1 :
            FairPrice(tariffs, u) # FairPrice(tariffs, u - 1)}
===============================================================================
