----------------------------- MODULE CostLedger ------------------------------
(***************************************************************************)
(* The cost budget of a tenant: the reservations of enterprise/quota.py    *)
(* (one file under a lock) or enterprise/postgres.py (one table, under the *)
(* row lock of the tenant), the handlers of api/routes/content.py that     *)
(* reserve before they generate and settle or release afterwards, and the  *)
(* billing clients of enterprise/routes.py that do it by hand.  A lock or  *)
(* a transaction encloses every operation of the ledger, so each of them   *)
(* is one step; costs are in units of the smallest estimate.               *)
(***************************************************************************)
EXTENDS Naturals, FiniteSets

CONSTANTS
    Reservations,   \* reservations that may be made
    Generated,      \* those that requests to generate a note make
    Estimates,      \* the estimates billing clients come with
    Price,          \* 0.15, estimate and actual cost of a generated note
    DailyCostLimit,     \* daily_cost_limit_usd
    MonthlyCostLimit,   \* monthly_cost_limit_usd
    DaysPerMonth,   \* days of a month
    LastDay         \* bound: the clock stops at this day

ASSUME LedgerAssumption ==
    /\ IsFiniteSet(Reservations) /\ Generated \subseteq Reservations
    /\ Estimates \subseteq Nat /\ Price \in Nat /\ LastDay \in Nat
    /\ DailyCostLimit \in Nat /\ MonthlyCostLimit \in Nat
    /\ DaysPerMonth \in Nat \ {0}

VARIABLES
    ledger,    \* every reservation
    handler,   \* the request a reservation was made for
    today,     \* the day of the clock
    overrun    \* what settlements added beyond what was reserved, by day

ledgerVars == <<ledger, handler, today, overrun>>

Unreserved == [status |-> "NONE", estimate |-> 0, actual |-> 0, day |-> 0, expired |-> FALSE]
Month(d) == d \div DaysPerMonth

\* What a reservation counts for: its cost when settled, its estimate while it
\* is held and has not expired.
Committed(r) ==
    CASE ledger[r].status = "SETTLED" -> ledger[r].actual
      [] ledger[r].status = "RESERVED" /\ ~ledger[r].expired -> ledger[r].estimate
      [] OTHER -> 0

\* The sum of f over S: costs are units, and the units are counted.
SumOver(f, S) == Cardinality(UNION {{x} \X (1 .. f[x]) : x \in S})

Days(m) == {d \in 0 .. LastDay : Month(d) = m}
SpentOn(D) ==
    SumOver([r \in Reservations |-> IF ledger[r].day \in D THEN Committed(r) ELSE 0], Reservations)

\* summary, as far as reserve looks at it; the faulty variant looks at the
\* day only.
AffordableToday(cost) == SpentOn({today}) + cost <= DailyCostLimit
Affordable(cost) ==
    /\ SpentOn({today}) + cost <= DailyCostLimit
    /\ SpentOn(Days(Month(today))) + cost <= MonthlyCostLimit

LedgerInit ==
    /\ ledger = [r \in Reservations |-> Unreserved]
    /\ handler = [r \in Generated |-> "off"]
    /\ today = 0
    /\ overrun = [d \in 0 .. LastDay |-> 0]
-----------------------------------------------------------------------------
(* The operations of the ledger. *)

Reserved(r, cost) ==
    /\ ledger[r].status = "NONE"
    /\ Affordable(cost)
    /\ ledger' = [ledger EXCEPT ![r] =
                    [Unreserved EXCEPT !.status = "RESERVED", !.estimate = cost, !.day = today]]

\* settle asks for status RESERVED only: an expired reservation still settles.
Charged(r, cost) ==
    /\ ledger[r].status = "RESERVED"
    /\ ledger' = [ledger EXCEPT ![r].status = "SETTLED", ![r].actual = cost]
    /\ overrun' = [overrun EXCEPT ![ledger[r].day] =
                     @ + (IF cost > Committed(r) THEN cost - Committed(r) ELSE 0)]

Released(r) ==
    /\ ledger[r].status = "RESERVED"
    /\ ledger' = [ledger EXCEPT ![r].status = "RELEASED"]

ReservationExpires(r) ==
    /\ ledger[r].status = "RESERVED" /\ ~ledger[r].expired
    /\ ledger' = [ledger EXCEPT ![r].expired = TRUE]
    /\ UNCHANGED <<handler, today, overrun>>

NextDay ==
    /\ today < LastDay
    /\ today' = today + 1
    /\ UNCHANGED <<ledger, handler, overrun>>
-----------------------------------------------------------------------------
(* A request to generate a note. *)

\* The reservation, or the answer 429.
StartGenerate(r) ==
    /\ handler[r] = "off" /\ ledger[r].status = "NONE"
    /\ IF Affordable(Price)
       THEN Reserved(r, Price) /\ handler' = [handler EXCEPT ![r] = "working"]
       ELSE UNCHANGED ledger /\ handler' = [handler EXCEPT ![r] = "refused"]
    /\ UNCHANGED <<today, overrun>>

\* The workflow returns, or raises: an exception of any class is caught, a
\* cancellation is none and leaves the reservation to its expiry.
GenerateReturns(r) ==
    /\ handler[r] = "working"
    /\ handler' = [handler EXCEPT ![r] = "settling"]
    /\ UNCHANGED <<ledger, today, overrun>>
GenerateRaises(r) ==
    /\ handler[r] = "working"
    /\ handler' = [handler EXCEPT ![r] = "releasing"]
    /\ UNCHANGED <<ledger, today, overrun>>
GenerateCancelled(r) ==
    /\ handler[r] \in {"working", "settling", "releasing"}
    /\ handler' = [handler EXCEPT ![r] = "cancelled"]
    /\ UNCHANGED <<ledger, today, overrun>>

\* The ledger was settled or released, or it raised: another client may have
\* settled or released the reservation before.
SettleGenerate(r) ==
    /\ handler[r] = "settling"
    /\ handler' = [handler EXCEPT ![r] = "ended"]
    /\ IF ledger[r].status = "RESERVED" THEN Charged(r, Price)
                                        ELSE UNCHANGED <<ledger, overrun>>
    /\ UNCHANGED today
ReleaseGenerate(r) ==
    /\ handler[r] = "releasing"
    /\ handler' = [handler EXCEPT ![r] = "ended"]
    /\ IF ledger[r].status = "RESERVED" THEN Released(r) ELSE UNCHANGED ledger
    /\ UNCHANGED <<today, overrun>>

\* The storage fails in one of these calls: the error leaves the handler and
\* nobody tries again.
LedgerFails(r) ==
    /\ handler[r] \in {"settling", "releasing"}
    /\ handler' = [handler EXCEPT ![r] = "broken"]
    /\ UNCHANGED <<ledger, today, overrun>>
-----------------------------------------------------------------------------
(* Billing clients: /v1/enterprise/budget/reservations. *)

BillReserve(r, cost) ==
    /\ r \notin Generated /\ Reserved(r, cost)
    /\ UNCHANGED <<handler, today, overrun>>
BillSettle(r, cost) == Charged(r, cost) /\ UNCHANGED <<handler, today>>
BillRelease(r) == Released(r) /\ UNCHANGED <<handler, today, overrun>>

LedgerNext ==
    \/ NextDay
    \/ \E r \in Generated :
          \/ StartGenerate(r) \/ GenerateReturns(r) \/ GenerateRaises(r)
          \/ GenerateCancelled(r) \/ SettleGenerate(r) \/ ReleaseGenerate(r)
          \/ LedgerFails(r)
    \/ \E r \in Reservations :
          \/ ReservationExpires(r) \/ BillRelease(r)
          \/ \E cost \in Estimates : BillReserve(r, cost) \/ BillSettle(r, cost)

LedgerSpec == LedgerInit /\ [][LedgerNext]_ledgerVars
-----------------------------------------------------------------------------
(* Properties. *)

Overruns(D) == SumOver(overrun, D)

\* What counts against a day or a month goes beyond its limit only by what was
\* settled beyond the amount then held: a dearer settlement, or one of a
\* reservation that had expired and had made room for others.
BudgetKept ==
    \A d \in 0 .. today :
        /\ SpentOn({d}) <= DailyCostLimit + overrun[d]
        /\ SpentOn(Days(Month(d))) <= MonthlyCostLimit + Overruns(Days(Month(d)))
=============================================================================
