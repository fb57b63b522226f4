------------------------------- MODULE Ledger -------------------------------
(***************************************************************************)
(* The resource ledger of one experiment: its BudgetRow, its               *)
(* ReservationRows and every transaction of the system that changes them   *)
(* (HarnessService.reserve_resources and settle_resources, the workspace   *)
(* broker's provision, destruction and failure paths, and the controller's *)
(* slot recovery commands).                                                *)
(*                                                                         *)
(* The three totals of BudgetRow are running totals: no command ever       *)
(* recomputes them from the reservations, so one release too many or too   *)
(* few stays for good.                                                     *)
(***************************************************************************)
EXTENDS Integers, FiniteSets

CONSTANTS
    Res,            \* reservation identifiers
    Limit,          \* max_cost and max_tokens
    Limited,        \* the units with a limit: max_tokens may be None
    MaxConcurrency, \* max_concurrency
    Charge          \* amounts that are reserved and billed

\* Money (in micro-USD) and tokens are accounted alike.
Unit == {"cost", "tokens"}

ASSUME LedgerAssumption ==
    /\ Limit \in [Unit -> Nat]
    /\ "cost" \in Limited /\ Limited \subseteq Unit
    /\ MaxConcurrency \in Nat
    /\ Charge \subseteq Nat /\ 0 \in Charge

VARIABLES
    open,       \* the experiment is queued or running, before its deadline
    overrun,    \* budget_reconciliation_required
    budget,     \* reserved and spent per unit, active_workers
    res,        \* the reservations
    again       \* history: what a rejected provision released of a settled reservation

ledgerVars == <<open, overrun, budget, res, again>>

\* vm is "none" for a worker slot or a model charge, else the state of the VM
\* that the reservation pays for.
Reservation ==
    [state : {"absent", "active", "uncertain", "settled"},
     reserved : [Unit -> Nat], actual : [Unit -> Nat], workers : Nat,
     vm : {"none", "pending", "live", "destroyed"}]
Budget == [reserved : [Unit -> Int], spent : [Unit -> Int], workers : Int]
Release == [reserved : Nat, actual : Nat, workers : Nat]

LedgerTypeOK ==
    /\ open \in BOOLEAN /\ overrun \in BOOLEAN
    /\ budget \in Budget
    /\ res \in [Res -> Reservation]
    /\ again \in [Res -> Release]

Zero == [u \in Unit |-> 0]
NoReservation == [state |-> "absent", reserved |-> Zero, actual |-> Zero,
                  workers |-> 0, vm |-> "none"]
NoRelease == [reserved |-> 0, actual |-> 0, workers |-> 0]

LedgerInit ==
    /\ open = FALSE /\ overrun = FALSE
    /\ budget = [reserved |-> Zero, spent |-> Zero, workers |-> 0]
    /\ res = [r \in Res |-> NoReservation]
    /\ again = [r \in Res |-> NoRelease]

Active == open /\ ~overrun
Unsettled(r) == res[r].state \in {"active", "uncertain"}
SettledZero(r) == [res[r] EXCEPT !.state = "settled", !.actual = Zero]
-----------------------------------------------------------------------------
\* transition_experiment, and the deadline.
SetOpen(b) ==
    /\ open' = b
    /\ UNCHANGED <<overrun, budget, res, again>>

Fits(u, n) == budget.spent[u] + budget.reserved[u] + n =< Limit[u]

WorkersFit(n) == budget.workers + n =< MaxConcurrency

Enter(r, a, n, v) ==
    /\ res' = [res EXCEPT ![r] = [state |-> "active", reserved |-> a, actual |-> Zero,
                                  workers |-> n, vm |-> v]]
    /\ budget' = [budget EXCEPT !.reserved = [u \in Unit |-> @[u] + a[u]],
                                !.workers = @ + n]
    /\ UNCHANGED <<open, overrun, again>>

\* reserve_resources: a worker slot (n = 1) or a model charge (n = 0).
Reserve(r, a, n) ==
    /\ res[r].state = "absent"
    /\ Active
    /\ \A u \in Limited : Fits(u, a[u])
    /\ WorkersFit(n)
    /\ Enter(r, a, n, "none")

\* The broker's provision: money only, so tokens are not looked at; one worker
\* for a standalone VM, none when it shares its task's slot.
Provision(r, c, n) ==
    /\ res[r].state = "absent"
    /\ Active
    /\ Fits("cost", c)
    /\ WorkersFit(n)
    /\ Enter(r, [Zero EXCEPT !["cost"] = c], n, "pending")
-----------------------------------------------------------------------------
(* Settlement.  settle_resources reads no experiment status; a replay of the *)
(* same settlement changes nothing and a different one is refused.           *)

SettleUncertain(r) ==
    /\ Unsettled(r)
    /\ res' = [res EXCEPT ![r].state = "uncertain"]
    /\ UNCHANGED <<open, overrun, budget, again>>

Exceeds(r, b) ==
    \/ \E u \in Unit : b[u] > res[r].reserved[u]
    \/ \E u \in Limited :
          budget.spent[u] + budget.reserved[u] - res[r].reserved[u] + b[u] > Limit[u]

Charged(r, b) ==
    [budget EXCEPT !.reserved = [u \in Unit |-> @[u] - res[r].reserved[u]],
                   !.spent = [u \in Unit |-> @[u] + b[u]],
                   !.workers = @ - res[r].workers]

\* Nothing is asked of the VM: an operator may settle while it is provisioned.
Settle(r, b) ==
    /\ Unsettled(r)
    /\ overrun' = (overrun \/ Exceeds(r, b))
    /\ budget' = Charged(r, b)
    /\ res' = [res EXCEPT ![r].state = "settled", ![r].actual = b]
    /\ UNCHANGED <<open, again>>
-----------------------------------------------------------------------------
(* Settlement by the workspace broker, under its guard. *)

ProvisionCommitted(r) ==
    /\ res[r].vm = "pending"
    /\ res' = [res EXCEPT ![r].vm = "live"]
    /\ UNCHANGED <<open, overrun, budget, again>>

\* What a rejection takes out of totals that no longer hold it.
Repeated(r) == [reserved |-> res[r].reserved["cost"], actual |-> res[r].actual["cost"],
                workers |-> res[r].workers]

\* provision: the local workbench definitely refused.  The reservation's state
\* is not read: one that an operator settled meanwhile is released once more,
\* and the charge on record is lost.
ProvisionRejected(r) ==
    /\ res[r].vm = "pending"
    /\ budget' = [budget EXCEPT !.workers = @ - res[r].workers,
                                !.reserved["cost"] = @ - res[r].reserved["cost"]]
    /\ res' = [res EXCEPT ![r].state = "settled", ![r].actual["cost"] = 0,
                          ![r].workers = 0, ![r].vm = "destroyed"]
    /\ again' = IF Unsettled(r) THEN again ELSE [again EXCEPT ![r] = Repeated(r)]
    /\ UNCHANGED <<open, overrun>>

CapacityFreed(r) ==                                                 \* mutant
    res' = [res EXCEPT ![r].state = "uncertain", ![r].vm = "destroyed"]
CapacityGiven(r) ==
    res' = [res EXCEPT ![r].state = "uncertain", ![r].vm = "destroyed", ![r].workers = 0]

\* Confirmed destruction, invoice unknown: the worker is released now and the
\* money stays reserved.
DestroyUnbilled(r) ==
    /\ res[r].vm = "live"
    /\ Unsettled(r)
    /\ budget' = [budget EXCEPT !.workers = @ - res[r].workers]
    /\ CapacityGiven(r)
    /\ UNCHANGED <<open, overrun, again>>

\* Confirmed destruction of a local VM by destroy: its charge is zero.
DestroyLocal(r) ==
    /\ res[r].vm = "live"
    /\ Unsettled(r)
    /\ budget' = Charged(r, Zero)
    /\ res' = [res EXCEPT ![r] = [SettledZero(r) EXCEPT !.vm = "destroyed"]]
    /\ UNCHANGED <<open, overrun, again>>

\* A command failed and the provider confirmed that it destroyed the VM; a
\* remote one is DestroyUnbilled.
FailedLocal(r) ==
    /\ res[r].vm = "live"
    /\ Unsettled(r)
    /\ budget' = Charged(r, Zero)
    /\ res' = [res EXCEPT ![r] = [SettledZero(r) EXCEPT !.vm = "destroyed", !.workers = 0]]
    /\ UNCHANGED <<open, overrun, again>>

\* Confirmed destruction after an operator settled the reservation: destroy
\* refuses the commit and the failure path leaves the ledger alone.
DestroySettled(r) ==
    /\ res[r].vm = "live"
    /\ res[r].state = "settled"
    /\ res' = [res EXCEPT ![r].vm = "destroyed"]
    /\ UNCHANGED <<open, overrun, budget, again>>
-----------------------------------------------------------------------------
(* The controller's recovery of a worker slot. *)

ActiveSlot(r) ==
    /\ res[r].state = "active"
    /\ res[r].vm = "none"
    /\ res[r].workers = 1
    /\ res[r].reserved = Zero

\* reconcile_orphan_worker_slot and issue_continuation.
ReleaseSlot(r) ==
    /\ Active
    /\ ActiveSlot(r)
    /\ budget.workers >= 1
    /\ res' = [res EXCEPT ![r] = SettledZero(r)]
    /\ budget' = [budget EXCEPT !.workers = @ - 1]
    /\ UNCHANGED <<open, overrun, again>>

\* retire_failed_local_workspace: the VM's zero reservation and its slot.
RetireLocal(r, s) ==
    /\ ~open
    /\ Unsettled(r) /\ res[r].vm \in {"pending", "live"}
    /\ res[r].reserved = Zero /\ res[r].workers = 0
    /\ Unsettled(s) /\ res[s].vm = "none"
    /\ res[s].reserved = Zero /\ res[s].workers = 1
    /\ budget.workers >= 1
    /\ res' = [res EXCEPT ![r] = [SettledZero(r) EXCEPT !.vm = "destroyed"],
                          ![s] = SettledZero(s)]
    /\ budget' = [budget EXCEPT !.workers = @ - 1]
    /\ UNCHANGED <<open, overrun, again>>
-----------------------------------------------------------------------------
LedgerNext ==
    \/ \E b \in BOOLEAN : SetOpen(b)
    \/ \E r \in Res :
        \/ \E a \in [Unit -> Charge], n \in {0, 1} : Reserve(r, a, n)
        \/ \E c \in Charge, n \in {0, 1} : Provision(r, c, n)
        \/ SettleUncertain(r)
        \/ \E b \in [Unit -> Charge] : Settle(r, b)
        \/ ProvisionCommitted(r)
        \/ ProvisionRejected(r)
        \/ DestroyUnbilled(r)
        \/ DestroyLocal(r)
        \/ FailedLocal(r)
        \/ DestroySettled(r)
        \/ ReleaseSlot(r)
        \/ \E s \in Res : RetireLocal(r, s)

LedgerSpec == LedgerInit /\ [][LedgerNext]_ledgerVars
-----------------------------------------------------------------------------
(* Properties. *)

Held == {r \in Res : Unsettled(r)}
Billed == {r \in Res : res[r].state = "settled"}

\* The sum of f over S, as the number of single units it stands for.
UnitsOf(S, f) == UNION {{r} \X (1 .. f[r]) : r \in S}

Reserved(u) == [r \in Res |-> res[r].reserved[u]]
Actual(u) == [r \in Res |-> res[r].actual[u]]
Workers == [r \in Res |-> res[r].workers]

\* What rejections released once more of reservations already settled.
AgainReserved == [r \in Res |-> again[r].reserved]
AgainActual == [r \in Res |-> again[r].actual]
AgainWorkers == [r \in Res |-> again[r].workers]

\* The running totals of BudgetRow equal what the reservations say, except for
\* what a rejected provision released of a reservation that an operator had
\* already settled: nothing else is ever released twice, forgotten or charged
\* twice, whichever of the commands that touch the ledger ran, in any order.
BooksBalance ==
    /\ budget.reserved["cost"] + Cardinality(UnitsOf(Res, AgainReserved))
         = Cardinality(UnitsOf(Held, Reserved("cost")))
    /\ budget.reserved["tokens"] = Cardinality(UnitsOf(Held, Reserved("tokens")))
    /\ budget.spent["cost"]
         = Cardinality(UnitsOf(Billed, Actual("cost"))) + Cardinality(UnitsOf(Res, AgainActual))
    /\ budget.spent["tokens"] = Cardinality(UnitsOf(Billed, Actual("tokens")))
    /\ budget.workers + Cardinality(UnitsOf(Res, AgainWorkers))
         = Cardinality(UnitsOf(Held, Workers))

\* Until an overrun is recorded, the totals spent and reserved together stay
\* within every limit of the experiment.
WithinEnvelope ==
    ~overrun => \A u \in Limited : budget.spent[u] + budget.reserved[u] =< Limit[u]

\* The workers of all unsettled reservations exceed max_concurrency by no more
\* than what rejections released twice, also while a destroyed VM's reservation
\* waits for its invoice.
WorkersWithinLimit ==
    Cardinality(UnitsOf(Held, Workers))
      =< MaxConcurrency + Cardinality(UnitsOf(Res, AgainWorkers))

\* A charge above its reservation is never lost: from then on the experiment
\* allocates nothing more.
OverrunRecorded ==
    \A r \in Billed : (\E u \in Unit : res[r].actual[u] > res[r].reserved[u]) => overrun

\* The provision of r, settled while it was pending, is rejected.
RejectedLate(r) == res[r].vm = "pending" /\ res'[r].vm = "destroyed"

\* A settled reservation is never opened again and keeps its amounts: a late
\* settlement, uncertainty or destruction leaves it alone.  The one exception
\* is the money charged to a VM whose provision is rejected afterwards.
KeepsSettled ==
    \A r \in Billed :
        /\ res'[r].state = "settled"
        /\ res'[r].reserved = res[r].reserved
        /\ \A u \in Unit : \/ res'[r].actual[u] = res[r].actual[u]
                           \/ u = "cost" /\ RejectedLate(r)
SettlementFinal == [][KeepsSettled]_ledgerVars

\* The books are sound: the totals are the sums of the reservations less what
\* was released twice, within the envelope and the concurrency until an overrun
\* is recorded.
LedgerSound ==
    /\ LedgerTypeOK
    /\ BooksBalance
    /\ WithinEnvelope
    /\ WorkersWithinLimit
    /\ OverrunRecorded
=============================================================================
