---------------------------- MODULE LimitProofs ----------------------------
(***************************************************************************)
(* Proofs about limits: what may be spent by model calls, for any          *)
(* reservations, limits and charges; how fast the literature fetcher asks  *)
(* one host; and which works a benchmark run may see.                      *)
(***************************************************************************)
EXTENDS Ledger, HostLimiter, Literature, FiniteSetTheorems, TLAPS

\* What UnitsOf holds: one pair for every unit of every member of S.
LEMMA UnitsOfMember ==
    ASSUME NEW S, NEW f, NEW x
    PROVE  x \in UnitsOf(S, f) <=> \E r \in S : \E i \in 1 .. f[r] : x = <<r, i>>
BY DEF UnitsOf

\* Sums over sets that agree are equal.
LEMMA UnitsOfSame ==
    ASSUME NEW S, NEW f, NEW g, \A s \in S : f[s] = g[s]
    PROVE  UnitsOf(S, f) = UnitsOf(S, g)
<1>1. ASSUME NEW x PROVE x \in UnitsOf(S, f) <=> x \in UnitsOf(S, g)
  BY UnitsOfMember
<1>2. QED BY <1>1

\* A further member adds its own amount to the sum.
LEMMA UnitsOfAdd ==
    ASSUME NEW S, NEW f, NEW r, r \notin S, f[r] \in Nat,
           IsFiniteSet(UnitsOf(S, f))
    PROVE  /\ IsFiniteSet(UnitsOf(S \cup {r}, f))
           /\ Cardinality(UnitsOf(S \cup {r}, f)) = Cardinality(UnitsOf(S, f)) + f[r]
<1> DEFINE own == {r} \X (1 .. f[r])
<1>1. UnitsOf(S \cup {r}, f) = UnitsOf(S, f) \cup own
  <2>1. ASSUME NEW x PROVE x \in UnitsOf(S \cup {r}, f) <=> x \in UnitsOf(S, f) \/ x \in own
    BY UnitsOfMember
  <2>2. QED BY <2>1
<1>2. UnitsOf(S, f) \cap own = {}
  BY UnitsOfMember
<1>3. IsFiniteSet(own) /\ Cardinality(own) = f[r]
  <2>1. IsFiniteSet({r}) /\ Cardinality({r}) = 1
    BY FS_Singleton
  <2>2. IsFiniteSet(1 .. f[r]) /\ Cardinality(1 .. f[r]) = f[r]
    BY FS_Interval
  <2>3. /\ IsFiniteSet({r} \X (1 .. f[r]))
        /\ Cardinality({r} \X (1 .. f[r])) = Cardinality({r}) * Cardinality(1 .. f[r])
    BY <2>1, <2>2, FS_Product, Zenon
  <2>4. QED BY <2>1, <2>2, <2>3
<1>4. Cardinality(UnitsOf(S, f)) \in Nat /\ Cardinality({}) = 0
  BY FS_CardinalityType, FS_EmptySet
<1> DEFINE all == UnitsOf(S, f)
<1> HIDE DEF own, all
<1>5. /\ IsFiniteSet(all \cup own)
      /\ Cardinality(all \cup own) = Cardinality(all) + Cardinality(own) - Cardinality(all \cap own)
  <2>1. IsFiniteSet(all) BY DEF all
  <2>2. QED BY <2>1, <1>3, FS_Union, Zenon
<1>6. all \cap own = {} /\ UnitsOf(S \cup {r}, f) = all \cup own /\ Cardinality(all) \in Nat
  BY <1>1, <1>2, <1>4 DEF all
<1>7. Cardinality(all \cup own) = Cardinality(all) + f[r]
  <2>1. Cardinality(all \cap own) = 0
    BY <1>4, <1>6, Zenon
  <2>2. QED BY <2>1, <1>3, <1>5, <1>6
<1>8. QED BY <1>5, <1>6, <1>7, Zenon DEF all
\* Set T is S with r added; f and g agree on S.
Joins(S, r, T) == r \notin S /\ T = S \cup {r}
Agree(S, f, g) == \A s \in S : f[s] = g[s]

\* Sums before and after a member joins or leaves.
LEMMA SumAdd ==
    ASSUME NEW S, NEW T, NEW f, NEW g, NEW r, Joins(S, r, T), Agree(S, f, g),
           g[r] \in Nat, IsFiniteSet(UnitsOf(S, f))
    PROVE  /\ IsFiniteSet(UnitsOf(T, g))
           /\ Cardinality(UnitsOf(T, g)) = Cardinality(UnitsOf(S, f)) + g[r]
<1>1. UnitsOf(S, f) = UnitsOf(S, g)
  BY UnitsOfSame DEF Agree
<1>2. IsFiniteSet(UnitsOf(S, g))
  BY <1>1, Zenon
<1>3. r \notin S /\ T = S \cup {r}
  BY DEF Joins
<1>4. /\ IsFiniteSet(UnitsOf(S \cup {r}, g))
      /\ Cardinality(UnitsOf(S \cup {r}, g)) = Cardinality(UnitsOf(S, g)) + g[r]
  BY <1>2, <1>3, UnitsOfAdd, Zenon
<1>5. QED BY <1>1, <1>3, <1>4, Zenon

LEMMA SumRemove ==
    ASSUME NEW S, NEW T, NEW f, NEW g, NEW r, Joins(T, r, S), Agree(T, f, g),
           f[r] \in Nat, IsFiniteSet(UnitsOf(S, f))
    PROVE  /\ IsFiniteSet(UnitsOf(T, g))
           /\ Cardinality(UnitsOf(T, g)) = Cardinality(UnitsOf(S, f)) - f[r]
<1>1. UnitsOf(T, f) = UnitsOf(T, g)
  BY UnitsOfSame DEF Agree
<1>2. UnitsOf(T, f) \subseteq UnitsOf(S, f)
  <2>1. ASSUME NEW x \in UnitsOf(T, f) PROVE x \in UnitsOf(S, f)
    BY UnitsOfMember DEF Joins
  <2>2. QED BY <2>1
<1>3. IsFiniteSet(UnitsOf(T, f))
  BY <1>2, FS_Subset
<1>4. Cardinality(UnitsOf(T, f)) \in Nat
  BY <1>3, FS_CardinalityType, Zenon
<1>5. Agree(T, f, f)
  BY DEF Agree
<1>6. Cardinality(UnitsOf(S, f)) = Cardinality(UnitsOf(T, f)) + f[r]
  BY <1>3, <1>5, SumAdd
<1>7. Cardinality(UnitsOf(T, f)) = Cardinality(UnitsOf(S, f)) - f[r]
  BY <1>4, <1>6
<1>8. QED BY <1>1, <1>3, <1>7, Zenon

\* One member's amount changes.
LEMMA SumChange ==
    ASSUME NEW S, NEW f, NEW g, NEW r \in S, Agree(S \ {r}, f, g), f[r] \in Nat, g[r] \in Nat,
           IsFiniteSet(UnitsOf(S, f))
    PROVE  /\ IsFiniteSet(UnitsOf(S, g))
           /\ Cardinality(UnitsOf(S, g)) = Cardinality(UnitsOf(S, f)) - f[r] + g[r]
<1> DEFINE rest == S \ {r}
<1>1. Joins(rest, r, S) /\ Agree(rest, f, f) /\ Agree(rest, f, g)
  BY DEF Joins, Agree
<1> HIDE DEF rest
<1>2. /\ IsFiniteSet(UnitsOf(rest, f))
      /\ Cardinality(UnitsOf(rest, f)) = Cardinality(UnitsOf(S, f)) - f[r]
  BY <1>1, SumRemove
<1>3. /\ IsFiniteSet(UnitsOf(S, g))
      /\ Cardinality(UnitsOf(S, g)) = Cardinality(UnitsOf(rest, f)) + g[r]
  BY <1>1, <1>2, SumAdd
<1>4. Cardinality(UnitsOf(S, f)) \in Nat
  BY FS_CardinalityType
<1>5. QED BY <1>2, <1>3, <1>4

\* The sums of the ledger are over finite sets.
CountableAgain ==
    /\ IsFiniteSet(UnitsOf(Res, AgainReserved))
    /\ IsFiniteSet(UnitsOf(Res, AgainActual))
    /\ IsFiniteSet(UnitsOf(Res, AgainWorkers))
Countable ==
    /\ \A u \in Unit : /\ IsFiniteSet(UnitsOf(Held, Reserved(u)))
                       /\ IsFiniteSet(UnitsOf(Billed, Actual(u)))
    /\ IsFiniteSet(UnitsOf(Held, Workers))

\* A provision reserves money only; nothing is charged before the settlement, and
\* nothing is released again before the rejection, which destroys the VM.
Provisioned ==
    \A r \in Res :
        /\ res[r].state = "absent" => res[r].vm = "none"
        /\ res[r].state # "settled" => res[r].actual = Zero
        /\ res[r].vm = "pending" => res[r].reserved["tokens"] = 0
        /\ res[r].vm # "destroyed" => again[r] = NoRelease

LedgerInv ==
    /\ LedgerTypeOK
    /\ Countable /\ CountableAgain
    /\ BooksBalance
    /\ Provisioned
    /\ WithinEnvelope
    /\ budget.workers =< MaxConcurrency
    /\ OverrunRecorded

\* Totals that move with the sums keep the balance, while nothing more is released
\* again.
LEMMA BooksMove ==
    ASSUME LedgerTypeOK, budget' \in Budget, again' = again, Countable, CountableAgain, Countable',
           BooksBalance,
           \A u \in Unit :
              /\ budget'.reserved[u] - budget.reserved[u]
                   = Cardinality(UnitsOf(Held', Reserved(u)')) - Cardinality(UnitsOf(Held, Reserved(u)))
              /\ budget'.spent[u] - budget.spent[u]
                   = Cardinality(UnitsOf(Billed', Actual(u)')) - Cardinality(UnitsOf(Billed, Actual(u))),
           budget'.workers - budget.workers
             = Cardinality(UnitsOf(Held', Workers')) - Cardinality(UnitsOf(Held, Workers))
    PROVE  CountableAgain' /\ BooksBalance'
<1>1. /\ AgainReserved' = AgainReserved /\ AgainActual' = AgainActual
      /\ AgainWorkers' = AgainWorkers
  BY DEF AgainReserved, AgainActual, AgainWorkers
<1>2. CountableAgain'
  BY <1>1 DEF CountableAgain
<1>3. /\ Cardinality(UnitsOf(Res, AgainReserved)) \in Nat
      /\ Cardinality(UnitsOf(Res, AgainActual)) \in Nat
      /\ Cardinality(UnitsOf(Res, AgainWorkers)) \in Nat
  BY FS_CardinalityType DEF CountableAgain
<1>4. ASSUME NEW u \in Unit
      PROVE  /\ Cardinality(UnitsOf(Held, Reserved(u))) \in Nat
             /\ Cardinality(UnitsOf(Held', Reserved(u)')) \in Nat
             /\ Cardinality(UnitsOf(Billed, Actual(u))) \in Nat
             /\ Cardinality(UnitsOf(Billed', Actual(u)')) \in Nat
             /\ budget.reserved[u] \in Int /\ budget'.reserved[u] \in Int
             /\ budget.spent[u] \in Int /\ budget'.spent[u] \in Int
  BY FS_CardinalityType DEF Countable, LedgerTypeOK, Budget
<1>5. /\ Cardinality(UnitsOf(Held, Workers)) \in Nat
      /\ Cardinality(UnitsOf(Held', Workers')) \in Nat
      /\ budget.workers \in Int /\ budget'.workers \in Int
  BY FS_CardinalityType DEF Countable, LedgerTypeOK, Budget
<1>6. "cost" \in Unit /\ "tokens" \in Unit
  BY DEF Unit
<1> DEFINE HR(u) == Cardinality(UnitsOf(Held, Reserved(u)))
           HRn(u) == Cardinality(UnitsOf(Held', Reserved(u)'))
           BA(u) == Cardinality(UnitsOf(Billed, Actual(u)))
           BAn(u) == Cardinality(UnitsOf(Billed', Actual(u)'))
<1>a. ASSUME NEW u \in Unit
      PROVE  /\ HR(u) \in Nat /\ HRn(u) \in Nat /\ BA(u) \in Nat /\ BAn(u) \in Nat
             /\ budget.reserved[u] \in Int /\ budget'.reserved[u] \in Int
             /\ budget.spent[u] \in Int /\ budget'.spent[u] \in Int
             /\ budget'.reserved[u] - budget.reserved[u] = HRn(u) - HR(u)
             /\ budget'.spent[u] - budget.spent[u] = BAn(u) - BA(u)
  BY <1>4
<1>b. /\ budget.reserved["cost"] + Cardinality(UnitsOf(Res, AgainReserved)) = HR("cost")
      /\ budget.reserved["tokens"] = HR("tokens")
      /\ budget.spent["cost"] = BA("cost") + Cardinality(UnitsOf(Res, AgainActual))
      /\ budget.spent["tokens"] = BA("tokens")
  BY DEF BooksBalance
<1> HIDE DEF HR, HRn, BA, BAn
<1>c. ASSUME NEW u \in Unit, NEW g \in Nat
      PROVE  /\ budget.reserved[u] + g = HR(u) => budget'.reserved[u] + g = HRn(u)
             /\ budget.reserved[u] = HR(u) => budget'.reserved[u] = HRn(u)
             /\ budget.spent[u] = BA(u) + g => budget'.spent[u] = BAn(u) + g
             /\ budget.spent[u] = BA(u) => budget'.spent[u] = BAn(u)
  <2>1. ASSUME NEW x \in Int, NEW y \in Int, NEW h \in Nat, NEW k \in Nat, y - x = k - h
        PROVE  /\ x + g = h => y + g = k
               /\ x = h => y = k
               /\ x = h + g => y = k + g
    BY <2>1
  <2>2. PICK x \in Int, y \in Int, h \in Nat, k \in Nat :
           x = budget.reserved[u] /\ y = budget'.reserved[u] /\ h = HR(u) /\ k = HRn(u)
    BY <1>a
  <2>3. y - x = k - h
    BY <1>a, <2>2
  <2>4. /\ budget.reserved[u] + g = HR(u) => budget'.reserved[u] + g = HRn(u)
        /\ budget.reserved[u] = HR(u) => budget'.reserved[u] = HRn(u)
    BY <2>1, <2>2, <2>3
  <2>5. PICK v \in Int, w \in Int, b \in Nat, c \in Nat :
           v = budget.spent[u] /\ w = budget'.spent[u] /\ b = BA(u) /\ c = BAn(u)
    BY <1>a
  <2>6. w - v = c - b
    BY <1>a, <2>5
  <2>7. /\ budget.spent[u] = BA(u) + g => budget'.spent[u] = BAn(u) + g
        /\ budget.spent[u] = BA(u) => budget'.spent[u] = BAn(u)
    BY <2>1, <2>5, <2>6
  <2>8. QED BY <2>4, <2>7
<1>7. /\ budget'.reserved["cost"] + Cardinality(UnitsOf(Res, AgainReserved)) = HRn("cost")
      /\ budget'.reserved["tokens"] = HRn("tokens")
  BY <1>3, <1>6, <1>b, <1>c
<1>8. /\ budget'.spent["cost"] = BAn("cost") + Cardinality(UnitsOf(Res, AgainActual))
      /\ budget'.spent["tokens"] = BAn("tokens")
  BY <1>3, <1>6, <1>b, <1>c
<1>9. budget'.workers + Cardinality(UnitsOf(Res, AgainWorkers))
        = Cardinality(UnitsOf(Held', Workers'))
  BY <1>3, <1>5 DEF BooksBalance
<1>10. QED BY <1>1, <1>2, <1>7, <1>8, <1>9 DEF BooksBalance, HRn, BAn

\* The sums before a step are numbers.
LEMMA SumsAreNumbers ==
    ASSUME LedgerTypeOK, Countable
    PROVE  /\ \A u \in Unit : /\ Cardinality(UnitsOf(Held, Reserved(u))) \in Nat
                              /\ Cardinality(UnitsOf(Billed, Actual(u))) \in Nat
                              /\ budget.reserved[u] \in Int /\ budget.spent[u] \in Int
           /\ Cardinality(UnitsOf(Held, Workers)) \in Nat /\ budget.workers \in Int
BY FS_CardinalityType DEF Countable, LedgerTypeOK, Budget

\* What entering reservation r does to the sums.
LEMMA SumsEnter ==
    ASSUME LedgerTypeOK, Countable, NEW r \in Res, res[r].state = "absent",
           NEW rec \in Reservation, rec.state = "active",
           res' = [res EXCEPT ![r] = rec]
    PROVE  /\ Countable'
           /\ \A u \in Unit :
                /\ Cardinality(UnitsOf(Held', Reserved(u)'))
                     = Cardinality(UnitsOf(Held, Reserved(u))) + rec.reserved[u]
                /\ Cardinality(UnitsOf(Billed', Actual(u)')) = Cardinality(UnitsOf(Billed, Actual(u)))
           /\ Cardinality(UnitsOf(Held', Workers')) = Cardinality(UnitsOf(Held, Workers)) + rec.workers
<1>1. Joins(Held, r, Held')
  BY DEF Joins, LedgerTypeOK, Held, Unsettled, Reservation
<1>2. Billed' = Billed
  BY DEF LedgerTypeOK, Billed, Reservation
<1>3. ASSUME NEW u \in Unit
      PROVE  /\ IsFiniteSet(UnitsOf(Held', Reserved(u)'))
             /\ Cardinality(UnitsOf(Held', Reserved(u)')) = Cardinality(UnitsOf(Held, Reserved(u))) + rec.reserved[u]
  <2>1. Reserved(u)'[r] = rec.reserved[u] /\ rec.reserved[u] \in Nat
    BY DEF Reserved, LedgerTypeOK, Reservation
  <2>2. Agree(Held, Reserved(u), Reserved(u)')
    BY <1>1 DEF Agree, Joins, Reserved, LedgerTypeOK, Held
  <2>3. IsFiniteSet(UnitsOf(Held, Reserved(u)))
    BY DEF Countable
  <2>4. QED BY <1>1, <2>1, <2>2, <2>3, SumAdd
<1>4. ASSUME NEW u \in Unit
      PROVE  UnitsOf(Billed', Actual(u)') = UnitsOf(Billed, Actual(u))
  <2>1. \A s \in Billed : Actual(u)[s] = Actual(u)'[s]
    BY DEF Actual, LedgerTypeOK, Billed
  <2>2. QED BY <1>2, <2>1, UnitsOfSame, Zenon
<1>5. /\ IsFiniteSet(UnitsOf(Held', Workers'))
      /\ Cardinality(UnitsOf(Held', Workers')) = Cardinality(UnitsOf(Held, Workers)) + rec.workers
  <2>1. Workers'[r] = rec.workers /\ rec.workers \in Nat
    BY DEF Workers, LedgerTypeOK, Reservation
  <2>2. Agree(Held, Workers, Workers')
    BY <1>1 DEF Agree, Joins, Workers, LedgerTypeOK, Held
  <2>3. IsFiniteSet(UnitsOf(Held, Workers))
    BY DEF Countable
  <2>4. QED BY <1>1, <2>1, <2>2, <2>3, SumAdd
<1>6. Countable'
  BY <1>3, <1>4, <1>5, Zenon DEF Countable
<1>7. QED BY <1>3, <1>4, <1>5, <1>6, Zenon

\* What settling reservation r does to the sums.
LEMMA SumsSettle ==
    ASSUME LedgerTypeOK, Countable, NEW r \in Res, Unsettled(r),
           NEW rec \in Reservation, rec.state = "settled",
           res' = [res EXCEPT ![r] = rec]
    PROVE  /\ Countable'
           /\ \A u \in Unit :
                /\ Cardinality(UnitsOf(Held', Reserved(u)'))
                     = Cardinality(UnitsOf(Held, Reserved(u))) - res[r].reserved[u]
                /\ Cardinality(UnitsOf(Billed', Actual(u)'))
                     = Cardinality(UnitsOf(Billed, Actual(u))) + rec.actual[u]
           /\ Cardinality(UnitsOf(Held', Workers')) = Cardinality(UnitsOf(Held, Workers)) - res[r].workers
<1>1. Joins(Held', r, Held)
  BY DEF Joins, LedgerTypeOK, Held, Unsettled, Reservation
<1>2. Joins(Billed, r, Billed')
  BY DEF Joins, LedgerTypeOK, Billed, Unsettled, Reservation
<1>3. ASSUME NEW u \in Unit
      PROVE  /\ IsFiniteSet(UnitsOf(Held', Reserved(u)'))
             /\ Cardinality(UnitsOf(Held', Reserved(u)')) = Cardinality(UnitsOf(Held, Reserved(u))) - res[r].reserved[u]
  <2>1. Reserved(u)[r] = res[r].reserved[u] /\ res[r].reserved[u] \in Nat
    BY DEF Reserved, LedgerTypeOK, Reservation
  <2>2. Agree(Held', Reserved(u), Reserved(u)')
    BY <1>1 DEF Agree, Joins, Reserved, LedgerTypeOK, Held
  <2>3. IsFiniteSet(UnitsOf(Held, Reserved(u)))
    BY DEF Countable
  <2>4. QED BY <1>1, <2>1, <2>2, <2>3, SumRemove
<1>4. ASSUME NEW u \in Unit
      PROVE  /\ IsFiniteSet(UnitsOf(Billed', Actual(u)'))
             /\ Cardinality(UnitsOf(Billed', Actual(u)')) = Cardinality(UnitsOf(Billed, Actual(u))) + rec.actual[u]
  <2>1. Actual(u)'[r] = rec.actual[u] /\ rec.actual[u] \in Nat
    BY DEF Actual, LedgerTypeOK, Reservation
  <2>2. Agree(Billed, Actual(u), Actual(u)')
    BY <1>2 DEF Agree, Joins, Actual, LedgerTypeOK, Billed
  <2>3. IsFiniteSet(UnitsOf(Billed, Actual(u)))
    BY DEF Countable
  <2> DEFINE old == Actual(u)
             new == Actual(u)'
             all == Billed'
  <2>4. Joins(Billed, r, all) /\ Agree(Billed, old, new) /\ new[r] \in Nat
        /\ IsFiniteSet(UnitsOf(Billed, old))
    BY <1>2, <2>1, <2>2, <2>3
  <2> HIDE DEF old, new, all
  <2>5. /\ IsFiniteSet(UnitsOf(all, new))
        /\ Cardinality(UnitsOf(all, new)) = Cardinality(UnitsOf(Billed, old)) + new[r]
    BY <2>4, SumAdd
  <2>6. QED BY <2>1, <2>5 DEF old, new, all
<1>5. /\ IsFiniteSet(UnitsOf(Held', Workers'))
      /\ Cardinality(UnitsOf(Held', Workers')) = Cardinality(UnitsOf(Held, Workers)) - res[r].workers
  <2>1. Workers[r] = res[r].workers /\ res[r].workers \in Nat
    BY DEF Workers, LedgerTypeOK, Reservation
  <2>2. Agree(Held', Workers, Workers')
    BY <1>1 DEF Agree, Joins, Workers, LedgerTypeOK, Held
  <2>3. IsFiniteSet(UnitsOf(Held, Workers))
    BY DEF Countable
  <2>4. QED BY <1>1, <2>1, <2>2, <2>3, SumRemove
<1>6. Countable'
  BY <1>3, <1>4, <1>5, Zenon DEF Countable
<1>7. QED BY <1>3, <1>4, <1>5, <1>6, Zenon

\* Every command that settles r with amounts rec.actual keeps the invariant,
\* if it takes r's amounts and workers out of the totals, adds the actual
\* amounts, and records an overrun.
LEMMA SettleKeeps ==
    ASSUME LedgerInv, NEW r \in Res, Unsettled(r),
           NEW rec \in Reservation, rec.state = "settled", rec.vm \in {res[r].vm, "destroyed"},
           rec.reserved = res[r].reserved, again' = again,
           res' = [res EXCEPT ![r] = rec],
           open' \in BOOLEAN, overrun' \in BOOLEAN,
           overrun \/ Exceeds(r, rec.actual) => overrun',
           budget' \in Budget,
           \A u \in Unit : /\ budget'.reserved[u] = budget.reserved[u] - res[r].reserved[u]
                           /\ budget'.spent[u] = budget.spent[u] + rec.actual[u],
           budget'.workers = budget.workers - res[r].workers
    PROVE  LedgerInv'
<1>1. LedgerTypeOK /\ LedgerTypeOK'
  BY DEF LedgerInv, LedgerTypeOK
<1>2. /\ Countable'
      /\ \A u \in Unit :
            /\ Cardinality(UnitsOf(Held', Reserved(u)'))
                 = Cardinality(UnitsOf(Held, Reserved(u))) - res[r].reserved[u]
            /\ Cardinality(UnitsOf(Billed', Actual(u)'))
                 = Cardinality(UnitsOf(Billed, Actual(u))) + rec.actual[u]
      /\ Cardinality(UnitsOf(Held', Workers')) = Cardinality(UnitsOf(Held, Workers)) - res[r].workers
  BY SumsSettle DEF LedgerInv
<1>3. CountableAgain' /\ BooksBalance'
  <2>1. /\ \A u \in Unit : /\ res[r].reserved[u] \in Nat /\ rec.actual[u] \in Nat
                           /\ budget'.reserved[u] - budget.reserved[u] = - res[r].reserved[u]
                           /\ budget'.spent[u] - budget.spent[u] = rec.actual[u]
        /\ res[r].workers \in Nat /\ budget'.workers - budget.workers = - res[r].workers
    BY <1>1 DEF LedgerTypeOK, Budget, Reservation
  <2>2. \A u \in Unit :
           /\ budget'.reserved[u] - budget.reserved[u]
                = Cardinality(UnitsOf(Held', Reserved(u)')) - Cardinality(UnitsOf(Held, Reserved(u)))
           /\ budget'.spent[u] - budget.spent[u]
                = Cardinality(UnitsOf(Billed', Actual(u)')) - Cardinality(UnitsOf(Billed, Actual(u)))
    BY <1>1, <1>2, <2>1, SumsAreNumbers DEF LedgerInv
  <2>3. budget'.workers - budget.workers
          = Cardinality(UnitsOf(Held', Workers')) - Cardinality(UnitsOf(Held, Workers))
    BY <1>1, <1>2, <2>1, SumsAreNumbers DEF LedgerInv
  <2>4. QED BY <1>1, <1>2, <2>2, <2>3, BooksMove DEF LedgerInv
<1>4. Provisioned'
  BY <1>1 DEF LedgerInv, Provisioned, LedgerTypeOK, Unsettled
<1>5. WithinEnvelope'
  <2>1. SUFFICES ASSUME ~overrun', NEW u \in Limited
                 PROVE  budget'.spent[u] + budget'.reserved[u] =< Limit[u]
    BY DEF WithinEnvelope
  <2>2. u \in Unit /\ Limit[u] \in Nat
    BY LedgerAssumption
  <2>3. ~(budget.spent[u] + budget.reserved[u] - res[r].reserved[u] + rec.actual[u] > Limit[u])
    BY <2>1 DEF Exceeds
  <2>4. /\ budget.spent[u] \in Int /\ budget.reserved[u] \in Int
        /\ res[r].reserved[u] \in Int /\ rec.actual[u] \in Int
    BY <1>1, <2>2 DEF LedgerTypeOK, Budget, Reservation
  <2>5. /\ budget'.reserved[u] = budget.reserved[u] - res[r].reserved[u]
        /\ budget'.spent[u] = budget.spent[u] + rec.actual[u]
    BY <2>2
  <2>6. QED BY <2>2, <2>3, <2>4, <2>5
<1>6. budget'.workers =< MaxConcurrency
  BY <1>1, LedgerAssumption DEF LedgerInv, LedgerTypeOK, Budget, Reservation
<1>7. OverrunRecorded'
  BY <1>1 DEF LedgerInv, OverrunRecorded, LedgerTypeOK, Billed, Unsettled, Exceeds, Reservation
<1>8. QED BY <1>1, <1>2, <1>3, <1>4, <1>5, <1>6, <1>7 DEF LedgerInv

\* A new reservation keeps the invariant, if its amounts fit.
LEMMA EnterKeeps ==
    ASSUME LedgerInv, NEW r \in Res, res[r].state = "absent",
           NEW a \in [Unit -> Nat], NEW n \in Nat, NEW v \in {"none", "pending"},
           v = "pending" => a["tokens"] = 0,
           \A u \in Limited : Fits(u, a[u]) \/ a[u] = 0,
           WorkersFit(n), Enter(r, a, n, v)
    PROVE  LedgerInv'
<1> DEFINE rec == [state |-> "active", reserved |-> a, actual |-> Zero, workers |-> n, vm |-> v]
<1>1. /\ rec \in Reservation /\ rec.state = "active" /\ rec.reserved = a
      /\ rec.workers = n /\ rec.vm = v
  BY DEF Reservation, Zero
<1>2. res' = [res EXCEPT ![r] = rec]
  BY DEF Enter
<1> HIDE DEF rec
<1>3. /\ budget'.reserved = [u \in Unit |-> budget.reserved[u] + a[u]]
      /\ budget'.spent = budget.spent
      /\ budget'.workers = budget.workers + n
      /\ budget' \in Budget
  <2>1. budget' = [budget EXCEPT !.reserved = [u \in Unit |-> budget.reserved[u] + a[u]],
                                 !.workers = budget.workers + n]
    BY DEF Enter
  <2>2. budget \in Budget
    BY DEF LedgerInv, LedgerTypeOK
  <2>3. [u \in Unit |-> budget.reserved[u] + a[u]] \in [Unit -> Int] /\ budget.workers + n \in Int
    BY <2>2 DEF Budget
  <2>4. QED BY <2>1, <2>2, <2>3 DEF Budget
<1>4. LedgerTypeOK /\ LedgerTypeOK'
  BY <1>1, <1>2, <1>3 DEF LedgerInv, LedgerTypeOK, Enter
<1>5. /\ Countable'
      /\ \A u \in Unit :
            /\ Cardinality(UnitsOf(Held', Reserved(u)'))
                 = Cardinality(UnitsOf(Held, Reserved(u))) + a[u]
            /\ Cardinality(UnitsOf(Billed', Actual(u)')) = Cardinality(UnitsOf(Billed, Actual(u)))
      /\ Cardinality(UnitsOf(Held', Workers')) = Cardinality(UnitsOf(Held, Workers)) + n
  BY <1>1, <1>2, SumsEnter DEF LedgerInv
<1>6. CountableAgain' /\ BooksBalance'
  <2>1. again' = again
    BY DEF Enter
  <2>2. \A u \in Unit :
           /\ budget'.reserved[u] - budget.reserved[u]
                = Cardinality(UnitsOf(Held', Reserved(u)')) - Cardinality(UnitsOf(Held, Reserved(u)))
           /\ budget'.spent[u] - budget.spent[u]
                = Cardinality(UnitsOf(Billed', Actual(u)')) - Cardinality(UnitsOf(Billed, Actual(u)))
    BY <1>3, <1>4, <1>5, SumsAreNumbers DEF LedgerInv
  <2>3. budget'.workers - budget.workers
          = Cardinality(UnitsOf(Held', Workers')) - Cardinality(UnitsOf(Held, Workers))
    BY <1>3, <1>4, <1>5, SumsAreNumbers DEF LedgerInv
  <2>4. QED BY <1>3, <1>4, <1>5, <2>1, <2>2, <2>3, BooksMove DEF LedgerInv
<1>7. Provisioned'
  <2>1. ASSUME NEW s \in Res, s # r PROVE res'[s] = res[s] /\ again'[s] = again[s]
    BY <1>2, <1>4, <2>1 DEF LedgerTypeOK, Enter
  <2>2. res'[r] = rec /\ rec.actual = Zero /\ again' = again /\ again[r] = NoRelease
    <3>1. again' = again /\ res'[r] = rec
      BY <1>2, <1>4 DEF Enter, LedgerTypeOK
    <3>2. again[r] = NoRelease
      BY DEF LedgerInv, Provisioned
    <3>3. QED BY <3>1, <3>2 DEF rec
  <2>3. QED BY <1>1, <2>1, <2>2 DEF LedgerInv, Provisioned
<1>8. WithinEnvelope'
  <2>1. SUFFICES ASSUME ~overrun', NEW u \in Limited
                 PROVE  budget'.spent[u] + budget'.reserved[u] =< Limit[u]
    BY DEF WithinEnvelope
  <2>2. u \in Unit /\ Limit[u] \in Nat
    BY LedgerAssumption
  <2>3. budget.spent[u] + budget.reserved[u] =< Limit[u]
    BY <2>1 DEF LedgerInv, WithinEnvelope, Enter
  <2>4. budget.spent[u] \in Int /\ budget.reserved[u] \in Int /\ a[u] \in Int
    BY <1>4, <2>2 DEF LedgerTypeOK, Budget
  <2>5. QED BY <1>3, <2>2, <2>3, <2>4 DEF Fits
<1>9. budget'.workers =< MaxConcurrency
  BY <1>3 DEF WorkersFit
<1>10. OverrunRecorded'
  BY <1>1, <1>2, <1>4 DEF LedgerInv, OverrunRecorded, LedgerTypeOK, Billed, Enter
<1>11. QED BY <1>4, <1>5, <1>6, <1>7, <1>8, <1>9, <1>10 DEF LedgerInv

\* A step that changes no amount, and settles and opens nothing, keeps the
\* invariant.
LEMMA QuietKeeps ==
    ASSUME LedgerInv, LedgerTypeOK', UNCHANGED <<overrun, budget, again>>,
           \A r \in Res :
              /\ Unsettled(r) <=> Unsettled(r)'
              /\ res[r].state = "settled" <=> res'[r].state = "settled"
              /\ res'[r].reserved = res[r].reserved /\ res'[r].actual = res[r].actual
              /\ res'[r].workers = res[r].workers
              /\ res[r].state = "absent" => res'[r].vm = res[r].vm
              /\ res'[r].vm = "pending" => res[r].vm = "pending"
              /\ res[r].vm = "destroyed" => res'[r].vm = "destroyed"
    PROVE  LedgerInv'
<1>1. Held' = Held /\ Billed' = Billed
  BY DEF Held, Billed
<1>2. Workers' = Workers /\ \A u \in Unit : Reserved(u)' = Reserved(u) /\ Actual(u)' = Actual(u)
  BY DEF Workers, Reserved, Actual
<1>3. Countable' /\ CountableAgain' /\ BooksBalance'
  <2>1. Countable'
    BY <1>1, <1>2 DEF LedgerInv, Countable
  <2>2. /\ AgainReserved' = AgainReserved /\ AgainActual' = AgainActual
        /\ AgainWorkers' = AgainWorkers
    BY DEF AgainReserved, AgainActual, AgainWorkers
  <2>3. /\ Reserved("cost")' = Reserved("cost") /\ Reserved("tokens")' = Reserved("tokens")
        /\ Actual("cost")' = Actual("cost") /\ Actual("tokens")' = Actual("tokens")
    BY <1>2 DEF Unit
  <2>4. QED BY <1>1, <1>2, <2>1, <2>2, <2>3 DEF LedgerInv, CountableAgain, BooksBalance
<1>4. Provisioned'
  <2>1. ASSUME NEW r \in Res
        PROVE  res[r].state \in {"absent", "active", "uncertain", "settled"}
               /\ res'[r].state \in {"absent", "active", "uncertain", "settled"}
    BY DEF LedgerInv, LedgerTypeOK, Reservation
  <2>2. QED BY <2>1 DEF LedgerInv, Provisioned, Unsettled
<1>5. WithinEnvelope' /\ budget'.workers =< MaxConcurrency
  BY DEF LedgerInv, WithinEnvelope
<1>6. OverrunRecorded'
  BY <1>1 DEF LedgerInv, OverrunRecorded, Billed
<1>7. QED BY <1>3, <1>4, <1>5, <1>6 DEF LedgerInv

\* The worker of a destroyed VM is released while its money stays held.
LEMMA DestroyUnbilledKeeps ==
    ASSUME LedgerInv, NEW r \in Res, DestroyUnbilled(r)
    PROVE  LedgerInv'
<1> DEFINE rec == [res[r] EXCEPT !.state = "uncertain", !.vm = "destroyed", !.workers = 0]
<1>1. LedgerTypeOK /\ res[r] \in Reservation
  BY DEF LedgerInv, LedgerTypeOK
<1>2. /\ rec \in Reservation /\ rec.state = "uncertain" /\ rec.vm = "destroyed"
      /\ rec.workers = 0 /\ rec.reserved = res[r].reserved /\ rec.actual = res[r].actual
  BY <1>1 DEF Reservation
<1>3. res' = [res EXCEPT ![r] = rec]
  BY <1>1 DEF DestroyUnbilled, CapacityGiven, LedgerTypeOK
<1> HIDE DEF rec
<1>4. /\ budget' \in Budget /\ budget'.reserved = budget.reserved /\ budget'.spent = budget.spent
      /\ budget'.workers = budget.workers - res[r].workers
  <2>1. budget' = [budget EXCEPT !.workers = @ - res[r].workers]
    BY DEF DestroyUnbilled
  <2>2. budget \in Budget /\ res[r].workers \in Int
    BY <1>1 DEF LedgerTypeOK, Reservation
  <2>3. QED BY <2>1, <2>2 DEF Budget
<1>5. LedgerTypeOK'
  BY <1>1, <1>2, <1>3, <1>4 DEF LedgerTypeOK, DestroyUnbilled
<1>6. Unsettled(r) /\ \A s \in Res : Unsettled(s) <=> Unsettled(s)'
  BY <1>1, <1>2, <1>3 DEF DestroyUnbilled, Unsettled, LedgerTypeOK
<1>7. Held' = Held /\ Billed' = Billed
  BY <1>1, <1>2, <1>3, <1>6 DEF Held, Billed, LedgerTypeOK, Unsettled
<1>8. ASSUME NEW u \in Unit PROVE Reserved(u)' = Reserved(u) /\ Actual(u)' = Actual(u)
  BY <1>1, <1>2, <1>3 DEF Reserved, Actual, LedgerTypeOK
<1>9. /\ IsFiniteSet(UnitsOf(Held, Workers'))
      /\ Cardinality(UnitsOf(Held, Workers')) = Cardinality(UnitsOf(Held, Workers)) - res[r].workers
  <2>1. r \in Held /\ Agree(Held \ {r}, Workers, Workers')
    BY <1>1, <1>3, <1>6 DEF Agree, Workers, LedgerTypeOK, Held
  <2>2. /\ Workers[r] = res[r].workers /\ Workers[r] \in Nat
        /\ Workers'[r] = 0 /\ Workers'[r] \in Nat
    BY <1>1, <1>2, <1>3 DEF Workers, LedgerTypeOK, Reservation
  <2>3. IsFiniteSet(UnitsOf(Held, Workers))
    BY DEF LedgerInv, Countable
  <2> DEFINE f == Workers
             g == Workers'
  <2>a. /\ r \in Held /\ Agree(Held \ {r}, f, g) /\ f[r] \in Nat /\ g[r] \in Nat
        /\ IsFiniteSet(UnitsOf(Held, f))
    BY <2>1, <2>2, <2>3
  <2> HIDE DEF f, g
  <2>b. /\ IsFiniteSet(UnitsOf(Held, g))
        /\ Cardinality(UnitsOf(Held, g)) = Cardinality(UnitsOf(Held, f)) - f[r] + g[r]
    BY <2>a, SumChange
  <2>4. /\ IsFiniteSet(UnitsOf(Held, Workers'))
        /\ Cardinality(UnitsOf(Held, Workers'))
             = Cardinality(UnitsOf(Held, Workers)) - Workers[r] + Workers'[r]
    BY <2>b DEF f, g
  <2>5. Cardinality(UnitsOf(Held, Workers)) \in Nat
    BY <2>3, FS_CardinalityType
  <2>6. QED BY <2>2, <2>4, <2>5
<1>10. Countable' /\ CountableAgain' /\ BooksBalance'
  <2>1. Countable' /\ again' = again
    BY <1>7, <1>8, <1>9 DEF LedgerInv, Countable, DestroyUnbilled
  <2>2. \A u \in Unit :
           /\ budget'.reserved[u] - budget.reserved[u]
                = Cardinality(UnitsOf(Held', Reserved(u)')) - Cardinality(UnitsOf(Held, Reserved(u)))
           /\ budget'.spent[u] - budget.spent[u]
                = Cardinality(UnitsOf(Billed', Actual(u)')) - Cardinality(UnitsOf(Billed, Actual(u)))
    BY <1>1, <1>4, <1>7, <1>8, SumsAreNumbers DEF LedgerInv
  <2>3. budget'.workers - budget.workers
          = Cardinality(UnitsOf(Held', Workers')) - Cardinality(UnitsOf(Held, Workers))
    BY <1>1, <1>4, <1>7, <1>9, SumsAreNumbers DEF LedgerInv, Reservation
  <2>4. QED BY <1>1, <1>4, <2>1, <2>2, <2>3, BooksMove DEF LedgerInv
<1>11. Provisioned' /\ WithinEnvelope' /\ OverrunRecorded'
  <2>1. Provisioned'
    <3>1. ASSUME NEW s \in Res, s # r PROVE res'[s] = res[s] /\ again'[s] = again[s]
      BY <1>1, <1>3, <3>1 DEF LedgerTypeOK, DestroyUnbilled
    <3>2. res'[r] = rec /\ res[r].actual = Zero
      BY <1>1, <1>3, <1>6 DEF LedgerTypeOK, LedgerInv, Provisioned, Unsettled
    <3>3. QED BY <1>2, <3>1, <3>2 DEF LedgerInv, Provisioned
  <2>2. WithinEnvelope'
    BY <1>4 DEF LedgerInv, WithinEnvelope, DestroyUnbilled
  <2>3. OverrunRecorded'
    BY <1>1, <1>2, <1>3, <1>7 DEF LedgerInv, OverrunRecorded, Billed, DestroyUnbilled, LedgerTypeOK
  <2>4. QED BY <2>1, <2>2, <2>3
<1>12. budget'.workers =< MaxConcurrency
  BY <1>1, <1>4, LedgerAssumption DEF LedgerInv, LedgerTypeOK, Budget, Reservation
<1>13. QED BY <1>5, <1>10, <1>11, <1>12 DEF LedgerInv

\* The operator's retirement of a local VM settles two reservations at once.
LEMMA RetireLocalKeeps ==
    ASSUME LedgerInv, NEW r \in Res, NEW s \in Res, RetireLocal(r, s)
    PROVE  LedgerInv'
<1> DEFINE rr == [SettledZero(r) EXCEPT !.vm = "destroyed"]
           ss == SettledZero(s)
<1>1. LedgerTypeOK /\ res[r] \in Reservation /\ res[s] \in Reservation /\ r # s
  BY DEF LedgerInv, LedgerTypeOK, RetireLocal
<1>2. /\ rr \in Reservation /\ rr.state = "settled" /\ rr.vm = "destroyed" /\ rr.actual = Zero
      /\ rr.reserved = res[r].reserved /\ rr.workers = res[r].workers
  BY <1>1 DEF SettledZero, Reservation, Zero
<1>3. /\ ss \in Reservation /\ ss.state = "settled" /\ ss.vm = "none" /\ ss.actual = Zero
      /\ ss.reserved = res[s].reserved /\ ss.workers = res[s].workers
  BY <1>1 DEF SettledZero, Reservation, Zero, RetireLocal
<1>4. res' = [res EXCEPT ![r] = rr, ![s] = ss]
  BY DEF RetireLocal
<1> HIDE DEF rr, ss
<1>5. /\ budget' \in Budget /\ budget'.reserved = budget.reserved /\ budget'.spent = budget.spent
      /\ budget'.workers = budget.workers - 1
  BY <1>1 DEF RetireLocal, LedgerTypeOK, Budget
<1>6. LedgerTypeOK'
  BY <1>1, <1>2, <1>3, <1>4, <1>5 DEF LedgerTypeOK, RetireLocal
<1> DEFINE H == Held \ {r}
           B == Billed \cup {r}
<1>7. Joins(H, r, Held) /\ Joins(Held', s, H) /\ Joins(Billed, r, B) /\ Joins(B, s, Billed')
  <2>1. Unsettled(r) /\ Unsettled(s) /\ Held' = Held \ {r, s} /\ Billed' = Billed \cup {r, s}
    BY <1>1, <1>2, <1>3, <1>4 DEF RetireLocal, Held, Billed, Unsettled, LedgerTypeOK
  <2>2. r \in Held /\ s \in Held /\ r \notin Billed /\ s \notin Billed
    BY <2>1 DEF Held, Billed, Unsettled
  <2>3. QED BY <1>1, <2>1, <2>2 DEF Joins
<1> HIDE DEF H, B
<1>8. Workers' = Workers /\ \A u \in Unit : Reserved(u)' = Reserved(u)
  BY <1>1, <1>2, <1>3, <1>4 DEF Workers, Reserved, LedgerTypeOK
<1>9. ASSUME NEW u \in Unit
      PROVE  /\ IsFiniteSet(UnitsOf(Held', Reserved(u)))
             /\ Cardinality(UnitsOf(Held', Reserved(u))) = Cardinality(UnitsOf(Held, Reserved(u)))
  <2>1. Agree(H, Reserved(u), Reserved(u)) /\ Agree(Held', Reserved(u), Reserved(u))
    BY DEF Agree
  <2>2. Reserved(u)[r] = 0 /\ Reserved(u)[s] = 0
    BY DEF Reserved, RetireLocal, Zero
  <2>3. IsFiniteSet(UnitsOf(Held, Reserved(u)))
    BY DEF LedgerInv, Countable
  <2>4. /\ IsFiniteSet(UnitsOf(H, Reserved(u)))
        /\ Cardinality(UnitsOf(H, Reserved(u))) = Cardinality(UnitsOf(Held, Reserved(u))) - Reserved(u)[r]
    BY <1>7, <2>1, <2>2, <2>3, SumRemove
  <2>5. /\ IsFiniteSet(UnitsOf(Held', Reserved(u)))
        /\ Cardinality(UnitsOf(Held', Reserved(u))) = Cardinality(UnitsOf(H, Reserved(u))) - Reserved(u)[s]
    BY <1>7, <2>1, <2>2, <2>4, SumRemove
  <2>6. Cardinality(UnitsOf(Held, Reserved(u))) \in Nat
    BY <2>3, FS_CardinalityType
  <2>7. QED BY <2>2, <2>4, <2>5, <2>6
<1>10. ASSUME NEW u \in Unit
       PROVE  /\ IsFiniteSet(UnitsOf(Billed', Actual(u)'))
              /\ Cardinality(UnitsOf(Billed', Actual(u)')) = Cardinality(UnitsOf(Billed, Actual(u)))
  <2>1. Agree(Billed, Actual(u), Actual(u)') /\ Agree(B, Actual(u)', Actual(u)')
    BY <1>1, <1>2, <1>3, <1>4 DEF Agree, Actual, Billed, LedgerTypeOK, RetireLocal, Unsettled
  <2>2. Actual(u)'[r] = 0 /\ Actual(u)'[s] = 0
    BY <1>1, <1>2, <1>3, <1>4 DEF Actual, Zero, LedgerTypeOK
  <2>a. Actual(u)'[r] \in Nat /\ Actual(u)'[s] \in Nat
    BY <2>2
  <2>b. Joins(Billed, r, B) /\ Joins(B, s, Billed')
    BY <1>7
  <2>3. IsFiniteSet(UnitsOf(Billed, Actual(u)))
    BY DEF LedgerInv, Countable
  <2>4. /\ IsFiniteSet(UnitsOf(B, Actual(u)'))
        /\ Cardinality(UnitsOf(B, Actual(u)')) = Cardinality(UnitsOf(Billed, Actual(u))) + Actual(u)'[r]
    BY <2>a, <2>b, <2>1, <2>3, SumAdd
  <2>5. /\ IsFiniteSet(UnitsOf(Billed', Actual(u)'))
        /\ Cardinality(UnitsOf(Billed', Actual(u)')) = Cardinality(UnitsOf(B, Actual(u)')) + Actual(u)'[s]
    BY <2>a, <2>b, <2>1, <2>4, SumAdd
  <2>6. Cardinality(UnitsOf(Billed, Actual(u))) \in Nat
    BY <2>3, FS_CardinalityType
  <2>7. QED BY <2>2, <2>4, <2>5, <2>6
<1>11. /\ IsFiniteSet(UnitsOf(Held', Workers))
       /\ Cardinality(UnitsOf(Held', Workers)) = Cardinality(UnitsOf(Held, Workers)) - 1
  <2>1. Agree(H, Workers, Workers) /\ Agree(Held', Workers, Workers)
    BY DEF Agree
  <2>2. Workers[r] = 0 /\ Workers[s] = 1
    BY DEF Workers, RetireLocal
  <2>3. IsFiniteSet(UnitsOf(Held, Workers))
    BY DEF LedgerInv, Countable
  <2>4. /\ IsFiniteSet(UnitsOf(H, Workers))
        /\ Cardinality(UnitsOf(H, Workers)) = Cardinality(UnitsOf(Held, Workers)) - Workers[r]
    BY <1>7, <2>1, <2>2, <2>3, SumRemove
  <2>5. /\ IsFiniteSet(UnitsOf(Held', Workers))
        /\ Cardinality(UnitsOf(Held', Workers)) = Cardinality(UnitsOf(H, Workers)) - Workers[s]
    BY <1>7, <2>1, <2>2, <2>4, SumRemove
  <2>6. Cardinality(UnitsOf(Held, Workers)) \in Nat
    BY <2>3, FS_CardinalityType
  <2>7. QED BY <2>2, <2>4, <2>5, <2>6
<1>12. Countable' /\ CountableAgain' /\ BooksBalance'
  <2>1. Countable' /\ again' = again
    BY <1>8, <1>9, <1>10, <1>11 DEF Countable, RetireLocal
  <2>2. \A u \in Unit :
           /\ budget'.reserved[u] - budget.reserved[u]
                = Cardinality(UnitsOf(Held', Reserved(u)')) - Cardinality(UnitsOf(Held, Reserved(u)))
           /\ budget'.spent[u] - budget.spent[u]
                = Cardinality(UnitsOf(Billed', Actual(u)')) - Cardinality(UnitsOf(Billed, Actual(u)))
    BY <1>1, <1>5, <1>8, <1>9, <1>10, SumsAreNumbers DEF LedgerInv
  <2>3. budget'.workers - budget.workers
          = Cardinality(UnitsOf(Held', Workers')) - Cardinality(UnitsOf(Held, Workers))
    BY <1>1, <1>5, <1>8, <1>11, SumsAreNumbers DEF LedgerInv
  <2>4. QED BY <1>1, <1>5, <2>1, <2>2, <2>3, BooksMove DEF LedgerInv
<1>13. Provisioned'
  <2>1. ASSUME NEW q \in Res, q \notin {r, s} PROVE res'[q] = res[q] /\ again'[q] = again[q]
    BY <1>1, <1>4, <2>1 DEF LedgerTypeOK, RetireLocal
  <2>2. res'[r] = rr /\ res'[s] = ss /\ res[s].vm = "none" /\ again' = again
    BY <1>1, <1>4 DEF LedgerTypeOK, RetireLocal
  <2>3. QED BY <1>2, <1>3, <2>1, <2>2 DEF LedgerInv, Provisioned
<1>14. WithinEnvelope' /\ budget'.workers =< MaxConcurrency
  BY <1>1, <1>5, LedgerAssumption DEF LedgerInv, WithinEnvelope, RetireLocal, LedgerTypeOK, Budget
<1>15. OverrunRecorded'
  <2>1. overrun' = overrun
    BY DEF RetireLocal
  <2>2. ASSUME NEW q \in Billed', NEW u \in Unit, res'[q].actual[u] > res'[q].reserved[u]
        PROVE  overrun
    <3>1. CASE q \notin {r, s}
      BY <1>1, <1>4, <2>2, <3>1 DEF LedgerInv, OverrunRecorded, Billed, LedgerTypeOK
    <3>2. CASE q \in {r, s}
      <4>1. res'[q].actual[u] = 0 /\ res'[q].reserved[u] \in Nat
        BY <1>1, <1>2, <1>3, <1>4, <3>2 DEF LedgerTypeOK, Reservation, Zero
      <4>2. QED BY <2>2, <4>1
    <3>3. QED BY <3>1, <3>2
  <2>3. QED BY <2>1, <2>2 DEF OverrunRecorded
<1>16. QED BY <1>6, <1>12, <1>13, <1>14, <1>15 DEF LedgerInv

\* The totals after r is charged b.
LEMMA ChargedTotals ==
    ASSUME budget \in Budget, NEW r \in Res, res[r] \in Reservation, NEW b \in [Unit -> Nat]
    PROVE  /\ Charged(r, b) \in Budget
           /\ \A u \in Unit : /\ Charged(r, b).reserved[u] = budget.reserved[u] - res[r].reserved[u]
                              /\ Charged(r, b).spent[u] = budget.spent[u] + b[u]
           /\ Charged(r, b).workers = budget.workers - res[r].workers
<1> DEFINE R == [u \in Unit |-> budget.reserved[u] - res[r].reserved[u]]
           P == [u \in Unit |-> budget.spent[u] + b[u]]
           W == budget.workers - res[r].workers
<1>1. R \in [Unit -> Int] /\ P \in [Unit -> Int] /\ W \in Int
  BY DEF Budget, Reservation
<1>2. Charged(r, b) = [budget EXCEPT !.reserved = R, !.spent = P, !.workers = W]
  BY DEF Charged
<1>3. Charged(r, b) = [reserved |-> R, spent |-> P, workers |-> W]
  <2> HIDE DEF R, P, W
  <2>1. QED BY <1>2 DEF Budget
<1>4. QED BY <1>1, <1>3 DEF Budget

\* Each way of settling r with zero or billed amounts meets SettleKeeps.
LEMMA SettleActionsKeep ==
    ASSUME LedgerInv, NEW r \in Res,
           \/ \E b \in [Unit -> Charge] : Settle(r, b)
           \/ ProvisionRejected(r) /\ Unsettled(r)
           \/ DestroyLocal(r) \/ FailedLocal(r) \/ ReleaseSlot(r)
    PROVE  LedgerInv'
<1>1. LedgerTypeOK /\ res[r] \in Reservation /\ budget \in Budget
  BY DEF LedgerInv, LedgerTypeOK
<1>2. \A u \in Unit : /\ res[r].reserved[u] \in Nat
                      /\ budget.reserved[u] \in Int /\ budget.spent[u] \in Int
  BY <1>1 DEF Reservation, Budget
<1>3. res[r].workers \in Nat /\ budget.workers \in Int
  BY <1>1 DEF Reservation, Budget
<1> DEFINE Zeroed(n, v) == [res[r] EXCEPT !.state = "settled", !.actual = Zero,
                                          !.workers = n, !.vm = v]
<1>4. ASSUME NEW n \in Nat, NEW v \in {"none", "pending", "live", "destroyed"}
      PROVE  /\ Zeroed(n, v) \in Reservation /\ Zeroed(n, v).state = "settled"
             /\ Zeroed(n, v).vm = v /\ Zeroed(n, v).actual = Zero
             /\ Zeroed(n, v).reserved = res[r].reserved
  BY <1>1 DEF Reservation, Zero
<1>5. overrun \in BOOLEAN /\ open \in BOOLEAN
  BY <1>1 DEF LedgerTypeOK
<1>6. ASSUME ~overrun PROVE ~Exceeds(r, Zero)
  <2>1. \A u \in Unit : ~(Zero[u] > res[r].reserved[u])
    BY <1>2 DEF Zero
  <2>2. ASSUME NEW u \in Limited
        PROVE  budget.spent[u] + budget.reserved[u] - res[r].reserved[u] + Zero[u] =< Limit[u]
    <3>1. u \in Unit /\ Limit[u] \in Nat
      BY LedgerAssumption
    <3>2. budget.spent[u] + budget.reserved[u] =< Limit[u]
      BY <1>6 DEF LedgerInv, WithinEnvelope
    <3>3. QED BY <1>2, <3>1, <3>2 DEF Zero
  <2>3. QED BY <2>1, <2>2, <1>2, LedgerAssumption DEF Exceeds, Zero
<1>7. ASSUME NEW b \in [Unit -> Charge], Settle(r, b) PROVE LedgerInv'
  <2> DEFINE rec == [res[r] EXCEPT !.state = "settled", !.actual = b]
  <2>1. b \in [Unit -> Nat]
    BY LedgerAssumption
  <2>2. /\ rec \in Reservation /\ rec.state = "settled" /\ rec.actual = b
        /\ rec.reserved = res[r].reserved /\ rec.vm = res[r].vm
    BY <1>1, <1>7, <2>1 DEF Reservation, Settle
  <2>3. res' = [res EXCEPT ![r] = rec]
    BY <1>1, <1>7 DEF Settle, LedgerTypeOK
  <2>4. budget' = Charged(r, b)
    BY <1>7 DEF Settle
  <2>5. /\ budget' \in Budget
        /\ \A u \in Unit : /\ budget'.reserved[u] = budget.reserved[u] - res[r].reserved[u]
                           /\ budget'.spent[u] = budget.spent[u] + b[u]
        /\ budget'.workers = budget.workers - res[r].workers
    BY <1>1, <2>1, <2>4, ChargedTotals
  <2>6. /\ Unsettled(r) /\ open' = open /\ again' = again
        /\ overrun' = (overrun \/ Exceeds(r, b))
    BY <1>7 DEF Settle
  <2>7. overrun' \in BOOLEAN /\ (overrun \/ Exceeds(r, b) => overrun')
    BY <2>6, Zenon
  <2>8. QED BY <1>5, <2>2, <2>3, <2>5, <2>6, <2>7, SettleKeeps
<1>8. ASSUME NEW n \in Nat, NEW v \in {res[r].vm, "destroyed"},
             Unsettled(r), res' = [res EXCEPT ![r] = Zeroed(n, v)],
             budget' \in Budget,
             \A u \in Unit : /\ budget'.reserved[u] = budget.reserved[u] - res[r].reserved[u]
                             /\ budget'.spent[u] = budget.spent[u],
             budget'.workers = budget.workers - res[r].workers,
             UNCHANGED <<open, overrun, again>>
      PROVE  LedgerInv'
  <2>1. Zero \in [Unit -> Nat]
    BY DEF Zero
  <2>2. \A u \in Unit : budget'.spent[u] = budget.spent[u] + Zero[u]
    BY <1>2, <1>8 DEF Zero
  <2> HIDE DEF Zeroed
  <2>a. v \in {"none", "pending", "live", "destroyed"}
    BY <1>1 DEF Reservation
  <2>3. Zeroed(n, v) \in Reservation /\ Zeroed(n, v).state = "settled" /\ Zeroed(n, v).vm = v
        /\ Zeroed(n, v).actual = Zero /\ Zeroed(n, v).reserved = res[r].reserved
    BY <1>4, <2>a
  <2>4. overrun' = overrun /\ open' = open /\ again' = again
    BY <1>8
  <2>5. overrun \/ Exceeds(r, Zero) => overrun'
    BY <1>6, <2>4
  <2>6. QED BY <1>5, <1>8, <2>2, <2>3, <2>4, <2>5, SettleKeeps
<1>a. Zero \in [Unit -> Nat] /\ \A u \in Unit : budget.spent[u] + Zero[u] = budget.spent[u]
  BY <1>2 DEF Zero
<1>b. /\ Charged(r, Zero) \in Budget
      /\ \A u \in Unit : /\ Charged(r, Zero).reserved[u] = budget.reserved[u] - res[r].reserved[u]
                         /\ Charged(r, Zero).spent[u] = budget.spent[u]
      /\ Charged(r, Zero).workers = budget.workers - res[r].workers
  BY <1>1, <1>a, ChargedTotals
<1>9. CASE ProvisionRejected(r) /\ Unsettled(r)
  <2>1. Unsettled(r) /\ res[r].reserved["tokens"] = 0 /\ res[r].actual = Zero
    BY <1>9 DEF ProvisionRejected, LedgerInv, Provisioned, Unsettled
  <2> DEFINE R == [budget.reserved EXCEPT !["cost"] = budget.reserved["cost"] - res[r].reserved["cost"]]
  <2>2. R \in [Unit -> Int] /\ \A u \in Unit : R[u] = budget.reserved[u] - res[r].reserved[u]
    BY <1>1, <1>2, <2>1 DEF Unit, Budget
  <2>3. budget' = [budget EXCEPT !.workers = budget.workers - res[r].workers, !.reserved = R]
    BY <1>1, <1>9 DEF ProvisionRejected, Budget
  <2> HIDE DEF R
  <2>4. /\ budget' \in Budget /\ budget'.reserved = R /\ budget'.spent = budget.spent
        /\ budget'.workers = budget.workers - res[r].workers
    <3> DEFINE W == budget.workers - res[r].workers
    <3>1. W \in Int /\ R \in [Unit -> Int]
      BY <1>3, <2>2
    <3>2. budget' = [budget EXCEPT !.workers = W, !.reserved = R]
      BY <2>3
    <3> HIDE DEF W
    <3>3. QED BY <1>1, <3>1, <3>2 DEF Budget, W
  <2>5. res' = [res EXCEPT ![r] = Zeroed(0, "destroyed")]
    <3>1. res[r].actual = [Zero EXCEPT !["cost"] = 0] /\ Zero = [Zero EXCEPT !["cost"] = 0]
      BY <2>1 DEF Zero, Unit
    <3>2. QED BY <1>1, <1>9, <2>1, <3>1 DEF ProvisionRejected, Reservation, LedgerTypeOK
  <2>6. UNCHANGED <<open, overrun, again>>
    BY <1>9 DEF ProvisionRejected
  <2>7. \A u \in Unit : /\ budget'.reserved[u] = budget.reserved[u] - res[r].reserved[u]
                        /\ budget'.spent[u] = budget.spent[u]
    BY <2>2, <2>4
  <2> HIDE DEF Zeroed
  <2>8. budget' \in Budget /\ budget'.workers = budget.workers - res[r].workers /\ Unsettled(r)
    BY <2>1, <2>4
  <2>9. 0 \in Nat /\ "destroyed" \in {res[r].vm, "destroyed"}
    OBVIOUS
  <2>10. QED BY <1>8, <2>5, <2>6, <2>7, <2>8, <2>9, Zenon
<1>10. CASE DestroyLocal(r)
  <2>1. res' = [res EXCEPT ![r] = Zeroed(res[r].workers, "destroyed")]
    BY <1>1, <1>10 DEF DestroyLocal, SettledZero, Reservation
  <2> HIDE DEF Zeroed
  <2>2. QED BY <1>3, <1>8, <1>b, <1>10, <2>1 DEF DestroyLocal
<1>11. CASE FailedLocal(r)
  <2>1. res' = [res EXCEPT ![r] = Zeroed(0, "destroyed")]
    BY <1>1, <1>11 DEF FailedLocal, SettledZero, Reservation
  <2> HIDE DEF Zeroed
  <2>2. QED BY <1>8, <1>b, <1>11, <2>1 DEF FailedLocal
<1>12. CASE ReleaseSlot(r)
  <2>1. Unsettled(r) /\ res[r].workers = 1 /\ res[r].reserved = Zero /\ res[r].vm = "none"
    BY <1>12 DEF ReleaseSlot, ActiveSlot, Unsettled
  <2>2. /\ budget' \in Budget /\ budget'.reserved = budget.reserved /\ budget'.spent = budget.spent
        /\ budget'.workers = budget.workers - 1
    BY <1>1, <1>3, <1>12 DEF ReleaseSlot, Budget
  <2>3. \A u \in Unit : budget.reserved[u] = budget.reserved[u] - res[r].reserved[u]
    BY <1>2, <2>1 DEF Zero
  <2>4. res' = [res EXCEPT ![r] = Zeroed(1, "none")]
    BY <1>1, <1>12, <2>1 DEF ReleaseSlot, SettledZero, Reservation
  <2> HIDE DEF Zeroed
  <2>5. UNCHANGED <<open, overrun, again>>
    BY <1>12 DEF ReleaseSlot
  <2>6. QED BY <1>8, <2>1, <2>2, <2>3, <2>4, <2>5
<1>13. QED BY <1>7, <1>9, <1>10, <1>11, <1>12

\* The rejection of a provision whose reservation is already settled: what it takes
\* out of the totals is what `again' then says.
LEMMA RejectedLateKeeps ==
    ASSUME LedgerInv, NEW r \in Res, ProvisionRejected(r), ~Unsettled(r)
    PROVE  LedgerInv'
<1>1. /\ LedgerTypeOK /\ res[r] \in Reservation /\ budget \in Budget /\ again \in [Res -> Release]
      /\ res[r].state = "settled" /\ again[r] = NoRelease /\ res[r].vm = "pending"
  BY DEF LedgerInv, LedgerTypeOK, Provisioned, ProvisionRejected, Unsettled, Reservation
<1> DEFINE a == [res[r].actual EXCEPT !["cost"] = 0]
<1>2. PICK rec \in Reservation :
        rec = [state |-> "settled", reserved |-> res[r].reserved, actual |-> a,
               workers |-> 0, vm |-> "destroyed"]
  BY <1>1 DEF Reservation, Unit
<1>3. /\ rec.state = "settled" /\ rec.reserved = res[r].reserved /\ rec.vm = "destroyed"
      /\ rec.workers = 0 /\ rec.actual["cost"] = 0
      /\ rec.actual["tokens"] = res[r].actual["tokens"]
  BY <1>1, <1>2 DEF Reservation, Unit
<1>4. res' = [res EXCEPT ![r] = rec]
  BY <1>1, <1>2 DEF ProvisionRejected, LedgerTypeOK, Reservation
<1> HIDE DEF a
<1>5. again' = [again EXCEPT ![r] = Repeated(r)] /\ Repeated(r) \in Release
  BY <1>1 DEF ProvisionRejected, Repeated, Release, Reservation, Unit
<1>6. /\ budget' \in Budget /\ budget'.spent = budget.spent
      /\ budget'.reserved["cost"] = budget.reserved["cost"] - res[r].reserved["cost"]
      /\ budget'.reserved["tokens"] = budget.reserved["tokens"]
      /\ budget'.workers = budget.workers - res[r].workers
  <2> DEFINE R == [budget.reserved EXCEPT !["cost"] = @ - res[r].reserved["cost"]]
             W == budget.workers - res[r].workers
  <2>1. /\ R \in [Unit -> Int] /\ W \in Int /\ R["tokens"] = budget.reserved["tokens"]
        /\ R["cost"] = budget.reserved["cost"] - res[r].reserved["cost"]
    BY <1>1 DEF Unit, Budget, Reservation
  <2>2. budget' = [budget EXCEPT !.workers = W, !.reserved = R]
    BY <1>1 DEF ProvisionRejected, Budget
  <2>3. W = budget.workers - res[r].workers
    OBVIOUS
  <2> HIDE DEF R, W
  <2>4. budget' = [reserved |-> R, spent |-> budget.spent, workers |-> W]
    BY <1>1, <2>2 DEF Budget
  <2>5. QED BY <1>1, <2>1, <2>3, <2>4 DEF Budget
<1>7. LedgerTypeOK' /\ overrun' = overrun
  <2>1. open' = open /\ overrun' = overrun
    BY DEF ProvisionRejected
  <2>2. res' \in [Res -> Reservation] /\ again' \in [Res -> Release]
    BY <1>1, <1>4, <1>5 DEF LedgerTypeOK
  <2>3. QED BY <1>1, <1>6, <2>1, <2>2 DEF LedgerTypeOK
<1>8. Held' = Held /\ Billed' = Billed /\ r \notin Held /\ r \in Billed
  BY <1>1, <1>3, <1>4 DEF Held, Billed, Unsettled, LedgerTypeOK
<1>9. ASSUME NEW u \in Unit PROVE UnitsOf(Held, Reserved(u)') = UnitsOf(Held, Reserved(u))
  <2>1. \A s \in Held : Reserved(u)'[s] = Reserved(u)[s]
    BY <1>1, <1>4, <1>8 DEF Reserved, Held, LedgerTypeOK
  <2>2. QED BY <2>1, UnitsOfSame, Zenon
<1>10. UnitsOf(Held, Workers') = UnitsOf(Held, Workers)
  <2>1. \A s \in Held : Workers'[s] = Workers[s]
    BY <1>1, <1>4, <1>8 DEF Workers, Held, LedgerTypeOK
  <2>2. QED BY <2>1, UnitsOfSame, Zenon
<1>11. UnitsOf(Billed, Actual("tokens")') = UnitsOf(Billed, Actual("tokens"))
  <2>1. \A s \in Billed : Actual("tokens")'[s] = Actual("tokens")[s]
    BY <1>1, <1>3, <1>4 DEF Actual, Billed, LedgerTypeOK
  <2>2. QED BY <2>1, UnitsOfSame, Zenon
<1>12. /\ IsFiniteSet(UnitsOf(Billed, Actual("cost")'))
       /\ Cardinality(UnitsOf(Billed, Actual("cost")'))
            = Cardinality(UnitsOf(Billed, Actual("cost"))) - res[r].actual["cost"]
  <2>1. Agree(Billed \ {r}, Actual("cost"), Actual("cost")')
    BY <1>1, <1>4 DEF Agree, Actual, Billed, LedgerTypeOK
  <2>2. /\ Actual("cost")[r] = res[r].actual["cost"] /\ Actual("cost")[r] \in Nat
        /\ Actual("cost")'[r] = 0 /\ Actual("cost")'[r] \in Nat
    BY <1>1, <1>3, <1>4 DEF Actual, LedgerTypeOK, Reservation, Unit
  <2>3. IsFiniteSet(UnitsOf(Billed, Actual("cost")))
    BY DEF LedgerInv, Countable, Unit
  <2> DEFINE f == Actual("cost")
             g == Actual("cost")'
  <2>4. /\ r \in Billed /\ Agree(Billed \ {r}, f, g) /\ f[r] \in Nat /\ g[r] \in Nat
        /\ IsFiniteSet(UnitsOf(Billed, f))
    BY <1>8, <2>1, <2>2, <2>3
  <2> HIDE DEF f, g
  <2>5. /\ IsFiniteSet(UnitsOf(Billed, g))
        /\ Cardinality(UnitsOf(Billed, g)) = Cardinality(UnitsOf(Billed, f)) - f[r] + g[r]
    BY <2>4, SumChange
  <2>6. Cardinality(UnitsOf(Billed, f)) \in Nat
    BY <2>4, FS_CardinalityType
  <2>7. f[r] = res[r].actual["cost"] /\ g[r] = 0
    BY <2>2 DEF f, g
  <2>8. Cardinality(UnitsOf(Billed, g)) = Cardinality(UnitsOf(Billed, f)) - res[r].actual["cost"]
    BY <2>4, <2>5, <2>6, <2>7
  <2>9. QED BY <2>5, <2>8 DEF f, g
<1>13. ASSUME NEW f, NEW g, NEW n \in Nat, \A s \in Res \ {r} : g[s] = f[s],
              f[r] = 0, g[r] = n, IsFiniteSet(UnitsOf(Res, f))
       PROVE  /\ IsFiniteSet(UnitsOf(Res, g))
              /\ Cardinality(UnitsOf(Res, g)) = Cardinality(UnitsOf(Res, f)) + n
  <2>1. Agree(Res \ {r}, f, g) /\ f[r] \in Nat /\ g[r] \in Nat
    BY <1>13 DEF Agree
  <2>2. /\ IsFiniteSet(UnitsOf(Res, g))
        /\ Cardinality(UnitsOf(Res, g)) = Cardinality(UnitsOf(Res, f)) - f[r] + g[r]
    <3>1. IsFiniteSet(UnitsOf(Res, f))
      BY <1>13
    <3>2. QED BY <2>1, <3>1, SumChange
  <2>3. Cardinality(UnitsOf(Res, f)) \in Nat
    BY <1>13, FS_CardinalityType
  <2>4. QED BY <1>13, <2>2, <2>3
<1>14. /\ \A s \in Res \ {r} : /\ AgainReserved'[s] = AgainReserved[s]
                               /\ AgainActual'[s] = AgainActual[s]
                               /\ AgainWorkers'[s] = AgainWorkers[s]
       /\ AgainReserved[r] = 0 /\ AgainReserved'[r] = res[r].reserved["cost"]
       /\ AgainActual[r] = 0 /\ AgainActual'[r] = res[r].actual["cost"]
       /\ AgainWorkers[r] = 0 /\ AgainWorkers'[r] = res[r].workers
  BY <1>1, <1>5 DEF AgainReserved, AgainActual, AgainWorkers, NoRelease, Repeated, Release
<1>15. /\ res[r].reserved["cost"] \in Nat /\ res[r].actual["cost"] \in Nat /\ res[r].workers \in Nat
  BY <1>1 DEF Reservation, Unit
<1>16. /\ CountableAgain'
       /\ Cardinality(UnitsOf(Res, AgainReserved'))
            = Cardinality(UnitsOf(Res, AgainReserved)) + res[r].reserved["cost"]
       /\ Cardinality(UnitsOf(Res, AgainActual'))
            = Cardinality(UnitsOf(Res, AgainActual)) + res[r].actual["cost"]
       /\ Cardinality(UnitsOf(Res, AgainWorkers'))
            = Cardinality(UnitsOf(Res, AgainWorkers)) + res[r].workers
  <2>1. /\ IsFiniteSet(UnitsOf(Res, AgainReserved)) /\ IsFiniteSet(UnitsOf(Res, AgainActual))
        /\ IsFiniteSet(UnitsOf(Res, AgainWorkers))
    BY DEF LedgerInv, CountableAgain
  <2>2. /\ IsFiniteSet(UnitsOf(Res, AgainReserved'))
        /\ Cardinality(UnitsOf(Res, AgainReserved'))
             = Cardinality(UnitsOf(Res, AgainReserved)) + res[r].reserved["cost"]
    BY <1>13, <1>14, <1>15, <2>1
  <2>3. /\ IsFiniteSet(UnitsOf(Res, AgainActual'))
        /\ Cardinality(UnitsOf(Res, AgainActual'))
             = Cardinality(UnitsOf(Res, AgainActual)) + res[r].actual["cost"]
    BY <1>13, <1>14, <1>15, <2>1
  <2>4. /\ IsFiniteSet(UnitsOf(Res, AgainWorkers'))
        /\ Cardinality(UnitsOf(Res, AgainWorkers'))
             = Cardinality(UnitsOf(Res, AgainWorkers)) + res[r].workers
    BY <1>13, <1>14, <1>15, <2>1
  <2>5. QED BY <2>2, <2>3, <2>4 DEF CountableAgain
<1>17. Countable'
  <2>1. \A u \in Unit : /\ IsFiniteSet(UnitsOf(Held', Reserved(u)'))
                       /\ IsFiniteSet(UnitsOf(Billed', Actual(u)'))
    <3>1. ASSUME NEW u \in Unit PROVE IsFiniteSet(UnitsOf(Held', Reserved(u)'))
      BY <1>8, <1>9 DEF LedgerInv, Countable
    <3>2. IsFiniteSet(UnitsOf(Billed', Actual("cost")'))
      BY <1>8, <1>12, Zenon
    <3>3. IsFiniteSet(UnitsOf(Billed', Actual("tokens")'))
      <4>1. IsFiniteSet(UnitsOf(Billed, Actual("tokens")))
        BY DEF LedgerInv, Countable, Unit
      <4>2. QED BY <1>8, <1>11, <4>1, Zenon
    <3>4. QED BY <3>1, <3>2, <3>3 DEF Unit
  <2>2. IsFiniteSet(UnitsOf(Held', Workers'))
    BY <1>8, <1>10 DEF LedgerInv, Countable
  <2>3. QED BY <2>1, <2>2, Zenon DEF Countable
<1>18. BooksBalance'
  <2>1. /\ Cardinality(UnitsOf(Res, AgainReserved)) \in Nat
        /\ Cardinality(UnitsOf(Res, AgainActual)) \in Nat
        /\ Cardinality(UnitsOf(Res, AgainWorkers)) \in Nat
    BY FS_CardinalityType DEF LedgerInv, CountableAgain
  <2>2. /\ Cardinality(UnitsOf(Billed, Actual("cost"))) \in Nat
        /\ budget.reserved["cost"] \in Int /\ budget.workers \in Int
    BY <1>1, SumsAreNumbers DEF LedgerInv, Unit
  <2>3. budget'.reserved["cost"] + Cardinality(UnitsOf(Res, AgainReserved'))
          = Cardinality(UnitsOf(Held', Reserved("cost")'))
    <3>1. UnitsOf(Held', Reserved("cost")') = UnitsOf(Held, Reserved("cost"))
      BY <1>8, <1>9 DEF Unit
    <3>2. budget.reserved["cost"] + Cardinality(UnitsOf(Res, AgainReserved))
            = Cardinality(UnitsOf(Held, Reserved("cost")))
      BY DEF LedgerInv, BooksBalance
    <3>3. QED BY <1>6, <1>15, <1>16, <2>1, <2>2, <3>1, <3>2
  <2>4. budget'.reserved["tokens"] = Cardinality(UnitsOf(Held', Reserved("tokens")'))
    BY <1>6, <1>8, <1>9 DEF LedgerInv, BooksBalance, Unit
  <2>5. budget'.spent["cost"] = Cardinality(UnitsOf(Billed', Actual("cost")'))
                                  + Cardinality(UnitsOf(Res, AgainActual'))
    <3>1. budget.spent["cost"] = Cardinality(UnitsOf(Billed, Actual("cost")))
                                  + Cardinality(UnitsOf(Res, AgainActual))
      BY DEF LedgerInv, BooksBalance
    <3>2. budget'.spent = budget.spent /\ Billed' = Billed
      BY <1>6, <1>8
    <3>3. QED BY <1>12, <1>15, <1>16, <2>1, <2>2, <3>1, <3>2
  <2>6. budget'.spent["tokens"] = Cardinality(UnitsOf(Billed', Actual("tokens")'))
    BY <1>6, <1>8, <1>11 DEF LedgerInv, BooksBalance
  <2>7. budget'.workers + Cardinality(UnitsOf(Res, AgainWorkers'))
          = Cardinality(UnitsOf(Held', Workers'))
    <3>1. budget.workers + Cardinality(UnitsOf(Res, AgainWorkers))
            = Cardinality(UnitsOf(Held, Workers))
      BY DEF LedgerInv, BooksBalance
    <3>2. QED BY <1>6, <1>8, <1>10, <1>15, <1>16, <2>1, <2>2, <3>1
  <2>8. QED BY <2>3, <2>4, <2>5, <2>6, <2>7 DEF BooksBalance
<1>19. Provisioned'
  <2>1. ASSUME NEW s \in Res, s # r PROVE res'[s] = res[s] /\ again'[s] = again[s]
    BY <1>1, <1>4, <1>5, <2>1 DEF LedgerTypeOK
  <2>2. res'[r] = rec
    BY <1>1, <1>4 DEF LedgerTypeOK
  <2>3. QED BY <1>3, <2>1, <2>2 DEF LedgerInv, Provisioned
<1>20. WithinEnvelope' /\ budget'.workers =< MaxConcurrency
  <2>1. budget'.workers =< MaxConcurrency
    BY <1>1, <1>6, <1>15, LedgerAssumption DEF LedgerInv, Budget
  <2>2. ASSUME ~overrun', NEW u \in Limited
        PROVE  budget'.spent[u] + budget'.reserved[u] =< Limit[u]
    <3>1. u \in Unit /\ Limit[u] \in Nat
      BY LedgerAssumption
    <3>2. budget.spent[u] + budget.reserved[u] =< Limit[u]
      BY <1>7, <2>2 DEF LedgerInv, WithinEnvelope
    <3>3. /\ budget.spent[u] \in Int /\ budget.reserved[u] \in Int
          /\ budget'.spent[u] = budget.spent[u]
          /\ budget'.reserved[u] \in Int /\ budget'.reserved[u] =< budget.reserved[u]
      BY <1>1, <1>6, <1>15, <3>1 DEF Budget, Unit
    <3>4. QED BY <3>1, <3>2, <3>3
  <2>3. QED BY <2>1, <2>2 DEF WithinEnvelope
<1>21. OverrunRecorded'
  <2>1. SUFFICES ASSUME NEW q \in Billed, NEW u \in Unit, res'[q].actual[u] > res'[q].reserved[u]
                 PROVE  overrun
    BY <1>7, <1>8 DEF OverrunRecorded
  <2>2. CASE q # r
    BY <1>1, <1>4, <2>1, <2>2 DEF LedgerInv, OverrunRecorded, Billed, LedgerTypeOK
  <2>3. CASE q = r
    <3>1. res'[q] = rec /\ rec.reserved = res[r].reserved /\ res[r].reserved[u] \in Nat
      BY <1>1, <1>3, <1>4, <2>3 DEF LedgerTypeOK, Reservation
    <3>2. u = "tokens"
      BY <1>3, <2>1, <3>1 DEF Unit
    <3>3. res[r].actual["tokens"] > res[r].reserved["tokens"]
      BY <1>3, <2>1, <3>1, <3>2
    <3>4. QED BY <1>8, <3>3 DEF LedgerInv, OverrunRecorded, Unit
  <2>4. QED BY <2>2, <2>3
<1>22. QED BY <1>7, <1>16, <1>17, <1>18, <1>19, <1>20, <1>21 DEF LedgerInv

\* The invariant holds initially and every step keeps it.
LEMMA InitLedgerInv == LedgerInit => LedgerInv
<1> SUFFICES ASSUME LedgerInit PROVE LedgerInv
  OBVIOUS
<1>1. LedgerTypeOK
  <2>1. Zero \in [Unit -> Nat] /\ Zero \in [Unit -> Int]
    BY DEF Zero
  <2>2. NoReservation \in Reservation
    BY <2>1 DEF Reservation, NoReservation
  <2>3. budget \in Budget
    BY <2>1 DEF LedgerInit, Budget
  <2>4. NoRelease \in Release
    BY DEF NoRelease, Release
  <2>5. QED BY <2>2, <2>3, <2>4 DEF LedgerInit, LedgerTypeOK
<1>2. Held = {} /\ Billed = {}
  BY DEF LedgerInit, Held, Billed, Unsettled, NoReservation
<1>3. \A f : UnitsOf({}, f) = {}
  BY DEF UnitsOf
<1>4. IsFiniteSet({}) /\ Cardinality({}) = 0
  BY FS_EmptySet
<1>5. Countable
  BY <1>2, <1>3, <1>4, Zenon DEF Countable
<1>6. \A f : Cardinality(UnitsOf({}, f)) = 0
  BY <1>3, <1>4, Zenon
<1>a. /\ UnitsOf(Res, AgainReserved) = {} /\ UnitsOf(Res, AgainActual) = {}
      /\ UnitsOf(Res, AgainWorkers) = {}
  <2>1. ASSUME NEW f, \A r \in Res : f[r] = 0 PROVE UnitsOf(Res, f) = {}
    BY <2>1 DEF UnitsOf
  <2>2. \A r \in Res : AgainReserved[r] = 0 /\ AgainActual[r] = 0 /\ AgainWorkers[r] = 0
    BY DEF AgainReserved, AgainActual, AgainWorkers, LedgerInit, NoRelease
  <2>3. QED BY <2>1, <2>2
<1>b. CountableAgain
  BY <1>4, <1>a, Zenon DEF CountableAgain
<1>c. /\ Cardinality(UnitsOf(Res, AgainReserved)) = 0 /\ Cardinality(UnitsOf(Res, AgainActual)) = 0
      /\ Cardinality(UnitsOf(Res, AgainWorkers)) = 0
  BY <1>4, <1>a, Zenon
<1>7. BooksBalance
  <2>1. /\ Cardinality(UnitsOf(Held, Reserved("cost"))) = 0
        /\ Cardinality(UnitsOf(Held, Reserved("tokens"))) = 0
        /\ Cardinality(UnitsOf(Billed, Actual("cost"))) = 0
        /\ Cardinality(UnitsOf(Billed, Actual("tokens"))) = 0
        /\ Cardinality(UnitsOf(Held, Workers)) = 0
    BY <1>2, <1>6, Zenon
  <2>2. /\ budget.reserved["cost"] = 0 /\ budget.reserved["tokens"] = 0
        /\ budget.spent["cost"] = 0 /\ budget.spent["tokens"] = 0 /\ budget.workers = 0
    BY DEF LedgerInit, Zero, Unit
  <2>3. QED BY <1>c, <2>1, <2>2 DEF BooksBalance
<1>8. Provisioned /\ OverrunRecorded
  BY <1>2 DEF Provisioned, OverrunRecorded, LedgerInit, NoReservation
<1>9. WithinEnvelope /\ budget.workers =< MaxConcurrency
  BY LedgerAssumption DEF WithinEnvelope, LedgerInit, Zero
<1>10. QED BY <1>1, <1>5, <1>b, <1>7, <1>8, <1>9 DEF LedgerInv

LEMMA NextLedgerInv == LedgerInv /\ [LedgerNext]_ledgerVars => LedgerInv'
<1> SUFFICES ASSUME LedgerInv, [LedgerNext]_ledgerVars PROVE LedgerInv'
  OBVIOUS
<1>1. LedgerTypeOK /\ Unit = {"cost", "tokens"} /\ Charge \subseteq Nat /\ 0 \in Charge
  BY LedgerAssumption DEF LedgerInv, Unit
<1>2. CASE UNCHANGED ledgerVars
  BY <1>1, <1>2, QuietKeeps DEF ledgerVars, LedgerTypeOK, Unsettled
<1>3. ASSUME NEW b \in BOOLEAN, SetOpen(b) PROVE LedgerInv'
  BY <1>1, <1>3, QuietKeeps DEF SetOpen, LedgerTypeOK, Unsettled
<1>4. ASSUME NEW r \in Res, NEW a \in [Unit -> Charge], NEW n \in {0, 1}, Reserve(r, a, n)
      PROVE  LedgerInv'
  <2>1. a \in [Unit -> Nat]
    BY LedgerAssumption
  <2>2. n \in Nat
    OBVIOUS
  <2>3. QED BY <1>4, <2>1, <2>2, EnterKeeps DEF Reserve
<1>5. ASSUME NEW r \in Res, NEW c \in Charge, NEW n \in {0, 1}, Provision(r, c, n)
      PROVE  LedgerInv'
  <2> DEFINE a == [Zero EXCEPT !["cost"] = c]
  <2>1. a \in [Unit -> Nat] /\ n \in Nat /\ a["tokens"] = 0 /\ a["cost"] = c
    BY <1>1 DEF Zero
  <2>2. \A u \in Limited : Fits(u, a[u]) \/ a[u] = 0
    BY <1>1, <1>5, <2>1, LedgerAssumption DEF Provision
  <2>3. res[r].state = "absent" /\ WorkersFit(n) /\ Enter(r, a, n, "pending")
    BY <1>5 DEF Provision
  <2> HIDE DEF a
  <2>4. QED BY <2>1, <2>2, <2>3, EnterKeeps
<1>6. ASSUME NEW r \in Res, SettleUncertain(r) \/ ProvisionCommitted(r) \/ DestroySettled(r)
      PROVE  LedgerInv'
  <2>1. LedgerTypeOK'
    <3>1. CASE SettleUncertain(r)
      BY <1>1, <3>1 DEF LedgerTypeOK, Reservation, SettleUncertain
    <3>2. CASE ProvisionCommitted(r)
      <4>1. res[r] \in Reservation
        BY <1>1 DEF LedgerTypeOK
      <4>2. [res[r] EXCEPT !.vm = "live"] \in Reservation
        BY <4>1 DEF Reservation
      <4>3. res' \in [Res -> Reservation]
        BY <1>1, <3>2, <4>2 DEF LedgerTypeOK, ProvisionCommitted
      <4>4. QED BY <1>1, <3>2, <4>3 DEF LedgerTypeOK, ProvisionCommitted
    <3>3. CASE DestroySettled(r)
      BY <1>1, <3>3 DEF LedgerTypeOK, Reservation, DestroySettled
    <3>4. QED BY <1>6, <3>1, <3>2, <3>3
  <2>2. UNCHANGED <<overrun, budget, again>>
    BY <1>6 DEF SettleUncertain, ProvisionCommitted, DestroySettled
  <2>3. ASSUME NEW s \in Res
        PROVE /\ Unsettled(s) <=> Unsettled(s)'
              /\ res[s].state = "settled" <=> res'[s].state = "settled"
              /\ res'[s].reserved = res[s].reserved /\ res'[s].actual = res[s].actual
              /\ res'[s].workers = res[s].workers
              /\ res[s].state = "absent" => res'[s].vm = res[s].vm
              /\ res'[s].vm = "pending" => res[s].vm = "pending"
              /\ res[s].vm = "destroyed" => res'[s].vm = "destroyed"
    <3>1. CASE SettleUncertain(r)
      BY <1>1, <3>1 DEF LedgerTypeOK, Reservation, SettleUncertain, Unsettled
    <3>2. CASE ProvisionCommitted(r)
      <4>1. res[r].state # "absent"
        BY <3>2 DEF LedgerInv, Provisioned, ProvisionCommitted
      <4>2. QED BY <1>1, <3>2, <4>1 DEF LedgerTypeOK, Reservation, ProvisionCommitted, Unsettled
    <3>3. CASE DestroySettled(r)
      BY <1>1, <3>3 DEF LedgerTypeOK, Reservation, DestroySettled, Unsettled
    <3>4. QED BY <1>6, <3>1, <3>2, <3>3
  <2>4. QED BY <2>1, <2>2, <2>3, QuietKeeps
<1>7. ASSUME NEW r \in Res, \/ \E b \in [Unit -> Charge] : Settle(r, b)
                            \/ ProvisionRejected(r) \/ DestroyLocal(r)
                            \/ FailedLocal(r) \/ ReleaseSlot(r)
      PROVE  LedgerInv'
  BY <1>7, SettleActionsKeep, RejectedLateKeeps
<1>8. ASSUME NEW r \in Res, DestroyUnbilled(r) PROVE LedgerInv'
  BY <1>8, DestroyUnbilledKeeps
<1>9. ASSUME NEW r \in Res, NEW s \in Res, RetireLocal(r, s) PROVE LedgerInv'
  BY <1>9, RetireLocalKeeps
<1>10. QED BY <1>2, <1>3, <1>4, <1>5, <1>6, <1>7, <1>8, <1>9 DEF LedgerNext

\* The running totals of the ledger always equal what its reservations say, less
\* what rejected provisions released twice, for any number of reservations and
\* any amounts.
THEOREM LedgerBalances == LedgerSpec => []BooksBalance
<1>1. LedgerInv => BooksBalance
  BY DEF LedgerInv
<1>2. QED BY <1>1, InitLedgerInv, NextLedgerInv, PTL DEF LedgerSpec

\* Without a recorded overrun, spending and holdings stay within the limits.
THEOREM LedgerWithinEnvelope == LedgerSpec => []WithinEnvelope
<1>1. LedgerInv => WithinEnvelope
  BY DEF LedgerInv
<1>2. QED BY <1>1, InitLedgerInv, NextLedgerInv, PTL DEF LedgerSpec

\* The experiment holds more workers than its concurrency limit by no more than
\* what rejected provisions released twice.
THEOREM LedgerWorkers == LedgerSpec => []WorkersWithinLimit
<1>1. LedgerInv => WorkersWithinLimit
  <2>1. SUFFICES ASSUME LedgerInv PROVE WorkersWithinLimit
    OBVIOUS
  <2>2. /\ budget.workers + Cardinality(UnitsOf(Res, AgainWorkers))
             = Cardinality(UnitsOf(Held, Workers))
        /\ budget.workers =< MaxConcurrency /\ budget.workers \in Int
    BY <2>1 DEF LedgerInv, BooksBalance, LedgerTypeOK, Budget
  <2>3. Cardinality(UnitsOf(Res, AgainWorkers)) \in Nat
    BY <2>1, FS_CardinalityType DEF LedgerInv, CountableAgain
  <2>4. QED BY <2>2, <2>3, LedgerAssumption DEF WorkersWithinLimit
<1>2. QED BY <1>1, InitLedgerInv, NextLedgerInv, PTL DEF LedgerSpec

\* A charge above its reservation always leaves the experiment flagged.
THEOREM LedgerOverruns == LedgerSpec => []OverrunRecorded
<1>1. LedgerInv => OverrunRecorded
  BY DEF LedgerInv
<1>2. QED BY <1>1, InitLedgerInv, NextLedgerInv, PTL DEF LedgerSpec

\* Settled reservations keep their amounts, but for the charge of a rejected VM.
LEMMA StepKeepsSettled == LedgerInv /\ [LedgerNext]_ledgerVars => [KeepsSettled]_ledgerVars
<1> DEFINE Stays(q) == res'[q].state = "settled" /\ res'[q].actual = res[q].actual
                       /\ res'[q].reserved = res[q].reserved
           Late(q) == /\ res'[q].state = "settled" /\ res'[q].reserved = res[q].reserved
                      /\ res'[q].actual["tokens"] = res[q].actual["tokens"] /\ RejectedLate(q)
<1> SUFFICES ASSUME LedgerInv, LedgerNext, NEW q \in Billed
             PROVE  Stays(q) \/ Late(q)
  BY DEF KeepsSettled, Unit
<1>1. q \in Res /\ res[q].state = "settled" /\ ~Unsettled(q) /\ LedgerTypeOK
  BY DEF Billed, Unsettled, LedgerInv
<1>2. ASSUME NEW b \in BOOLEAN, SetOpen(b) PROVE res' = res
  BY <1>2 DEF SetOpen
<1>3. ASSUME NEW r \in Res, NEW a, NEW n, NEW v, res[r].state = "absent", Enter(r, a, n, v)
      PROVE  res'[q] = res[q]
  BY <1>1, <1>3 DEF Enter, LedgerTypeOK
<1>4. ASSUME NEW r \in Res, SettleUncertain(r) \/ DestroyUnbilled(r) \/ DestroyLocal(r)
                              \/ FailedLocal(r) \/ ReleaseSlot(r)
      PROVE  res'[q] = res[q]
  BY <1>1, <1>4 DEF SettleUncertain, DestroyUnbilled, CapacityGiven, DestroyLocal, FailedLocal,
                    ReleaseSlot, ActiveSlot, LedgerTypeOK
<1>5. ASSUME NEW r \in Res, NEW b, Settle(r, b) PROVE res'[q] = res[q]
  BY <1>1, <1>5 DEF Settle, LedgerTypeOK
<1>6. ASSUME NEW r \in Res, ProvisionCommitted(r) \/ DestroySettled(r)
      PROVE  Stays(q)
  <2>1. CASE r # q
    BY <1>1, <1>6, <2>1 DEF ProvisionCommitted, DestroySettled, LedgerTypeOK
  <2>2. CASE r = q
    <3>1. \E v : res'[q] = [res[q] EXCEPT !.vm = v]
      BY <1>1, <1>6, <2>2 DEF ProvisionCommitted, DestroySettled, LedgerTypeOK
    <3>2. res[q] \in Reservation
      BY <1>1 DEF LedgerTypeOK
    <3>3. QED BY <1>1, <3>1, <3>2 DEF Reservation
  <2>3. QED BY <2>1, <2>2
<1>7. ASSUME NEW r \in Res, NEW s \in Res, RetireLocal(r, s) PROVE res'[q] = res[q]
  BY <1>1, <1>7 DEF RetireLocal, LedgerTypeOK
<1>8. ASSUME NEW r \in Res, ProvisionRejected(r) PROVE Stays(q) \/ Late(q)
  <2>1. CASE r # q
    BY <1>1, <1>8, <2>1 DEF ProvisionRejected, LedgerTypeOK
  <2>2. CASE r = q
    <3>1. /\ res[q] \in Reservation /\ res[q].vm = "pending"
          /\ res'[q] = [res[q] EXCEPT !.state = "settled", !.actual["cost"] = 0,
                                      !.workers = 0, !.vm = "destroyed"]
      BY <1>1, <1>8, <2>2 DEF ProvisionRejected, LedgerTypeOK
    <3>2. QED BY <3>1 DEF Reservation, Unit, RejectedLate
  <2>3. QED BY <2>1, <2>2
<1>9. QED
  BY <1>1, <1>2, <1>3, <1>4, <1>5, <1>6, <1>7, <1>8 DEF LedgerNext, Reserve, Provision

\* No step reopens a settled reservation or changes its amounts, whatever
\* settle_resources or the broker does later, except that a rejected provision
\* erases the money charged to its VM.
THEOREM LedgerSettlementFinal == LedgerSpec => SettlementFinal
BY InitLedgerInv, NextLedgerInv, StepKeepsSettled, PTL DEF LedgerSpec, SettlementFinal

\* The types of the ledger's rows.
THEOREM LedgerTypes == LedgerSpec => []LedgerTypeOK
<1>1. LedgerInv => LedgerTypeOK
  BY DEF LedgerInv
<1>2. QED BY <1>1, InitLedgerInv, NextLedgerInv, PTL DEF LedgerSpec

\* What the run `evidence' checks of reserve_resources, settle_resources and the
\* broker's settlements, for any reservations, limits and charges.
THEOREM LedgerSafety == LedgerSpec => []LedgerSound
BY LedgerTypes, LedgerBalances, LedgerWithinEnvelope, LedgerWorkers, LedgerOverruns, PTL
DEF LedgerSound
-----------------------------------------------------------------------------
(* The limiter.  What makes its bounds inductive is which call holds the   *)
(* lock of a host's queue, and that the queue's time includes every wait   *)
(* the host asked for.                                                     *)

USE HostLimiterAssumption

\* A call that sleeps until its host may be asked, or asks it, holds the lock of the
\* host's queue, and the queue's own time is never before what any answer allowed.
SlotHeld ==
    /\ \A f \in Fetcher :
        fetcher[f].pc \in {"sleeping", "sending"} => bucket[fetcher[f].queue].lock = f
    /\ \A f \in Fetcher : In(f, "sending") => clock >= bucket[fetcher[f].queue].ready
    /\ \A q \in HostQueue : quiet[q] =< bucket[q].ready

LimiterInv == LimiterTypeOK /\ SlotHeld

FetcherRecord == [pc : FetcherPc, queue : HostQueue, attempt : Nat, hop : Nat, since : Nat]
BucketRecord == [lock : Fetcher \cup {NoFetcher}, ready : Nat]

LEMMA InitLimiter == LimiterInit => LimiterInv
BY DEF LimiterInit, LimiterInv, LimiterTypeOK, SlotHeld, FetcherPc, In

\* The slot that a call leaves: its host rests for the interval and the delay.
LEMMA LeaveSlotFields ==
    ASSUME LimiterTypeOK, NEW q \in HostQueue, NEW delay \in Nat, LeaveSlot(q, delay),
           quiet[q] =< bucket[q].ready
    PROVE  /\ bucket' \in [HostQueue -> BucketRecord] /\ quiet' \in [HostQueue -> Nat]
           /\ bucket'[q].lock = NoFetcher /\ quiet'[q] =< bucket'[q].ready
           /\ \A r \in HostQueue : r # q => bucket'[r] = bucket[r] /\ quiet'[r] = quiet[r]
<1> DEFINE b == [bucket[q] EXCEPT !.lock = NoFetcher, !.ready = ReadyAt(@, delay)]
<1> DEFINE t == Later(quiet[q], clock + Later(Interval, delay))
<1>1. /\ bucket \in [HostQueue -> BucketRecord] /\ quiet \in [HostQueue -> Nat] /\ clock \in Nat
      /\ bucket[q].ready \in Nat /\ quiet[q] \in Nat
  BY DEF LimiterTypeOK, BucketRecord
<1>2. ReadyAt(bucket[q].ready, delay) \in Nat /\ t \in Nat /\ t =< ReadyAt(bucket[q].ready, delay)
  BY <1>1 DEF ReadyAt, Later
<1>3. b \in BucketRecord /\ b.lock = NoFetcher /\ b.ready = ReadyAt(bucket[q].ready, delay)
  BY <1>1, <1>2 DEF BucketRecord
<1>4. bucket' = [bucket EXCEPT ![q] = b] /\ quiet' = [quiet EXCEPT ![q] = t]
  BY DEF LeaveSlot
<1> HIDE DEF b, t
<1>5. QED BY <1>1, <1>2, <1>3, <1>4

\* A step of one call that moves only its own record.
LEMMA FetcherMoves ==
    ASSUME LimiterTypeOK, NEW f \in Fetcher, NEW k \in FetcherRecord,
           fetcher' = [fetcher EXCEPT ![f] = k]
    PROVE  /\ fetcher' \in [Fetcher -> FetcherRecord] /\ fetcher'[f] = k
           /\ \A g \in Fetcher : g # f => fetcher'[g] = fetcher[g]
BY DEF LimiterTypeOK, FetcherRecord

LEMMA LimiterKept == LimiterInv /\ [LimiterNext]_limiterVars => LimiterInv'
<1> SUFFICES ASSUME LimiterInv, [LimiterNext]_limiterVars PROVE LimiterInv'
  OBVIOUS
<1>1. /\ LimiterTypeOK /\ SlotHeld /\ clock \in Nat
      /\ fetcher \in [Fetcher -> FetcherRecord] /\ bucket \in [HostQueue -> BucketRecord]
      /\ quiet \in [HostQueue -> Nat]
  BY DEF LimiterInv, LimiterTypeOK, FetcherRecord, BucketRecord
<1>2. CASE UNCHANGED limiterVars
  BY <1>1, <1>2 DEF limiterVars, LimiterInv, LimiterTypeOK, SlotHeld, In
<1>3. CASE Tick
  <2>1. clock' \in 0 .. MaxClock /\ clock' >= clock
    BY <1>1, <1>3 DEF Tick, LimiterTypeOK
  <2>2. \A q \in HostQueue : bucket[q].ready \in Nat
    BY <1>1 DEF BucketRecord
  <2>3. \A f \in Fetcher : fetcher[f].queue \in HostQueue
    BY <1>1 DEF FetcherRecord
  <2>4. QED BY <1>1, <1>3, <2>1, <2>2, <2>3 DEF Tick, LimiterInv, LimiterTypeOK, SlotHeld, In
\* The steps before the slot, and its end without one.
<1>4. ASSUME NEW f \in Fetcher, NEW k \in FetcherRecord, fetcher' = [fetcher EXCEPT ![f] = k],
             k.pc \notin {"sleeping", "sending"}, UNCHANGED <<clock, bucket, quiet>>
      PROVE  LimiterInv'
  <2>1. /\ fetcher' \in [Fetcher -> FetcherRecord] /\ fetcher'[f] = k
        /\ \A g \in Fetcher : g # f => fetcher'[g] = fetcher[g]
    BY <1>1, <1>4, FetcherMoves
  <2>2. LimiterTypeOK'
    BY <1>1, <1>4, <2>1 DEF LimiterTypeOK, FetcherRecord
  <2>3. SlotHeld'
    BY <1>1, <1>4, <2>1 DEF SlotHeld, In
  <2>4. QED BY <2>2, <2>3 DEF LimiterInv
<1>5. ASSUME NEW f \in Fetcher, NEW q \in HostQueue,
             Enqueue(f) \/ StartThread(f, q) \/ QueueTimeout(f)
      PROVE  LimiterInv'
  <2>1. fetcher[f] \in FetcherRecord /\ UNCHANGED <<clock, bucket, quiet>>
    BY <1>1, <1>5 DEF Enqueue, StartThread, QueueTimeout
  <2>2. CASE Enqueue(f)
    <3> DEFINE k == [fetcher[f] EXCEPT !.pc = "pool", !.since = clock]
    <3>1. k \in FetcherRecord /\ k.pc = "pool"
      BY <1>1, <2>1 DEF FetcherRecord, FetcherPc
    <3>2. fetcher' = [fetcher EXCEPT ![f] = k]
      BY <2>2 DEF Enqueue
    <3> HIDE DEF k
    <3>3. QED BY <1>4, <2>1, <3>1, <3>2
  <2>3. CASE StartThread(f, q)
    <3> DEFINE pc == IF clock - fetcher[f].since > MaxWait THEN "failed" ELSE "queued"
    <3> DEFINE k == [fetcher[f] EXCEPT !.pc = pc, !.queue = q, !.since = clock]
    <3>1. pc \in {"failed", "queued"} /\ fetcher' = [fetcher EXCEPT ![f] = k]
      BY <2>3 DEF StartThread
    <3> HIDE DEF pc
    <3>2. k \in FetcherRecord /\ k.pc = pc
      BY <1>1, <2>1, <3>1 DEF FetcherRecord, FetcherPc
    <3> HIDE DEF k
    <3>3. QED BY <1>4, <2>1, <3>1, <3>2
  <2>4. CASE QueueTimeout(f)
    <3> DEFINE k == [fetcher[f] EXCEPT !.pc = "failed"]
    <3>1. k \in FetcherRecord /\ k.pc = "failed"
      BY <1>1, <2>1 DEF FetcherRecord, FetcherPc
    <3>2. fetcher' = [fetcher EXCEPT ![f] = k]
      BY <2>4 DEF QueueTimeout
    <3> HIDE DEF k
    <3>3. QED BY <1>4, <2>1, <3>1, <3>2
  <2>5. QED BY <1>5, <2>2, <2>3, <2>4
<1>6. ASSUME NEW f \in Fetcher, TakeSlot(f) PROVE LimiterInv'
  <2> DEFINE q == fetcher[f].queue
  <2> DEFINE fits == bucket[q].ready - clock <= MaxWait - (clock - fetcher[f].since)
  <2>1. fetcher[f] \in FetcherRecord /\ q \in HostQueue /\ bucket[q].lock = NoFetcher
    BY <1>1, <1>6 DEF TakeSlot, FetcherRecord
  <2>2. CASE fits
    <3> DEFINE k == [fetcher[f] EXCEPT !.pc = "sleeping", !.since = 0]
    <3> DEFINE b == [bucket[q] EXCEPT !.lock = f]
    <3>1. k \in FetcherRecord /\ k.pc = "sleeping" /\ k.queue = q
      BY <2>1 DEF FetcherRecord, FetcherPc
    <3>2. b \in BucketRecord /\ b.lock = f /\ b.ready = bucket[q].ready
      BY <1>1, <2>1 DEF BucketRecord
    <3>3. /\ fetcher' = [fetcher EXCEPT ![f] = k] /\ bucket' = [bucket EXCEPT ![q] = b]
          /\ UNCHANGED <<clock, quiet>>
      BY <1>6, <2>2 DEF TakeSlot
    <3> HIDE DEF k, b
    <3>4. /\ fetcher' \in [Fetcher -> FetcherRecord] /\ fetcher'[f] = k
          /\ \A g \in Fetcher : g # f => fetcher'[g] = fetcher[g]
      BY <1>1, <3>1, <3>3, FetcherMoves
    <3>5. /\ bucket' \in [HostQueue -> BucketRecord] /\ bucket'[q] = b
          /\ \A r \in HostQueue : r # q => bucket'[r] = bucket[r]
      BY <1>1, <2>1, <3>2, <3>3
    <3> HIDE DEF q
    <3>6. LimiterTypeOK'
      BY <1>1, <3>3, <3>4, <3>5 DEF LimiterTypeOK, FetcherRecord, BucketRecord
    <3>7. SlotHeld'
      <4>1. \A g \in Fetcher : fetcher[g].pc \in {"sleeping", "sending"} => fetcher[g].queue # q
        BY <1>1, <2>1 DEF SlotHeld, q, NoFetcher
      <4>2. \A g \in Fetcher : fetcher[g].queue \in HostQueue
        BY <1>1 DEF FetcherRecord
      <4>3. QED BY <1>1, <2>1, <3>1, <3>2, <3>3, <3>4, <3>5, <4>1, <4>2 DEF SlotHeld, In
    <3>8. QED BY <3>6, <3>7 DEF LimiterInv
  <2>3. CASE ~fits
    <3> DEFINE k == [fetcher[f] EXCEPT !.pc = "failed", !.since = 0]
    <3>1. k \in FetcherRecord /\ k.pc = "failed"
      BY <2>1 DEF FetcherRecord, FetcherPc
    <3>2. fetcher' = [fetcher EXCEPT ![f] = k] /\ UNCHANGED <<clock, quiet>>
      BY <1>6, <2>3 DEF TakeSlot
    <3>3. bucket' = bucket
      <4>1. bucket' = [bucket EXCEPT ![q].lock = NoFetcher]
        BY <1>6, <2>3 DEF TakeSlot
      <4>2. [bucket[q] EXCEPT !.lock = NoFetcher] = bucket[q]
        BY <1>1, <2>1 DEF BucketRecord
      <4>3. QED BY <1>1, <4>1, <4>2
    <3> HIDE DEF k
    <3>4. QED BY <1>4, <3>1, <3>2, <3>3
  <2>4. QED BY <2>2, <2>3
<1>7. ASSUME NEW f \in Fetcher, SendRequest(f) PROVE LimiterInv'
  <2> DEFINE k == [fetcher[f] EXCEPT !.pc = "sending"]
  <2>1. k \in FetcherRecord /\ k.pc = "sending" /\ k.queue = fetcher[f].queue
    BY <1>1 DEF FetcherRecord, FetcherPc
  <2>2. fetcher' = [fetcher EXCEPT ![f] = k] /\ UNCHANGED <<clock, bucket, quiet>>
    BY <1>7 DEF SendRequest
  <2> HIDE DEF k
  <2>3. /\ fetcher' \in [Fetcher -> FetcherRecord] /\ fetcher'[f] = k
        /\ \A g \in Fetcher : g # f => fetcher'[g] = fetcher[g]
    BY <1>1, <2>1, <2>2, FetcherMoves
  <2>4. LimiterTypeOK'
    BY <1>1, <2>2, <2>3 DEF LimiterTypeOK, FetcherRecord
  <2>5. SlotHeld'
    BY <1>1, <1>7, <2>1, <2>2, <2>3 DEF SlotHeld, In, SendRequest
  <2>6. QED BY <2>4, <2>5 DEF LimiterInv
\* The slot is left: nobody else was in it.
<1>8. ASSUME NEW f \in Fetcher, NEW delay \in Nat, NEW k \in FetcherRecord,
             In(f, "sending"), fetcher' = [fetcher EXCEPT ![f] = k],
             k.pc \notin {"sleeping", "sending"}, LeaveSlot(fetcher[f].queue, delay),
             clock' = clock
      PROVE  LimiterInv'
  <2> DEFINE q == fetcher[f].queue
  <2>1. q \in HostQueue /\ bucket[q].lock = f /\ quiet[q] =< bucket[q].ready
    BY <1>1, <1>8 DEF FetcherRecord, SlotHeld, In
  <2>2. LeaveSlot(q, delay)
    BY <1>8
  <2> HIDE DEF q
  <2>3. /\ bucket' \in [HostQueue -> BucketRecord] /\ quiet' \in [HostQueue -> Nat]
        /\ bucket'[q].lock = NoFetcher /\ quiet'[q] =< bucket'[q].ready
        /\ \A r \in HostQueue : r # q => bucket'[r] = bucket[r] /\ quiet'[r] = quiet[r]
    BY <1>1, <1>8, <2>1, <2>2, LeaveSlotFields
  <2>4. /\ fetcher' \in [Fetcher -> FetcherRecord] /\ fetcher'[f] = k
        /\ \A g \in Fetcher : g # f => fetcher'[g] = fetcher[g]
    BY <1>1, <1>8, FetcherMoves
  <2>5. LimiterTypeOK'
    BY <1>1, <1>8, <2>3, <2>4 DEF LimiterTypeOK, FetcherRecord, BucketRecord
  <2>6. \A g \in Fetcher : g # f /\ fetcher[g].pc \in {"sleeping", "sending"}
                            => fetcher[g].queue # q /\ fetcher[g].queue \in HostQueue
    BY <1>1, <2>1 DEF SlotHeld, FetcherRecord
  <2>7. SlotHeld'
    BY <1>1, <1>8, <2>3, <2>4, <2>6 DEF SlotHeld, In
  <2>8. QED BY <2>5, <2>7 DEF LimiterInv
<1>9. ASSUME NEW f \in Fetcher, NEW delay \in Delays, Busy(f, delay) PROVE LimiterInv'
  <2> DEFINE retries == delay <= MaxRetryWait /\ fetcher[f].attempt + 1 < RetryAttempts
  <2> DEFINE pc == IF retries THEN "queued" ELSE "done"
  <2> DEFINE n == IF retries THEN fetcher[f].attempt + 1 ELSE fetcher[f].attempt
  <2> DEFINE k == [fetcher[f] EXCEPT !.pc = pc, !.attempt = n, !.since = clock]
  <2>1. fetcher[f] \in FetcherRecord /\ pc \in {"queued", "done"} /\ n \in Nat
    BY <1>1 DEF FetcherRecord
  <2>2. /\ In(f, "sending") /\ LeaveSlot(fetcher[f].queue, delay) /\ clock' = clock
        /\ fetcher' = [fetcher EXCEPT ![f] = k]
    BY <1>9 DEF Busy
  <2> HIDE DEF pc, n
  <2>3. k \in FetcherRecord /\ k.pc = pc
    BY <1>1, <2>1 DEF FetcherRecord, FetcherPc
  <2> HIDE DEF k
  <2>4. delay \in Nat
    OBVIOUS
  <2>5. QED BY <1>8, <2>1, <2>2, <2>3, <2>4
<1>10. ASSUME NEW f \in Fetcher, NEW q \in HostQueue, Redirect(f, q) PROVE LimiterInv'
  <2> DEFINE follows == fetcher[f].hop < MaxRedirects
  <2> DEFINE pc == IF follows THEN "queued" ELSE "failed"
  <2> DEFINE n == IF follows THEN fetcher[f].hop + 1 ELSE fetcher[f].hop
  <2> DEFINE k == [fetcher[f] EXCEPT !.pc = pc, !.queue = q, !.hop = n, !.attempt = 0,
                                     !.since = clock]
  <2>1. fetcher[f] \in FetcherRecord /\ pc \in {"queued", "failed"} /\ n \in Nat
    BY <1>1 DEF FetcherRecord
  <2>2. /\ In(f, "sending") /\ LeaveSlot(fetcher[f].queue, 0) /\ clock' = clock
        /\ fetcher' = [fetcher EXCEPT ![f] = k]
    BY <1>10 DEF Redirect
  <2> HIDE DEF pc, n
  <2>3. k \in FetcherRecord /\ k.pc = pc
    BY <1>1, <2>1 DEF FetcherRecord, FetcherPc
  <2> HIDE DEF k
  <2>4. QED BY <1>8, <2>1, <2>2, <2>3
<1>11. ASSUME NEW f \in Fetcher, NEW pc \in {"done", "failed"}, Answered(f, pc) PROVE LimiterInv'
  <2> DEFINE k == [fetcher[f] EXCEPT !.pc = pc, !.attempt = 0, !.hop = 0]
  <2>1. k \in FetcherRecord /\ k.pc = pc
    BY <1>1 DEF FetcherRecord, FetcherPc
  <2>2. /\ In(f, "sending") /\ LeaveSlot(fetcher[f].queue, 0) /\ clock' = clock
        /\ fetcher' = [fetcher EXCEPT ![f] = k]
    BY <1>11 DEF Answered
  <2> HIDE DEF k
  <2>3. QED BY <1>8, <2>1, <2>2
<1>12. HostQueue # {}
  OBVIOUS
<1>13. QED
  BY <1>2, <1>3, <1>5, <1>6, <1>7, <1>9, <1>10, <1>11, <1>12 DEF LimiterNext

\* However calls queue, back off and follow redirects, in any number of threads, a host
\* is asked by one at a time and never before the time that its last answers allowed.
THEOREM LimiterSafety == LimiterSpec => []LimiterSound
<1>1. LimiterInv => LimiterSound
  <2> SUFFICES ASSUME LimiterInv, NEW q \in HostQueue
               PROVE  /\ Cardinality({f \in Fetcher : In(f, "sending") /\ fetcher[f].queue = q}) =< 1
                      /\ \A f \in Fetcher :
                            In(f, "sending") /\ fetcher[f].queue = q => clock >= quiet[q]
    BY DEF LimiterInv, LimiterSound, HostLeftInPeace
  <2> DEFINE S == {f \in Fetcher : In(f, "sending") /\ fetcher[f].queue = q}
  <2>1. S \subseteq {bucket[q].lock}
    BY DEF LimiterInv, SlotHeld, In
  <2>2. Cardinality(S) =< 1
    <3>1. IsFiniteSet({bucket[q].lock}) /\ Cardinality({bucket[q].lock}) = 1
      BY FS_Singleton
    <3>2. Cardinality(S) <= Cardinality({bucket[q].lock})
      BY <2>1, <3>1, FS_Subset
    <3>3. QED BY <3>1, <3>2
  <2>3. \A f \in Fetcher : In(f, "sending") /\ fetcher[f].queue = q => clock >= quiet[q]
    BY DEF LimiterInv, LimiterTypeOK, SlotHeld
  <2>4. QED BY <2>2, <2>3
<1>2. QED BY <1>1, InitLimiter, LimiterKept, PTL DEF LimiterSpec
-----------------------------------------------------------------------------
(***************************************************************************)
(* The screen of the literature broker                                     *)
(*                                                                         *)
(* The set that _screen computes is the smallest at which its loop can     *)
(* stop, hence holds the ids of every document that was withheld.  As long *)
(* as no two calls were inside _learn together, the ids that a finished    *)
(* screen withheld are in the learned set and in the compiled pattern, and *)
(* one call at most is between writing the one and compiling the other.    *)
(***************************************************************************)
HIDE HostLimiterAssumption
USE LiteratureAssumption

LitRecord == [pc : LitPc, docs : SUBSET Document, tainted : SUBSET WorkId,
              read : SUBSET WorkId, released : SUBSET Document, known : SUBSET WorkId]

\* A call inside _learn, and what it still has to write.
InLearn(c) == lit[c].pc \in {"write", "keys"}
HasToWrite(c) ==
    /\ lit[c].pc = "write" => /\ learned \subseteq lit[c].read
                              /\ lit[c].tainted \subseteq lit[c].read \cup BlockedIds
    /\ lit[c].pc = "keys" => lit[c].tainted \subseteq learned \cup BlockedIds

\* What calls that never overlapped inside _learn leave behind.
LearnedInTurn ==
    /\ \A a, b \in LitCall : InLearn(a) /\ InLearn(b) => a = b
    /\ \A c \in LitCall : HasToWrite(c)
    /\ withheldIds \subseteq BlockedIds \cup learned
    /\ withheldIds \subseteq keyPattern
    /\ (\A c \in LitCall : lit[c].pc # "keys") => BlockedIds \cup learned \subseteq keyPattern

\* The documents that a call shows, or is about to show.
ShownClean(c) ==
    lit[c].pc \in {"learn", "write", "keys", "done", "fetched"} =>
        \A d \in lit[c].released :
            /\ (NamingIds(c, d) \cup Mentions[d]) \cap Forbidden(c) = {}
            /\ NamingIds(c, d) \cap WithheldHere(c) = {}

LitInv ==
    /\ LiteratureTypeOK
    /\ BlockedIds \subseteq keyPattern
    /\ \A c \in LitCall : lit[c].known \subseteq withheldIds
    /\ ~overlapped => LearnedInTurn
    /\ ~overlapped /\ Benchmark => \A c \in LitCall : ShownClean(c)

\* The loop of _screen stops at a set that is closed under sharing an id.
LEMMA TaintedClosed ==
    ASSUME NEW docs \in SUBSET Document
    PROVE  /\ Tainted(docs) \subseteq WorkId
           /\ DirectHits(docs) \subseteq Tainted(docs)
           /\ \A d \in docs : RecordIds(d) \cap Tainted(docs) # {} =>
                                  RecordIds(d) \subseteq Tainted(docs)
<1>1. Tainted(docs) \subseteq WorkId
  BY DEF Tainted
<1>2. DirectHits(docs) \subseteq WorkId
  BY DEF DirectHits, RecordIds
<1>3. DirectHits(docs) \subseteq Tainted(docs)
  BY <1>2 DEF Tainted, Settled
<1>4. ASSUME NEW d \in docs, NEW i \in RecordIds(d), i \in Tainted(docs), NEW j \in RecordIds(d)
      PROVE  j \in Tainted(docs)
  <2>1. i \in WorkId /\ j \in WorkId
    BY DEF RecordIds
  <2>2. ASSUME NEW ids \in SUBSET WorkId, Settled(docs, ids) PROVE j \in ids
    <3>1. i \in ids
      BY <1>4, <2>2 DEF Tainted
    <3>2. QED BY <3>1, <2>2 DEF Settled
  <2>3. QED BY <2>1, <2>2 DEF Tainted
<1>5. QED BY <1>1, <1>3, <1>4

LEMMA InitLit == LiteratureInit => LitInv
<1> SUFFICES ASSUME LiteratureInit PROVE LitInv
  OBVIOUS
<1>1. NewCall \in LitRecord
  BY DEF NewCall, LitRecord, LitPc
<1>2. lit \in [LitCall -> LitRecord]
  BY <1>1 DEF LiteratureInit
<1>3. \A c \in LitCall : lit[c].pc = "new" /\ lit[c].known = {}
  BY DEF LiteratureInit, NewCall
<1>4. LiteratureTypeOK
  BY <1>2 DEF LiteratureInit, LiteratureTypeOK, LitRecord
<1>5. LearnedInTurn
  BY <1>3 DEF LiteratureInit, LearnedInTurn, InLearn, HasToWrite
<1>6. QED BY <1>3, <1>4, <1>5 DEF LitInv, ShownClean, LiteratureInit

\* A call moves: what is left to show is about its own record and the shared sets.
LEMMA CallMoves ==
    ASSUME LitInv, NEW c \in LitCall, NEW k \in LitRecord, lit' = [lit EXCEPT ![c] = k],
           broker' = broker, learned' \in SUBSET WorkId, keyPattern' \in SUBSET WorkId,
           withheldIds' \in SUBSET WorkId, overlapped' \in BOOLEAN,
           BlockedIds \subseteq keyPattern', k.known \subseteq withheldIds',
           withheldIds \subseteq withheldIds', overlapped => overlapped',
           ~overlapped' => LearnedInTurn',
           ~overlapped' /\ Benchmark => ShownClean(c)'
    PROVE  LitInv'
<1>1. lit \in [LitCall -> LitRecord]
  BY DEF LitInv, LiteratureTypeOK, LitRecord
<1>2. lit' \in [LitCall -> LitRecord] /\ lit'[c] = k
  BY <1>1
<1>3. \A b \in LitCall : b # c => lit'[b] = lit[b]
  BY <1>1
<1>4. LiteratureTypeOK'
  BY <1>2 DEF LitInv, LiteratureTypeOK, LitRecord
<1>5. (\A b \in LitCall : lit[b].known \subseteq withheldIds)'
  BY <1>2, <1>3 DEF LitInv
<1>6. ASSUME ~overlapped', Benchmark', NEW b \in LitCall PROVE ShownClean(b)'
  <2>1. CASE b = c
    BY <2>1, <1>6 DEF Benchmark
  <2>2. CASE b # c
    <3>1. ShownClean(b)
      BY <1>6 DEF LitInv, Benchmark
    <3>2. QED
      BY <3>1, <2>2, <1>3 DEF ShownClean, NamingIds, Forbidden, WithheldHere
  <2>3. QED BY <2>1, <2>2
<1>7. QED BY <1>4, <1>5, <1>6 DEF LitInv

\* A move outside _learn leaves what was learned in turn as it is.
LEMMA TurnKept ==
    ASSUME LitInv, NEW c \in LitCall, NEW k \in LitRecord, lit' = [lit EXCEPT ![c] = k],
           lit[c].pc \notin {"write", "keys"}, k.pc \notin {"write", "keys"},
           UNCHANGED <<learned, keyPattern, withheldIds, overlapped>>
    PROVE  ~overlapped' => LearnedInTurn'
<1>1. lit \in [LitCall -> LitRecord]
  BY DEF LitInv, LiteratureTypeOK, LitRecord
<1>2. lit'[c] = k /\ \A b \in LitCall : b # c => lit'[b] = lit[b]
  BY <1>1
<1>3. SUFFICES ASSUME ~overlapped' PROVE LearnedInTurn'
  OBVIOUS
<1>4. LearnedInTurn
  BY <1>3 DEF LitInv
<1>5. (\A a, b \in LitCall : InLearn(a) /\ InLearn(b) => a = b)'
  BY <1>2, <1>4 DEF LearnedInTurn, InLearn
<1>6. (\A b \in LitCall : HasToWrite(b))'
  BY <1>2, <1>4 DEF LearnedInTurn, HasToWrite
<1>7. ((\A b \in LitCall : lit[b].pc # "keys") => BlockedIds \cup learned \subseteq keyPattern)'
  <2>1. (\A b \in LitCall : lit'[b].pc # "keys") => \A b \in LitCall : lit[b].pc # "keys"
    BY <1>2
  <2>2. QED BY <2>1, <1>4 DEF LearnedInTurn
<1>8. QED BY <1>4, <1>5, <1>6, <1>7 DEF LearnedInTurn

\* What a benchmark run may show once nothing that was withheld is forgotten.
LEMMA KnownForbidden ==
    ASSUME LitInv, ~overlapped, NEW c \in LitCall
    PROVE  /\ Forbidden(c) \subseteq BlockedIds \cup learned
           /\ Forbidden(c) \subseteq keyPattern
BY DEF LitInv, LearnedInTurn, Forbidden

LEMMA LitKept == LitInv /\ [LiteratureNext]_litVars => LitInv'
<1> SUFFICES ASSUME LitInv, [LiteratureNext]_litVars PROVE LitInv'
  OBVIOUS
<1>1. /\ lit \in [LitCall -> LitRecord] /\ learned \subseteq WorkId /\ keyPattern \subseteq WorkId
      /\ withheldIds \subseteq WorkId /\ overlapped \in BOOLEAN
  BY DEF LitInv, LiteratureTypeOK, LitRecord
<1>2. \A b \in LitCall : lit[b] \in LitRecord
  BY <1>1
<1>3. ASSUME UNCHANGED litVars PROVE LitInv'
  BY <1>3 DEF litVars, LitInv, LiteratureTypeOK, LearnedInTurn, InLearn, HasToWrite,
              ShownClean, Benchmark, NamingIds, Forbidden, WithheldHere
\* The call starts, asks, fails or is refused: nothing is shown and nothing learned.
<1>4. ASSUME NEW c \in LitCall, NEW k \in LitRecord, lit' = [lit EXCEPT ![c] = k],
             UNCHANGED <<broker, learned, keyPattern, withheldIds, overlapped>>,
             lit[c].pc \in {"new", "asked", "page", "screen"}, k.known \subseteq withheldIds,
             k.pc \in {"asked", "screen", "page", "refused"}
      PROVE  LitInv'
  <2>1. ~overlapped' => LearnedInTurn'
    BY <1>4, TurnKept
  <2>2. lit'[c] = k
    BY <1>1, <1>4
  <2>3. ~overlapped' /\ Benchmark => ShownClean(c)'
    BY <1>4, <2>2 DEF ShownClean
  <2>4. BlockedIds \subseteq keyPattern'
    BY <1>4 DEF LitInv
  <2>5. QED BY <1>1, <1>4, <2>1, <2>3, <2>4, CallMoves
<1>5. ASSUME NEW c \in LitCall, Disabled(c) \/ CallFails(c) PROVE LitInv'
  <2> DEFINE k == [lit[c] EXCEPT !.pc = "refused"]
  <2>1. k \in LitRecord /\ k.pc = "refused" /\ k.known = lit[c].known
    BY <1>2 DEF LitRecord, LitPc
  <2>2. /\ lit' = [lit EXCEPT ![c] = k] /\ lit[c].pc \in {"new", "page"}
        /\ UNCHANGED <<broker, learned, keyPattern, withheldIds, overlapped>>
    BY <1>5 DEF Disabled, CallFails, Moves
  <2>3. lit[c].known \subseteq withheldIds
    BY DEF LitInv
  <2> HIDE DEF k
  <2>4. QED BY <1>4, <2>1, <2>2, <2>3
<1>6. ASSUME NEW c \in LitCall, Search(c) PROVE LitInv'
  <2> DEFINE k == [lit[c] EXCEPT !.pc = "asked", !.known = withheldIds]
  <2>1. k \in LitRecord /\ k.pc = "asked" /\ k.known = withheldIds
    BY <1>1, <1>2 DEF LitRecord, LitPc
  <2>2. /\ lit' = [lit EXCEPT ![c] = k] /\ lit[c].pc = "new"
        /\ UNCHANGED <<broker, learned, keyPattern, withheldIds, overlapped>>
    BY <1>6 DEF Search
  <2> HIDE DEF k
  <2>3. QED BY <1>4, <2>1, <2>2
<1>7. ASSUME NEW c \in LitCall, NEW docs \in ProviderRecords, Provider(c, docs) PROVE LitInv'
  <2> DEFINE k == [lit[c] EXCEPT !.docs = docs, !.pc = "screen"]
  <2>1. k \in LitRecord /\ k.pc = "screen" /\ k.known = lit[c].known
    BY <1>2 DEF LitRecord, LitPc, ProviderRecords
  <2>2. /\ lit' = [lit EXCEPT ![c] = k] /\ lit[c].pc = "asked"
        /\ UNCHANGED <<broker, learned, keyPattern, withheldIds, overlapped>>
    BY <1>7 DEF Provider
  <2>3. lit[c].known \subseteq withheldIds
    BY DEF LitInv
  <2> HIDE DEF k
  <2>4. QED BY <1>4, <2>1, <2>2, <2>3
<1>8. ASSUME NEW c \in LitCall, NEW d \in Document, Fetch(c, d) PROVE LitInv'
  <2>1. CASE SourceRefused(d) \/ ~Enabled
    <3> DEFINE k == [lit[c] EXCEPT !.pc = "refused"]
    <3>1. k \in LitRecord /\ k.pc = "refused" /\ k.known = lit[c].known
      BY <1>2 DEF LitRecord, LitPc
    <3>2. /\ lit' = [lit EXCEPT ![c] = k] /\ lit[c].pc = "new"
          /\ UNCHANGED <<broker, learned, keyPattern, withheldIds, overlapped>>
      BY <1>8, <2>1 DEF Fetch, Moves
    <3>3. lit[c].known \subseteq withheldIds
      BY DEF LitInv
    <3> HIDE DEF k
    <3>4. QED BY <1>4, <3>1, <3>2, <3>3
  <2>2. CASE ~(SourceRefused(d) \/ ~Enabled)
    <3> DEFINE k == [lit[c] EXCEPT !.pc = "page", !.known = withheldIds, !.docs = {d}]
    <3>1. k \in LitRecord /\ k.pc = "page" /\ k.known = withheldIds
      BY <1>1, <1>2 DEF LitRecord, LitPc
    <3>2. /\ lit' = [lit EXCEPT ![c] = k] /\ lit[c].pc = "new"
          /\ UNCHANGED <<broker, learned, keyPattern, withheldIds, overlapped>>
      BY <1>8, <2>2 DEF Fetch
    <3> HIDE DEF k
    <3>3. QED BY <1>4, <3>1, <3>2
  <2>3. QED BY <2>1, <2>2
\* The documents of a finished screen, and the page that a fetch reached.
<1>9. ASSUME NEW c \in LitCall, NEW k \in LitRecord, lit' = [lit EXCEPT ![c] = k],
             UNCHANGED <<broker, learned, keyPattern, withheldIds, overlapped>>,
             lit[c].pc \in {"page", "screen"}, k.known = lit[c].known,
             k.pc \in {"learn", "done", "fetched"},
             ~overlapped /\ Benchmark => ShownClean(c)'
      PROVE  LitInv'
  <2>1. ~overlapped' => LearnedInTurn'
    BY <1>9, TurnKept
  <2>2. BlockedIds \subseteq keyPattern' /\ k.known \subseteq withheldIds
    BY <1>9 DEF LitInv
  <2>3. QED BY <1>1, <1>9, <2>1, <2>2, CallMoves
<1>10. ASSUME NEW c \in LitCall, Screen(c) PROVE LitInv'
  <2> DEFINE docs == lit[c].docs
  <2> DEFINE tainted == IF Benchmark THEN Tainted(docs) ELSE {}
  <2> DEFINE kept == {d \in docs : Benchmark => ~ItemBlocked(d) /\ RecordIds(d) \cap tainted = {}}
  <2> DEFINE pc == IF Benchmark THEN "learn" ELSE "done"
  <2>1. PICK shown \in SUBSET kept :
            lit' = [lit EXCEPT ![c].pc = pc, ![c].tainted = tainted,
                               ![c].docs = docs \ kept, ![c].released = shown]
    BY <1>10 DEF Screen
  <2> DEFINE k == [lit[c] EXCEPT !.pc = pc, !.tainted = tainted, !.docs = docs \ kept,
                                 !.released = shown]
  <2>2. docs \subseteq Document
    BY <1>2 DEF LitRecord
  <2>3. tainted \subseteq WorkId
    BY <2>2, TaintedClosed
  <2>4. pc \in {"learn", "done"} /\ kept \subseteq docs
    OBVIOUS
  <2>5. /\ lit[c].pc = "screen"
        /\ UNCHANGED <<broker, learned, keyPattern, withheldIds, overlapped>>
    BY <1>10 DEF Screen
  <2>6. lit' = [lit EXCEPT ![c] = k]
    BY <2>1
  <2>7. ASSUME Benchmark, NEW d \in kept, NEW e \in docs \ kept
        PROVE  RecordIds(d) \cap RecordIds(e) = {}
    <3>1. tainted = Tainted(docs) /\ RecordIds(d) \cap tainted = {}
      BY <2>7
    <3>2. ItemBlocked(e) \/ RecordIds(e) \cap tainted # {}
      BY <2>7
    <3>3. CASE ItemBlocked(e)
      <4>1. RecordIds(e) \subseteq DirectHits(docs)
        BY <3>3, <2>7 DEF DirectHits
      <4>2. QED BY <4>1, <3>1, <2>2, TaintedClosed
    <3>4. CASE RecordIds(e) \cap tainted # {}
      <4>1. RecordIds(e) \subseteq Tainted(docs)
        BY <3>4, <3>1, <2>2, <2>7, TaintedClosed
      <4>2. QED BY <4>1, <3>1
    <3>5. QED BY <3>2, <3>3, <3>4
  <2>8. ASSUME Benchmark, ~overlapped, NEW d \in kept
        PROVE  (Identity[d] \cup Mentions[d]) \cap Forbidden(c) = {}
    <3>1. ~ItemBlocked(d)
      BY <2>8
    <3>2. Identity[d] \cap (BlockedIds \cup learned) = {} /\ Mentions[d] \cap keyPattern = {}
      BY <3>1 DEF ItemBlocked, RecordIds, PolicyIds, Contamination, KeyMatch
    <3>3. /\ Forbidden(c) \subseteq BlockedIds \cup learned
          /\ Forbidden(c) \subseteq keyPattern
      BY <2>8, KnownForbidden
    <3>4. QED BY <3>2, <3>3
  <2> HIDE DEF tainted, kept, pc
  <2>9. /\ k \in LitRecord /\ k.pc = pc /\ k.known = lit[c].known /\ k.released = shown
        /\ k.docs = docs \ kept
    <3>1. lit[c] \in LitRecord /\ shown \subseteq Document /\ docs \ kept \subseteq Document
      BY <1>2, <2>2, <2>4
    <3>2. k \in LitRecord
      BY <3>1, <2>3, <2>4 DEF LitRecord, LitPc
    <3>3. QED BY <3>1, <3>2 DEF LitRecord
  <2> HIDE DEF k, docs
  <2>10. lit'[c] = k
    BY <1>1, <2>6
  <2>11. ~overlapped /\ Benchmark => ShownClean(c)'
    <3> SUFFICES ASSUME ~overlapped, Benchmark,
                        NEW d \in shown
                 PROVE  /\ (Identity[d] \cup Mentions[d]) \cap (BlockedIds \cup k.known) = {}
                        /\ Identity[d] \cap UNION {Identity[e] : e \in k.docs} = {}
      BY <2>4, <2>9, <2>10 DEF ShownClean, NamingIds, Forbidden, WithheldHere
    <3>1. d \in kept
      BY <2>1
    <3>2. (Identity[d] \cup Mentions[d]) \cap (BlockedIds \cup k.known) = {}
      BY <3>1, <2>8, <2>9 DEF Forbidden
    <3>3. \A e \in k.docs : Identity[d] \cap Identity[e] = {}
      BY <3>1, <2>7, <2>9 DEF RecordIds
    <3>4. QED BY <3>2, <3>3
  <2>12. QED BY <1>9, <2>4, <2>5, <2>6, <2>9, <2>11
<1>11. ASSUME NEW c \in LitCall, NEW final \in Document, FetchPage(c, final) PROVE LitInv'
  <2>1. /\ lit[c].pc = "page"
        /\ UNCHANGED <<broker, learned, keyPattern, withheldIds, overlapped>>
    BY <1>11 DEF FetchPage
  <2>2. lit[c] \in LitRecord /\ lit[c].known \subseteq withheldIds
    BY <1>2 DEF LitInv
  <2>3. CASE Withholds(c, final)
    <3> DEFINE k == [lit[c] EXCEPT !.pc = "refused", !.docs = {}, !.released = {}]
    <3>1. lit' = [lit EXCEPT ![c] = k]
      BY <1>11, <2>3 DEF FetchPage
    <3>2. k \in LitRecord /\ k.pc = "refused" /\ k.known = lit[c].known
      BY <2>2 DEF LitRecord, LitPc
    <3> HIDE DEF k
    <3>3. QED BY <1>4, <2>1, <2>2, <3>1, <3>2
  <2>4. CASE ~Withholds(c, final)
    <3> DEFINE k == [lit[c] EXCEPT !.pc = "fetched", !.docs = {}, !.released = {final}]
    <3>1. lit' = [lit EXCEPT ![c] = k]
      BY <1>11, <2>4 DEF FetchPage
    <3>2. /\ k \in LitRecord /\ k.pc = "fetched" /\ k.known = lit[c].known
          /\ k.released = {final} /\ k.docs = {}
      BY <2>2 DEF LitRecord, LitPc
    <3> HIDE DEF k
    <3>3. lit'[c] = k
      BY <1>1, <3>1
    <3>4. ASSUME ~overlapped, Benchmark PROVE ShownClean(c)'
      <4>1. ~PageBlocked(final) /\ ~Contamination(final)
        BY <2>4, <3>4 DEF Withholds, SourceRefused
      <4>2. UrlIds[final] \cap (BlockedIds \cup learned) = {} /\ Mentions[final] \cap keyPattern = {}
        BY <4>1 DEF PageBlocked, UrlKeys, PolicyIds, Contamination, KeyMatch
      <4>3. /\ Forbidden(c) \subseteq BlockedIds \cup learned
            /\ Forbidden(c) \subseteq keyPattern
        BY <3>4, KnownForbidden
      <4>4. Forbidden(c)' = Forbidden(c) /\ WithheldHere(c)' = {}
        BY <3>2, <3>3 DEF Forbidden, WithheldHere
      <4>5. \A d : NamingIds(c, d)' = UrlIds[d]
        BY <3>2, <3>3 DEF NamingIds
      <4>6. QED BY <4>2, <4>3, <4>4, <4>5, <3>2, <3>3 DEF ShownClean
    <3>5. QED BY <1>9, <2>1, <3>1, <3>2, <3>4
  <2>5. QED BY <2>3, <2>4
\* A call inside _learn: what it shows does not change.
<1>12. ASSUME NEW c \in LitCall, NEW k \in LitRecord, lit' = [lit EXCEPT ![c] = k],
              broker' = broker, overlapped => overlapped',
              lit[c].pc \in {"learn", "write", "keys"}, k.pc \in {"write", "keys", "done"},
              k.known = lit[c].known, k.docs = lit[c].docs, k.released = lit[c].released
       PROVE  ~overlapped' /\ Benchmark => ShownClean(c)'
  <2> SUFFICES ASSUME ~overlapped', Benchmark PROVE ShownClean(c)'
    OBVIOUS
  <2>1. ShownClean(c)
    BY <1>12 DEF LitInv
  <2>2. lit'[c] = k
    BY <1>1, <1>12
  <2>3. Forbidden(c)' = Forbidden(c) /\ WithheldHere(c)' = WithheldHere(c)
    BY <1>12, <2>2 DEF Forbidden, WithheldHere
  <2>4. \A d : NamingIds(c, d)' = NamingIds(c, d)
    BY <1>12, <2>2 DEF NamingIds
  <2>5. QED BY <1>12, <2>1, <2>2, <2>3, <2>4 DEF ShownClean
<1>13. ASSUME NEW c \in LitCall, Learn(c) PROVE LitInv'
  <2> DEFINE fresh == lit[c].tainted \ (learned \cup PolicyIds)
  <2>1. /\ lit[c].pc = "learn" /\ UNCHANGED <<broker, learned, keyPattern>>
        /\ overlapped' = (overlapped \/ \E b \in LitCall : InLearn(b))
    BY <1>13 DEF Learn, InLearn
  <2>2. /\ lit[c] \in LitRecord /\ lit[c].tainted \subseteq WorkId
        /\ lit[c].known \subseteq withheldIds /\ BlockedIds \subseteq keyPattern
    BY <1>2 DEF LitInv, LitRecord
  <2>3. ASSUME ~overlapped'
        PROVE  /\ LearnedInTurn /\ \A b \in LitCall : ~InLearn(b)
               /\ BlockedIds \cup learned \subseteq keyPattern
    BY <2>1, <2>3 DEF LitInv, LearnedInTurn, InLearn
  <2>4. overlapped' \in BOOLEAN /\ (overlapped => overlapped')
    BY <1>1, <2>1
  <2>5. CASE fresh = {}
    <3> DEFINE k == [lit[c] EXCEPT !.pc = "done"]
    <3>1. lit' = [lit EXCEPT ![c] = k] /\ withheldIds' = withheldIds \cup lit[c].tainted
      BY <1>13, <2>5 DEF Learn
    <3>2. /\ k \in LitRecord /\ k.pc = "done" /\ k.known = lit[c].known
          /\ k.docs = lit[c].docs /\ k.released = lit[c].released
      BY <2>2 DEF LitRecord, LitPc
    <3> HIDE DEF k
    <3>3. lit'[c] = k /\ \A b \in LitCall : b # c => lit'[b] = lit[b]
      BY <1>1, <3>1
    <3>4. lit[c].tainted \subseteq BlockedIds \cup learned
      BY <2>5 DEF PolicyIds
    <3> HIDE DEF fresh
    <3>5. ASSUME ~overlapped' PROVE LearnedInTurn'
      <4>1. \A b \in LitCall : ~InLearn(b)'
        BY <2>3, <3>2, <3>3, <3>5 DEF InLearn
      <4>2. (\A b \in LitCall : HasToWrite(b))'
        BY <4>1 DEF HasToWrite, InLearn
      <4>3. /\ withheldIds' \subseteq BlockedIds \cup learned'
            /\ withheldIds' \subseteq keyPattern'
        BY <2>1, <2>3, <3>1, <3>4, <3>5 DEF LearnedInTurn
      <4>4. QED BY <4>1, <4>2, <4>3, <2>1, <2>3, <3>5 DEF LearnedInTurn
    <3>6. ~overlapped' /\ Benchmark => ShownClean(c)'
      BY <1>12, <2>1, <2>4, <3>1, <3>2
    <3>7. QED
      BY <1>1, <2>1, <2>2, <2>4, <3>1, <3>2, <3>5, <3>6, CallMoves
  <2>6. CASE fresh # {}
    <3> DEFINE k == [lit[c] EXCEPT !.pc = "write", !.read = learned \cup fresh]
    <3>1. lit' = [lit EXCEPT ![c] = k] /\ withheldIds' = withheldIds
      BY <1>13, <2>6 DEF Learn
    <3>2. fresh \subseteq WorkId
      BY <2>2
    <3>3. lit[c].tainted \subseteq (learned \cup fresh) \cup BlockedIds
      BY DEF PolicyIds
    <3> HIDE DEF fresh
    <3>4. /\ k \in LitRecord /\ k.pc = "write" /\ k.known = lit[c].known
          /\ k.docs = lit[c].docs /\ k.released = lit[c].released
          /\ k.read = learned \cup fresh /\ k.tainted = lit[c].tainted
      BY <1>1, <2>2, <3>2 DEF LitRecord, LitPc
    <3> HIDE DEF k
    <3>5. lit'[c] = k /\ \A b \in LitCall : b # c => lit'[b] = lit[b]
      BY <1>1, <3>1
    <3>6. ASSUME ~overlapped' PROVE LearnedInTurn'
      <4>1. \A b \in LitCall : b # c => ~InLearn(b)'
        BY <2>3, <3>5, <3>6 DEF InLearn
      <4>2. (\A a, b \in LitCall : InLearn(a) /\ InLearn(b) => a = b)'
        BY <4>1
      <4>3. HasToWrite(c)'
        BY <2>1, <3>3, <3>4, <3>5 DEF HasToWrite
      <4>4. \A b \in LitCall : b # c => HasToWrite(b)'
        BY <4>1 DEF HasToWrite, InLearn
      <4>5. /\ withheldIds' \subseteq BlockedIds \cup learned'
            /\ withheldIds' \subseteq keyPattern'
        BY <2>1, <2>3, <3>1, <3>6 DEF LearnedInTurn
      <4>6. (\A b \in LitCall : HasToWrite(b))'
        BY <4>3, <4>4
      <4>7. QED BY <4>2, <4>5, <4>6, <2>1, <2>3, <3>6 DEF LearnedInTurn
    <3>7. ~overlapped' /\ Benchmark => ShownClean(c)'
      BY <1>12, <2>1, <2>4, <3>1, <3>4
    <3>8. QED
      BY <1>1, <2>1, <2>2, <2>4, <3>1, <3>4, <3>6, <3>7, CallMoves
  <2>7. QED BY <2>5, <2>6
<1>14. ASSUME NEW c \in LitCall, LearnWrite(c) PROVE LitInv'
  <2> DEFINE k == [lit[c] EXCEPT !.pc = "keys"]
  <2>1. /\ lit[c].pc = "write" /\ UNCHANGED <<broker, keyPattern, withheldIds, overlapped>>
        /\ learned' = lit[c].read /\ lit' = [lit EXCEPT ![c] = k]
    BY <1>14 DEF LearnWrite, Moves
  <2>2. /\ lit[c] \in LitRecord /\ lit[c].read \subseteq WorkId
        /\ lit[c].known \subseteq withheldIds /\ BlockedIds \subseteq keyPattern
    BY <1>2 DEF LitInv, LitRecord
  <2>3. /\ k \in LitRecord /\ k.pc = "keys" /\ k.known = lit[c].known
        /\ k.docs = lit[c].docs /\ k.released = lit[c].released
        /\ k.tainted = lit[c].tainted
    BY <2>2 DEF LitRecord, LitPc
  <2> HIDE DEF k
  <2>4. lit'[c] = k /\ \A b \in LitCall : b # c => lit'[b] = lit[b]
    BY <1>1, <2>1
  <2>5. ASSUME ~overlapped' PROVE LearnedInTurn'
    <3>1. /\ LearnedInTurn /\ \A b \in LitCall : b # c => ~InLearn(b)
          /\ learned \subseteq lit[c].read /\ lit[c].tainted \subseteq lit[c].read \cup BlockedIds
      BY <2>1, <2>5 DEF LitInv, LearnedInTurn, InLearn, HasToWrite
    <3>2. \A b \in LitCall : b # c => ~InLearn(b)'
      BY <2>4, <3>1 DEF InLearn
    <3>3. (\A a, b \in LitCall : InLearn(a) /\ InLearn(b) => a = b)'
      BY <3>2
    <3>4. HasToWrite(c)'
      BY <2>1, <2>3, <2>4, <3>1 DEF HasToWrite
    <3>5. \A b \in LitCall : b # c => HasToWrite(b)'
      BY <3>2 DEF HasToWrite, InLearn
    <3>6. (\A b \in LitCall : HasToWrite(b))'
      BY <3>4, <3>5
    <3>7. /\ withheldIds' \subseteq BlockedIds \cup learned'
          /\ withheldIds' \subseteq keyPattern'
      BY <2>1, <3>1 DEF LearnedInTurn
    <3>8. ~ \A b \in LitCall : lit'[b].pc # "keys"
      BY <2>3, <2>4
    <3>9. QED BY <3>3, <3>6, <3>7, <3>8 DEF LearnedInTurn
  <2>6. ~overlapped' /\ Benchmark => ShownClean(c)'
    BY <1>12, <2>1, <2>3
  <2>7. QED
    BY <1>1, <2>1, <2>2, <2>3, <2>5, <2>6, CallMoves
<1>15. ASSUME NEW c \in LitCall, LearnKeys(c) PROVE LitInv'
  <2> DEFINE k == [lit[c] EXCEPT !.pc = "done"]
  <2>1. /\ lit[c].pc = "keys" /\ UNCHANGED <<broker, learned, overlapped>>
        /\ keyPattern' = BlockedIds \cup learned /\ lit' = [lit EXCEPT ![c] = k]
        /\ withheldIds' = withheldIds \cup lit[c].tainted
    BY <1>15 DEF LearnKeys, Moves, PolicyIds
  <2>2. /\ lit[c] \in LitRecord /\ lit[c].tainted \subseteq WorkId
        /\ lit[c].known \subseteq withheldIds
    BY <1>2 DEF LitInv, LitRecord
  <2>3. /\ k \in LitRecord /\ k.pc = "done" /\ k.known = lit[c].known
        /\ k.docs = lit[c].docs /\ k.released = lit[c].released
    BY <2>2 DEF LitRecord, LitPc
  <2> HIDE DEF k
  <2>4. lit'[c] = k /\ \A b \in LitCall : b # c => lit'[b] = lit[b]
    BY <1>1, <2>1
  <2>5. ASSUME ~overlapped' PROVE LearnedInTurn'
    <3>1. /\ LearnedInTurn /\ \A b \in LitCall : b # c => ~InLearn(b)
          /\ lit[c].tainted \subseteq learned \cup BlockedIds
      BY <2>1, <2>5 DEF LitInv, LearnedInTurn, InLearn, HasToWrite
    <3>2. \A b \in LitCall : ~InLearn(b)'
      BY <2>3, <2>4, <3>1 DEF InLearn
    <3>3. (\A b \in LitCall : HasToWrite(b))'
      BY <3>2 DEF HasToWrite, InLearn
    <3>4. /\ withheldIds' \subseteq BlockedIds \cup learned'
          /\ withheldIds' \subseteq keyPattern'
      BY <2>1, <3>1 DEF LearnedInTurn
    <3>5. QED BY <2>1, <3>2, <3>3, <3>4 DEF LearnedInTurn
  <2>6. ~overlapped' /\ Benchmark => ShownClean(c)'
    BY <1>12, <2>1, <2>3
  <2>7. QED
    BY <1>1, <2>1, <2>2, <2>3, <2>5, <2>6, CallMoves
<1>16. QED
  BY <1>3, <1>5, <1>6, <1>7, <1>8, <1>10, <1>11, <1>13, <1>14, <1>15 DEF LiteratureNext

\* Whatever the providers answer and wherever redirects lead, a benchmark run never sees a
\* blocked work nor a copy of a work that was withheld, in any number of searches and
\* fetches, as long as no two were inside _learn together.
THEOREM LiteratureSafety == LiteratureSpec => []LiteratureSound
<1>1. LitInv => LiteratureSound
  <2> SUFFICES ASSUME LitInv, Benchmark, ~overlapped, NEW c \in LitCall, NEW d \in Released(c)
               PROVE  /\ (NamingIds(c, d) \cup Mentions[d]) \cap Forbidden(c) = {}
                      /\ NamingIds(c, d) \cap WithheldHere(c) = {}
    BY DEF LitInv, LiteratureSound, CopiesWithheld
  <2>1. ShownClean(c)
    BY DEF LitInv
  <2>2. lit[c].pc \in {"done", "fetched"} /\ d \in lit[c].released
    BY DEF Released
  <2>3. QED BY <2>1, <2>2 DEF ShownClean
<1>2. QED BY <1>1, InitLit, LitKept, PTL DEF LiteratureSpec
=============================================================================
