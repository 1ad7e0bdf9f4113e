------------------------------ MODULE Hungarian ------------------------------
(***************************************************************************)
(* The assignment solver of the multi-object tracker                       *)
(* (the hungarian functions of dristy/dristy_tracker.c).  The tracker      *)
(* fills an n x n matrix with the cost of giving a detection (column) to a *)
(* track (row), COST_INF where the pair is gated out or padding, and runs  *)
(* Munkres' steps on it under an 8-bit iteration budget.  One action is    *)
(* one step of the solver, so that the loops, the budget and the reuse of  *)
(* the one static work area are visible.                                   *)
(*                                                                         *)
(* Rows and columns are 0..n-1 as in the code.  star_row and star_col of   *)
(* the code are each other's inverse: StarRow is derived from starCol.     *)
(***************************************************************************)
EXTENDS Integers, FiniteSets, FiniteSetsExt, TLC

CONSTANTS
    Sizes,          \* the matrix sizes a call may have
    Costs(_)        \* the costs of gated-in pairs in a matrix of that size

\* Cost of a gated-out pair: the largest int16_t.
COST_INF == 32767

\* The iteration budget is a uint8_t.
BudgetWrap == 256

NoCol == -1

ASSUME HungarianAssumption ==
    /\ Sizes \subseteq Nat \ {0}
    /\ \A n \in Sizes : Costs(n) \subseteq 0 .. (COST_INF - 1)

VARIABLES
    phase,      \* the step the solver executes next
    n,          \* order of the matrix
    given,      \* the caller's cost matrix
    work,       \* hungarian_t.cost, reduced in place
    starCol,    \* row -> column of its starred zero, or NoCol
    primeCol,   \* row -> column of its primed zero, or NoCol
    rowCover, colCover,
    budget,     \* max_iter
    uncoveredZero, \* row of the primed zero step 5 starts from
    result      \* row -> assigned column, or NoCol

vars == <<phase, n, given, work, starCol, primeCol, rowCover, colCover,
          budget, uncoveredZero, result>>

Index == 0 .. (n - 1)

Int16(i) == ((i + 32768) % 65536) - 32768

Lowest(S) == IF S = {} THEN COST_INF ELSE Min(S)

StarRow(c) ==
    IF \E r \in Index : starCol[r] = c
    THEN CHOOSE r \in Index : /\ starCol[r] = c
                              /\ \A q \in Index : starCol[q] = c => q <= r
    ELSE NoCol

Blank(k) == [r \in 0 .. (k - 1) |-> NoCol]

Init ==
    /\ phase = "idle"
    /\ n = 0
    /\ given = <<>>
    /\ work = <<>>
    /\ starCol = <<>> /\ primeCol = <<>>
    /\ rowCover = {} /\ colCover = {}
    /\ budget = 0
    /\ uncoveredZero = NoCol
    /\ result = <<>>

-----------------------------------------------------------------------------
(* The steps *)

\* Step 1: every row with a positive finite minimum loses it; gated cells stay.
ReducedRows(m, k) ==
    LET least == [r \in 0 .. (k - 1) |-> Lowest({m[<<r, c>>] : c \in 0 .. (k - 1)})]
    IN  [cell \in DOMAIN m |-> IF m[cell] < COST_INF THEN m[cell] - least[cell[1]] ELSE COST_INF]

\* Step 2: row by row, star the first zero whose column has no star yet.
GreedyStars(m, k) ==
    LET stars[r \in 0 .. k] ==
            IF r = 0 THEN Blank(k)
            ELSE LET before == stars[r - 1]
                     free == {c \in 0 .. (k - 1) :
                                /\ m[<<r - 1, c>>] = 0
                                /\ \A q \in 0 .. (k - 1) : before[q] # c}
                 IN  IF free = {} THEN before
                     ELSE [before EXCEPT ![r - 1] = Min(free)]
    IN  stars[k]

\* hungarian_solve is called: the static work area is cleared and loaded, and
\* steps 1 and 2 run; n * n * 2 is truncated to eight bits.
Solve(k, m) ==
    /\ n' = k
    /\ given' = m
    /\ work' = ReducedRows(m, k)
    /\ starCol' = GreedyStars(work', k)
    /\ primeCol' = Blank(k)
    /\ rowCover' = {} /\ colCover' = {}
    /\ budget' = (k * k * 2) % BudgetWrap
    /\ uncoveredZero' = NoCol
    /\ result' = Blank(k)
    /\ phase' = "cover"

\* The head of the outer loop: the budget is tested and spent, the columns of
\* the starred zeros are covered, and n of them end the search (step 3).
CoverStarredColumns ==
    /\ phase = "cover"
    /\ IF budget = 0
       THEN /\ phase' = "finish"
            /\ budget' = BudgetWrap - 1
            /\ UNCHANGED colCover
       ELSE /\ budget' = budget - 1
            /\ colCover' = {starCol[r] : r \in Index} \ {NoCol}
            /\ phase' = IF Cardinality({r \in Index : starCol[r] # NoCol}) >= n
                        THEN "finish" ELSE "prime"
    /\ UNCHANGED <<n, given, work, starCol, primeCol, rowCover, uncoveredZero, result>>

UncoveredZeros ==
    {cell \in Index \X Index :
        cell[1] \notin rowCover /\ cell[2] \notin colCover /\ work[cell] = 0}

\* The first uncovered zero in row-major order.
FirstUncoveredZero ==
    CHOOSE z \in UncoveredZeros :
        \A y \in UncoveredZeros : z[1] < y[1] \/ (z[1] = y[1] /\ z[2] <= y[2])

\* Mutant: a primed row with a star ends the search.
PrimeZeroOnce ==
    /\ phase = "prime"
    /\ UncoveredZeros # {}
    /\ LET r == FirstUncoveredZero[1]
       IN  /\ primeCol' = [primeCol EXCEPT ![r] = FirstUncoveredZero[2]]
           /\ uncoveredZero' = r
           /\ phase' = IF starCol[r] # NoCol \/ budget = 0 THEN "finish" ELSE "augment"
    /\ UNCHANGED <<n, given, work, starCol, rowCover, colCover, budget, result>>

\* Step 4, one round of its loop: prime the first uncovered zero.  If its row
\* has a star, swap the covers and look again; otherwise an augmenting path
\* starts here, unless the budget is spent.
PrimeZero ==
    /\ phase = "prime"
    /\ UncoveredZeros # {}
    /\ LET r == FirstUncoveredZero[1]
           c == FirstUncoveredZero[2]
       IN  /\ primeCol' = [primeCol EXCEPT ![r] = c]
           /\ IF starCol[r] # NoCol
              THEN /\ rowCover' = rowCover \union {r}
                   /\ colCover' = colCover \ {starCol[r]}
                   /\ UNCHANGED <<phase, uncoveredZero>>
              ELSE /\ uncoveredZero' = r
                   /\ phase' = IF budget = 0 THEN "finish" ELSE "augment"
                   /\ UNCHANGED <<rowCover, colCover>>
    /\ UNCHANGED <<n, given, work, starCol, budget, result>>

UncoveredMinimum ==
    Lowest({work[cell] : cell \in (Index \ rowCover) \X (Index \ colCover)})

\* Step 6: the smallest uncovered value moves from the uncovered cells to the
\* doubly covered ones, in 16 bits; nothing moves when it is COST_INF.
AdjustedCosts(least) ==
    [cell \in DOMAIN work |->
        CASE cell[1] \in rowCover /\ cell[2] \in colCover -> Int16(work[cell] + least)
          [] cell[1] \notin rowCover /\ cell[2] \notin colCover -> Int16(work[cell] - least)
          [] OTHER -> work[cell]]

\* Step 4 found no uncovered zero: step 6 runs, and the round is paid for.
AdjustCosts ==
    /\ phase = "prime"
    /\ UncoveredZeros = {}
    /\ LET least == UncoveredMinimum
       IN  work' = IF least > 0 /\ least < COST_INF THEN AdjustedCosts(least) ELSE work
    /\ IF budget = 0
       THEN phase' = "finish" /\ UNCHANGED budget
       ELSE budget' = budget - 1 /\ UNCHANGED phase
    /\ UNCHANGED <<n, given, starCol, primeCol, rowCover, colCover, uncoveredZero, result>>

\* The rows of the alternating path: from a primed zero to the star in its
\* column, to the prime in that star's row.
PathRows ==
    LET reach[k \in 0 .. n] ==
            IF k = 0 THEN {uncoveredZero}
            ELSE reach[k - 1] \union ({StarRow(primeCol[r]) : r \in reach[k - 1]} \ {NoCol})
    IN  reach[n]

\* Step 5: along the path primes become stars and stars are removed; covers
\* and primes are cleared.
Augment ==
    /\ phase = "augment"
    /\ starCol' = [r \in Index |-> IF r \in PathRows THEN primeCol[r] ELSE starCol[r]]
    /\ primeCol' = Blank(n)
    /\ rowCover' = {} /\ colCover' = {}
    /\ phase' = "cover"
    /\ UNCHANGED <<n, given, work, budget, uncoveredZero, result>>

\* The stars are read out; one on a gated pair of the caller's matrix is dropped.
ReadResult ==
    /\ phase = "finish"
    /\ result' = [r \in Index |->
                    IF starCol[r] # NoCol /\ given[<<r, starCol[r]>>] < COST_INF
                    THEN starCol[r] ELSE NoCol]
    /\ phase' = "done"
    /\ UNCHANGED <<n, given, work, starCol, primeCol, rowCover, colCover,
                   budget, uncoveredZero>>

\* The tracker has used the assignment.  What is left in the work area is
\* forgotten: hungarian_init clears it before the next call.
Return ==
    /\ phase = "done"
    /\ phase' = "idle"
    /\ n' = 0 /\ given' = <<>> /\ work' = <<>>
    /\ starCol' = <<>> /\ primeCol' = <<>>
    /\ rowCover' = {} /\ colCover' = {}
    /\ budget' = 0 /\ uncoveredZero' = NoCol /\ result' = <<>>

Step == CoverStarredColumns \/ PrimeZero \/ AdjustCosts \/ Augment \/ ReadResult \/ Return

Next ==
    \/ /\ phase = "idle"
       /\ \E k \in Sizes : \E m \in [(0..k-1) \X (0..k-1) -> Costs(k) \union {COST_INF}] :
            Solve(k, m)
    \/ Step

\* The solver is straight-line code on one core: it keeps running.
Spec == Init /\ [][Next]_vars /\ WF_vars(Step)

-----------------------------------------------------------------------------
(* Properties *)

\* The pairs an assignment makes.  Every way of matching tracks to detections
\* is what is left of a permutation when its gated pairs are dropped.
Matched(p) == {r \in Index : p[r] # NoCol /\ given[<<r, p[r]>>] < COST_INF}

Total(p) == MapThenSumSet(LAMBDA r : given[<<r, p[r]>>], Matched(p))

\* What the tracker relies on.  It indexes a track and a detection with every
\* assigned pair, so that a detection given to two tracks, or to a track it is
\* gated from, would update the wrong filter (dristy_tracker_update, passes 1
\* and 2).  And the search does not give up while another track could still be
\* matched, although gated cells are reduced like costs, wrap in 16 bits, and
\* make the solver spin: no assignment matches more tracks.
AssignmentIsMaximum ==
    phase = "done" =>
        /\ \A r \in Index : result[r] # NoCol =>
              /\ given[<<r, result[r]>>] < COST_INF
              /\ \A q \in Index \ {r} : result[q] # result[r]
        /\ \A p \in Permutations(Index) :
              Cardinality(Matched(p)) <= Cardinality(Matched(result))

\* "Hungarian (Munkres) optimal assignment - globally optimal matching"
\* (dristy_tracker.h): among the assignments that match as many tracks, none
\* has a lower total cost.
GloballyOptimal ==
    phase = "done" =>
        \A p \in Permutations(Index) :
            Cardinality(Matched(p)) = Cardinality(Matched(result)) => Total(result) <= Total(p)

\* Every call returns: the rounds in which step 6 finds only gated cells change
\* nothing, and only the budget ends them.
SolverReturns == phase = "cover" ~> phase = "done"

=============================================================================
