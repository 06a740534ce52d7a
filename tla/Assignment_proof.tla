--------------------------- MODULE Assignment_proof ---------------------------
(***************************************************************************)
(* The solver places every row once, each row pays least for its column at *)
(* the current prices, and the pairing it ends with is the cheapest; no    *)
(* step is idle, and no walk along a path takes as many turns as there are *)
(* columns: for every number of tracks and detections, all costs and any   *)
(* even limit.                                                             *)
(***************************************************************************)
EXTENDS Assignment, FiniteSetTheorems, SequenceTheorems, TLAPS

Placing == {"rows", "start", "find", "scan", "flip", "done"}
Paths   == [d : [Cols -> Int], pred : [Cols -> Cols], ready : SUBSET Cols,
            level : SUBSET Cols, scan : SUBSET Cols, min : Int]

Sizes == nr \in Nat \ {0} /\ nc \in Nat \ {0}

Shape ==
  /\ phase \in Placing \cup {"reduce", "claim", "transfer"}
  /\ cost \in [Cols -> [Cols -> Int]]
  /\ x \in [Cols -> 0..n] /\ y \in [Cols -> 0..n] /\ v \in [Cols -> Int]
  /\ unique \subseteq Cols /\ free \in Seq(Cols)
  /\ current \in 0..n /\ kept \in 0..current /\ rr \in Nat /\ pass \in 0..2
  /\ path = NoPath \/ (path \in Paths /\ path.scan \subseteq path.level)
  /\ col \in 0..n

(* What lapjv puts around the costs.                                       *)
Bordered ==
  \A i, j \in Cols :
    /\ i <= nr /\ j > nc => cost[i][j] = Limit \div 2
    /\ i > nr /\ j <= nc => cost[i][j] = Limit \div 2
    /\ i > nr /\ j > nc => cost[i][j] = 0

(* Column j is the cheapest for row i at the prices w.                     *)
Cheapest(w, i, j) == \A k \in Cols : cost[i][j] - w[j] <= cost[i][k] - w[k]

(* Where the loops stand.                                                  *)
Loops ==
  /\ phase \in {"reduce", "claim"} => free = <<>> /\ current = 0
  /\ phase = "transfer" => Len(free) <= current
  /\ phase \in {"rows", "start"} => current <= Len(free)
  /\ phase \in {"find", "scan", "flip"} => current < Len(free) /\ path \in Paths
  /\ phase = "done" => current = Len(free)
  /\ phase # "rows" => kept = 0
  /\ phase \in {"reduce", "claim", "transfer", "rows"} => pass < 2
  /\ Len(free) <= n

(* After the column reduction no price is above a cost of its column.      *)
Fallen == \A i, j \in Cols : v[j] <= cost[i][j]
Claiming ==
  phase = "claim" =>
    Fallen /\ \A j \in Cols : y[j] \in Cols /\ v[j] = cost[y[j]][j]

(* During the transfer the rows looked at that have no column are free.    *)
Transferring ==
  phase = "transfer" =>
    /\ Fallen
    /\ \A i \in Cols : x[i] # 0 => y[x[i]] = i /\ Cheapest(v, i, x[i])
    /\ \A j \in Cols : y[j] # 0 => x[y[j]] = j
    /\ \A i \in current + 1..n : x[i] # 0 => v[x[i]] = cost[i][x[i]]
    /\ \A k \in 1..Len(free) : free[k] <= current /\ x[free[k]] = 0
    /\ \A i \in 1..current : x[i] = 0 => \E k \in 1..Len(free) : free[k] = i
    /\ \A k, m \in 1..Len(free) : free[k] = free[m] => k = m

Open == (1..kept) \cup (current + 1..Len(free))

(* A row is placed where it pays least, and only once; a column under way  *)
(* to another row is nobody's.                                             *)
Placed ==
  phase \in Placing =>
    /\ \A i \in Cols \ Waiting :
         x[i] \in Cols /\ y[x[i]] = i /\ Cheapest(v, i, x[i])
    /\ \A j \in Cols : y[j] # 0 => \/ phase = "flip" /\ j = col
                                   \/ y[j] \notin Waiting /\ x[y[j]] = j
    /\ \A k, m \in Open : free[k] = free[m] => k = m
    /\ phase = "flip" => \A i \in Cols \ Waiting : x[i] # col

Root       == free[current + 1]
Near(p)    == p.ready \cup p.level
Via(p, l, j) == p.d[l] + (cost[y[l]][j] - v[j]) - (cost[y[l]][l] - v[l])

(* The distances of p are those of the ways through the columns S, and its *)
(* predecessors are on such ways.                                          *)
Shortest(p, S) ==
  /\ p.ready \subseteq S /\ S \subseteq Near(p)
  /\ \A l \in S : y[l] # 0
  /\ \A l \in S : \A j \in Cols : p.d[j] <= Via(p, l, j)
  /\ \A j \in Cols : p.d[j] <= cost[Root][j] - v[j]
  /\ \A j \in Cols :
       \/ p.pred[j] = Root /\ p.d[j] = cost[Root][j] - v[j]
       \/ \E l \in S : p.pred[j] = y[l] /\ p.d[j] = Via(p, l, j)

(* The columns are reached in the order of their distance.                 *)
Ordered(p) ==
  /\ \A j \in p.ready : p.d[j] <= p.min
  /\ \A j \in p.level : p.d[j] = p.min
  /\ \A j \in Cols \ Near(p) : p.min <= p.d[j]

Searching ==
  phase \in {"find", "scan"} =>
    /\ Shortest(path, Looked)
    /\ Near(path) = {} \/ Ordered(path)
    /\ path.ready \cap path.level = {}
    /\ \A j \in Near(path) : y[j] # 0
    /\ phase = "find" => path.scan = {}
    /\ phase = "scan" => Near(path) # {}

(* Every column the way back to the root comes to is the cheapest for its  *)
(* predecessor.                                                            *)
Flipping ==
  phase = "flip" =>
    LET pred == path.pred IN
    /\ col \in Cols /\ Cheapest(v, pred[col], col)
    /\ \A j \in Cols :
         pred[j] = Root \/ /\ pred[j] \notin Waiting
                           /\ Cheapest(v, pred[x[pred[j]]], x[pred[j]])

IInv == Sizes /\ Shape /\ Bordered /\ Loops /\ Claiming /\ Transferring /\ Placed
        /\ Searching /\ Flipping

-----------------------------------------------------------------------------
(* Every nonempty set of naturals has a least element.                     *)
LEMMA LeastNatural ==
  ASSUME NEW S \in SUBSET Nat, S # {}
  PROVE  \E m \in S : \A k \in S : m <= k
<1>1. PICK m \in S : \A k \in S : <<k, m>> \notin OpToRel(<, Nat)
  BY NatLessThanWellFounded, WFMin
<1>2. \A k \in S : ~(k < m)
  BY <1>1 DEF OpToRel
<1> QED
  BY <1>2

(* Induction over the naturals, as a fact about sets.                      *)
LEMMA SetInduction ==
  ASSUME NEW S, 0 \in S, \A k \in Nat : k \in S => k + 1 \in S
  PROVE  Nat \subseteq S
<1> SUFFICES ASSUME Nat \ S # {} PROVE FALSE
  OBVIOUS
<1>1. PICK m \in Nat \ S : \A k \in Nat \ S : m <= k
  BY LeastNatural
<1>2. m # 0 /\ m - 1 \in Nat
  BY <1>1
<1>3. m - 1 \in S
  BY <1>1, <1>2
<1> QED
  BY <1>1, <1>2, <1>3

(* A function with integer values has a least one on a nonempty finite set *)
(* of indices.                                                             *)
LEMMA LeastExists ==
  ASSUME NEW N \in Nat, NEW f \in [1..N -> Int], NEW S \in SUBSET (1..N), S # {}
  PROVE  \E j \in S : \A k \in S : f[j] <= f[k]
<1> DEFINE Reaches(m) == \/ S \cap 1..m = {}
                         \/ \E j \in S : \A k \in S \cap 1..m : f[j] <= f[k]
           G == {m \in Nat : m <= N => Reaches(m)}
<1>1. Reaches(0)
  OBVIOUS
<1>2. ASSUME NEW m \in Nat, m + 1 <= N, Reaches(m) PROVE Reaches(m + 1)
  <2>1. Reaches(m)
    BY <1>2
  <2>2. CASE m + 1 \notin S
    <3>1. S \cap 1..(m + 1) = S \cap 1..m
      BY <2>2
    <3> QED
      BY <2>1, <3>1
  <2>3. CASE m + 1 \in S /\ S \cap 1..m = {}
    <3>1. S \cap 1..(m + 1) = {m + 1}
      BY <2>3
    <3> QED
      BY <2>3, <3>1
  <2>4. CASE m + 1 \in S /\ S \cap 1..m # {}
    <3>1. PICK j \in S : \A k \in S \cap 1..m : f[j] <= f[k]
      BY <2>1, <2>4
    <3>2. \A k \in S \cap 1..(m + 1) : k \in S \cap 1..m \/ k = m + 1
      OBVIOUS
    <3>3. f[j] \in Int /\ \A k \in S : f[k] \in Int
      OBVIOUS
    <3>4. CASE f[j] <= f[m + 1]
      BY <3>1, <3>2, <3>4
    <3>5. CASE f[m + 1] < f[j]
      <4>1. \A k \in S \cap 1..(m + 1) : f[m + 1] <= f[k]
        BY <2>4, <3>1, <3>2, <3>3, <3>5
      <4> QED
        BY <2>4, <4>1
    <3>6. f[j] <= f[m + 1] \/ f[m + 1] < f[j]
      <4>1. f[j] \in Int /\ f[m + 1] \in Int
        BY <2>4
      <4> QED
        BY <4>1
    <3> QED
      BY <3>4, <3>5, <3>6
  <2> QED
    BY <2>2, <2>3, <2>4
<1>3. Nat \subseteq G
  <2> HIDE DEF Reaches
  <2>1. 0 \in G
    BY <1>1
  <2>2. \A m \in Nat : m \in G => m + 1 \in G
    BY <1>2
  <2> HIDE DEF G
  <2> QED
    BY <2>1, <2>2, SetInduction
<1>4. Reaches(N)
  <2> HIDE DEF Reaches
  <2> QED
    BY <1>3
<1>5. S \cap 1..N = S
  OBVIOUS
<1> QED
  BY <1>4, <1>5

LEMMA LeastIs ==
  ASSUME NEW N \in Nat, NEW f \in [1..N -> Int], NEW S \in SUBSET (1..N), S # {}
  PROVE  /\ \A j \in S : Least(f, S) <= f[j]
         /\ \E j \in S : Least(f, S) = f[j]
         /\ Least(f, S) \in Int
<1>1. PICK j \in S : \A k \in S : f[j] <= f[k]
  BY LeastExists
<1>2. /\ Least(f, S) \in {f[k] : k \in S}
      /\ \A k \in S : Least(f, S) <= f[k]
  BY <1>1 DEF Least
<1> QED
  BY <1>2

LEMMA FirstMinIs ==
  ASSUME NEW N \in Nat, NEW f \in [1..N -> Int], NEW S \in SUBSET (1..N), S # {}
  PROVE  /\ FirstMin(f, S) \in S /\ \A k \in S : f[FirstMin(f, S)] <= f[k]
         /\ \A k \in S : f[k] = f[FirstMin(f, S)] => FirstMin(f, S) <= k
<1>1. PICK j \in S : \A k \in S : f[j] <= f[k]
  BY LeastExists
<1>2. PICK m \in {k \in S : f[k] = f[j]} : \A k \in {i \in S : f[i] = f[j]} : m <= k
  <2> DEFINE T == {k \in S : f[k] = f[j]}
  <2>1. j \in T
    OBVIOUS
  <2>2. \A k \in T : k \in Nat
    OBVIOUS
  <2> HIDE DEF T
  <2>3. \E i \in T : \A k \in T : i <= k
    BY <2>1, <2>2, LeastNatural
  <2> QED
    BY <2>3 DEF T
<1>3. /\ m \in S /\ \A k \in S : f[m] <= f[k]
      /\ \A k \in S : f[k] = f[m] => m <= k
  BY <1>1, <1>2
<1> QED
  BY <1>3 DEF FirstMin

LEMMA HighestIs ==
  ASSUME NEW N \in Nat, NEW S \in SUBSET (1..N)
  PROVE  /\ Highest(S) \in 0..N
         /\ Highest(S) = 0 <=> S = {}
         /\ S # {} => Highest(S) \in S /\ \A k \in S : k <= Highest(S)
<1>1. CASE S = {}
  BY <1>1 DEF Highest
<1>2. CASE S # {}
  <2> DEFINE f == [j \in 1..N |-> -j]
  <2>1. f \in [1..N -> Int]
    OBVIOUS
  <2>2. PICK j \in S : \A k \in S : f[j] <= f[k]
    BY <1>2, <2>1, LeastExists
  <2>3. \A k \in S : k <= j
    <3>1. \A k \in 1..N : f[k] = -k
      OBVIOUS
    <3> HIDE DEF f
    <3> QED
      BY <2>2, <3>1
  <2>4. Highest(S) \in S /\ \A k \in S : k <= Highest(S)
    BY <1>2, <2>3 DEF Highest
  <2>5. Highest(S) \in 1..N
    BY <2>4
  <2> QED
    BY <1>2, <2>4, <2>5
<1> QED
  BY <1>1, <1>2

-----------------------------------------------------------------------------
LEMMA Indices == Sizes => /\ n \in Nat \ {0, 1} /\ Cols = 1..n
                          /\ nr \in Cols /\ nc \in Cols /\ n = nr + nc
BY DEF Sizes, n, Cols

LEMMA Fixed ==
  [Next]_vars => /\ nr' = nr /\ nc' = nc /\ cost' = cost
                 /\ n' = n /\ Cols' = Cols
BY DEF Next, Step, vars, ColumnReduction, Claim, Transfer, TransferEnds,
       RowReduction, PassEnds, StartPath, AllPlaced, FindNearest, ScanColumn,
       Flip, Done, n, Cols

LEMMA ReducedType ==
  ASSUME IInv, NEW i \in Cols
  PROVE  /\ Reduced(i) \in [1..n -> Int]
         /\ \A j \in Cols : Reduced(i)[j] = cost[i][j] - v[j]
<1>1. cost[i] \in [Cols -> Int] /\ v \in [Cols -> Int]
  BY DEF IInv, Shape
<1>2. \A j \in Cols : cost[i][j] - v[j] \in Int
  BY <1>1
<1> QED
  BY <1>2 DEF Reduced, Cols

LEMMA InitHolds == Init => IInv
<1> SUFFICES ASSUME Init PROVE IInv
  OBVIOUS
<1>1. Sizes
  BY AssignmentAssumption DEF Init, Sizes
<1>2. PICK c \in [1..nr -> [1..nc -> Costs]] : cost = Extended(c, nr, nc)
  BY DEF Init
<1>3. Limit \div 2 \in Int
  BY AssignmentAssumption
<1>4. /\ cost = [i \in Cols |-> [j \in Cols |->
                   IF i <= nr /\ j <= nc THEN c[i][j]
                   ELSE IF i > nr /\ j > nc THEN 0 ELSE Limit \div 2]]
  BY <1>2 DEF Extended, Cols, n
<1>5. \A i, j \in Cols : i <= nr /\ j <= nc => c[i][j] \in Int
  <2> SUFFICES ASSUME NEW i \in Cols, NEW j \in Cols, i <= nr, j <= nc
               PROVE  c[i][j] \in Int
    OBVIOUS
  <2>1. i \in 1..nr /\ j \in 1..nc
    BY <1>1 DEF Cols, n, Sizes
  <2>2. c[i][j] \in Costs
    BY <2>1
  <2>3. \A e \in Costs : e \in Int
    BY AssignmentAssumption
  <2> QED
    BY <2>2, <2>3
<1>6. cost \in [Cols -> [Cols -> Int]]
  BY <1>3, <1>4, <1>5
<1>7. Bordered
  BY <1>1, <1>4 DEF Bordered, Cols, Sizes, n
<1>8. Shape /\ Loops
  BY <1>1, <1>6, Indices DEF Init, Shape, Loops, Placing
<1>9. Claiming /\ Transferring /\ Placed /\ Searching /\ Flipping
  BY DEF Init, Claiming, Transferring, Placed, Searching, Flipping, Placing
<1> QED
  BY <1>1, <1>7, <1>8, <1>9 DEF IInv

LEMMA ColumnReductionHolds ==
  ASSUME IInv, ColumnReduction
  PROVE  IInv'
<1>0. /\ nr' = nr /\ nc' = nc /\ cost' = cost /\ n' = n /\ Cols' = Cols
  BY Fixed DEF Next, Step
<1>1. Sizes /\ n \in Nat /\ Cols = 1..n /\ Cols # {}
  BY Indices DEF IInv
<1>2. ASSUME NEW j \in Cols
      PROVE  /\ y'[j] \in Cols /\ v'[j] \in Int /\ v'[j] = cost[y'[j]][j]
             /\ \A i \in Cols : v'[j] <= cost[i][j]
  <2> DEFINE f == [i \in Cols |-> cost[i][j]]
  <2>1. f \in [1..n -> Int] /\ \A i \in Cols : f[i] = cost[i][j]
    BY <1>1 DEF IInv, Shape
  <2>2. y'[j] = FirstMin(f, Cols) /\ v'[j] = Least(f, Cols)
    BY DEF ColumnReduction
  <2> HIDE DEF f
  <2>3. /\ y'[j] \in Cols /\ \A k \in Cols : f[y'[j]] <= f[k]
    BY <1>1, <2>1, <2>2, FirstMinIs
  <2>4. /\ \A k \in Cols : v'[j] <= f[k]
        /\ \E k \in Cols : v'[j] = f[k]
        /\ v'[j] \in Int
    <3>1. Cols \in SUBSET (1..n)
      BY <1>1
    <3>2. /\ \A k \in Cols : Least(f, Cols) <= f[k]
          /\ \E k \in Cols : Least(f, Cols) = f[k]
          /\ Least(f, Cols) \in Int
      BY <1>1, <2>1, <3>1, LeastIs
    <3> QED
      BY <2>2, <3>2
  <2>5. v'[j] = f[y'[j]]
    BY <2>1, <2>3, <2>4, <1>1
  <2> QED
    BY <2>1, <2>3, <2>4, <2>5
<1>3. y' \in [Cols -> 0..n] /\ v' \in [Cols -> Int]
  <2>1. y' = [j \in Cols |-> y'[j]] /\ v' = [j \in Cols |-> v'[j]]
    BY DEF ColumnReduction
  <2>2. \A j \in Cols : y'[j] \in 0..n
    BY <1>1, <1>2
  <2> QED
    BY <1>2, <2>1, <2>2
<1>4. Shape'
  BY <1>0, <1>1, <1>3 DEF ColumnReduction, IInv, Shape, Placing, Paths
<1>5. Claiming'
  BY <1>0, <1>2 DEF Claiming, Fallen
<1>6. phase = "reduce" /\ phase' = "claim" /\ UNCHANGED <<free, current, kept, pass>>
  BY DEF ColumnReduction
<1>7. Loops'
  BY <1>0, <1>6 DEF IInv, Loops
<1>8. Transferring' /\ Placed' /\ Searching' /\ Flipping'
  BY <1>6 DEF Transferring, Placed, Searching, Flipping, Placing
<1> QED
  BY <1>0, <1>4, <1>5, <1>7, <1>8 DEF IInv, Sizes, Bordered

LEMMA ClaimHolds ==
  ASSUME IInv, Claim
  PROVE  IInv'
<1>0. /\ nr' = nr /\ nc' = nc /\ cost' = cost /\ n' = n /\ Cols' = Cols
  BY Fixed DEF Next, Step
<1>1. Sizes /\ n \in Nat /\ Cols = 1..n /\ Cols # {}
  BY Indices DEF IInv
<1>2. /\ phase = "claim" /\ phase' = "transfer" /\ v' = v
      /\ UNCHANGED <<free, current, kept, rr, pass, path, col>>
  BY DEF Claim
<1>3. /\ Fallen /\ \A j \in Cols : y[j] \in Cols /\ v[j] = cost[y[j]][j]
      /\ free = <<>> /\ current = 0
  BY <1>2 DEF IInv, Claiming, Loops
<1>4. ASSUME NEW i \in Cols
      PROVE  /\ x'[i] \in 0..n /\ x'[i] = Highest(Wanting(i))
             /\ x'[i] # 0 => x'[i] \in Cols /\ y[x'[i]] = i
  <2>1. x'[i] = Highest(Wanting(i)) /\ Wanting(i) \in SUBSET (1..n)
    BY <1>1 DEF Claim, Wanting
  <2>2. Highest(Wanting(i)) # 0 => Highest(Wanting(i)) \in Wanting(i)
    BY <1>1, <2>1, HighestIs
  <2> QED
    BY <1>1, <2>1, <2>2, HighestIs DEF Wanting
<1>5. \A j \in Cols : y'[j] = IF x'[y[j]] = j THEN y[j] ELSE 0
  BY <1>3, <1>4 DEF Claim
<1>6. x' \in [Cols -> 0..n] /\ y' \in [Cols -> 0..n] /\ unique' \subseteq Cols
  <2>1. x' \in [Cols -> 0..n]
    BY <1>4 DEF Claim
  <2>2. \A j \in Cols : y'[j] \in 0..n
    BY <1>1, <1>3, <1>5
  <2>3. y' = [j \in Cols |-> y'[j]] /\ unique' \subseteq Cols
    BY DEF Claim
  <2> QED
    BY <2>1, <2>2, <2>3
<1>7. Shape'
  BY <1>0, <1>2, <1>6 DEF IInv, Shape, Placing, Paths
<1>8. Loops'
  BY <1>0, <1>2 DEF IInv, Loops
<1>9. Transferring'
  <2>1. \A i \in Cols : x'[i] # 0 => y'[x'[i]] = i /\ v[x'[i]] = cost[i][x'[i]]
    BY <1>3, <1>4, <1>5
  <2>2. \A j \in Cols : y'[j] # 0 => x'[y'[j]] = j
    BY <1>5
  <2>3. ASSUME NEW i \in Cols, x'[i] # 0 PROVE Cheapest(v, i, x'[i])
    <3> SUFFICES ASSUME NEW k \in Cols
                 PROVE  cost[i][x'[i]] - v[x'[i]] <= cost[i][k] - v[k]
      BY DEF Cheapest
    <3>1. /\ cost[i][x'[i]] = v[x'[i]] /\ v[k] <= cost[i][k]
          /\ x'[i] \in Cols
      BY <1>3, <1>4, <2>1, <2>3 DEF Fallen
    <3>2. v[k] \in Int /\ cost[i][k] \in Int /\ v[x'[i]] \in Int
      BY <3>1 DEF IInv, Shape
    <3> QED
      BY <3>1, <3>2
  <2>4. Fallen'
    BY <1>0, <1>2, <1>3 DEF Fallen
  <2>5. \A i \in Cols : x'[i] # 0 => Cheapest(v, i, x[i])'
    BY <1>0, <1>2, <2>3 DEF Cheapest
  <2> QED
    BY <1>0, <1>1, <1>2, <1>3, <2>1, <2>2, <2>4, <2>5 DEF Transferring
<1>10. Claiming' /\ Placed' /\ Searching' /\ Flipping'
  BY <1>2 DEF Claiming, Placed, Searching, Flipping, Placing
<1> QED
  BY <1>0, <1>7, <1>8, <1>9, <1>10 DEF IInv, Sizes, Bordered

(* The price of the column a row has goes down; no other row has it.       *)
LEMMA TransferPrice ==
  ASSUME IInv, Transfer
  PROVE  /\ v' \in [Cols -> Int] /\ Fallen'
         /\ \A i \in Cols : x[i] # 0 => Cheapest(v', i, x[i])
         /\ \A i \in current + 2..n : x[i] # 0 => v'[x[i]] = cost[i][x[i]]
         /\ \A k \in Cols : v'[k] <= v[k] /\ (y[k] = 0 => v'[k] = v[k])
<1>0. /\ nr' = nr /\ nc' = nc /\ cost' = cost /\ n' = n /\ Cols' = Cols
  BY Fixed DEF Next, Step
<1>1. Sizes /\ n \in Nat \ {0, 1} /\ Cols = 1..n /\ current \in Nat
  BY Indices DEF IInv, Shape
<1>2. /\ phase = "transfer" /\ current + 1 \in Cols
  BY <1>1 DEF Transfer
<1>3. /\ Fallen
      /\ \A i \in Cols : x[i] # 0 => y[x[i]] = i /\ Cheapest(v, i, x[i])
      /\ \A i \in current + 1..n : x[i] # 0 => v[x[i]] = cost[i][x[i]]
      /\ v \in [Cols -> Int] /\ cost \in [Cols -> [Cols -> Int]] /\ x \in [Cols -> 0..n]
  BY <1>2 DEF IInv, Transferring, Shape
<1>4. CASE UNCHANGED v
  <2>1. \A k \in Cols : v'[k] <= v[k]
    BY <1>3, <1>4
  <2> QED
    BY <1>0, <1>1, <1>3, <1>4, <2>1 DEF Fallen
<1>5. CASE /\ x[current + 1] # 0
           /\ v' = [v EXCEPT ![x[current + 1]] =
                      @ - Least(Reduced(current + 1), Cols \ {x[current + 1]})]
  <2> DEFINE i == current + 1
             j == x[i]
             mu == Least(Reduced(i), Cols \ {j})
  <2>1. j \in Cols /\ y[j] = i /\ v[j] = cost[i][j] /\ i \in Cols
    <3>1. i \in Cols /\ i \in current + 1..n
      BY <1>1, <1>2
    <3>2. x[i] # 0 /\ x[i] \in 0..n
      BY <1>3, <1>5, <3>1
    <3>3. x[i] \in Cols
      BY <1>1, <3>2
    <3> QED
      BY <1>3, <3>1, <3>2, <3>3
  <2>2. Cols \ {j} \in SUBSET (1..n) /\ Cols \ {j} # {}
    <3> HIDE DEF j
    <3>1. 1 \in Cols /\ 2 \in Cols /\ 1 # 2
      BY <1>1
    <3> QED
      BY <1>1, <3>1
  <2>3. /\ \A k \in Cols \ {j} : mu <= Reduced(i)[k]
        /\ mu \in Int /\ \E k \in Cols \ {j} : mu = Reduced(i)[k]
    <3>1. Reduced(i) \in [1..n -> Int]
      BY <2>1, ReducedType
    <3> QED
      BY <1>1, <2>2, <3>1, LeastIs
  <2> HIDE DEF mu
  <2>4. \A k \in Cols \ {j} : mu <= cost[i][k] - v[k]
    BY <2>1, <2>3, ReducedType
  <2>5. mu >= 0
    <3>1. PICK k \in Cols \ {j} : mu = cost[i][k] - v[k]
      BY <2>1, <2>3, ReducedType
    <3>2. v[k] <= cost[i][k] /\ v[k] \in Int /\ cost[i][k] \in Int
      BY <1>3, <2>1 DEF Fallen
    <3> QED
      BY <3>1, <3>2
  <2>6. v' = [v EXCEPT ![j] = @ - mu]
    BY <1>5 DEF mu
  <2>7. /\ v' \in [Cols -> Int]
        /\ \A k \in Cols : v'[k] = IF k = j THEN v[j] - mu ELSE v[k]
        /\ \A k \in Cols : v'[k] <= v[k] /\ v[k] \in Int /\ v'[k] \in Int
    BY <1>3, <2>1, <2>3, <2>5, <2>6
  <2>8. Fallen'
    <3> SUFFICES ASSUME NEW r \in Cols, NEW k \in Cols PROVE v'[k] <= cost[r][k]
      BY <1>0 DEF Fallen
    <3>1. v[k] <= cost[r][k] /\ cost[r][k] \in Int
      BY <1>3 DEF Fallen
    <3> QED
      BY <2>7, <3>1
  <2>9. ASSUME NEW r \in Cols, x[r] # 0, r # i
        PROVE  x[r] # j /\ x[r] \in Cols
    <3>1. x[r] \in 0..n /\ y[x[r]] = r
      BY <1>3, <2>9
    <3>2. x[r] \in Cols
      BY <1>1, <2>9, <3>1
    <3> QED
      BY <2>1, <2>9, <3>1, <3>2
  <2>10. ASSUME NEW r \in Cols, x[r] # 0 PROVE Cheapest(v', r, x[r])
    <3> SUFFICES ASSUME NEW k \in Cols
                 PROVE  cost[r][x[r]] - v'[x[r]] <= cost[r][k] - v'[k]
      BY DEF Cheapest
    <3>1. cost[r][k] \in Int /\ cost[r][j] \in Int
      BY <1>3, <2>1
    <3>2. CASE r = i
      <4>1. x[r] = j /\ cost[r][j] = v[j] /\ v[j] \in Int /\ v'[j] = v[j] - mu
        BY <2>1, <2>7, <3>2
      <4>2. CASE k = j
        <5>1. cost[r][x[r]] - v'[x[r]] = cost[r][k] - v'[k] /\ v'[k] \in Int
          BY <2>7, <4>1, <4>2
        <5> QED
          BY <3>1, <5>1
      <4>3. CASE k # j
        <5>1. v'[k] = v[k] /\ v[k] \in Int /\ mu <= cost[r][k] - v[k]
          BY <2>4, <2>7, <3>2, <4>3
        <5> QED
          BY <2>3, <3>1, <4>1, <5>1
      <4> QED
        BY <4>2, <4>3
    <3>3. CASE r # i
      <4>1. x[r] # j /\ x[r] \in Cols
        BY <2>9, <2>10, <3>3
      <4>2. cost[r][x[r]] - v[x[r]] <= cost[r][k] - v[k]
        BY <1>3, <2>10 DEF Cheapest
      <4>3. cost[r][x[r]] \in Int
        BY <1>3, <4>1
      <4> QED
        BY <2>7, <3>1, <4>1, <4>2, <4>3
    <3> QED
      BY <3>2, <3>3
  <2>11. ASSUME NEW r \in current + 2..n, x[r] # 0
         PROVE  v'[x[r]] = cost[r][x[r]]
    <3>1. r \in Cols /\ r # i /\ r \in current + 1..n
      BY <1>1
    <3>2. x[r] # j /\ x[r] \in Cols
      BY <2>9, <2>11, <3>1
    <3> QED
      BY <1>3, <2>7, <2>11, <3>1, <3>2
  <2>12. \A k \in Cols : v'[k] <= v[k] /\ (y[k] = 0 => v'[k] = v[k])
    <3>1. 0 \notin Cols
      BY <1>1
    <3> HIDE DEF i, j
    <3> QED
      BY <2>1, <2>7, <3>1
  <2> QED
    BY <2>7, <2>8, <2>10, <2>11, <2>12
<1> QED
  BY <1>4, <1>5 DEF Transfer

LEMMA TransferHolds ==
  ASSUME IInv, Transfer
  PROVE  IInv'
<1>0. /\ nr' = nr /\ nc' = nc /\ cost' = cost /\ n' = n /\ Cols' = Cols
  BY Fixed DEF Next, Step
<1>1. Sizes /\ n \in Nat \ {0, 1} /\ Cols = 1..n /\ current \in Nat
  BY Indices DEF IInv, Shape
<1>2. /\ phase = "transfer" /\ current < n /\ current' = current + 1
      /\ UNCHANGED <<phase, x, y, unique, kept, rr, pass, path, col>>
      /\ kept = 0 /\ Len(free) <= current
  BY DEF Transfer, IInv, Loops
<1>3. /\ \A i \in Cols : x[i] # 0 => y[x[i]] = i
      /\ \A j \in Cols : y[j] # 0 => x[y[j]] = j
      /\ \A k \in 1..Len(free) : free[k] <= current /\ x[free[k]] = 0
      /\ \A i \in 1..current : x[i] = 0 => \E k \in 1..Len(free) : free[k] = i
      /\ \A k, m \in 1..Len(free) : free[k] = free[m] => k = m
      /\ free \in Seq(Cols)
  BY <1>2 DEF IInv, Transferring, Shape
<1>4. /\ free' \in Seq(Cols) /\ Len(free') <= current'
      /\ \A k \in 1..Len(free') : free'[k] <= current' /\ x[free'[k]] = 0
      /\ \A i \in 1..current' : x[i] = 0 => \E k \in 1..Len(free') : free'[k] = i
      /\ \A k, m \in 1..Len(free') : free'[k] = free'[m] => k = m
  <2>1. CASE x[current + 1] # 0 /\ UNCHANGED free
    <3>1. \A i \in 1..(current + 1) : i \in 1..current \/ i = current + 1
      BY <1>1
    <3>2. \A k \in 1..Len(free) : free[k] \in Int
      BY <1>1, <1>3
    <3> QED
      BY <1>1, <1>2, <1>3, <2>1, <3>1, <3>2
  <2>2. CASE x[current + 1] = 0 /\ free' = Append(free, current + 1)
    <3>1. /\ free' \in Seq(Cols) /\ Len(free') = Len(free) + 1
          /\ free'[Len(free) + 1] = current + 1
          /\ \A k \in 1..Len(free) : free'[k] = free[k]
          /\ Len(free) \in Nat
      BY <1>1, <1>2, <1>3, <2>2
    <3>2. \A k \in 1..Len(free') : k \in 1..Len(free) \/ k = Len(free) + 1
      BY <3>1
    <3>3. \A i \in 1..(current + 1) : i \in 1..current \/ i = current + 1
      BY <1>1
    <3>4. \A k \in 1..Len(free) : free[k] \in Int
      BY <1>1, <1>3
    <3>5. \A k \in 1..Len(free') : free'[k] <= current' /\ x[free'[k]] = 0
      BY <1>1, <1>2, <1>3, <2>2, <3>1, <3>2, <3>4
    <3>6. \A i \in 1..current' : x[i] = 0 => \E k \in 1..Len(free') : free'[k] = i
      <4> SUFFICES ASSUME NEW i \in 1..(current + 1), x[i] = 0
                   PROVE  \E k \in 1..Len(free') : free'[k] = i
        BY <1>2
      <4>1. CASE i = current + 1
        BY <3>1, <4>1
      <4>2. CASE i \in 1..current
        <5>1. PICK k \in 1..Len(free) : free[k] = i
          BY <1>3, <4>2
        <5> QED
          BY <3>1, <5>1
      <4> QED
        BY <3>3, <4>1, <4>2
    <3>7. \A k, m \in 1..Len(free') : free'[k] = free'[m] => k = m
      <4> SUFFICES ASSUME NEW k \in 1..Len(free'), NEW m \in 1..Len(free'),
                          free'[k] = free'[m]
                   PROVE  k = m
        OBVIOUS
      <4>1. \A l \in 1..Len(free) : free'[l] < free'[Len(free) + 1]
        <5> SUFFICES ASSUME NEW l \in 1..Len(free)
                     PROVE  free'[l] < free'[Len(free) + 1]
          OBVIOUS
        <5>1. free'[l] = free[l] /\ free[l] \in Int /\ free[l] <= current
          BY <1>3, <3>1, <3>4
        <5>2. free'[Len(free) + 1] = current + 1
          BY <3>1
        <5> QED
          BY <1>1, <5>1, <5>2
      <4>2. CASE k = Len(free) + 1
        BY <1>1, <3>1, <3>2, <4>1, <4>2
      <4>3. CASE m = Len(free) + 1
        BY <1>1, <3>1, <3>2, <4>1, <4>3
      <4>4. CASE k \in 1..Len(free) /\ m \in 1..Len(free)
        BY <1>3, <3>1, <4>4
      <4> QED
        BY <3>2, <4>2, <4>3, <4>4
    <3> QED
      BY <1>1, <1>2, <3>1, <3>5, <3>6, <3>7
  <2> QED
    BY <2>1, <2>2 DEF Transfer
<1>5. Shape'
  <2>1. current' \in 0..n /\ kept' \in 0..current'
    BY <1>0, <1>1, <1>2
  <2>2. v' \in [Cols -> Int]
    BY TransferPrice
  <2> QED
    BY <1>0, <1>2, <1>4, <2>1, <2>2 DEF IInv, Shape, Paths
<1>6. Loops'
  BY <1>0, <1>1, <1>2, <1>4 DEF IInv, Loops
<1>7. Transferring'
  <2>1. \A i \in Cols : x[i] # 0 => Cheapest(v, i, x[i])'
    BY <1>0, <1>2, TransferPrice DEF Cheapest
  <2>2. current' + 1 = current + 2
    BY <1>1, <1>2
  <2> QED
    BY <1>0, <1>1, <1>2, <1>3, <1>4, <2>1, <2>2, TransferPrice DEF Transferring
<1>8. Claiming' /\ Placed' /\ Searching' /\ Flipping'
  BY <1>2 DEF Claiming, Placed, Searching, Flipping, Placing
<1> QED
  BY <1>0, <1>5, <1>6, <1>7, <1>8 DEF IInv, Sizes, Bordered

LEMMA TransferEndsHolds ==
  ASSUME IInv, TransferEnds
  PROVE  IInv'
<1>0. /\ nr' = nr /\ nc' = nc /\ cost' = cost /\ n' = n /\ Cols' = Cols
  BY Fixed DEF Next, Step
<1>1. Sizes /\ n \in Nat \ {0, 1} /\ Cols = 1..n
  BY Indices DEF IInv
<1>2. /\ phase = "transfer" /\ current = n /\ current' = 0 /\ kept = 0
      /\ UNCHANGED <<x, y, v, unique, free, kept, rr, pass, path, col>>
      /\ phase' \in {"done", "rows"} /\ (phase' = "done" => free = <<>>)
  BY DEF TransferEnds, IInv, Loops
<1>3. /\ \A i \in Cols : x[i] # 0 => y[x[i]] = i /\ Cheapest(v, i, x[i])
      /\ \A j \in Cols : y[j] # 0 => x[y[j]] = j
      /\ \A k \in 1..Len(free) : free[k] <= current /\ x[free[k]] = 0
      /\ \A i \in 1..current : x[i] = 0 => \E k \in 1..Len(free) : free[k] = i
      /\ \A k, m \in 1..Len(free) : free[k] = free[m] => k = m
      /\ free \in Seq(Cols) /\ x \in [Cols -> 0..n] /\ y \in [Cols -> 0..n]
  BY <1>2 DEF IInv, Transferring, Shape
<1>4. Len(free) \in Nat /\ Open' = 1..Len(free)
  BY <1>2, <1>3 DEF Open
<1>5. Waiting' = {free[k] : k \in 1..Len(free)}
  BY <1>2, <1>4 DEF Waiting, Open
<1>6. \A i \in Cols : i \in Waiting' <=> x[i] = 0
  <2>1. \A k \in 1..Len(free) : x[free[k]] = 0
    BY <1>3
  <2>2. \A i \in Cols : x[i] = 0 => \E k \in 1..Len(free) : free[k] = i
    BY <1>1, <1>2, <1>3
  <2> QED
    BY <1>5, <2>1, <2>2
<1>7. Placed'
  <2>1. \A i \in Cols \ Waiting' : x[i] \in Cols /\ y[x[i]] = i /\ Cheapest(v, i, x[i])'
    <3> TAKE i \in Cols \ Waiting'
    <3>1. x[i] # 0 /\ x[i] \in 0..n
      BY <1>3, <1>6
    <3>2. x[i] \in Cols /\ y[x[i]] = i /\ Cheapest(v, i, x[i])
      BY <1>1, <1>3, <3>1
    <3> QED
      BY <1>0, <1>2, <3>2 DEF Cheapest
  <2>2. \A j \in Cols : y[j] # 0 => y[j] \notin Waiting' /\ x[y[j]] = j
    BY <1>1, <1>3, <1>6
  <2> QED
    BY <1>0, <1>2, <1>3, <1>4, <2>1, <2>2 DEF Placed
<1>8. Shape' /\ Loops'
  <2>1. current' \in 0..n /\ kept' \in 0..current'
    BY <1>0, <1>1, <1>2
  <2>2. Shape'
    <3>1. Shape
      BY DEF IInv
    <3>2. phase' \in Placing
      BY <1>2 DEF Placing
    <3>3. path' = NoPath \/ (path' \in Paths' /\ path'.scan \subseteq path'.level)
      BY <1>0, <1>2, <3>1 DEF Shape, Paths
    <3> QED
      BY <1>0, <1>2, <2>1, <3>1, <3>2, <3>3 DEF Shape
  <2>3. Len(free) <= n /\ pass < 2
    BY <1>2 DEF IInv, Loops
  <2>4. phase' = "done" => Len(free) = 0
    BY <1>2
  <2>5. Loops'
    BY <1>0, <1>2, <1>4, <2>3, <2>4 DEF Loops
  <2> QED
    BY <2>2, <2>5
<1>9. Claiming' /\ Transferring' /\ Searching' /\ Flipping'
  BY <1>2 DEF Claiming, Transferring, Searching, Flipping
<1> QED
  BY <1>0, <1>7, <1>8, <1>9 DEF IInv, Sizes, Bordered

(* Whatever the column a row takes, it is the cheapest at the new prices,  *)
(* of which only that column's may have fallen.                            *)
LEMMA RowReductionPrice ==
  ASSUME IInv, RowReduction
  PROVE  \E j \in Cols :
           /\ x' = [x EXCEPT ![Root] = j] /\ y' = [y EXCEPT ![j] = Root]
           /\ \E again \in BOOLEAN :
                ThrownOut(y[j], again) /\ (again => MayExchange(rr + 1))
           /\ v' \in [Cols -> Int] /\ \A k \in Cols : v'[k] <= v[k]
           /\ \A k \in Cols \ {j} : v'[k] = v[k]
           /\ Cheapest(v', Root, j)
<1> DEFINE i      == free[current + 1]
           u      == Reduced(i)
           j1     == FirstMin(u, Cols)
           j2     == FirstMin(u, Cols \ {j1})
           lowers == u[j1] < u[j2]
           within == MayExchange(rr + 1)
           j      == IF within /\ ~lowers /\ y[j1] # 0 THEN j2 ELSE j1
<1>1. /\ v' = IF within /\ lowers THEN [v EXCEPT ![j1] = @ - (u[j2] - u[j1])] ELSE v
      /\ ThrownOut(y[j], within /\ lowers)
      /\ x' = [x EXCEPT ![i] = j] /\ y' = [y EXCEPT ![j] = i]
  BY DEF RowReduction
<1>2. Sizes /\ n \in Nat \ {0, 1} /\ Cols = 1..n
  BY Indices DEF IInv
<1>3. i \in Cols /\ v \in [Cols -> Int] /\ cost \in [Cols -> [Cols -> Int]]
  <2>1. free \in Seq(Cols) /\ current \in Nat /\ current < Len(free)
    BY <1>2 DEF IInv, Shape, RowReduction
  <2> QED
    BY <2>1 DEF IInv, Shape
<1>4. u \in [1..n -> Int] /\ \A k \in Cols : u[k] = cost[i][k] - v[k]
  BY <1>3, ReducedType
<1> HIDE DEF i, u
<1>5. j1 \in Cols /\ \A k \in Cols : u[j1] <= u[k]
  <2>1. Cols \in SUBSET (1..n) /\ 1 \in Cols /\ n \in Nat
    BY <1>2
  <2> QED
    BY <1>4, <2>1, FirstMinIs
<1> HIDE DEF j1
<1>6. j2 \in Cols \ {j1} /\ \A k \in Cols \ {j1} : u[j2] <= u[k]
  <2>1. Cols \ {j1} \in SUBSET (1..n) /\ Cols \ {j1} # {}
    <3>1. 1 \in Cols /\ 2 \in Cols
      BY <1>2
    <3> QED
      BY <1>2, <3>1
  <2> QED
    BY <1>2, <1>4, <2>1, FirstMinIs
<1> HIDE DEF j2
<1>7. /\ u[j1] \in Int /\ u[j2] \in Int /\ u[j1] <= u[j2] /\ \A k \in Cols : u[k] \in Int
      /\ \A k \in Cols : v[k] \in Int /\ cost[i][k] \in Int
  BY <1>2, <1>3, <1>4, <1>5, <1>6
<1>8. CASE within /\ lowers
  <2>1. /\ j = j1 /\ v' \in [Cols -> Int]
        /\ \A k \in Cols : v'[k] = IF k = j1 THEN v[k] - (u[j2] - u[j1]) ELSE v[k]
    BY <1>1, <1>3, <1>5, <1>7, <1>8
  <2>2. \A k \in Cols : v'[k] <= v[k]
    BY <1>7, <2>1
  <2>3. ASSUME NEW k \in Cols
        PROVE  cost[i][j1] - v'[j1] <= cost[i][k] - v'[k]
    <3>1. cost[i][j1] - v'[j1] = u[j2]
      BY <1>4, <1>5, <1>7, <2>1
    <3>2. CASE k = j1
      BY <1>7, <3>1, <3>2
    <3>3. CASE k # j1
      BY <1>4, <1>6, <2>1, <3>1, <3>3
    <3> QED
      BY <3>2, <3>3
  <2> QED
    BY <1>1, <1>5, <1>8, <2>1, <2>2, <2>3 DEF i, Root, Cheapest
<1>9. CASE ~(within /\ lowers)
  <2>1. v' = v
    BY <1>1, <1>9
  <2>2. j \in Cols
    BY <1>5, <1>6
  <2>3. \A k \in Cols : u[j] <= u[k]
    <3>1. CASE j = j1
      BY <1>5, <3>1
    <3>2. CASE j # j1
      <4>1. j = j2 /\ u[j1] = u[j2]
        BY <1>7, <3>2
      <4> QED
        BY <1>5, <4>1
    <3> QED
      BY <3>1, <3>2
  <2> HIDE DEF j
  <2>4. Cheapest(v, i, j)
    BY <1>4, <2>2, <2>3 DEF Cheapest
  <2>5. (within /\ lowers) \in BOOLEAN
    OBVIOUS
  <2> QED
    <3>1. \A k \in Cols : v'[k] <= v[k]
      BY <1>7, <2>1
    <3>2. x' = [x EXCEPT ![Root] = j] /\ y' = [y EXCEPT ![j] = Root]
      BY <1>1 DEF i, Root
    <3>3. \E again \in BOOLEAN :
            ThrownOut(y[j], again) /\ (again => MayExchange(rr + 1))
      BY <1>1, <2>5
    <3>4. Cheapest(v', Root, j) /\ v' \in [Cols -> Int]
      BY <1>3, <2>1, <2>4 DEF i, Root
    <3> QED
      BY <2>1, <2>2, <3>1, <3>2, <3>3, <3>4
<1> QED
  BY <1>8, <1>9

(* The row taken is no longer waiting, the one thrown out is.              *)
LEMMA ThrownOutWaits ==
  ASSUME IInv, RowReduction, NEW j \in Cols, NEW again \in BOOLEAN,
         ThrownOut(y[j], again)
  PROVE  /\ \A r \in Cols : r \in Waiting' <=> \/ r \in Waiting /\ r # Root
                                              \/ r = y[j]
         /\ \A k, m \in Open' : free'[k] = free'[m] => k = m
         /\ free' \in Seq(Cols) /\ Len(free') = Len(free)
         /\ current' \in 0..n /\ kept' \in 0..current' /\ current' <= Len(free')
<1>0. Cols' = Cols /\ n' = n
  BY Fixed DEF Next, Step
<1>1. Sizes /\ n \in Nat \ {0, 1} /\ Cols = 1..n /\ phase = "rows"
  BY Indices DEF IInv, RowReduction
<1>2. /\ free \in Seq(Cols) /\ Len(free) \in Nat /\ Len(free) <= n
      /\ current \in Nat /\ kept \in Nat /\ kept <= current /\ current < Len(free)
      /\ y \in [Cols -> 0..n]
  <2>1. /\ free \in Seq(Cols) /\ y \in [Cols -> 0..n]
        /\ current \in 0..n /\ kept \in 0..current
    BY DEF IInv, Shape
  <2>2. Len(free) <= n /\ current < Len(free)
    BY DEF IInv, Loops, RowReduction
  <2> QED
    BY <1>1, <2>1, <2>2
<1>3. /\ \A k, m \in Open : free[k] = free[m] => k = m
      /\ y[j] # 0 => y[j] \in Cols /\ y[j] \notin Waiting
  BY <1>1, <1>2 DEF IInv, Placed, Placing
<1>4. /\ current + 1 \in Open /\ current + 1 \in 1..Len(free)
      /\ \A k \in Open : k \in 1..Len(free)
  BY <1>2 DEF Open
<1>5. \A r : r \in Waiting <=> \E k \in Open : free[k] = r
  BY DEF Waiting, Open
<1>6. \A r : r \in Waiting' <=> \E k \in Open' : free'[k] = r
  BY DEF Waiting, Open
<1>7. \A r : r \in Waiting /\ r # Root <=> \E k \in Open \ {current + 1} : free[k] = r
  BY <1>3, <1>4, <1>5 DEF Root
<1>8. CASE y[j] = 0 /\ UNCHANGED <<free, kept>> /\ current' = current + 1
  <2>1. Open' = Open \ {current + 1}
    BY <1>2, <1>8 DEF Open
  <2>2. \A r \in Cols : r \in Waiting' <=> r \in Waiting /\ r # Root
    BY <1>6, <1>7, <1>8, <2>1
  <2>3. \A r \in Cols : r # y[j]
    BY <1>1, <1>8
  <2>4. \A k, m \in Open' : free'[k] = free'[m] => k = m
    BY <1>3, <1>8, <2>1
  <2>5. /\ current' \in 0..n /\ kept' \in 0..current' /\ current' <= Len(free')
    BY <1>1, <1>2, <1>8
  <2> QED
    BY <1>2, <1>8, <2>2, <2>3, <2>4, <2>5
<1>9. CASE /\ y[j] # 0
           /\ free' = [free EXCEPT ![current + 1] = y[j]]
           /\ UNCHANGED <<current, kept>>
  <2>1. /\ free' \in Seq(Cols) /\ Len(free') = Len(free)
        /\ \A k \in 1..Len(free) : free'[k] = IF k = current + 1 THEN y[j] ELSE free[k]
    BY <1>2, <1>3, <1>4, <1>9, ExceptSeq
  <2>2. Open' = Open
    BY <1>9, <2>1 DEF Open
  <2>3. \A k \in Open : free'[k] = IF k = current + 1 THEN y[j] ELSE free[k]
    BY <1>4, <2>1
  <2>4. \A r \in Cols : r \in Waiting' <=> (r \in Waiting /\ r # Root) \/ r = y[j]
    BY <1>4, <1>6, <1>7, <2>2, <2>3
  <2>5. \A k, m \in Open' : free'[k] = free'[m] => k = m
    BY <1>3, <1>5, <1>9, <2>2, <2>3
  <2>6. /\ current' \in 0..n /\ kept' \in 0..current' /\ current' <= Len(free')
    BY <1>1, <1>2, <1>9, <2>1
  <2> QED
    BY <2>1, <2>4, <2>5, <2>6
<1>10. CASE /\ y[j] # 0
            /\ free' = [free EXCEPT ![kept + 1] = y[j]]
            /\ kept' = kept + 1 /\ current' = current + 1
  <2>0. kept + 1 \in 1..Len(free)
    BY <1>2
  <2>1. /\ free' \in Seq(Cols) /\ Len(free') = Len(free)
        /\ \A k \in 1..Len(free) : free'[k] = IF k = kept + 1 THEN y[j] ELSE free[k]
    BY <1>2, <1>3, <1>10, <2>0, ExceptSeq
  <2>2. /\ kept + 1 \in Open' /\ kept + 1 \notin Open \ {current + 1}
        /\ \A k : k \in Open' <=> k = kept + 1 \/ k \in Open \ {current + 1}
    <3>1. Open' = (1..(kept + 1)) \cup (current + 2..Len(free))
      BY <1>2, <1>10, <2>1 DEF Open
    <3>2. \A k : k \in Open' <=> k = kept + 1 \/ k \in Open \ {current + 1}
      BY <1>2, <3>1 DEF Open
    <3>3. kept + 1 \notin Open \ {current + 1}
      BY <1>2 DEF Open
    <3> QED
      BY <3>2, <3>3
  <2>3. /\ free'[kept + 1] = y[j]
        /\ \A k \in Open \ {current + 1} : free'[k] = free[k]
    BY <1>4, <2>0, <2>1, <2>2
  <2>4. \A r \in Cols : r \in Waiting' <=> (r \in Waiting /\ r # Root) \/ r = y[j]
    BY <1>6, <1>7, <2>2, <2>3
  <2>5. \A k, m \in Open' : free'[k] = free'[m] => k = m
    BY <1>3, <1>5, <1>10, <2>2, <2>3
  <2>6. /\ current' \in 0..n /\ kept' \in 0..current' /\ current' <= Len(free')
    BY <1>1, <1>2, <1>10, <2>1
  <2> QED
    BY <2>1, <2>4, <2>5, <2>6
<1> QED
  BY <1>8, <1>9, <1>10 DEF ThrownOut

LEMMA RowReductionHolds ==
  ASSUME IInv, RowReduction
  PROVE  IInv'
<1>0. /\ nr' = nr /\ nc' = nc /\ cost' = cost /\ n' = n /\ Cols' = Cols
  BY Fixed DEF Next, Step
<1>1. Sizes /\ n \in Nat \ {0, 1} /\ Cols = 1..n
  BY Indices DEF IInv
<1>2. /\ phase = "rows" /\ phase' = "rows" /\ rr' = rr + 1
      /\ UNCHANGED <<unique, pass, path, col>>
  BY DEF RowReduction
<1>3. PICK j \in Cols :
        /\ x' = [x EXCEPT ![Root] = j] /\ y' = [y EXCEPT ![j] = Root]
        /\ \E again \in BOOLEAN : ThrownOut(y[j], again)
        /\ v' \in [Cols -> Int] /\ \A k \in Cols : v'[k] <= v[k]
        /\ \A k \in Cols \ {j} : v'[k] = v[k]
        /\ Cheapest(v', Root, j)
  BY RowReductionPrice
<1>4. /\ \A r \in Cols : r \in Waiting' <=> \/ r \in Waiting /\ r # Root
                                            \/ r = y[j]
      /\ \A k, m \in Open' : free'[k] = free'[m] => k = m
      /\ free' \in Seq(Cols) /\ Len(free') = Len(free)
      /\ current' \in 0..n /\ kept' \in 0..current' /\ current' <= Len(free')
  BY <1>3, ThrownOutWaits
<1>5. /\ x \in [Cols -> 0..n] /\ y \in [Cols -> 0..n] /\ v \in [Cols -> Int]
      /\ cost \in [Cols -> [Cols -> Int]]
      /\ \A i \in Cols \ Waiting :
           x[i] \in Cols /\ y[x[i]] = i /\ Cheapest(v, i, x[i])
      /\ \A k \in Cols : y[k] # 0 => y[k] \notin Waiting /\ x[y[k]] = k
  BY <1>2 DEF IInv, Shape, Placed, Placing
<1>6. Root \in Cols /\ Root \in Waiting
  <2>1. free \in Seq(Cols) /\ current \in Nat /\ current < Len(free)
    BY <1>2 DEF IInv, Shape, RowReduction
  <2>2. current + 1 \in 1..Len(free)
    BY <2>1
  <2> QED
    BY <2>1, <2>2 DEF Root, Waiting
<1>7. /\ x' \in [Cols -> 0..n] /\ y' \in [Cols -> 0..n]
      /\ \A r \in Cols : x'[r] = IF r = Root THEN j ELSE x[r]
      /\ \A k \in Cols : y'[k] = IF k = j THEN Root ELSE y[k]
  <2>1. j \in 0..n /\ Root \in 0..n
    BY <1>1, <1>6
  <2> QED
    BY <1>3, <1>5, <1>6, <2>1
<1>8. ASSUME NEW i \in Cols \ Waiting'
      PROVE  x'[i] \in Cols /\ y'[x'[i]] = i /\ Cheapest(v', i, x'[i])
  <2>1. CASE i = Root
    BY <1>3, <1>7, <2>1
  <2>2. CASE i # Root
    <3>1. i \notin Waiting /\ i # y[j]
      BY <1>4, <2>2
    <3>2. x[i] \in Cols /\ y[x[i]] = i /\ Cheapest(v, i, x[i]) /\ x[i] # j
      BY <1>5, <3>1
    <3>3. x'[i] = x[i] /\ y'[x'[i]] = i
      BY <1>7, <2>2, <3>2
    <3>4. ASSUME NEW k \in Cols
          PROVE  cost[i][x[i]] - v'[x[i]] <= cost[i][k] - v'[k]
      <4>1. v'[x[i]] = v[x[i]] /\ v'[k] <= v[k]
        BY <1>3, <3>2
      <4>2. cost[i][x[i]] - v[x[i]] <= cost[i][k] - v[k]
        BY <3>2 DEF Cheapest
      <4>3. /\ v[x[i]] \in Int /\ v[k] \in Int /\ v'[k] \in Int
            /\ cost[i][x[i]] \in Int /\ cost[i][k] \in Int
        BY <1>3, <1>5, <3>2
      <4> QED
        BY <4>1, <4>2, <4>3
    <3> QED
      BY <3>2, <3>3, <3>4 DEF Cheapest
  <2> QED
    BY <2>1, <2>2
<1>9. ASSUME NEW k \in Cols, y'[k] # 0
      PROVE  y'[k] \notin Waiting' /\ x'[y'[k]] = k
  <2>1. CASE k = j
    <3>1. y'[k] = Root /\ Root # y[j]
      BY <1>1, <1>5, <1>6, <1>7, <2>1
    <3> QED
      BY <1>4, <1>6, <1>7, <2>1, <3>1
  <2>2. CASE k # j
    <3>1. y'[k] = y[k] /\ y[k] \notin Waiting /\ x[y[k]] = k /\ y[k] \in Cols
      <4>1. y'[k] = y[k] /\ y[k] \in 0..n
        BY <1>5, <1>7, <2>2
      <4> QED
        <5>1. y[k] # 0 /\ y[k] \in Cols
          BY <1>1, <1>9, <4>1
        <5> QED
          BY <1>5, <4>1, <5>1
    <3>2. y[k] # y[j] /\ y[k] # Root
      BY <1>5, <1>6, <1>9, <2>2, <3>1
    <3> QED
      BY <1>4, <1>7, <3>1, <3>2
  <2> QED
    BY <2>1, <2>2
<1>10. Placed'
  <2>1. \A i \in Cols \ Waiting' : Cheapest(v, i, x[i])'
    BY <1>0, <1>8 DEF Cheapest
  <2> QED
    BY <1>0, <1>2, <1>4, <1>8, <1>9, <2>1 DEF Placed
<1>11. Shape'
  <2>1. rr' \in Nat
    BY <1>2 DEF IInv, Shape
  <2> QED
    BY <1>0, <1>2, <1>3, <1>4, <1>7, <2>1 DEF IInv, Shape, Paths
<1>12. Loops'
  <2>1. Len(free) <= n /\ pass < 2
    BY <1>2 DEF IInv, Loops
  <2> QED
    BY <1>0, <1>2, <1>4, <2>1 DEF Loops
<1>13. Claiming' /\ Transferring' /\ Searching' /\ Flipping'
  BY <1>2 DEF Claiming, Transferring, Searching, Flipping
<1> QED
  BY <1>0, <1>10, <1>11, <1>12, <1>13 DEF IInv, Sizes, Bordered

(* The rows kept are at the front, and only they wait at the end of a pass.*)
LEMMA PassEndsHolds ==
  ASSUME IInv, PassEnds
  PROVE  IInv'
<1>0. /\ nr' = nr /\ nc' = nc /\ cost' = cost /\ n' = n /\ Cols' = Cols
  BY Fixed DEF Next, Step
<1>1. Sizes /\ n \in Nat \ {0, 1} /\ Cols = 1..n
  BY Indices DEF IInv
<1>2. /\ phase = "rows" /\ current = Len(free) /\ free' = SubSeq(free, 1, kept)
      /\ current' = 0 /\ kept' = 0 /\ rr' = 0 /\ pass' = pass + 1
      /\ phase' = IF kept = 0 THEN "done" ELSE IF pass' < 2 THEN "rows" ELSE "start"
      /\ UNCHANGED <<x, y, v, unique, path, col>>
  BY DEF PassEnds
<1>3. /\ free \in Seq(Cols) /\ kept \in 0..Len(free) /\ Len(free) \in Nat /\ Len(free) <= n
  <2>1. free \in Seq(Cols) /\ kept \in 0..current /\ Len(free) <= n
    BY DEF IInv, Shape, Loops
  <2> QED
    BY <1>2, <2>1
<1>4. /\ free' \in Seq(Cols) /\ Len(free') = kept
      /\ \A k \in 1..kept : free'[k] = free[k]
  BY <1>2, <1>3
<1>5. Open = 1..kept /\ Open' = 1..kept
  BY <1>2, <1>3, <1>4 DEF Open
<1>6. Waiting' = Waiting
  BY <1>4, <1>5 DEF Waiting, Open
<1>7. Placed'
  <2>1. phase' # "flip" /\ phase \in Placing /\ phase # "flip"
    BY <1>2 DEF Placing
  <2>2. /\ \A i \in Cols \ Waiting :
             x[i] \in Cols /\ y[x[i]] = i /\ Cheapest(v, i, x[i])
        /\ \A j \in Cols : y[j] # 0 => y[j] \notin Waiting /\ x[y[j]] = j
        /\ \A k, m \in Open : free[k] = free[m] => k = m
    BY <2>1 DEF IInv, Placed
  <2>3. \A i \in Cols \ Waiting : Cheapest(v, i, x[i])'
    BY <1>0, <1>2, <2>2 DEF Cheapest
  <2> QED
    BY <1>0, <1>2, <1>4, <1>5, <1>6, <2>1, <2>2, <2>3 DEF Placed
<1>8. Shape'
  <2>1. pass' \in 0..2
    <3>1. pass \in 0..1
      BY <1>2 DEF IInv, Shape, Loops
    <3> QED
      BY <1>2, <3>1
  <2>2. /\ current' \in 0..n' /\ kept' \in 0..current' /\ rr' \in Nat
    BY <1>0, <1>1, <1>2
  <2>3. phase' \in Placing
    BY <1>2 DEF Placing
  <2> QED
    BY <1>0, <1>2, <1>4, <2>1, <2>2, <2>3 DEF IInv, Shape, Paths
<1>9. Loops'
  <2>1. phase' = "rows" => pass' < 2
    BY <1>2
  <2>2. Len(free') \in Nat /\ Len(free') <= n' /\ current' = 0 /\ kept' = 0
    BY <1>0, <1>1, <1>2, <1>3, <1>4
  <2>3. phase' \in {"done", "rows", "start"} /\ (phase' = "done" => Len(free') = 0)
    <3>1. CASE kept = 0
      BY <1>2, <1>4, <3>1
    <3>2. CASE kept # 0
      BY <1>2, <3>2
    <3> QED
      BY <3>1, <3>2
  <2> QED
    BY <2>1, <2>2, <2>3 DEF Loops
<1>10. Claiming' /\ Transferring' /\ Searching' /\ Flipping'
  BY <1>2 DEF Claiming, Transferring, Searching, Flipping
<1> QED
  BY <1>0, <1>7, <1>8, <1>9, <1>10 DEF IInv, Sizes, Bordered

LEMMA AllPlacedHolds ==
  ASSUME IInv, AllPlaced
  PROVE  IInv'
<1>0. /\ nr' = nr /\ nc' = nc /\ cost' = cost /\ n' = n /\ Cols' = Cols
  BY Fixed DEF Next, Step
<1>1. /\ phase = "start" /\ phase' = "done" /\ current = Len(free)
      /\ UNCHANGED <<x, y, v, unique, free, current, kept, rr, pass, path, col>>
  BY DEF AllPlaced
<1>2. Waiting' = Waiting /\ Open' = Open
  BY <1>1 DEF Waiting, Open
<1>3. Placed'
  BY <1>0, <1>1, <1>2 DEF IInv, Placed, Placing, Cheapest
<1>4. Shape' /\ Loops'
  BY <1>0, <1>1 DEF IInv, Shape, Loops, Placing, Paths
<1>5. Claiming' /\ Transferring' /\ Searching' /\ Flipping'
  BY <1>1 DEF Claiming, Transferring, Searching, Flipping
<1> QED
  BY <1>0, <1>3, <1>4, <1>5 DEF IInv, Sizes, Bordered

(* The row taken is one that waits.                                        *)
LEMMA RootWaits ==
  ASSUME IInv, phase \in {"start", "find", "scan", "flip"}, current < Len(free)
  PROVE  Root \in Cols /\ Root \in Waiting /\ Open = current + 1..Len(free)
<1>1. /\ free \in Seq(Cols) /\ current \in Nat /\ kept = 0
  <2>1. free \in Seq(Cols) /\ current \in 0..n /\ n \in Nat
    BY Indices DEF IInv, Shape
  <2> QED
    BY <2>1 DEF IInv, Loops
<1>2. current + 1 \in 1..Len(free) /\ current + 1 \in current + 1..Len(free)
  BY <1>1
<1> QED
  BY <1>1, <1>2 DEF Root, Waiting, Open

LEMMA StartPathHolds ==
  ASSUME IInv, StartPath
  PROVE  IInv'
<1>0. /\ nr' = nr /\ nc' = nc /\ cost' = cost /\ n' = n /\ Cols' = Cols
  BY Fixed DEF Next, Step
<1>1. /\ phase = "start" /\ phase' = "find" /\ current < Len(free)
      /\ UNCHANGED <<x, y, v, unique, free, current, kept, rr, pass, col>>
      /\ path' = [NoPath EXCEPT !.d = Reduced(Root), !.pred = [j \in Cols |-> Root]]
  BY DEF StartPath, Root
<1>2. Root \in Cols /\ Root' = Root /\ Waiting' = Waiting /\ Open' = Open
  BY <1>1, RootWaits DEF Root, Waiting, Open
<1>3. /\ path' \in Paths /\ path'.scan = {} /\ path'.ready = {} /\ path'.level = {}
      /\ path'.d = Reduced(Root) /\ \A j \in Cols : path'.pred[j] = Root
  <2>1. Reduced(Root) \in [Cols -> Int]
    BY <1>2, ReducedType DEF Cols
  <2> QED
    <3>1. path' = [d |-> Reduced(Root), pred |-> [j \in Cols |-> Root], ready |-> {},
                   level |-> {}, scan |-> {}, min |-> 0]
      BY <1>1 DEF NoPath
    <3>2. [j \in Cols |-> Root] \in [Cols -> Cols]
      BY <1>2
    <3> QED
      BY <2>1, <3>1, <3>2 DEF Paths
<1>4. Placed'
  BY <1>0, <1>1, <1>2 DEF IInv, Placed, Placing, Cheapest
<1>5. Shape' /\ Loops'
  <2>1. path' \in Paths'
    BY <1>0, <1>3 DEF Paths
  <2>2. path'.scan \subseteq path'.level
    BY <1>3
  <2> QED
    BY <1>0, <1>1, <2>1, <2>2 DEF IInv, Shape, Loops, Placing
<1>6. Searching'
  <2>1. Looked' = {} /\ Near(path)' = {}
    BY <1>3 DEF Looked, Near
  <2>2. \A j \in Cols : path'.d[j] = cost[Root][j] - v[j] /\ path'.d[j] \in Int
    <3>1. \A j \in Cols : path'.d[j] = cost[Root][j] - v[j]
      BY <1>2, <1>3, ReducedType
    <3> QED
      BY <1>3, <3>1 DEF Paths
  <2>3. \A j \in Cols : path'.d[j] <= cost[Root][j] - v[j]
    BY <2>2
  <2>4. Shortest(path, Looked)'
    BY <1>0, <1>1, <1>2, <1>3, <2>1, <2>2, <2>3 DEF Shortest
  <2> QED
    BY <1>1, <1>3, <2>1, <2>4 DEF Searching
<1>7. Claiming' /\ Transferring' /\ Flipping'
  BY <1>1 DEF Claiming, Transferring, Flipping
<1> QED
  BY <1>0, <1>4, <1>5, <1>6, <1>7 DEF IInv, Sizes, Bordered

-----------------------------------------------------------------------------
(* Repricing makes the ways to every column at least as dear as the level, *)
(* and those to the columns reached exactly as dear: the rows placed keep  *)
(* paying least, and so would every row on a way.                          *)
LEMMA RepricedKeeps ==
  ASSUME IInv, phase \in {"find", "scan"}, NEW p \in Paths, NEW S,
         Shortest(p, S), Ordered(p),
         NEW k \in Cols, k \notin p.ready, p.d[k] = p.min
  PROVE  /\ Repriced(p) \in [Cols -> Int]
         /\ \A i \in Cols \ Waiting : Cheapest(Repriced(p), i, x[i])
         /\ \A c \in Near(p) \cup {k} : Cheapest(Repriced(p), p.pred[c], c)
         /\ \A j \in Cols : /\ Repriced(p)[j] <= v[j]
                            /\ y[j] = 0 => Repriced(p)[j] = v[j]
<1> DEFINE w == Repriced(p)
<1>1. /\ p.d \in [Cols -> Int] /\ p.pred \in [Cols -> Cols] /\ p.min \in Int
      /\ p.ready \subseteq Cols /\ p.level \subseteq Cols
  BY DEF Paths
<1>2. /\ v \in [Cols -> Int] /\ cost \in [Cols -> [Cols -> Int]] /\ y \in [Cols -> 0..n]
      /\ n \in Nat /\ Cols = 1..n
  BY Indices DEF IInv, Shape
<1>3. /\ w \in [Cols -> Int]
      /\ \A j \in Cols : w[j] = IF j \in p.ready THEN v[j] + p.d[j] - p.min ELSE v[j]
  <2>1. \A j \in Cols : v[j] \in Int /\ p.d[j] \in Int
    BY <1>1, <1>2
  <2>2. \A j \in Cols : v[j] + p.d[j] - p.min \in Int
    BY <1>1, <2>1
  <2> QED
    BY <2>1, <2>2 DEF Repriced
<1> HIDE DEF w
<1>4. \A j \in Cols : /\ v[j] \in Int /\ p.d[j] \in Int /\ w[j] \in Int
                      /\ w[j] <= v[j] /\ w[j] <= v[j] + p.d[j] - p.min
  <2> TAKE j \in Cols
  <2>1. v[j] \in Int /\ p.d[j] \in Int /\ w[j] \in Int
    BY <1>1, <1>2, <1>3
  <2>2. CASE j \in p.ready
    <3>1. p.d[j] <= p.min
      BY <2>2 DEF Ordered
    <3> QED
      BY <1>1, <1>3, <2>1, <2>2, <3>1
  <2>3. CASE j \notin p.ready
    <3>1. p.min <= p.d[j]
      BY <1>1, <2>1, <2>3 DEF Ordered, Near
    <3> QED
      BY <1>1, <1>3, <2>1, <2>3, <3>1
  <2> QED
    BY <2>2, <2>3
<1>5. \A c \in Near(p) \cup {k} : c \in Cols /\ w[c] = v[c] + p.d[c] - p.min
  <2> TAKE c \in Near(p) \cup {k}
  <2>1. c \in Cols
    BY <1>1 DEF Near
  <2>2. CASE c \in p.ready
    BY <1>3, <2>1, <2>2
  <2>3. CASE c \notin p.ready
    <3>1. p.d[c] = p.min
      BY <2>3 DEF Near, Ordered
    <3> QED
      BY <1>1, <1>3, <1>4, <2>1, <2>3, <3>1
  <2> QED
    BY <2>1, <2>2, <2>3
<1>6. ASSUME NEW l \in S
      PROVE  /\ l \in Cols /\ y[l] \in Cols /\ y[l] \notin Waiting /\ x[y[l]] = l
             /\ cost[y[l]][l] \in Int
             /\ \A j \in Cols : /\ cost[y[l]][j] \in Int
                                /\ p.d[j] <= Via(p, l, j)
                                /\ Via(p, l, j) = p.d[l] + (cost[y[l]][j] - v[j])
                                                         - (cost[y[l]][l] - v[l])
  <2>1. l \in Cols /\ y[l] # 0 /\ \A j \in Cols : p.d[j] <= Via(p, l, j)
    BY <1>1 DEF Shortest, Near
  <2>2. y[l] \in 0..n
    BY <1>2, <2>1
  <2>3. y[l] \in Cols
    BY <1>2, <2>1, <2>2
  <2>4. y[l] \notin Waiting /\ x[y[l]] = l
    BY <2>1 DEF IInv, Placed, Placing
  <2>5. \A j \in Cols : cost[y[l]][j] \in Int
    BY <1>2, <2>3
  <2>6. \A j \in Cols : Via(p, l, j) = p.d[l] + (cost[y[l]][j] - v[j])
                                                - (cost[y[l]][l] - v[l])
    BY DEF Via
  <2> QED
    BY <2>1, <2>3, <2>4, <2>5, <2>6
<1>7. ASSUME NEW i \in Cols \ Waiting
      PROVE  Cheapest(w, i, x[i])
  <2> DEFINE l == x[i]
  <2>1. l \in Cols /\ y[l] = i /\ Cheapest(v, i, l)
    BY DEF IInv, Placed, Placing
  <2> HIDE DEF l
  <2> SUFFICES ASSUME NEW j \in Cols
               PROVE  cost[i][l] - w[l] <= cost[i][j] - w[j]
    BY DEF Cheapest, l
  <2>2. cost[i][l] \in Int /\ cost[i][j] \in Int
    BY <1>2, <2>1
  <2>3. CASE l \in p.ready
    <3>1. l \in S
      BY <2>3 DEF Shortest
    <3>2. p.d[j] <= p.d[l] + (cost[i][j] - v[j]) - (cost[i][l] - v[l])
      BY <1>6, <2>1, <3>1
    <3>3. w[l] = v[l] + p.d[l] - p.min
      BY <1>3, <2>1, <2>3
    <3> QED
      BY <1>1, <1>4, <2>1, <2>2, <3>2, <3>3
  <2>4. CASE l \notin p.ready
    <3>1. w[l] = v[l]
      BY <1>3, <2>1, <2>4
    <3>2. cost[i][l] - v[l] <= cost[i][j] - v[j]
      BY <2>1 DEF Cheapest
    <3> QED
      BY <1>4, <2>1, <2>2, <3>1, <3>2
  <2> QED
    BY <2>3, <2>4
<1>8. ASSUME NEW c \in Near(p) \cup {k}
      PROVE  Cheapest(w, p.pred[c], c)
  <2> DEFINE i == p.pred[c]
  <2>1. c \in Cols /\ w[c] = v[c] + p.d[c] - p.min /\ i \in Cols
    BY <1>1, <1>5
  <2> SUFFICES ASSUME NEW j \in Cols
               PROVE  cost[i][c] - w[c] <= cost[i][j] - w[j]
    BY DEF Cheapest
  <2>2. cost[i][c] \in Int /\ cost[i][j] \in Int
    BY <1>2, <2>1
  <2>3. CASE i = Root /\ p.d[c] = cost[Root][c] - v[c]
    <3>1. p.d[j] <= cost[i][j] - v[j]
      BY <2>3 DEF Shortest
    <3>2. p.d[c] = cost[i][c] - v[c]
      BY <2>3
    <3> HIDE DEF i
    <3> QED
      BY <1>1, <1>4, <2>1, <2>2, <3>1, <3>2
  <2>4. CASE \E l \in S : i = y[l] /\ p.d[c] = Via(p, l, c)
    <3>1. PICK l \in S : i = y[l] /\ p.d[c] = Via(p, l, c)
      BY <2>4
    <3> HIDE DEF i
    <3>2. /\ p.d[j] <= p.d[l] + (cost[i][j] - v[j]) - (cost[i][l] - v[l])
          /\ p.d[c] = p.d[l] + (cost[i][c] - v[c]) - (cost[i][l] - v[l])
          /\ l \in Cols /\ cost[i][l] \in Int
      BY <1>6, <2>1, <3>1
    <3> QED
      BY <1>1, <1>4, <2>1, <2>2, <3>2
  <2> QED
    BY <2>1, <2>3, <2>4 DEF Shortest
<1>9. \A j \in Cols : w[j] <= v[j] /\ (y[j] = 0 => w[j] = v[j])
  <2>1. \A j \in Cols : y[j] = 0 => j \notin p.ready
    BY DEF Shortest
  <2> QED
    BY <1>3, <1>4, <2>1
<1> QED
  BY <1>3, <1>7, <1>8, <1>9 DEF w

(* The distances of p are those of the ways through S.                     *)
Found(p, S) ==
  p \in Paths /\ p.scan \subseteq p.level /\ Shortest(p, S) /\ Ordered(p)

(* A free column is the nearest.                                           *)
Arrives(p) ==
  \E k \in Cols : k \notin p.ready /\ p.d[k] = p.min /\ y[k] = 0 /\ Reach(p, k)

(* The search goes on with p, having looked at S.                          *)
GoesOn(p, S) ==
  /\ S = Near(p) \ p.scan /\ p.ready \cap p.level = {}
  /\ Near(p) # {} /\ \A j \in Near(p) : y[j] # 0
  /\ path' = p /\ phase' = IF p.scan = {} THEN "find" ELSE "scan"
  /\ UNCHANGED <<v, col>>

(* A free column is reached.                                               *)
LEMMA ReachHolds ==
  ASSUME IInv, Next, phase \in {"find", "scan"}, NEW p, NEW S, Found(p, S), Arrives(p),
         UNCHANGED <<x, y, unique, free, current, kept, rr, pass>>
  PROVE  IInv'
<1> p \in Paths /\ p.scan \subseteq p.level /\ Shortest(p, S) /\ Ordered(p)
  BY DEF Found
<1> PICK k \in Cols : k \notin p.ready /\ p.d[k] = p.min /\ y[k] = 0 /\ Reach(p, k)
  BY DEF Arrives
<1>0. /\ nr' = nr /\ nc' = nc /\ cost' = cost /\ n' = n /\ Cols' = Cols
  BY Fixed
<1>1. /\ phase' = "flip" /\ path' = p /\ v' = Repriced(p) /\ col' = k
  BY DEF Reach
<1>2. /\ v' \in [Cols -> Int]
      /\ \A i \in Cols \ Waiting : Cheapest(v', i, x[i])
      /\ \A c \in Near(p) \cup {k} : Cheapest(v', p.pred[c], c)
  BY <1>1, RepricedKeeps
<1>3. Root' = Root /\ Waiting' = Waiting /\ Open' = Open
  BY DEF Root, Waiting, Open
<1>4. /\ \A i \in Cols \ Waiting : x[i] \in Cols /\ y[x[i]] = i
      /\ \A j \in Cols : y[j] # 0 => y[j] \notin Waiting /\ x[y[j]] = j
      /\ \A a, b \in Open : free[a] = free[b] => a = b
  BY DEF IInv, Placed, Placing
<1>5. Placed'
  <2>1. \A i \in Cols \ Waiting : Cheapest(v, i, x[i])'
    BY <1>0, <1>2 DEF Cheapest
  <2>2. \A i \in Cols \ Waiting : x[i] # k
    <3>1. 0 \notin Cols
      BY Indices DEF IInv
    <3> QED
      BY <1>4, <3>1
  <2> QED
    BY <1>0, <1>1, <1>3, <1>4, <2>1, <2>2 DEF Placed
<1>6. Shape'
  <2>1. p \in Paths' /\ k \in 0..n
    BY <1>0, Indices DEF IInv, Paths
  <2> QED
    BY <1>0, <1>1, <1>2, <2>1 DEF IInv, Shape, Placing
<1>7. Loops'
  <2>1. p \in Paths'
    BY <1>0 DEF Paths
  <2> QED
    BY <1>0, <1>1, <2>1 DEF IInv, Loops
<1>8. Flipping'
  <2>1. ASSUME NEW i \in Cols, NEW c \in Cols, Cheapest(v', i, c)
        PROVE  Cheapest(v, i, c)'
    BY <1>0, <2>1 DEF Cheapest
  <2>2. p.pred \in [Cols -> Cols]
    BY DEF Paths
  <2>3. Cheapest(v', p.pred[k], k)
    BY <1>2
  <2>4. ASSUME NEW j \in Cols, p.pred[j] # Root
        PROVE  p.pred[j] \notin Waiting /\ Cheapest(v', p.pred[x[p.pred[j]]], x[p.pred[j]])
    <3>1. PICK l \in S : p.pred[j] = y[l]
      BY <2>4 DEF Shortest
    <3>2. l \in Near(p) /\ y[l] # 0
      BY DEF Shortest
    <3>3. l \in Cols
      BY <3>2 DEF Near, Paths
    <3>4. y[l] \notin Waiting /\ x[y[l]] = l
      BY <1>4, <3>2, <3>3
    <3> QED
      BY <1>2, <3>1, <3>2, <3>4
  <2>5. \A j \in Cols : p.pred[j] # Root => x[p.pred[j]] \in Cols
    BY <1>4, <2>2, <2>4
  <2>6. Cheapest(v, p.pred[k], k)'
    BY <2>1, <2>2, <2>3
  <2>7. \A j \in Cols : p.pred[j] = Root \/
          /\ p.pred[j] \notin Waiting
          /\ Cheapest(v, p.pred[x[p.pred[j]]], x[p.pred[j]])'
    BY <2>1, <2>2, <2>4, <2>5
  <2> HIDE DEF Flipping
  <2> QED
    BY <1>0, <1>1, <1>3, <2>6, <2>7 DEF Flipping, Cheapest
<1>9. Claiming' /\ Transferring' /\ Searching'
  BY <1>1 DEF Claiming, Transferring, Searching
<1> QED
  BY <1>0, <1>5, <1>6, <1>7, <1>8, <1>9 DEF IInv, Sizes, Bordered

(* The search goes on.                                                     *)
LEMMA SearchHolds ==
  ASSUME IInv, Next, phase \in {"find", "scan"}, NEW p, NEW S, Found(p, S), GoesOn(p, S),
         UNCHANGED <<x, y, unique, free, current, kept, rr, pass>>
  PROVE  IInv'
<1> p \in Paths /\ p.scan \subseteq p.level /\ Shortest(p, S) /\ Ordered(p)
  BY DEF Found
<1> /\ S = Near(p) \ p.scan /\ p.ready \cap p.level = {}
    /\ Near(p) # {} /\ \A j \in Near(p) : y[j] # 0
    /\ path' = p /\ phase' = IF p.scan = {} THEN "find" ELSE "scan"
    /\ UNCHANGED <<v, col>>
  BY DEF GoesOn
<1>0. /\ nr' = nr /\ nc' = nc /\ cost' = cost /\ n' = n /\ Cols' = Cols
  BY Fixed
<1>1. phase' \in {"find", "scan"} /\ (phase' = "find" => p.scan = {})
  OBVIOUS
<1>2. Root' = Root /\ Waiting' = Waiting /\ Open' = Open
  BY DEF Root, Waiting, Open
<1>3. Placed'
  <2>1. phase \in Placing /\ phase # "flip" /\ phase' # "flip"
    BY <1>1 DEF Placing
  <2>2. \A i \in Cols \ Waiting : Cheapest(v, i, x[i])'
    BY <1>0, <2>1 DEF IInv, Placed, Cheapest
  <2> QED
    BY <1>0, <1>2, <2>1, <2>2 DEF IInv, Placed
<1>4. p \in Paths'
  BY <1>0 DEF Paths
<1>5. Shape'
  <2>1. phase' \in Placing
    BY <1>1 DEF Placing
  <2> QED
    BY <1>0, <1>4, <2>1 DEF IInv, Shape
<1>6. Loops'
  BY <1>0, <1>1, <1>4 DEF IInv, Loops
<1>7. Searching'
  <2>1. Looked' = S /\ Near(path)' = Near(p)
    BY DEF Looked, Near
  <2>2. Shortest(path, S)'
    BY <1>0, <1>2 DEF Shortest, Via, Near
  <2>3. Ordered(path)'
    BY <1>0 DEF Ordered, Near
  <2> QED
    BY <1>0, <1>1, <2>1, <2>2, <2>3 DEF Searching
<1>8. Claiming' /\ Transferring' /\ Flipping'
  BY <1>1 DEF Claiming, Transferring, Flipping
<1> QED
  BY <1>0, <1>3, <1>5, <1>6, <1>7, <1>8 DEF IInv, Sizes, Bordered

(* There is a column left to look for: not every column has a row, as the  *)
(* root has none.                                                          *)
LEMMA TodoLeft ==
  ASSUME IInv, phase \in {"find", "scan"}
  PROVE  Cols \ Near(path) # {}
<1>1. Sizes /\ n \in Nat \ {0, 1} /\ Cols = 1..n /\ y \in [Cols -> 0..n]
  BY Indices DEF IInv, Shape
<1>2. Root \in Cols /\ Root \in Waiting
  BY RootWaits DEF IInv, Loops
<1>3. /\ \A j \in Near(path) : y[j] # 0
      /\ \A j \in Cols : y[j] # 0 => y[j] \notin Waiting /\ x[y[j]] = j
  BY DEF IInv, Searching, Placed, Placing
<1> SUFFICES ASSUME Cols \subseteq Near(path) PROVE FALSE
  OBVIOUS
<1>4. \A j \in Cols : y[j] \in Cols \ {Root} /\ x[y[j]] = j
  <2> TAKE j \in Cols
  <2>1. y[j] # 0 /\ y[j] \in 0..n
    BY <1>1, <1>3
  <2>2. y[j] \in Cols
    BY <1>1, <2>1
  <2> QED
    BY <1>2, <1>3, <2>1, <2>2
<1>5. y \in [Cols -> Cols \ {Root}]
  BY <1>1, <1>4
<1>6. IsFiniteSet(Cols) /\ Cardinality(Cols) = n
  BY <1>1, FS_Interval
<1>7. IsFiniteSet(Cols \ {Root}) /\ Cardinality(Cols \ {Root}) = n - 1
  BY <1>2, <1>6, FS_RemoveElement
<1>8. \E j, k \in Cols : j # k /\ y[j] = y[k]
  <2>1. Cardinality(Cols \ {Root}) < Cardinality(Cols)
    BY <1>1, <1>6, <1>7
  <2> QED
    BY <1>5, <1>6, <1>7, <2>1, FS_PigeonHole
<1> QED
  BY <1>4, <1>8

LEMMA FindNearestSteps ==
  ASSUME IInv, FindNearest
  PROVE  \E p : /\ Found(p, Looked) /\ (Arrives(p) \/ GoesOn(p, Looked))
               /\ p.d = path.d /\ p.pred = path.pred
<1> DEFINE ready == path.ready \cup path.level
           todo  == Cols \ ready
           m     == Least(path.d, todo)
           level == {j \in todo : path.d[j] = m}
           p     == [path EXCEPT !.ready = ready, !.level = level, !.scan = level,
                                 !.min = m]
           open  == {j \in level : y[j] = 0}
<1>1. /\ phase = "find" /\ Next
      /\ UNCHANGED <<x, y, unique, free, current, kept, rr, pass>>
      /\ \/ \E j \in open : Reach(p, j)
         \/ open = {} /\ path' = p /\ phase' = "scan" /\ UNCHANGED <<v, col>>
  BY DEF FindNearest, Next, Step
<1>2. /\ path \in Paths /\ path.scan = {} /\ ready = Near(path)
      /\ path.d \in [Cols -> Int] /\ ready \subseteq Cols
      /\ Shortest(path, Looked) /\ Looked = Near(path)
      /\ Near(path) = {} \/ Ordered(path)
      /\ \A j \in Near(path) : y[j] # 0
  BY <1>1 DEF IInv, Loops, Searching, Looked, Near, Paths
<1>3. todo # {}
  BY <1>1, <1>2, TodoLeft
<1>4. m \in Int /\ (\A j \in todo : m <= path.d[j]) /\ \E j \in todo : m = path.d[j]
  <2>1. n \in Nat /\ todo \in SUBSET (1..n) /\ path.d \in [1..n -> Int]
    BY <1>2, Indices DEF IInv
  <2> HIDE DEF todo
  <2> QED
    BY <1>3, <2>1, LeastIs
<1> HIDE DEF m
<1>5. /\ p \in Paths /\ p.d = path.d /\ p.pred = path.pred /\ p.ready = ready
      /\ p.level = level /\ p.scan = level /\ p.min = m
  BY <1>2, <1>4 DEF Paths
<1> HIDE DEF p
<1>6. level # {} /\ level \cap ready = {}
  BY <1>4
<1>7. Near(p) = ready \cup level
  BY <1>5 DEF Near
<1>8. Shortest(p, ready)
  BY <1>2, <1>5, <1>7 DEF Shortest, Via, Near
<1>9. Ordered(p)
  <2>1. \A j \in ready : path.d[j] <= m
    <3> TAKE j \in ready
    <3>1. PICK k \in todo : m = path.d[k]
      BY <1>4
    <3>2. Ordered(path) /\ k \in Cols \ Near(path) /\ j \in Near(path) /\ j \in Cols
      BY <1>2
    <3>3. path.d[j] <= path.min /\ path.min <= path.d[k]
      <4>1. path.min <= path.d[k]
        BY <3>2 DEF Ordered
      <4>2. path.d[j] <= path.min
        BY <1>2, <3>2 DEF Ordered, Near, Paths
      <4> QED
        BY <4>1, <4>2
    <3>4. path.d[j] \in Int /\ path.d[k] \in Int /\ path.min \in Int
      BY <1>2, <3>2 DEF Paths
    <3> QED
      BY <3>1, <3>3, <3>4
  <2>2. \A j \in Cols \ (ready \cup level) : m <= path.d[j]
    BY <1>4
  <2> QED
    BY <1>5, <1>7, <2>1, <2>2 DEF Ordered
<1>10. Found(p, Looked)
  <2>1. p.scan \subseteq p.level
    BY <1>5
  <2> HIDE DEF ready, open, level
  <2> QED
    BY <1>2, <1>5, <1>8, <1>9, <2>1 DEF Found
<1>11. CASE \E k \in open : Reach(p, k)
  <2>1. PICK k \in open : Reach(p, k)
    BY <1>11
  <2>2. k \in Cols /\ k \notin p.ready /\ p.d[k] = p.min /\ y[k] = 0
    BY <1>5
  <2> QED
    BY <1>5, <1>10, <2>1, <2>2 DEF Arrives
<1>12. CASE open = {} /\ path' = p /\ phase' = "scan" /\ UNCHANGED <<v, col>>
  <2>1. /\ p.scan \subseteq p.level /\ Looked = Near(p) \ p.scan
        /\ p.ready \cap p.level = {} /\ Near(p) # {} /\ p.scan # {}
    BY <1>2, <1>5, <1>6, <1>7
  <2>2. \A j \in Near(p) : y[j] # 0
    BY <1>2, <1>7, <1>12
  <2> HIDE DEF ready, open
  <2>3. phase' = IF p.scan = {} THEN "find" ELSE "scan"
    BY <1>12, <2>1
  <2> QED
    BY <1>5, <1>10, <1>12, <2>1, <2>2, <2>3 DEF GoesOn
<1> QED
  BY <1>1, <1>11, <1>12

LEMMA FindNearestHolds ==
  ASSUME IInv, FindNearest
  PROVE  IInv'
<1>1. /\ phase = "find" /\ Next
      /\ UNCHANGED <<x, y, unique, free, current, kept, rr, pass>>
  BY DEF FindNearest, Next, Step
<1> QED
  BY <1>1, FindNearestSteps, ReachHolds, SearchHolds

(* A look through one column of the level: its ways are not nearer than    *)
(* the level, because its row pays least for it.                           *)
LEMMA ScanColumnSteps ==
  ASSUME IInv, ScanColumn
  PROVE  \E j, near, p :
           /\ near \subseteq Cols /\ j \in path.scan
           /\ j \in Cols /\ j \in Near(path) /\ path.d[j] = path.min
           /\ y[j] \in Cols /\ Cheapest(v, y[j], j)
           /\ \A k \in near : k \notin Near(path) /\ Via(path, j, k) < path.d[k]
           /\ \A k \in Cols :
                /\ Via(path, j, k) \in Int /\ path.min <= Via(path, j, k)
                /\ p.d[k] = IF k \in near THEN Via(path, j, k) ELSE path.d[k]
                /\ p.pred[k] = IF k \in near THEN y[j] ELSE path.pred[k]
           /\ Found(p, Looked \cup {j}) /\ (Arrives(p) \/ GoesOn(p, Looked \cup {j}))
<1>1. /\ phase = "scan" /\ Next
      /\ UNCHANGED <<x, y, unique, free, current, kept, rr, pass>>
  BY DEF ScanColumn, Next, Step
<1>2. PICK j \in path.scan :
       LET i    == y[j]
           h    == Excess(i, j)
           todo == Cols \ (path.ready \cup path.level)
           near == {k \in todo : cost[i][k] - v[k] - h < path.d[k]}
           same == {k \in near : cost[i][k] - v[k] - h = path.min}
           p    == [path EXCEPT
                     !.d    = [k \in Cols |-> IF k \in near THEN cost[i][k] - v[k] - h
                                                            ELSE @[k]],
                     !.pred = [k \in Cols |-> IF k \in near THEN i ELSE @[k]]]
           q    == Scanned(p, j, same)
           open == {k \in same : y[k] = 0}
       IN \/ \E k \in open : Reach(p, k)
          \/ /\ open = {} /\ path' = q
             /\ phase' = IF q.scan = {} THEN "find" ELSE "scan"
             /\ UNCHANGED <<v, col>>
  BY DEF ScanColumn
<1> DEFINE i    == y[j]
           h    == Excess(i, j)
           todo == Cols \ (path.ready \cup path.level)
           near == {k \in todo : cost[i][k] - v[k] - h < path.d[k]}
           same == {k \in near : cost[i][k] - v[k] - h = path.min}
           p    == [path EXCEPT
                     !.d    = [k \in Cols |-> IF k \in near THEN cost[i][k] - v[k] - h
                                                            ELSE @[k]],
                     !.pred = [k \in Cols |-> IF k \in near THEN i ELSE @[k]]]
           q    == Scanned(p, j, same)
           open == {k \in same : y[k] = 0}
           S    == Looked \cup {j}
<1>3. /\ path \in Paths /\ path.d \in [Cols -> Int] /\ path.pred \in [Cols -> Cols]
      /\ path.min \in Int /\ path.level \subseteq Cols /\ path.ready \subseteq Cols
      /\ path.scan \subseteq path.level /\ Near(path) \subseteq Cols
  <2>1. path \in Paths
    BY <1>1 DEF IInv, Loops
  <2>2. path.scan \subseteq path.level
    BY <2>1 DEF IInv, Shape, NoPath
  <2> QED
    BY <2>1, <2>2 DEF Near, Paths
<1>4. /\ Shortest(path, Looked) /\ Ordered(path)
      /\ path.ready \cap path.level = {} /\ \A k \in Near(path) : y[k] # 0
      /\ \A k \in Cols : y[k] # 0 => y[k] \notin Waiting /\ x[y[k]] = k
      /\ \A r \in Cols \ Waiting : Cheapest(v, r, x[r])
  BY <1>1 DEF IInv, Searching, Placed, Placing
<1>5. /\ v \in [Cols -> Int] /\ cost \in [Cols -> [Cols -> Int]] /\ y \in [Cols -> 0..n]
      /\ n \in Nat /\ Cols = 1..n
  BY Indices DEF IInv, Shape
<1>6. /\ j \in Cols /\ j \in Near(path) /\ path.d[j] = path.min /\ j \in path.level
  BY <1>2, <1>3, <1>4 DEF Near, Ordered
<1>7. i \in Cols /\ Cheapest(v, i, j)
  <2>1. y[j] # 0 /\ y[j] \in 0..n
    BY <1>4, <1>5, <1>6
  <2>2. y[j] \in Cols
    BY <1>5, <2>1
  <2> QED
    BY <1>4, <1>6, <2>1, <2>2
<1>8. /\ h = cost[i][j] - v[j] - path.min
      /\ \A k \in Cols : /\ cost[i][k] - v[k] - h = Via(path, j, k)
                         /\ Via(path, j, k) \in Int
                         /\ path.min <= Via(path, j, k)
  <2>1. h = cost[i][j] - v[j] - path.min
    BY DEF Excess
  <2> SUFFICES ASSUME NEW k \in Cols
               PROVE  /\ cost[i][k] - v[k] - h = Via(path, j, k)
                      /\ Via(path, j, k) \in Int
                      /\ path.min <= Via(path, j, k)
    BY <2>1
  <2>2. cost[i][k] \in Int /\ cost[i][j] \in Int /\ v[k] \in Int /\ v[j] \in Int
    BY <1>5, <1>6, <1>7
  <2>3. cost[i][j] - v[j] <= cost[i][k] - v[k]
    BY <1>7 DEF Cheapest
  <2>4. Via(path, j, k) = path.min + (cost[i][k] - v[k]) - (cost[i][j] - v[j])
    BY <1>6 DEF Via
  <2> HIDE DEF i, h
  <2> QED
    BY <1>3, <2>1, <2>2, <2>3, <2>4
<1>9. /\ near = {k \in todo : Via(path, j, k) < path.d[k]}
      /\ same = {k \in near : Via(path, j, k) = path.min}
  BY <1>8
<1>10. /\ p \in Paths /\ p.ready = path.ready /\ p.level = path.level
       /\ p.scan = path.scan /\ p.min = path.min
       /\ \A k \in Cols : /\ p.d[k] = IF k \in near THEN Via(path, j, k) ELSE path.d[k]
                          /\ p.pred[k] = IF k \in near THEN i ELSE path.pred[k]
  <2> DEFINE d    == [k \in Cols |-> IF k \in near THEN cost[i][k] - v[k] - h
                                                  ELSE path.d[k]]
             pred == [k \in Cols |-> IF k \in near THEN i ELSE path.pred[k]]
  <2>1. p = [path EXCEPT !.d = d, !.pred = pred]
    OBVIOUS
  <2>2. d \in [Cols -> Int] /\ \A k \in Cols :
          d[k] = IF k \in near THEN Via(path, j, k) ELSE path.d[k]
    <3> HIDE DEF near, h
    <3> QED
      BY <1>3, <1>8
  <2>3. pred \in [Cols -> Cols] /\ \A k \in Cols :
          pred[k] = IF k \in near THEN i ELSE path.pred[k]
    <3> HIDE DEF near
    <3> QED
      BY <1>3, <1>7
  <2> HIDE DEF d, pred, p, near
  <2> QED
    BY <1>3, <2>1, <2>2, <2>3 DEF Paths
<1>11. q \in Paths /\ q = [p EXCEPT !.level = @ \cup same, !.scan = (@ \ {j}) \cup same]
  BY <1>10 DEF Scanned, Paths
<1> HIDE DEF h, p
<1>12. /\ \A k \in near : k \in Cols /\ k \notin Near(path) /\ Via(path, j, k) < path.d[k]
       /\ \A k \in Cols \ near : k \in Near(path) \/ path.d[k] <= Via(path, j, k)
  <2>1. \A k \in todo : path.d[k] \in Int /\ Via(path, j, k) \in Int
    BY <1>3, <1>8
  <2> QED
    BY <1>9, <2>1 DEF Near
<1>13. same \subseteq near /\ \A k \in same : Via(path, j, k) = path.min
  BY <1>9
<1> HIDE DEF near, same
<1>14. \A k \in Near(path) : p.d[k] = path.d[k]
  BY <1>3, <1>10, <1>12
<1>15. \A k \in Cols : p.d[k] <= path.d[k] /\ p.d[k] <= Via(path, j, k)
                       /\ p.d[k] \in Int /\ path.min <= Via(path, j, k)
  <2> TAKE k \in Cols
  <2>1. path.d[k] \in Int /\ Via(path, j, k) \in Int /\ path.min <= Via(path, j, k)
    BY <1>3, <1>8
  <2>2. CASE k \in near
    BY <1>10, <1>12, <2>1, <2>2
  <2>3. CASE k \notin near /\ k \in Near(path)
    <3>1. path.d[k] <= path.min
      BY <1>3, <1>4, <2>1, <2>3 DEF Ordered, Near
    <3> QED
      BY <1>3, <1>10, <2>1, <2>3, <3>1
  <2>4. CASE k \notin near /\ k \notin Near(path)
    BY <1>10, <1>12, <2>1, <2>4
  <2> QED
    BY <2>2, <2>3, <2>4
<1>16. Shortest(p, S)
  <2>1. p.ready \subseteq S /\ S \subseteq Near(p) /\ \A l \in S : y[l] # 0
    BY <1>4, <1>6, <1>10 DEF Shortest, Looked, Near
  <2>2. \A l \in S : l \in Near(path) /\ l \in Cols
    BY <1>3, <1>6 DEF Looked, Near
  <2>3. \A l \in S, k \in Cols : Via(p, l, k) = Via(path, l, k)
    BY <1>14, <2>2 DEF Via
  <2>4. \A l \in S, k \in Cols : p.d[k] <= Via(p, l, k)
    <3> TAKE l \in S, k \in Cols
    <3>1. CASE l = j
      BY <1>15, <2>3, <3>1
    <3>2. CASE l \in Looked
      <4>1. path.d[k] <= Via(path, l, k)
        BY <1>4, <3>2 DEF Shortest
      <4>2. Via(path, l, k) \in Int
        <5>1. y[l] \in 0..n /\ y[l] # 0
          BY <1>4, <1>5, <2>2
        <5>2. y[l] \in Cols
          BY <1>5, <5>1
        <5>3. /\ path.d[l] \in Int /\ cost[y[l]][k] \in Int /\ v[k] \in Int
              /\ cost[y[l]][l] \in Int /\ v[l] \in Int
          BY <1>3, <1>5, <2>2, <5>2
        <5> QED
          BY <5>3 DEF Via
      <4>3. path.d[k] \in Int
        BY <1>3
      <4> QED
        BY <1>15, <2>3, <4>1, <4>2, <4>3
    <3> QED
      BY <3>1, <3>2
  <2>5. \A k \in Cols : p.d[k] <= cost[Root][k] - v[k]
    <3> TAKE k \in Cols
    <3>1. path.d[k] <= cost[Root][k] - v[k]
      BY <1>4 DEF Shortest
    <3>2. Root \in Cols
      BY <1>1, RootWaits DEF IInv, Loops
    <3>3. cost[Root][k] \in Int /\ v[k] \in Int /\ path.d[k] \in Int
      BY <1>3, <1>5, <3>2
    <3> QED
      BY <1>15, <3>1, <3>3
  <2>6. \A k \in Cols :
          \/ p.pred[k] = Root /\ p.d[k] = cost[Root][k] - v[k]
          \/ \E l \in S : p.pred[k] = y[l] /\ p.d[k] = Via(p, l, k)
    <3> TAKE k \in Cols
    <3>1. CASE k \in near
      <4>1. p.pred[k] = y[j] /\ p.d[k] = Via(p, j, k) /\ j \in S
        BY <1>10, <2>3, <3>1
      <4> QED
        BY <4>1
    <3>2. CASE k \notin near
      <4>1. p.pred[k] = path.pred[k] /\ p.d[k] = path.d[k]
        BY <1>10, <3>2
      <4> HIDE DEF i
      <4> QED
        BY <1>4, <2>3, <4>1 DEF Shortest
    <3> QED
      BY <3>1, <3>2
  <2> QED
    BY <2>1, <2>4, <2>5, <2>6 DEF Shortest
<1>17. Ordered(p)
  <2>1. Near(p) = Near(path)
    BY <1>10 DEF Near
  <2>2. \A k \in p.ready : p.d[k] <= p.min
    BY <1>4, <1>10, <1>14 DEF Ordered, Near
  <2>3. \A k \in p.level : p.d[k] = p.min
    BY <1>4, <1>10, <1>14 DEF Ordered, Near
  <2>4. \A k \in Cols \ Near(p) : p.min <= p.d[k]
    <3> TAKE k \in Cols \ Near(p)
    <3>1. path.min <= path.d[k] /\ path.min <= Via(path, j, k)
      BY <1>4, <1>15, <2>1 DEF Ordered
    <3> QED
      BY <1>10, <3>1
  <2> QED
    BY <2>2, <2>3, <2>4 DEF Ordered
<1>18. \A k \in same : /\ k \in Cols /\ k \notin Near(path) /\ p.d[k] = path.min
  BY <1>10, <1>12, <1>13
<1> HIDE DEF S, todo
<1>19. Found(p, S)
  <2>1. p.scan \subseteq p.level
    BY <1>3, <1>10
  <2> QED
    BY <1>10, <1>16, <1>17, <2>1 DEF Found
<1> DEFINE Facts(e) ==
           /\ j \in Cols /\ j \in Near(path) /\ path.d[j] = path.min
           /\ y[j] \in Cols /\ Cheapest(v, y[j], j)
           /\ \A k \in near : k \notin Near(path) /\ Via(path, j, k) < path.d[k]
           /\ \A k \in Cols :
                /\ Via(path, j, k) \in Int /\ path.min <= Via(path, j, k)
                /\ e.d[k] = IF k \in near THEN Via(path, j, k) ELSE path.d[k]
                /\ e.pred[k] = IF k \in near THEN y[j] ELSE path.pred[k]
<1>20. near \in SUBSET Cols /\ Facts(p)
  <2>1. near \in SUBSET Cols
    BY <1>12
  <2>2. y[j] \in Cols /\ Cheapest(v, y[j], j)
    BY <1>7
  <2>3. \A k \in Cols : p.pred[k] = IF k \in near THEN y[j] ELSE path.pred[k]
    BY <1>10
  <2> HIDE DEF i
  <2> QED
    BY <1>6, <1>8, <1>10, <1>12, <2>1, <2>2, <2>3
<1>21. CASE \E k \in open : Reach(p, k)
  <2>1. PICK k \in open : Reach(p, k)
    BY <1>21
  <2>2. k \in Cols /\ k \notin p.ready /\ p.d[k] = p.min /\ y[k] = 0
    BY <1>10, <1>18 DEF Near
  <2>3. Arrives(p)
    BY <2>1, <2>2 DEF Arrives
  <2> HIDE DEF i, open
  <2> QED
    BY <1>19, <1>20, <2>3 DEF S
<1>22. CASE /\ open = {} /\ path' = q /\ UNCHANGED <<v, col>>
            /\ phase' = IF q.scan = {} THEN "find" ELSE "scan"
  <2>1. /\ q.d = p.d /\ q.pred = p.pred /\ q.ready = p.ready /\ q.min = p.min
        /\ q.level = path.level \cup same /\ q.scan = (path.scan \ {j}) \cup same
    BY <1>10, <1>11 DEF Paths
  <2> HIDE DEF q, i
  <2>2. Near(q) = Near(path) \cup same /\ Near(p) = Near(path)
    BY <1>10, <2>1 DEF Near
  <2>3. /\ q.scan \subseteq q.level /\ S = Near(q) \ q.scan
        /\ q.ready \cap q.level = {} /\ Near(q) # {}
    <3>1. q.scan \subseteq q.level /\ Near(q) # {}
      BY <1>3, <1>6, <2>1, <2>2
    <3>2. S = Near(q) \ q.scan
      <4>1. Looked = Near(path) \ path.scan
        BY DEF Looked, Near
      <4> QED
        BY <1>6, <1>18, <2>1, <2>2, <4>1 DEF S
    <3>3. q.ready \cap q.level = {}
      BY <1>4, <1>10, <1>18, <2>1 DEF Near
    <3> QED
      BY <3>1, <3>2, <3>3
  <2>4. \A k \in Near(q) : y[k] # 0
    BY <1>4, <1>22, <2>2
  <2>5. Shortest(q, S)
    <3>1. S \subseteq Near(q) /\ q.ready \subseteq S
      BY <1>16, <2>1, <2>2 DEF Shortest
    <3>2. \A l, k : Via(q, l, k) = Via(p, l, k)
      BY <2>1 DEF Via
    <3> QED
      BY <1>16, <2>1, <3>1, <3>2 DEF Shortest
  <2>6. Ordered(q)
    BY <1>10, <1>17, <1>18, <2>1, <2>2 DEF Ordered
  <2>7. Found(q, S) /\ GoesOn(q, S)
    BY <1>11, <1>22, <2>3, <2>4, <2>5, <2>6 DEF Found, GoesOn
  <2>8. Facts(q)
    BY <1>20, <2>1
  <2> HIDE DEF Facts
  <2> QED
    BY <1>20, <2>7, <2>8 DEF S, Facts
<1> QED
  BY <1>2, <1>21, <1>22 DEF p, same, near, h, todo

LEMMA ScanColumnHolds ==
  ASSUME IInv, ScanColumn
  PROVE  IInv'
<1>1. /\ phase = "scan" /\ Next
      /\ UNCHANGED <<x, y, unique, free, current, kept, rr, pass>>
  BY DEF ScanColumn, Next, Step
<1>2. PICK j, p :
        Found(p, Looked \cup {j}) /\ (Arrives(p) \/ GoesOn(p, Looked \cup {j}))
  BY ScanColumnSteps
<1> QED
  BY <1>1, <1>2, ReachHolds, SearchHolds

(* One turn on the way back: the column goes to its predecessor, which     *)
(* leaves its own to the row before it, or was the root.                   *)
LEMMA FlipHolds ==
  ASSUME IInv, Flip
  PROVE  IInv'
<1>0. /\ nr' = nr /\ nc' = nc /\ cost' = cost /\ n' = n /\ Cols' = Cols
  BY Fixed DEF Next, Step
<1>1. /\ phase = "flip" /\ UNCHANGED <<v, unique, free, kept, rr, pass>>
      /\ path \in Paths /\ current < Len(free) /\ kept = 0 /\ Len(free) <= n
      /\ free \in Seq(Cols) /\ current \in Nat /\ n \in Nat /\ Cols = 1..n
      /\ x \in [Cols -> 0..n] /\ y \in [Cols -> 0..n] /\ col \in Cols
  <2>1. /\ phase = "flip" /\ UNCHANGED <<v, unique, free, kept, rr, pass>>
    BY DEF Flip
  <2>2. /\ n \in Nat /\ Cols = 1..n /\ current \in 0..n /\ free \in Seq(Cols)
        /\ x \in [Cols -> 0..n] /\ y \in [Cols -> 0..n]
    BY Indices DEF IInv, Shape
  <2>3. col \in Cols /\ path \in Paths /\ current < Len(free) /\ kept = 0 /\ Len(free) <= n
    BY <2>1 DEF IInv, Loops, Flipping
  <2>4. current \in Nat
    BY <2>2
  <2> QED
    BY <2>1, <2>2, <2>3, <2>4
<1> DEFINE i == path.pred[col]
<1>2. /\ i \in Cols /\ Root \in Cols /\ Root \in Waiting
      /\ Open = current + 1..Len(free) /\ col \in 0..n /\ i \in 0..n
  <2>1. path.pred \in [Cols -> Cols]
    BY <1>1 DEF Paths
  <2>2. i \in Cols /\ col \in Cols
    BY <1>1, <2>1
  <2>3. i \in 0..n /\ col \in 0..n
    <3>1. Cols \subseteq 0..n
      BY <1>1
    <3> QED
      BY <2>2, <3>1
  <2> QED
    BY <1>1, <2>2, <2>3, RootWaits
<1>3. /\ y' = [y EXCEPT ![col] = i] /\ x' = [x EXCEPT ![i] = col]
      /\ IF i = Root
         THEN phase' = "start" /\ current' = current + 1 /\ col' = 0 /\ path' = NoPath
         ELSE col' = x[i] /\ UNCHANGED <<phase, current, path>>
  BY DEF Flip, Root, Left
<1>4. /\ \A r \in Cols \ Waiting : /\ x[r] \in Cols /\ y[x[r]] = r /\ Cheapest(v, r, x[r])
                                   /\ x[r] # col
      /\ \A j \in Cols : y[j] # 0 => j = col \/ (y[j] \notin Waiting /\ x[y[j]] = j)
      /\ \A a, b \in Open : free[a] = free[b] => a = b
  <2>1. phase \in Placing /\ Placed
    BY <1>1 DEF IInv, Placing
  <2>2. \A r \in Cols \ Waiting : /\ x[r] \in Cols /\ y[x[r]] = r
                                  /\ Cheapest(v, r, x[r])
    BY <2>1 DEF Placed
  <2>3. \A r \in Cols \ Waiting : x[r] # col
    BY <1>1, <2>1 DEF Placed
  <2>4. \A j \in Cols : y[j] # 0 => j = col \/ (y[j] \notin Waiting /\ x[y[j]] = j)
    BY <2>1 DEF Placed
  <2>5. \A a, b \in Open : free[a] = free[b] => a = b
    BY <2>1 DEF Placed
  <2> QED
    BY <2>2, <2>3, <2>4, <2>5
<1>5. /\ Cheapest(v, i, col)
      /\ \A j \in Cols : path.pred[j] = Root
           \/ /\ path.pred[j] \notin Waiting
              /\ Cheapest(v, path.pred[x[path.pred[j]]], x[path.pred[j]])
  BY <1>1 DEF IInv, Flipping
<1>6. path.pred \in [Cols -> Cols]
  BY <1>1 DEF Paths
<1> HIDE DEF i
<1>7. /\ x' \in [Cols -> 0..n] /\ y' \in [Cols -> 0..n]
      /\ \A r \in Cols : x'[r] = IF r = i THEN col ELSE x[r]
      /\ \A j \in Cols : y'[j] = IF j = col THEN i ELSE y[j]
  BY <1>1, <1>2, <1>3
<1>8. ASSUME NEW r \in Cols, r \notin Waiting \/ r = i
      PROVE  x'[r] \in Cols /\ y'[x'[r]] = r /\ Cheapest(v, r, x'[r])
  <2>1. CASE r = i
    BY <1>1, <1>5, <1>7, <2>1
  <2>2. CASE r # i
    BY <1>4, <1>7, <1>8, <2>2
  <2> QED
    BY <2>1, <2>2
<1>9. \A a \in Cols, b \in Cols : Cheapest(v, a, b) => Cheapest(v, a, b)'
  BY <1>0, <1>1 DEF Cheapest
<1>10. CASE i = Root
  <2>1. /\ phase' = "start" /\ current' = current + 1 /\ col' = 0 /\ path' = NoPath
    BY <1>3, <1>10
  <2>2. Open' = Open \ {current + 1} /\ current + 1 \in Open
    <3>1. Len(free) \in Nat /\ current \in Nat /\ current < Len(free)
      BY <1>1
    <3>2. Open' = current + 2..Len(free)
      BY <1>1, <2>1, <3>1 DEF Open
    <3>3. (current + 1..Len(free)) \ {current + 1} = current + 2..Len(free)
      BY <3>1
    <3> QED
      BY <1>2, <3>1, <3>2, <3>3
  <2>3. \A r : r \in Waiting' <=> r \in Waiting /\ r # Root
    <3>1. \A r : r \in Waiting <=> \E k \in Open : free[k] = r
      BY DEF Waiting, Open
    <3>2. \A r : r \in Waiting' <=> \E k \in Open' : free[k] = r
      BY <1>1 DEF Waiting, Open
    <3> QED
      BY <1>4, <2>2, <3>1, <3>2 DEF Root
  <2>4. Placed'
    <3>1. \A r \in Cols \ Waiting' :
             x'[r] \in Cols /\ y'[x'[r]] = r /\ Cheapest(v, r, x[r])'
      <4> TAKE r \in Cols \ Waiting'
      <4>1. r \notin Waiting \/ r = i
        BY <1>10, <2>3
      <4>2. x'[r] \in Cols /\ y'[x'[r]] = r /\ Cheapest(v, r, x'[r])
        BY <1>8, <4>1
      <4> QED
        BY <1>0, <1>1, <4>2 DEF Cheapest
    <3>2. \A j \in Cols : y'[j] # 0 => y'[j] \notin Waiting' /\ x'[y'[j]] = j
      <4> TAKE j \in Cols
      <4>1. CASE j = col
        BY <1>2, <1>7, <1>10, <2>3, <4>1
      <4>2. CASE j # col /\ y[j] # 0
        <5>1. y[j] \in 0..n /\ y[j] \notin Waiting /\ x[y[j]] = j
          BY <1>1, <1>4, <4>2
        <5>2. y[j] \in Cols /\ y[j] # i
          <6>1. y[j] \in Cols
            BY <1>1, <4>2, <5>1
          <6> QED
            BY <1>2, <1>10, <5>1, <6>1
        <5> QED
          BY <1>7, <2>3, <4>2, <5>1, <5>2
      <4> QED
        BY <1>7, <4>1, <4>2
    <3>3. \A a, b \in Open' : free'[a] = free'[b] => a = b
      BY <1>1, <1>4, <2>2
    <3> QED
      BY <1>0, <2>1, <3>1, <3>2, <3>3 DEF Placed
  <2>5. Shape'
    <3>1. current' \in 0..n /\ kept' \in 0..current' /\ col' \in 0..n /\ kept' = 0
      BY <1>1, <2>1
    <3>2. phase' \in Placing
      BY <2>1 DEF Placing
    <3> QED
      BY <1>0, <1>1, <1>7, <2>1, <3>1, <3>2 DEF IInv, Shape
  <2>6. Loops'
    BY <1>0, <1>1, <2>1 DEF Loops
  <2>7. Claiming' /\ Transferring' /\ Searching' /\ Flipping'
    BY <2>1 DEF Claiming, Transferring, Searching, Flipping
  <2> QED
    BY <1>0, <2>4, <2>5, <2>6, <2>7 DEF IInv, Sizes, Bordered
<1>11. CASE i # Root
  <2>1. /\ phase' = "flip" /\ current' = current /\ path' = path /\ col' = x[i]
        /\ Open' = Open /\ Waiting' = Waiting /\ Root' = Root
    BY <1>1, <1>3, <1>11 DEF Open, Waiting, Root
  <2>2. /\ i \notin Waiting /\ x[i] \in Cols /\ y[x[i]] = i /\ x[i] # col
        /\ Cheapest(v, path.pred[x[i]], x[i])
    <3>1. i \notin Waiting /\ Cheapest(v, path.pred[x[i]], x[i])
      BY <1>1, <1>5, <1>11 DEF i
    <3> QED
      BY <1>2, <1>4, <3>1
  <2>3. Placed'
    <3>1. \A r \in Cols \ Waiting : x'[r] \in Cols /\ y'[x'[r]] = r /\ Cheapest(v, r, x[r])'
      <4> TAKE r \in Cols \ Waiting
      <4>1. x'[r] \in Cols /\ y'[x'[r]] = r /\ Cheapest(v, r, x'[r])
        BY <1>8
      <4> QED
        BY <1>0, <1>1, <4>1 DEF Cheapest
    <3>2. \A j \in Cols : y'[j] # 0 => j = x[i] \/ (y'[j] \notin Waiting /\ x'[y'[j]] = j)
      <4> TAKE j \in Cols
      <4>1. CASE j = col
        BY <1>2, <1>7, <2>2, <4>1
      <4>2. CASE j # col /\ y[j] # 0 /\ j # x[i]
        <5>1. y[j] \in 0..n /\ y[j] \notin Waiting /\ x[y[j]] = j
          BY <1>1, <1>4, <4>2
        <5>2. y[j] \in Cols /\ y[j] # i
          BY <1>1, <4>2, <5>1
        <5> QED
          BY <1>7, <4>2, <5>1, <5>2
      <4> QED
        <5>1. CASE j # col /\ y[j] = 0
          BY <1>7, <5>1
        <5> QED
          BY <4>1, <4>2, <5>1
    <3>3. \A r \in Cols \ Waiting : x'[r] # x[i]
      BY <1>4, <1>7, <2>2
    <3> QED
      BY <1>0, <1>1, <1>4, <2>1, <3>1, <3>2, <3>3 DEF Placed
  <2>4. Shape'
    <3>1. x[i] \in 0..n
      BY <1>1, <1>2
    <3>2. phase' \in Placing
      BY <2>1 DEF Placing
    <3> QED
      BY <1>0, <1>1, <1>7, <2>1, <3>1, <3>2 DEF IInv, Shape, Paths
  <2>5. Loops'
    BY <1>0, <1>1, <2>1 DEF Loops, Paths
  <2>6. Flipping'
    <3>1. ASSUME NEW j \in Cols, path.pred[j] # Root
          PROVE  /\ path.pred[j] \notin Waiting /\ x'[path.pred[j]] \in Cols
                 /\ Cheapest(v, path.pred[x'[path.pred[j]]], x'[path.pred[j]])
      <4>1. CASE path.pred[j] = i
        BY <1>1, <1>2, <1>5, <1>7, <2>2, <4>1 DEF i
      <4>2. CASE path.pred[j] # i
        BY <1>4, <1>5, <1>6, <1>7, <3>1, <4>2
      <4> QED
        BY <4>1, <4>2
    <3>2. \A j \in Cols : path.pred[j] = Root
            \/ /\ path.pred[j] \notin Waiting
               /\ Cheapest(v, path.pred[x[path.pred[j]]], x[path.pred[j]])'
      BY <1>0, <1>1, <2>1, <3>1 DEF Cheapest
    <3>3. /\ col' \in Cols /\ Cheapest(v, path.pred[col], col)'
      BY <1>0, <1>1, <2>1, <2>2 DEF Cheapest
    <3> QED
      BY <1>0, <2>1, <3>2, <3>3 DEF Flipping, Cheapest
  <2>7. Claiming' /\ Transferring' /\ Searching'
    BY <2>1 DEF Claiming, Transferring, Searching
  <2> QED
    BY <1>0, <2>3, <2>4, <2>5, <2>6, <2>7 DEF IInv, Sizes, Bordered
<1> QED
  BY <1>10, <1>11

LEMMA StepHolds == IInv /\ [Next]_vars => IInv'
<1> SUFFICES ASSUME IInv, [Next]_vars PROVE IInv'
  OBVIOUS
<1>1. CASE Step
  BY <1>1, ColumnReductionHolds, ClaimHolds, TransferHolds, TransferEndsHolds,
     RowReductionHolds, PassEndsHolds, StartPathHolds, AllPlacedHolds,
     FindNearestHolds, ScanColumnHolds, FlipHolds DEF Step
<1>2. CASE UNCHANGED vars
  <2>1. n' = n /\ Cols' = Cols
    BY <1>2 DEF vars, n, Cols
  <2>2. Open' = Open /\ Waiting' = Waiting /\ Root' = Root /\ Looked' = Looked
    BY <1>2 DEF vars, Open, Waiting, Root, Looked, Near
  <2>3. (Sizes /\ Shape /\ Bordered /\ Loops)'
    BY <1>2, <2>1 DEF vars, IInv, Sizes, Shape, Bordered, Loops, Paths
  <2>4. (Claiming /\ Transferring)'
    BY <1>2, <2>1 DEF vars, IInv, Claiming, Transferring, Fallen, Cheapest
  <2>5. (Placed /\ Flipping)'
    BY <1>2, <2>1, <2>2 DEF vars, IInv, Placed, Flipping, Cheapest
  <2>6. Searching'
    BY <1>2, <2>1, <2>2 DEF vars, IInv, Searching, Shortest, Ordered, Near, Via
  <2> QED
    BY <2>3, <2>4, <2>5, <2>6 DEF IInv
<1> QED
  BY <1>1, <1>2 DEF Next, Done

LEMMA InvariantHolds == Spec => []IInv
BY InitHolds, StepHolds, PTL DEF Spec

-----------------------------------------------------------------------------
(* turns only grows within a walk.                                         *)
LEMMA TurnsType == Spec => [](turns \in Nat)
<1>1. Init => turns \in Nat
  BY DEF Init
<1>2. turns \in Nat /\ [Next]_vars => (turns \in Nat)'
  <2> SUFFICES ASSUME turns \in Nat, [Next]_vars PROVE turns' \in Nat
    OBVIOUS
  <2>1. turns' \in {turns, 0, turns + 1}
    BY DEF Next, Step, vars, ColumnReduction, Claim, Transfer, TransferEnds, RowReduction,
           PassEnds, StartPath, AllPlaced, FindNearest, ScanColumn, Flip, Done
  <2> QED
    BY <2>1
<1> QED
  BY <1>1, <1>2, PTL DEF Spec

LEMMA TypesHold == IInv /\ turns \in Nat => TypeOK
<1> SUFFICES ASSUME IInv, turns \in Nat PROVE TypeOK
  OBVIOUS
<1>1. Shape /\ Loops
  BY DEF IInv
<1>2. /\ path.ready \subseteq Cols /\ path.level \subseteq Cols
      /\ path.scan \subseteq path.level
  <2>1. CASE path = NoPath
    BY <2>1 DEF NoPath
  <2>2. CASE path \in Paths /\ path.scan \subseteq path.level
    BY <2>2 DEF Paths
  <2> QED
    BY <1>1, <2>1, <2>2 DEF Shape
<1>3. phase # "transfer" => current <= Len(free)
  <2>1. free \in Seq(Cols) /\ current \in 0..n
    BY <1>1 DEF Shape
  <2>2. Len(free) \in Nat /\ current \in Int
    BY <2>1
  <2> QED
    BY <1>1, <2>2 DEF Loops, Shape, Placing
<1> QED
  BY <1>1, <1>2, <1>3 DEF Shape, TypeOK, Placing

(* Main result of the bookkeeping: in every step of the solver the rows    *)
(* that have no column are listed once each in what is left of free_rows,  *)
(* whatever the row reduction wrote over it (_carr_dense and _ca_dense).   *)
THEOREM RowsAccountedCorrect == Spec => []RowsAccounted
<1>1. IInv /\ turns \in Nat => RowsAccounted
  <2> SUFFICES ASSUME IInv, turns \in Nat PROVE RowsAccounted
    OBVIOUS
  <2>1. 0 \notin Cols
    BY Indices DEF IInv
  <2>2. ASSUME phase \in {"rows", "start", "find", "scan", "done"}
        PROVE  /\ \A i \in Cols \ Waiting : x[i] # 0 /\ y[x[i]] = i
               /\ \A j \in Cols : y[j] # 0 => y[j] \notin Waiting /\ x[y[j]] = j
               /\ \A k, m \in Open : free[k] = free[m] => k = m
    BY <2>1, <2>2 DEF IInv, Placed, Placing
  <2> QED
    BY <2>2, TypesHold DEF RowsAccounted, Open
<1> QED
  BY <1>1, InvariantHolds, TurnsType, PTL

(* Complementary slackness: every row that has a column pays least for it  *)
(* at the current prices, after any number of exchanges and repricings     *)
(* (_carr_dense and find_path_dense).                                      *)
THEOREM PaysLeastCorrect == Spec => []PaysLeast
<1>1. IInv => PaysLeast
  BY DEF IInv, Placed, Placing, Cheapest, PaysLeast
<1> QED
  BY <1>1, InvariantHolds, PTL

-----------------------------------------------------------------------------
(* Sums.  B has for every set of indices the sum of the values b.          *)
Additive(B, b, N) ==
  /\ B \in [SUBSET (1..N) -> Int] /\ B[{}] = 0
  /\ \A T \in SUBSET (1..N) : \A j \in (1..N) \ T : B[T \cup {j}] = B[T] + b[j]

LEMMA AdditiveStep ==
  ASSUME NEW N, NEW b, NEW B, Additive(B, b, N),
         NEW T \in SUBSET (1..N), NEW j \in (1..N) \ T
  PROVE  B[T \cup {j}] = B[T] + b[j] /\ B[T] \in Int
BY DEF Additive

LEMMA AdditiveExists ==
  ASSUME NEW N \in Nat, NEW b \in [1..N -> Int]
  PROVE  \E B : Additive(B, b, N)
<1> DEFINE Adds(m) == \E B : Additive(B, b, m)
           G == {m \in Nat : m <= N => Adds(m)}
<1>1. Adds(0)
  <2> DEFINE B == [T \in SUBSET (1..0) |-> 0]
  <2>1. B \in [SUBSET (1..0) -> Int] /\ B[{}] = 0
    OBVIOUS
  <2>2. \A T \in SUBSET (1..0) : \A j \in (1..0) \ T : B[T \cup {j}] = B[T] + b[j]
    <3>1. 1..0 = {}
      OBVIOUS
    <3> HIDE DEF B
    <3> QED
      BY <3>1
  <2> HIDE DEF B
  <2>3. Additive(B, b, 0)
    BY <2>1, <2>2 DEF Additive
  <2> QED
    BY <2>3
<1>2. ASSUME NEW m \in Nat, m + 1 <= N, Adds(m) PROVE Adds(m + 1)
  <2>1. PICK A : Additive(A, b, m)
    BY <1>2
  <2> DEFINE B == [T \in SUBSET (1..(m + 1)) |->
                     IF m + 1 \in T THEN A[T \ {m + 1}] + b[m + 1] ELSE A[T]]
  <2>2. /\ A \in [SUBSET (1..m) -> Int] /\ A[{}] = 0
        /\ \A T \in SUBSET (1..m) : \A j \in (1..m) \ T : A[T \cup {j}] = A[T] + b[j]
    BY <2>1 DEF Additive
  <2>3. b[m + 1] \in Int /\ m + 1 \notin 1..m
    BY <1>2
  <2>4. \A T \in SUBSET (1..(m + 1)) : /\ T \ {m + 1} \in SUBSET (1..m)
                                       /\ m + 1 \notin T => T \in SUBSET (1..m)
    OBVIOUS
  <2>5. B \in [SUBSET (1..(m + 1)) -> Int]
    <3> SUFFICES ASSUME NEW T \in SUBSET (1..(m + 1))
                 PROVE  (IF m + 1 \in T THEN A[T \ {m + 1}] + b[m + 1] ELSE A[T]) \in Int
      OBVIOUS
    <3>1. CASE m + 1 \in T
      <4>1. A[T \ {m + 1}] \in Int
        BY <2>2, <2>4
      <4> QED
        BY <2>3, <3>1, <4>1
    <3>2. CASE m + 1 \notin T
      BY <2>2, <2>4, <3>2
    <3> QED
      BY <3>1, <3>2
  <2>6. \A T \in SUBSET (1..(m + 1)) :
          B[T] = IF m + 1 \in T THEN A[T \ {m + 1}] + b[m + 1] ELSE A[T]
    OBVIOUS
  <2> HIDE DEF B
  <2>7. B[{}] = 0
    <3>1. {} \in SUBSET (1..(m + 1))
      OBVIOUS
    <3> QED
      BY <2>2, <2>6, <3>1
  <2>8. ASSUME NEW T \in SUBSET (1..(m + 1)), NEW j \in (1..(m + 1)) \ T
        PROVE  B[T \cup {j}] = B[T] + b[j]
    <3>1. T \cup {j} \in SUBSET (1..(m + 1)) /\ b[j] \in Int
      BY <1>2
    <3>2. CASE j = m + 1
      <4>1. (T \cup {j}) \ {m + 1} = T /\ m + 1 \in T \cup {j} /\ m + 1 \notin T
        BY <3>2
      <4>2. B[T \cup {j}] = A[T] + b[m + 1]
        BY <2>6, <3>1, <4>1
      <4>3. B[T] = A[T]
        BY <2>6, <4>1
      <4> QED
        BY <3>2, <4>2, <4>3
    <3>3. CASE j # m + 1 /\ m + 1 \in T
      <4> DEFINE U == T \ {m + 1}
      <4>1. (T \cup {j}) \ {m + 1} = U \cup {j} /\ m + 1 \in T \cup {j}
        BY <3>3
      <4>2. U \in SUBSET (1..m) /\ j \in (1..m) \ U
        BY <3>3
      <4>3. B[T] = A[U] + b[m + 1]
        BY <2>6, <3>3
      <4> HIDE DEF U
      <4>4. B[T \cup {j}] = A[U \cup {j}] + b[m + 1]
        BY <2>6, <3>1, <4>1
      <4>5. A[U \cup {j}] = A[U] + b[j] /\ A[U] \in Int
        BY <2>2, <4>2
      <4> QED
        BY <2>3, <3>1, <4>3, <4>4, <4>5
    <3>4. CASE j # m + 1 /\ m + 1 \notin T
      <4>1. T \in SUBSET (1..m) /\ j \in (1..m) \ T /\ m + 1 \notin T \cup {j}
        BY <3>4
      <4>2. B[T] = A[T] /\ B[T \cup {j}] = A[T \cup {j}]
        BY <2>6, <3>1, <3>4, <4>1
      <4> QED
        <5>1. A[T \cup {j}] = A[T] + b[j]
          BY <2>2, <4>1
        <5> QED
          BY <4>2, <5>1
    <3> QED
      BY <3>2, <3>3, <3>4
  <2>9. Additive(B, b, m + 1)
    BY <2>5, <2>7, <2>8 DEF Additive
  <2> QED
    BY <2>9
<1>3. Nat \subseteq G
  <2> HIDE DEF Adds
  <2>1. 0 \in G
    BY <1>1
  <2>2. \A m \in Nat : m \in G => m + 1 \in G
    BY <1>2
  <2> HIDE DEF G
  <2> QED
    BY <2>1, <2>2, SetInduction
<1> HIDE DEF Adds
<1>4. Adds(N)
  BY <1>3
<1> QED
  BY <1>4 DEF Adds

LEMMA AdditiveMonotonic ==
  ASSUME NEW N \in Nat, NEW b \in [1..N -> Int], NEW B, Additive(B, b, N),
         NEW T \in SUBSET (1..N)
  PROVE  /\ (\A j \in (1..N) \ T : b[j] <= 0) => B[1..N] <= B[T]
         /\ (\A j \in (1..N) \ T : 0 <= b[j]) => B[T] <= B[1..N]
<1> DEFINE Falls == \A j \in (1..N) \ T : b[j] <= 0
           Rises == \A j \in (1..N) \ T : 0 <= b[j]
           Moves(m) == /\ Falls => B[T \cup 1..m] <= B[T]
                       /\ Rises => B[T] <= B[T \cup 1..m]
           G == {m \in Nat : m <= N => Moves(m)}
<1>1. /\ B \in [SUBSET (1..N) -> Int] /\ B[T] \in Int
      /\ \A U \in SUBSET (1..N) : \A j \in (1..N) \ U : B[U \cup {j}] = B[U] + b[j]
  BY DEF Additive
<1>2. Moves(0)
  <2>1. T \cup 1..0 = T
    OBVIOUS
  <2> QED
    BY <1>1, <2>1
<1>3. ASSUME NEW m \in Nat, m + 1 <= N, Moves(m) PROVE Moves(m + 1)
  <2> DEFINE U == T \cup 1..m
  <2>1. T \cup 1..(m + 1) = U \cup {m + 1} /\ U \in SUBSET (1..N) /\ m + 1 \in 1..N
    BY <1>3
  <2>2. B[U] \in Int /\ b[m + 1] \in Int
    BY <1>1, <2>1
  <2>3. CASE m + 1 \in U
    <3>1. T \cup 1..(m + 1) = U
      BY <2>1, <2>3
    <3> QED
      BY <1>3, <3>1
  <2>4. CASE m + 1 \notin U
    <3>1. m + 1 \in (1..N) \ T
      BY <2>1, <2>4
    <3>2. /\ Falls => b[m + 1] <= 0
          /\ Rises => 0 <= b[m + 1]
      BY <3>1
    <3>3. /\ Falls => B[U] <= B[T]
          /\ Rises => B[T] <= B[U]
      BY <1>3
    <3> HIDE DEF U, Falls, Rises
    <3>4. B[T \cup 1..(m + 1)] = B[U] + b[m + 1]
      BY <1>1, <2>1, <2>4
    <3> QED
      BY <1>1, <2>2, <3>2, <3>3, <3>4
  <2> QED
    BY <2>3, <2>4
<1>4. Nat \subseteq G
  <2> HIDE DEF Moves
  <2>1. 0 \in G
    BY <1>2
  <2>2. \A m \in Nat : m \in G => m + 1 \in G
    BY <1>3
  <2> HIDE DEF G
  <2> QED
    BY <2>1, <2>2, SetInduction
<1> HIDE DEF Moves
<1>5. Moves(N)
  BY <1>4
<1>6. T \cup 1..N = 1..N
  OBVIOUS
<1> QED
  BY <1>5, <1>6 DEF Moves

(* The recursive sum of a function is what its definition says.            *)
LEMMA SumExists ==
  ASSUME NEW N \in Nat, NEW g \in [1..N -> Int]
  PROVE  \E s \in [0..N -> Int] :
           s = [i \in 0..N |-> IF i = 0 THEN 0 ELSE s[i - 1] + g[i]]
<1>1. PICK B : Additive(B, g, N)
  BY AdditiveExists
<1> DEFINE s == [i \in 0..N |-> B[1..i]]
<1>2. \A i \in 0..N : 1..i \in SUBSET (1..N)
  OBVIOUS
<1>3. s \in [0..N -> Int] /\ \A i \in 0..N : s[i] = B[1..i]
  BY <1>1, <1>2 DEF Additive
<1>4. s[0] = 0
  <2>1. 1..0 = {} /\ 0 \in 0..N
    OBVIOUS
  <2> QED
    BY <1>1, <1>3, <2>1 DEF Additive
<1> HIDE DEF s
<1>5. \A i \in 0..N : s[i] = IF i = 0 THEN 0 ELSE s[i - 1] + g[i]
  <2> SUFFICES ASSUME NEW i \in 0..N, i # 0 PROVE s[i] = s[i - 1] + g[i]
    BY <1>4
  <2>1. i - 1 \in 0..N /\ i \in (1..N) \ (1..(i - 1)) /\ 1..i = 1..(i - 1) \cup {i}
    OBVIOUS
  <2> QED
    <3>1. 1..(i - 1) \in SUBSET (1..N) /\ s[i - 1] = B[1..(i - 1)] /\ s[i] = B[1..i]
      BY <1>2, <1>3, <2>1
    <3>2. B[1..(i - 1) \cup {i}] = B[1..(i - 1)] + g[i]
      BY <1>1, <2>1, <3>1 DEF Additive
    <3> QED
      BY <2>1, <3>1, <3>2
<1> QED
  BY <1>3, <1>5

LEMMA CostIs ==
  ASSUME Sizes, Shape, NEW f \in Pairings
  PROVE  \E s \in [0..nr -> Int] :
           /\ s[0] = 0
           /\ \A i \in 1..nr : s[i] = s[i - 1] + IF f[i] = 0 THEN 0 ELSE cost[i][f[i]]
           /\ CostOf(f) = s[nr] + (Limit \div 2)
                            * (n - 2 * Cardinality({i \in 1..nr : f[i] # 0}))
<1> DEFINE g == [i \in 1..nr |-> IF f[i] = 0 THEN 0 ELSE cost[i][f[i]]]
           IsSum(s) == s = [i \in 0..nr |-> IF i = 0 THEN 0 ELSE
                              s[i - 1] + IF f[i] = 0 THEN 0 ELSE cost[i][f[i]]]
           sum == CHOOSE s : IsSum(s)
<1>1. nr \in Nat /\ f \in [1..nr -> 0..nc]
  BY DEF Sizes, Pairings
<1>2. g \in [1..nr -> Int] /\ \A i \in 1..nr : g[i] = IF f[i] = 0 THEN 0 ELSE cost[i][f[i]]
  <2>1. \A i \in 1..nr : f[i] # 0 => cost[i][f[i]] \in Int
    <3> SUFFICES ASSUME NEW i \in 1..nr, f[i] # 0 PROVE cost[i][f[i]] \in Int
      OBVIOUS
    <3>1. i \in Cols /\ f[i] \in Cols
      BY <1>1 DEF Sizes, Cols, n
    <3> QED
      BY <3>1 DEF Shape
  <2> QED
    BY <2>1
<1>3. PICK t \in [0..nr -> Int] :
        t = [i \in 0..nr |-> IF i = 0 THEN 0 ELSE t[i - 1] + g[i]]
  BY <1>1, <1>2, SumExists
<1>4. IsSum(t)
  <2>1. \A i \in 0..nr : i # 0 => g[i] = IF f[i] = 0 THEN 0 ELSE cost[i][f[i]]
    BY <1>1, <1>2
  <2>2. \A i \in 0..nr : t[i] = IF i = 0 THEN 0 ELSE t[i - 1] + g[i]
    BY <1>3
  <2> HIDE DEF g
  <2>3. t = [i \in 0..nr |-> t[i]]
    OBVIOUS
  <2> QED
    BY <2>1, <2>2, <2>3
<1>5. IsSum(sum)
  <2> HIDE DEF IsSum
  <2> QED
    BY <1>4
<1>6. CostOf(f) = sum[nr] + (Limit \div 2)
                    * (n - 2 * Cardinality({i \in 1..nr : f[i] # 0}))
  <2> DEFINE c == Cardinality({i \in 1..nr : f[i] # 0})
  <2>1. CostOf(f) = sum[nr] + (Limit \div 2) * (nr + nc - 2 * c)
    BY DEF CostOf
  <2>2. c \in Nat
    <3>1. IsFiniteSet(1..nr)
      BY <1>1, FS_Interval
    <3>2. IsFiniteSet({i \in 1..nr : f[i] # 0})
      BY <3>1, FS_Subset
    <3> QED
      BY <3>2, FS_CardinalityType
  <2> HIDE DEF c
  <2>3. nr + nc - 2 * c = n - 2 * c
    BY <2>2 DEF n, Sizes
  <2> QED
    BY <2>1, <2>3 DEF c
<1> HIDE DEF sum
<1>7. \A i \in 0..nr : sum[i] = IF i = 0 THEN 0 ELSE
                         sum[i - 1] + IF f[i] = 0 THEN 0 ELSE cost[i][f[i]]
  BY <1>5
<1>8. \A i \in 0..nr : t[i] = IF i = 0 THEN 0 ELSE
                         t[i - 1] + IF f[i] = 0 THEN 0 ELSE cost[i][f[i]]
  BY <1>4
<1> HIDE DEF IsSum, g
<1>9. sum[nr] = t[nr]
  <2> DEFINE G == {m \in Nat : m <= nr => sum[m] = t[m]}
  <2>1. 0 \in G
    <3>1. 0 \in 0..nr
      BY <1>1
    <3>2. sum[0] = 0
      BY <1>7, <3>1
    <3>3. t[0] = 0
      BY <1>8, <3>1
    <3> QED
      BY <3>2, <3>3
  <2>2. ASSUME NEW m \in Nat, m \in G PROVE m + 1 \in G
    <3> SUFFICES ASSUME m + 1 <= nr PROVE sum[m + 1] = t[m + 1]
      OBVIOUS
    <3>1. sum[m] = t[m] /\ m + 1 \in 0..nr /\ m + 1 # 0 /\ (m + 1) - 1 = m
      BY <1>1, <2>2
    <3> QED
      BY <1>7, <1>8, <3>1
  <2> HIDE DEF G
  <2>3. Nat \subseteq G
    BY <2>1, <2>2, SetInduction
  <2> QED
    BY <1>1, <2>3 DEF G
<1>10. /\ t[0] = 0
       /\ \A i \in 1..nr : t[i] = t[i - 1] + IF f[i] = 0 THEN 0 ELSE cost[i][f[i]]
  BY <1>1, <1>8
<1> QED
  BY <1>6, <1>9, <1>10

(* The columns a pairing covers, and what it costs to leave all alone.     *)
Covered(f) == {f[i] : i \in {m \in 1..nr : f[m] # 0}}
AllAlone   == (Limit \div 2) * n

(* How the cost of a pairing splits over prices a of the rows and b of the *)
(* columns, and over e, what each pair, or row alone, is dearer than its   *)
(* prices.                                                                 *)
Dearer(e, f, a, b) ==
  \A i \in 1..nr : /\ f[i] = 0 => e[i] = -a[i]
                   /\ f[i] # 0 => e[i] = cost[i][f[i]] - Limit - a[i] - b[f[i]]

LEMMA CostSplit ==
  ASSUME Sizes, Shape, NEW f \in Pairings,
         NEW a \in [1..nr -> Int], NEW b \in [1..nc -> Int], NEW e \in [1..nr -> Int],
         NEW A, NEW B, NEW E,
         Additive(A, a, nr), Additive(B, b, nc), Additive(E, e, nr), Dearer(e, f, a, b)
  PROVE  CostOf(f) = AllAlone + A[1..nr] + E[1..nr] + B[Covered(f)]
<1> DEFINE h == Limit \div 2
           Paired(k)  == {i \in 1..k : f[i] # 0}
           CoveredTo(k) == {f[i] : i \in Paired(k)}
<1>1. /\ nr \in Nat /\ nc \in Nat /\ n = nr + nc /\ f \in [1..nr -> 0..nc]
      /\ \A i, k \in 1..nr : f[i] = f[k] /\ f[i] # 0 => i = k
  BY DEF Sizes, Pairings, n
<1>2. h \in Int /\ Limit = 2 * h
  BY AssignmentAssumption
<1> HIDE DEF h
<1>3. PICK s \in [0..nr -> Int] :
        /\ s[0] = 0
        /\ \A i \in 1..nr : s[i] = s[i - 1] + IF f[i] = 0 THEN 0 ELSE cost[i][f[i]]
        /\ CostOf(f) = s[nr] + h * (n - 2 * Cardinality(Paired(nr)))
  BY CostIs DEF h
<1>4. \A i \in 1..nr : f[i] # 0 => cost[i][f[i]] \in Int /\ f[i] \in 1..nc
  <2> SUFFICES ASSUME NEW i \in 1..nr, f[i] # 0
               PROVE  cost[i][f[i]] \in Int /\ f[i] \in 1..nc
    OBVIOUS
  <2>1. f[i] \in 1..nc
    BY <1>1
  <2>2. i \in Cols /\ f[i] \in Cols
    BY <1>1, <2>1 DEF Cols
  <2> QED
    BY <2>1, <2>2 DEF Shape
<1>5. \A k \in 0..nr : /\ IsFiniteSet(Paired(k)) /\ Cardinality(Paired(k)) \in Nat
                       /\ CoveredTo(k) \in SUBSET (1..nc)
  <2> TAKE k \in 0..nr
  <2>1. IsFiniteSet(1..k) /\ Paired(k) \in SUBSET (1..k)
    <3>1. 0 \in Int /\ 1 \in Int /\ k \in Int
      BY <1>1
    <3> QED
      BY <3>1, FS_Interval
  <2>2. IsFiniteSet(Paired(k))
    BY <2>1, FS_Subset
  <2>3. \A i \in Paired(k) : i \in 1..nr /\ f[i] # 0
    BY <1>1
  <2>4. CoveredTo(k) \in SUBSET (1..nc)
    BY <1>4, <2>3
  <2> HIDE DEF Paired
  <2> QED
    BY <2>2, <2>4, FS_CardinalityType
<1> DEFINE up(k)     == 1..k
           all       == h * n
           alone(k)  == h * (n - 2 * Cardinality(Paired(k)))
           Splits(k) == s[k] + alone(k) = all + A[up(k)] + E[up(k)] + B[CoveredTo(k)]
           G == {k \in Nat : k <= nr => Splits(k)}
<1>6. Splits(0)
  <2>1. 1..0 = {}
    OBVIOUS
  <2>2. Paired(0) = {}
    BY <2>1
  <2>3. CoveredTo(0) = {}
    BY <2>2
  <2>4. /\ A[1..0] = 0 /\ E[1..0] = 0 /\ B[CoveredTo(0)] = 0 /\ Cardinality(Paired(0)) = 0
    BY <2>1, <2>2, <2>3, FS_EmptySet DEF Additive
  <2> HIDE DEF Paired, CoveredTo
  <2>5. alone(0) = all /\ all \in Int
    BY <1>1, <1>2, <2>4
  <2> HIDE DEF all, alone
  <2> QED
    BY <1>3, <2>4, <2>5
<1>7. ASSUME NEW k \in Nat, k + 1 <= nr, Splits(k) PROVE Splits(k + 1)
  <2>1. /\ k \in 0..nr /\ k + 1 \in 1..nr /\ k + 1 \in 0..nr
        /\ 1..(k + 1) = (1..k) \cup {k + 1}
        /\ 1..k \in SUBSET (1..nr) /\ k + 1 \in (1..nr) \ (1..k)
    <3>1. k \in 0..nr /\ k + 1 \in 1..nr /\ k + 1 \in 0..nr
      BY <1>1, <1>7
    <3>2. 1..(k + 1) = (1..k) \cup {k + 1} /\ k + 1 \notin 1..k
      OBVIOUS
    <3>3. 1..k \in SUBSET (1..nr)
      BY <1>1, <3>1
    <3> QED
      BY <3>1, <3>2, <3>3
  <2>2. /\ A[up(k + 1)] = A[up(k)] + a[k + 1] /\ A[up(k)] \in Int
        /\ E[up(k + 1)] = E[up(k)] + e[k + 1] /\ E[up(k)] \in Int
        /\ a[k + 1] \in Int /\ e[k + 1] \in Int
    <3>0. /\ up(k + 1) = up(k) \cup {k + 1} /\ up(k) \in SUBSET (1..nr)
          /\ k + 1 \in (1..nr) \ up(k)
      BY <2>1
    <3> HIDE DEF up
    <3>1. A[up(k + 1)] = A[up(k)] + a[k + 1] /\ A[up(k)] \in Int
      <4>1. /\ A[up(k) \cup {k + 1}] = A[up(k)] + a[k + 1]
            /\ A[up(k)] \in Int
        BY <3>0, AdditiveStep
      <4> QED
        BY <3>0, <4>1
    <3>2. E[up(k + 1)] = E[up(k)] + e[k + 1] /\ E[up(k)] \in Int
      <4>1. /\ E[up(k) \cup {k + 1}] = E[up(k)] + e[k + 1]
            /\ E[up(k)] \in Int
        BY <3>0, AdditiveStep
      <4> QED
        BY <3>0, <4>1
    <3> QED
      BY <2>1, <3>1, <3>2
  <2>3. s[k] \in Int /\ s[k + 1] = s[k] + IF f[k + 1] = 0 THEN 0 ELSE cost[k + 1][f[k + 1]]
    <3>1. (k + 1) - 1 = k
      OBVIOUS
    <3> QED
      BY <1>3, <2>1, <3>1
  <2>4. B[CoveredTo(k)] \in Int
    BY <1>5, <2>1 DEF Additive
  <2>5. CASE f[k + 1] = 0
    <3>1. Paired(k + 1) = Paired(k)
      BY <2>1, <2>5
    <3>2. CoveredTo(k + 1) = CoveredTo(k)
      BY <3>1
    <3> HIDE DEF Paired, CoveredTo
    <3>3. s[k + 1] = s[k] /\ e[k + 1] = -a[k + 1]
      BY <2>1, <2>3, <2>5 DEF Dearer
    <3>4. alone(k + 1) = alone(k) /\ alone(k) \in Int /\ all \in Int
      <4>1. alone(k + 1) = alone(k)
        BY <3>1
      <4>2. n \in Int /\ h \in Int /\ Cardinality(Paired(k)) \in Int
        BY <1>1, <1>2, <1>5, <2>1
      <4>3. alone(k) \in Int /\ all \in Int
        BY <4>2
      <4> QED
        BY <4>1, <4>3
    <3>5. s[k] + alone(k) = all + A[up(k)] + E[up(k)] + B[CoveredTo(k)]
      BY <1>7
    <3> HIDE DEF all, alone, up
    <3> DEFINE A0 == A[up(k)]
               E0 == E[up(k)]
               B0 == B[CoveredTo(k)]
               s0 == s[k]
               w0 == alone(k)
               A1 == A[up(k + 1)]
               E1 == E[up(k + 1)]
               B1 == B[CoveredTo(k + 1)]
               s1 == s[k + 1]
               w1 == alone(k + 1)
               a1 == a[k + 1]
    <3>6. /\ A1 = A0 + a1 /\ E1 = E0 - a1 /\ B1 = B0 /\ s1 = s0 /\ w1 = w0
          /\ s0 + w0 = all + A0 + E0 + B0
          /\ A0 \in Int /\ E0 \in Int /\ B0 \in Int /\ s0 \in Int /\ w0 \in Int
          /\ a1 \in Int /\ all \in Int
      BY <2>2, <2>3, <2>4, <3>2, <3>3, <3>4, <3>5
    <3> HIDE DEF A0, E0, B0, s0, w0, A1, E1, B1, s1, w1, a1
    <3>7. s1 + w1 = all + A1 + E1 + B1
      BY <3>6
    <3> QED
      BY <3>7 DEF A1, E1, B1, s1, w1
  <2>6. CASE f[k + 1] # 0
    <3> DEFINE j == f[k + 1]
               c == Cardinality(Paired(k))
    <3>1. Paired(k + 1) = Paired(k) \cup {k + 1} /\ k + 1 \notin Paired(k)
      BY <2>1, <2>6
    <3>2. CoveredTo(k + 1) = CoveredTo(k) \cup {j}
      BY <3>1
    <3>3. j \notin CoveredTo(k)
      <4>1. \A i \in Paired(k) : i \in 1..nr /\ i # k + 1
        BY <2>1
      <4> QED
        BY <1>1, <2>1, <2>6, <4>1
    <3> HIDE DEF Paired, CoveredTo
    <3>4. j \in 1..nc /\ cost[k + 1][j] \in Int /\ b[j] \in Int
      BY <1>4, <2>1, <2>6
    <3>5. B[CoveredTo(k + 1)] = B[CoveredTo(k)] + b[j]
      <4>1. CoveredTo(k) \in SUBSET (1..nc) /\ j \in (1..nc) \ CoveredTo(k)
        BY <1>5, <2>1, <3>3, <3>4
      <4> HIDE DEF j
      <4> QED
        BY <3>2, <4>1 DEF Additive
    <3>6. Cardinality(Paired(k + 1)) = c + 1 /\ c \in Nat
      BY <1>5, <2>1, <3>1, FS_AddElement
    <3>7. alone(k + 1) = alone(k) - 2 * h /\ alone(k) \in Int /\ all \in Int
      <4>1. alone(k) = h * (n - 2 * c) /\ alone(k + 1) = h * (n - 2 * (c + 1))
        BY <3>6
      <4> HIDE DEF c, alone
      <4>2. n \in Int /\ c \in Int /\ h \in Int
        BY <1>1, <1>2, <3>6
      <4>3. h * (n - 2 * (c + 1)) = h * (n - 2 * c) - 2 * h
        BY <4>2
      <4>4. h * (n - 2 * c) \in Int /\ all \in Int
        BY <4>2
      <4> QED
        BY <4>1, <4>3, <4>4
    <3>8. e[k + 1] = cost[k + 1][j] - 2 * h - a[k + 1] - b[j]
      BY <1>2, <2>1, <2>6 DEF Dearer
    <3>9. s[k + 1] = s[k] + cost[k + 1][j]
      BY <2>3, <2>6
    <3>10. s[k] + alone(k) = all + A[up(k)] + E[up(k)] + B[CoveredTo(k)]
      BY <1>7
    <3> HIDE DEF j, c, all, alone, up
    <3> DEFINE A0 == A[up(k)]
               E0 == E[up(k)]
               B0 == B[CoveredTo(k)]
               s0 == s[k]
               w0 == alone(k)
               A1 == A[up(k + 1)]
               E1 == E[up(k + 1)]
               B1 == B[CoveredTo(k + 1)]
               s1 == s[k + 1]
               w1 == alone(k + 1)
               a1 == a[k + 1]
               e1 == e[k + 1]
               b1 == b[j]
               c1 == cost[k + 1][j]
    <3>11. /\ A1 = A0 + a1 /\ E1 = E0 + e1 /\ e1 = c1 - 2 * h - a1 - b1 /\ B1 = B0 + b1
           /\ s1 = s0 + c1 /\ w1 = w0 - 2 * h /\ s0 + w0 = all + A0 + E0 + B0
           /\ A0 \in Int /\ E0 \in Int /\ B0 \in Int /\ s0 \in Int /\ w0 \in Int
           /\ a1 \in Int /\ b1 \in Int /\ c1 \in Int /\ e1 \in Int
           /\ h \in Int /\ all \in Int
      BY <1>2, <2>2, <2>3, <2>4, <3>4, <3>5, <3>7, <3>8, <3>9, <3>10
    <3> HIDE DEF A0, E0, B0, s0, w0, A1, E1, B1, s1, w1, a1, e1, b1, c1
    <3>12. s1 + w1 = all + A1 + E1 + B1
      BY <3>11
    <3> QED
      BY <3>12 DEF A1, E1, B1, s1, w1
  <2> QED
    BY <2>5, <2>6
<1>8. Nat \subseteq G
  <2> HIDE DEF Splits
  <2>1. 0 \in G
    BY <1>6
  <2>2. \A k \in Nat : k \in G => k + 1 \in G
    BY <1>1, <1>7
  <2> HIDE DEF G
  <2> QED
    BY <2>1, <2>2, SetInduction
<1>9. Splits(nr)
  <2> HIDE DEF Splits
  <2> QED
    BY <1>1, <1>8
<1> QED
  <2>1. CostOf(f) = all + A[1..nr] + E[1..nr] + B[CoveredTo(nr)]
    <3>1. CostOf(f) = s[nr] + alone(nr)
      BY <1>3
    <3> QED
      BY <1>9, <3>1
  <2> QED
    BY <2>1 DEF h, AllAlone, Covered

-----------------------------------------------------------------------------
(* At the end every row and every column, dummies too, has its other.      *)
LEMMA Solved ==
  ASSUME IInv, phase = "done"
  PROVE  /\ x \in [Cols -> Cols] /\ y \in [Cols -> Cols]
         /\ \A i \in Cols : y[x[i]] = i /\ x[y[i]] = i /\ Cheapest(v, i, x[i])
<1>1. Sizes /\ n \in Nat /\ Cols = 1..n
  BY Indices DEF IInv
<1>2. Waiting = {}
  <2>1. /\ free \in Seq(Cols) /\ current = Len(free) /\ kept = 0
    BY DEF IInv, Shape, Loops
  <2>2. (1..kept) \cup (current + 1..Len(free)) = {}
    BY <2>1
  <2> QED
    BY <2>2 DEF Waiting
<1>3. /\ \A i \in Cols : x[i] \in Cols /\ y[x[i]] = i /\ Cheapest(v, i, x[i])
      /\ \A j \in Cols : y[j] # 0 => x[y[j]] = j
  BY <1>2 DEF IInv, Placed, Placing
<1>4. x \in [Cols -> Cols] /\ x \in [Cols -> 0..n] /\ y \in [Cols -> 0..n]
  BY <1>3 DEF IInv, Shape
<1>5. x \in Injection(Cols, Cols)
  BY <1>3, <1>4 DEF Injection, IsInjective
<1>6. IsFiniteSet(Cols)
  BY <1>1, FS_Interval
<1>7. x \in Surjection(Cols, Cols)
  BY <1>5, <1>6, FS_Injection
<1>8. \A j \in Cols : \E i \in Cols : x[i] = j
  BY <1>7 DEF Surjection
<1>9. \A j \in Cols : y[j] \in Cols /\ x[y[j]] = j
  BY <1>3, <1>8
<1>10. y \in [Cols -> Cols]
  BY <1>4, <1>9
<1> QED
  BY <1>3, <1>4, <1>9, <1>10

(* The row that pairs with j leaves a dummy column to a dummy row.         *)
LEMMA DummiesPair ==
  ASSUME IInv, phase = "done", NEW i \in 1..nr, x[i] <= nc
  PROVE  \E p \in nr + 1..n : x[p] \in nc + 1..n
<1>1. /\ nr \in Nat /\ nc \in Nat /\ n = nr + nc /\ Cols = 1..n
  BY Indices DEF IInv, Sizes
<1>2. /\ x \in [Cols -> Cols] /\ \A k \in Cols : y[x[k]] = k
  BY Solved
<1> SUFFICES ASSUME \A p \in nr + 1..n : x[p] \notin nc + 1..n PROVE FALSE
  OBVIOUS
<1> DEFINE Dummies == nr + 1..n
           Others  == (1..nc) \ {x[i]}
           f       == [p \in Dummies |-> x[p]]
<1>3. i \in Cols /\ x[i] \in 1..nc /\ i \notin Dummies /\ Dummies \subseteq Cols
  <2>1. i \in Cols /\ i \notin Dummies /\ Dummies \subseteq Cols
    BY <1>1
  <2>2. x[i] \in Cols
    BY <1>2, <2>1
  <2> QED
    BY <1>1, <2>1, <2>2
<1>4. f \in [Dummies -> Others]
  <2> SUFFICES ASSUME NEW p \in Dummies PROVE x[p] \in Others
    OBVIOUS
  <2>1. x[p] \in Cols /\ x[p] \notin nc + 1..n
    BY <1>2, <1>3
  <2>2. x[p] \in 1..nc
    BY <1>1, <2>1
  <2>3. x[p] # x[i]
    BY <1>2, <1>3
  <2> QED
    BY <2>2, <2>3
<1>5. IsFiniteSet(Dummies) /\ Cardinality(Dummies) = nc
  <2>1. /\ IsFiniteSet(Dummies)
        /\ Cardinality(Dummies) = IF nr + 1 > n THEN 0 ELSE n - (nr + 1) + 1
    BY <1>1, FS_Interval
  <2> QED
    BY <1>1, <2>1
<1>6. IsFiniteSet(Others) /\ Cardinality(Others) = nc - 1
  <2>1. IsFiniteSet(1..nc) /\ Cardinality(1..nc) = nc
    BY <1>1, FS_Interval
  <2> QED
    BY <1>3, <2>1, FS_RemoveElement
<1>7. \E p, q \in Dummies : p # q /\ f[p] = f[q]
  <2>1. Cardinality(Others) < Cardinality(Dummies)
    BY <1>1, <1>5, <1>6
  <2> HIDE DEF Dummies, Others, f
  <2> QED
    BY <1>4, <1>5, <1>6, <2>1, FS_PigeonHole
<1> QED
  BY <1>2, <1>3, <1>7

(* Prices of the rows and columns asked about that no pair is dearer than, *)
(* no dearer than half the limit, and met by the solver's pairing: with    *)
(* the dearest dummy column for the rows and the dearest dummy row for the *)
(* columns.                                                                *)
LEMMA DualPrices ==
  ASSUME IInv, phase = "done"
  PROVE  \E a \in [1..nr -> Int], b \in [1..nc -> Int] :
           /\ \A i \in 1..nr : a[i] <= 0
           /\ \A j \in 1..nc : b[j] <= 0
           /\ \A i \in 1..nr, j \in 1..nc : a[i] + b[j] <= cost[i][j] - Limit
           /\ \A i \in 1..nr : x[i] > nc => a[i] = 0
           /\ \A i \in 1..nr : x[i] <= nc => a[i] + b[x[i]] = cost[i][x[i]] - Limit
           /\ \A j \in 1..nc : y[j] > nr => b[j] = 0
<1> DEFINE h == Limit \div 2
           u == [i \in Cols |-> cost[i][x[i]] - v[x[i]]]
<1>1. /\ nr \in Nat \ {0} /\ nc \in Nat \ {0} /\ n = nr + nc /\ Cols = 1..n
      /\ n \in Nat
  BY Indices DEF IInv, Sizes
<1>2. h \in Int /\ Limit = h + h
  BY AssignmentAssumption
<1>3. /\ v \in [Cols -> Int] /\ cost \in [Cols -> [Cols -> Int]]
      /\ x \in [Cols -> Cols] /\ y \in [Cols -> Cols]
      /\ \A i \in Cols : y[x[i]] = i /\ x[y[i]] = i /\ Cheapest(v, i, x[i])
  BY Solved DEF IInv, Shape
<1>4. u \in [Cols -> Int] /\ \A i \in Cols : u[i] = cost[i][x[i]] - v[x[i]]
  <2>1. \A i \in Cols : cost[i][x[i]] - v[x[i]] \in Int
    <3> TAKE i \in Cols
    <3>1. cost[i][x[i]] \in Int /\ v[x[i]] \in Int
      BY <1>3
    <3> QED
      BY <3>1
  <2> QED
    BY <2>1
<1> HIDE DEF u
<1>5. \A i, j \in Cols : /\ u[i] \in Int /\ v[j] \in Int /\ cost[i][j] \in Int
                         /\ u[i] + v[j] <= cost[i][j]
                         /\ x[i] = j => u[i] + v[j] = cost[i][j]
  <2> TAKE i, j \in Cols
  <2>1. u[i] \in Int /\ v[j] \in Int /\ cost[i][j] \in Int /\ x[i] \in Cols
    BY <1>3, <1>4
  <2>2. u[i] = cost[i][x[i]] - v[x[i]] /\ cost[i][x[i]] - v[x[i]] <= cost[i][j] - v[j]
    BY <1>3, <1>4 DEF Cheapest
  <2>3. u[i] <= cost[i][j] - v[j] /\ (x[i] = j => u[i] = cost[i][j] - v[j])
    BY <2>2
  <2> QED
    BY <2>1, <2>3
<1>6. \A i, j \in Cols : /\ i <= nr /\ j > nc => cost[i][j] = h
                         /\ i > nr /\ j <= nc => cost[i][j] = h
                         /\ i > nr /\ j > nc => cost[i][j] = 0
  BY DEF IInv, Bordered
<1> HIDE DEF h
<1>7. PICK p \in nr + 1..n : \A k \in nr + 1..n : u[k] <= u[p]
  <2> DEFINE f == [k \in 1..n |-> -u[k]]
             S == nr + 1..n
  <2>1. f \in [1..n -> Int] /\ S \in SUBSET (1..n) /\ n \in S
    BY <1>1, <1>4
  <2>2. \A k \in S : u[k] \in Int /\ f[k] = -u[k]
    BY <1>1, <1>4
  <2> HIDE DEF f, S
  <2>3. PICK m \in S : \A k \in S : f[m] <= f[k]
    BY <1>1, <2>1, LeastExists
  <2>4. \A k \in S : u[k] <= u[m]
    BY <2>2, <2>3
  <2> QED
    BY <2>4 DEF S
<1>8. PICK q \in nc + 1..n : \A k \in nc + 1..n : v[k] <= v[q]
  <2> DEFINE f == [k \in 1..n |-> -v[k]]
             S == nc + 1..n
  <2>1. f \in [1..n -> Int] /\ S \in SUBSET (1..n) /\ n \in S
    <3>1. \A k \in 1..n : v[k] \in Int
      BY <1>1, <1>3
    <3> QED
      BY <1>1, <3>1
  <2>2. \A k \in S : v[k] \in Int /\ f[k] = -v[k]
    <3> TAKE k \in S
    <3>1. k \in Cols /\ k \in 1..n
      BY <1>1
    <3>2. v[k] \in Int
      BY <1>3, <3>1
    <3> QED
      BY <3>1, <3>2
  <2> HIDE DEF f, S
  <2>3. PICK m \in S : \A k \in S : f[m] <= f[k]
    BY <1>1, <2>1, LeastExists
  <2>4. \A k \in S : v[k] <= v[m]
    BY <2>2, <2>3
  <2> QED
    BY <2>4 DEF S
<1>9. /\ p \in Cols /\ q \in Cols /\ p > nr /\ q > nc /\ u[p] \in Int /\ v[q] \in Int
      /\ u[p] + v[q] <= 0
  <2>1. p \in Cols /\ q \in Cols /\ p > nr /\ q > nc
    BY <1>1
  <2> QED
    BY <1>5, <1>6, <2>1
<1> DEFINE a == [i \in 1..nr |-> u[i] + v[q] - h]
           b == [j \in 1..nc |-> v[j] + u[p] - h]
<1>10. /\ a \in [1..nr -> Int] /\ b \in [1..nc -> Int]
       /\ \A i \in 1..nr : i \in Cols /\ i <= nr /\ a[i] = u[i] + v[q] - h
       /\ \A j \in 1..nc : j \in Cols /\ j <= nc /\ b[j] = v[j] + u[p] - h
  <2>1. /\ \A i \in 1..nr : i \in Cols /\ i <= nr
        /\ \A j \in 1..nc : j \in Cols /\ j <= nc
    BY <1>1
  <2>2. \A i \in 1..nr : u[i] + v[q] - h \in Int
    BY <1>2, <1>5, <1>9, <2>1
  <2>3. \A j \in 1..nc : v[j] + u[p] - h \in Int
    BY <1>2, <1>5, <1>9, <2>1
  <2> QED
    BY <2>1, <2>2, <2>3
<1> HIDE DEF a, b
<1>11. \A i \in 1..nr : a[i] <= 0
  <2> TAKE i \in 1..nr
  <2>1. u[i] + v[q] <= h /\ u[i] \in Int
    BY <1>5, <1>6, <1>9, <1>10
  <2> QED
    BY <1>2, <1>9, <1>10, <2>1
<1>12. \A j \in 1..nc : b[j] <= 0
  <2> TAKE j \in 1..nc
  <2>1. u[p] + v[j] <= h /\ v[j] \in Int
    BY <1>5, <1>6, <1>9, <1>10
  <2> QED
    BY <1>2, <1>9, <1>10, <2>1
<1>13. \A i \in 1..nr, j \in 1..nc : a[i] + b[j] <= cost[i][j] - Limit
  <2> TAKE i \in 1..nr, j \in 1..nc
  <2>1. u[i] + v[j] <= cost[i][j] /\ u[i] \in Int /\ v[j] \in Int /\ cost[i][j] \in Int
    BY <1>5, <1>10
  <2>2. a[i] = u[i] + v[q] - h /\ b[j] = v[j] + u[p] - h
    BY <1>10
  <2> QED
    BY <1>2, <1>9, <2>1, <2>2
<1>14. ASSUME NEW i \in 1..nr, x[i] > nc PROVE a[i] = 0
  <2>1. i \in Cols /\ i <= nr /\ x[i] \in Cols /\ x[i] \in nc + 1..n
    <3>1. i \in Cols /\ i <= nr
      BY <1>10
    <3>2. x[i] \in Cols
      BY <1>3, <3>1
    <3> QED
      BY <1>1, <1>14, <3>1, <3>2
  <2>2. u[i] + v[x[i]] = h /\ u[i] \in Int /\ v[x[i]] \in Int /\ v[x[i]] <= v[q]
    BY <1>5, <1>6, <1>8, <1>14, <2>1
  <2>3. a[i] = u[i] + v[q] - h /\ a[i] <= 0
    BY <1>10, <1>11
  <2> QED
    BY <1>2, <1>9, <2>2, <2>3
<1>15. ASSUME NEW j \in 1..nc, y[j] > nr PROVE b[j] = 0
  <2>1. j \in Cols /\ j <= nc /\ y[j] \in Cols /\ y[j] \in nr + 1..n /\ x[y[j]] = j
    <3>1. j \in Cols /\ j <= nc
      BY <1>10
    <3>2. y[j] \in Cols /\ x[y[j]] = j
      BY <1>3, <3>1
    <3> QED
      BY <1>1, <1>15, <3>1, <3>2
  <2>2. u[y[j]] + v[j] = h /\ u[y[j]] \in Int /\ v[j] \in Int /\ u[y[j]] <= u[p]
    BY <1>5, <1>6, <1>7, <1>15, <2>1
  <2>3. b[j] = v[j] + u[p] - h /\ b[j] <= 0
    BY <1>10, <1>12
  <2> QED
    BY <1>2, <1>9, <2>2, <2>3
<1>16. ASSUME NEW i \in 1..nr, x[i] <= nc
       PROVE  a[i] + b[x[i]] = cost[i][x[i]] - Limit
  <2>1. PICK r \in nr + 1..n : x[r] \in nc + 1..n
    BY <1>16, DummiesPair
  <2>2. r \in Cols /\ r > nr /\ x[r] \in Cols /\ x[r] > nc
    BY <1>1, <2>1
  <2>3. /\ u[r] + v[x[r]] = 0 /\ u[r] <= u[p] /\ v[x[r]] <= v[q]
        /\ u[r] \in Int /\ v[x[r]] \in Int
    BY <1>5, <1>6, <1>7, <1>8, <2>1, <2>2
  <2>4. u[p] + v[q] = 0
    BY <1>9, <2>3
  <2>5. i \in Cols /\ x[i] \in Cols /\ x[i] \in 1..nc
    <3>1. i \in Cols
      BY <1>10
    <3>2. x[i] \in Cols
      BY <1>3, <3>1
    <3> QED
      BY <1>1, <1>16, <3>1, <3>2
  <2>6. /\ u[i] + v[x[i]] = cost[i][x[i]]
        /\ u[i] \in Int /\ v[x[i]] \in Int /\ cost[i][x[i]] \in Int
    BY <1>5, <2>5
  <2>7. a[i] = u[i] + v[q] - h /\ b[x[i]] = v[x[i]] + u[p] - h
    BY <1>10, <2>5
  <2> QED
    BY <1>2, <1>9, <2>4, <2>6, <2>7
<1> QED
  BY <1>10, <1>11, <1>12, <1>13, <1>14, <1>15, <1>16

(* What the solver returns are pairs of distinct rows and columns.         *)
LEMMA SolutionsPair ==
  ASSUME IInv, phase = "done"
  PROVE  /\ RowSol \in Pairings
         /\ \A j \in 1..nc : ColSol[j] = 0 <=> ~ \E i \in 1..nr : RowSol[i] = j
         /\ \A i \in 1..nr : RowSol[i] # 0 => ColSol[RowSol[i]] = i
<1>1. /\ nr \in Nat \ {0} /\ nc \in Nat \ {0} /\ n = nr + nc /\ Cols = 1..n
  BY Indices DEF IInv, Sizes
<1>2. /\ x \in [Cols -> Cols] /\ y \in [Cols -> Cols]
      /\ \A i \in Cols : y[x[i]] = i /\ x[y[i]] = i
  BY Solved
<1>3. \A i \in 1..nr : /\ i \in Cols /\ x[i] \in Cols
                       /\ RowSol[i] = IF x[i] > nc THEN 0 ELSE x[i]
                       /\ RowSol[i] \in 0..nc
  <2> TAKE i \in 1..nr
  <2>1. i \in Cols
    BY <1>1
  <2>2. x[i] \in 1..n /\ x[i] \in Cols
    BY <1>1, <1>2, <2>1
  <2>3. RowSol[i] = IF x[i] > nc THEN 0 ELSE x[i]
    BY DEF RowSol
  <2> QED
    BY <1>1, <2>1, <2>2, <2>3
<1>4. \A j \in 1..nc : /\ j \in Cols /\ y[j] \in Cols
                       /\ ColSol[j] = IF y[j] > nr THEN 0 ELSE y[j]
  <2> TAKE j \in 1..nc
  <2>1. j \in Cols
    BY <1>1
  <2> QED
    BY <1>2, <2>1 DEF ColSol
<1>5. RowSol \in Pairings
  <2>1. RowSol \in [1..nr -> 0..nc]
    BY <1>3 DEF RowSol
  <2>2. ASSUME NEW i \in 1..nr, NEW k \in 1..nr, RowSol[i] = RowSol[k], RowSol[i] # 0
        PROVE  i = k
    <3>1. x[i] = x[k] /\ i \in Cols /\ k \in Cols
      BY <1>3, <2>2
    <3> QED
      BY <1>2, <3>1
  <2> QED
    BY <2>1, <2>2 DEF Pairings
<1>6. ASSUME NEW j \in 1..nc
      PROVE  ColSol[j] = 0 <=> ~ \E i \in 1..nr : RowSol[i] = j
  <2>1. j \in Cols /\ y[j] \in 1..n /\ x[y[j]] = j /\ j <= nc /\ j # 0
    <3>1. j \in Cols /\ y[j] \in Cols /\ x[y[j]] = j
      BY <1>2, <1>4
    <3> QED
      BY <1>1, <3>1
  <2>2. CASE y[j] > nr
    <3>1. ASSUME NEW i \in 1..nr, RowSol[i] = j PROVE FALSE
      <4>1. x[i] = j /\ i \in Cols
        BY <1>3, <2>1, <3>1
      <4>2. y[j] = i
        BY <1>2, <4>1
      <4> QED
        BY <1>1, <2>2, <4>2
    <3> QED
      BY <1>4, <2>2, <3>1
  <2>3. CASE ~(y[j] > nr)
    <3>1. y[j] \in 1..nr
      BY <1>1, <2>1, <2>3
    <3>2. RowSol[y[j]] = j
      BY <1>1, <1>3, <2>1, <3>1
    <3>3. ColSol[j] = y[j] /\ y[j] # 0
      BY <1>4, <2>1, <2>3
    <3> QED
      BY <3>1, <3>2, <3>3
  <2> QED
    BY <2>2, <2>3
<1>7. ASSUME NEW i \in 1..nr, RowSol[i] # 0 PROVE ColSol[RowSol[i]] = i
  <2>1. /\ RowSol[i] = x[i] /\ x[i] \in 0..nc /\ x[i] # 0
    BY <1>3, <1>7
  <2>2. x[i] \in 1..nc
    BY <1>1, <2>1
  <2>3. y[x[i]] = i
    BY <1>2, <1>3
  <2>4. ~(i > nr)
    BY <1>1
  <2> QED
    BY <1>4, <2>1, <2>2, <2>3, <2>4
<1> QED
  BY <1>5, <1>6, <1>7

(* What the prices say a pairing costs at least.                           *)
Bound(A, B) == AllAlone + A[1..nr] + B[1..nc]

(* Prices no pair undercuts, and a pairing that meets them.                *)
Feasible(a, b) ==
  /\ \A i \in 1..nr : a[i] <= 0
  /\ \A j \in 1..nc : b[j] <= 0
  /\ \A i \in 1..nr, j \in 1..nc : a[i] + b[j] <= cost[i][j] - Limit

Met(f, a, b) ==
  /\ \A i \in 1..nr : f[i] = 0 => a[i] = 0
  /\ \A i \in 1..nr : f[i] # 0 => a[i] + b[f[i]] = cost[i][f[i]] - Limit
  /\ \A j \in 1..nc : (~ \E i \in 1..nr : f[i] = j) => b[j] = 0

LEMMA NoneCheaper ==
  ASSUME Sizes, Shape, NEW f \in Pairings,
         NEW a \in [1..nr -> Int], NEW b \in [1..nc -> Int], NEW A, NEW B,
         Additive(A, a, nr), Additive(B, b, nc), Feasible(a, b)
  PROVE  /\ CostOf(f) \in Int /\ Bound(A, B) \in Int
         /\ Bound(A, B) <= CostOf(f)
         /\ Met(f, a, b) => CostOf(f) <= Bound(A, B)
<1> DEFINE e   == [i \in 1..nr |-> IF f[i] = 0 THEN -a[i]
                                   ELSE cost[i][f[i]] - Limit - a[i] - b[f[i]]]
<1>1. /\ nr \in Nat /\ nc \in Nat /\ Limit \in Int /\ AllAlone \in Int
      /\ f \in [1..nr -> 0..nc]
  <2>1. nr \in Nat /\ nc \in Nat /\ n \in Int
    BY DEF Sizes, n
  <2>2. Limit \in Int /\ Limit \div 2 \in Int
    BY AssignmentAssumption
  <2>3. AllAlone \in Int
    BY <2>1, <2>2 DEF AllAlone
  <2> QED
    BY <2>1, <2>2, <2>3 DEF Pairings
<1>2. ASSUME NEW i \in 1..nr, f[i] # 0
      PROVE  f[i] \in 1..nc /\ cost[i][f[i]] \in Int /\ b[f[i]] \in Int
  <2>1. f[i] \in 1..nc
    BY <1>1, <1>2
  <2>2. i \in Cols /\ f[i] \in Cols
    BY <1>1, <2>1 DEF Cols, n
  <2> QED
    BY <2>1, <2>2 DEF Shape
<1>3. /\ e \in [1..nr -> Int]
      /\ \A i \in 1..nr : f[i] = 0 => e[i] = -a[i]
      /\ \A i \in 1..nr : f[i] # 0 => e[i] = cost[i][f[i]] - Limit - a[i] - b[f[i]]
  <2>1. \A i \in 1..nr : /\ a[i] \in Int /\ -a[i] \in Int
                         /\ f[i] # 0 => cost[i][f[i]] - Limit - a[i] - b[f[i]] \in Int
    <3> TAKE i \in 1..nr
    <3>1. a[i] \in Int /\ -a[i] \in Int
      OBVIOUS
    <3>2. CASE f[i] # 0
      <4> DEFINE c1 == cost[i][f[i]]
                 a1 == a[i]
                 b1 == b[f[i]]
      <4>1. c1 \in Int /\ b1 \in Int /\ a1 \in Int /\ Limit \in Int
        BY <1>1, <1>2, <3>1, <3>2
      <4> HIDE DEF c1, a1, b1
      <4>2. c1 - Limit - a1 - b1 \in Int
        BY <4>1
      <4> QED
        BY <4>2 DEF c1, a1, b1
    <3> QED
      BY <3>1, <3>2
  <2> QED
    BY <2>1
<1> HIDE DEF e
<1>4. PICK E : Additive(E, e, nr)
  BY <1>1, <1>3, AdditiveExists
<1>5. CostOf(f) = AllAlone + A[1..nr] + E[1..nr] + B[Covered(f)]
  <2>1. Dearer(e, f, a, b)
    BY <1>3 DEF Dearer
  <2> QED
    BY <1>3, <1>4, <2>1, CostSplit
<1>6. Covered(f) \in SUBSET (1..nc) /\ {} \in SUBSET (1..nr)
  BY <1>2 DEF Covered
<1>7. /\ A[1..nr] \in Int /\ E[1..nr] \in Int /\ B[Covered(f)] \in Int /\ B[1..nc] \in Int
      /\ E[{}] = 0
  <2>1. 1..nr \in SUBSET (1..nr) /\ 1..nc \in SUBSET (1..nc)
    OBVIOUS
  <2> QED
    BY <1>4, <1>6, <2>1 DEF Additive
<1>8. \A i \in 1..nr : 0 <= e[i]
  <2> TAKE i \in 1..nr
  <2>1. a[i] \in Int /\ a[i] <= 0
    BY DEF Feasible
  <2>2. CASE f[i] = 0
    BY <1>3, <2>1, <2>2
  <2>3. CASE f[i] # 0
    <3>1. a[i] + b[f[i]] <= cost[i][f[i]] - Limit
      BY <1>2, <2>3 DEF Feasible
    <3>2. e[i] = cost[i][f[i]] - Limit - a[i] - b[f[i]]
      BY <1>3, <2>3
    <3>3. cost[i][f[i]] \in Int /\ b[f[i]] \in Int
      BY <1>2, <2>3
    <3> DEFINE c1 == cost[i][f[i]]
               a1 == a[i]
               b1 == b[f[i]]
    <3>4. /\ a1 + b1 <= c1 - Limit /\ e[i] = c1 - Limit - a1 - b1
          /\ a1 \in Int /\ b1 \in Int /\ c1 \in Int /\ Limit \in Int
      BY <1>1, <2>1, <3>1, <3>2, <3>3
    <3> HIDE DEF c1, a1, b1
    <3> QED
      BY <3>4
  <2> QED
    BY <2>2, <2>3
<1>9. 0 <= E[1..nr]
  <2>1. \A i \in (1..nr) \ {} : 0 <= e[i]
    BY <1>8
  <2>2. E[{}] <= E[1..nr]
    BY <1>1, <1>3, <1>4, <1>6, <2>1, AdditiveMonotonic
  <2> QED
    BY <1>7, <2>2
<1>10. B[1..nc] <= B[Covered(f)]
  <2>1. \A j \in (1..nc) \ Covered(f) : b[j] <= 0
    BY DEF Feasible
  <2> QED
    BY <1>1, <1>6, <2>1, AdditiveMonotonic
<1>11. Bound(A, B) = AllAlone + A[1..nr] + B[1..nc]
  BY DEF Bound
<1>12. ASSUME Met(f, a, b)
       PROVE  CostOf(f) <= Bound(A, B)
  <2>1. \A i \in (1..nr) \ {} : e[i] <= 0
    <3> TAKE i \in (1..nr) \ {}
    <3>1. CASE f[i] = 0
      BY <1>3, <1>12, <3>1 DEF Met
    <3>2. CASE f[i] # 0
      <4>1. a[i] + b[f[i]] = cost[i][f[i]] - Limit /\ a[i] \in Int
        BY <1>12, <3>2 DEF Met
      <4>2. e[i] = cost[i][f[i]] - Limit - a[i] - b[f[i]]
        BY <1>3, <3>2
      <4>3. cost[i][f[i]] \in Int /\ b[f[i]] \in Int
        BY <1>2, <3>2
      <4> QED
        <5> DEFINE c1 == cost[i][f[i]]
                   a1 == a[i]
                   b1 == b[f[i]]
        <5>1. /\ a1 + b1 = c1 - Limit /\ e[i] = c1 - Limit - a1 - b1
              /\ a1 \in Int /\ b1 \in Int /\ c1 \in Int /\ Limit \in Int
          BY <1>1, <4>1, <4>2, <4>3
        <5> HIDE DEF c1, a1, b1
        <5> QED
          BY <5>1
    <3> QED
      BY <3>1, <3>2
  <2>2. E[1..nr] <= E[{}]
    BY <1>1, <1>3, <1>4, <1>6, <2>1, AdditiveMonotonic
  <2>3. \A j \in (1..nc) \ Covered(f) : 0 <= b[j]
    <3> TAKE j \in (1..nc) \ Covered(f)
    <3>1. ~ \E i \in 1..nr : f[i] = j
      <4>1. j # 0
        BY <1>1
      <4> QED
        BY <4>1 DEF Covered
    <3>2. b[j] = 0
      BY <1>12, <3>1 DEF Met
    <3> QED
      BY <3>2
  <2>4. B[Covered(f)] <= B[1..nc]
    BY <1>1, <1>6, <2>3, AdditiveMonotonic
  <2> QED
    BY <1>1, <1>5, <1>7, <1>11, <2>2, <2>4
<1>13. Bound(A, B) <= CostOf(f)
  BY <1>1, <1>5, <1>7, <1>9, <1>10, <1>11
<1>14. CostOf(f) \in Int /\ Bound(A, B) \in Int
  BY <1>1, <1>5, <1>7, <1>11
<1> QED
  BY <1>12, <1>13, <1>14

(* The main result: the pairs linear_assignment returns are of distinct    *)
(* tracks and detections, none is dearer than the limit, and no other way  *)
(* to pair them is cheaper when one left alone costs half the limit        *)
(* (lapjv, lapjv_internal).                                                *)
THEOREM OptimalCorrect == Spec => []Optimal
<1>1. IInv => Optimal
  <2> SUFFICES ASSUME IInv, phase = "done"
               PROVE  /\ RowSol \in Pairings
                      /\ \A j \in 1..nc : ColSol[j] = 0 <=> ~ \E i \in 1..nr : RowSol[i] = j
                      /\ \A i \in 1..nr : RowSol[i] # 0 => ColSol[RowSol[i]] = i
                                                           /\ cost[i][RowSol[i]] <= Limit
                      /\ \A f \in Pairings : CostOf(RowSol) <= CostOf(f)
    BY DEF Optimal
  <2>1. /\ RowSol \in Pairings
        /\ \A j \in 1..nc : ColSol[j] = 0 <=> ~ \E i \in 1..nr : RowSol[i] = j
        /\ \A i \in 1..nr : RowSol[i] # 0 => ColSol[RowSol[i]] = i
    BY SolutionsPair
  <2>2. PICK a \in [1..nr -> Int], b \in [1..nc -> Int] :
           /\ \A i \in 1..nr : a[i] <= 0
           /\ \A j \in 1..nc : b[j] <= 0
           /\ \A i \in 1..nr, j \in 1..nc : a[i] + b[j] <= cost[i][j] - Limit
           /\ \A i \in 1..nr : x[i] > nc => a[i] = 0
           /\ \A i \in 1..nr : x[i] <= nc => a[i] + b[x[i]] = cost[i][x[i]] - Limit
           /\ \A j \in 1..nc : y[j] > nr => b[j] = 0
    BY DualPrices
  <2>3. /\ nr \in Nat /\ nc \in Nat /\ Sizes /\ Shape /\ Cols = 1..n /\ n = nr + nc
        /\ x \in [Cols -> Cols] /\ y \in [Cols -> Cols]
    BY Indices, Solved DEF IInv, Sizes
  <2>4. \A i \in 1..nr : /\ RowSol[i] = 0 => x[i] > nc
                         /\ RowSol[i] # 0 => /\ RowSol[i] = x[i] /\ x[i] <= nc
                                             /\ x[i] \in 1..nc
    <3> TAKE i \in 1..nr
    <3>1. i \in Cols
      BY <2>3
    <3>2. x[i] \in 1..n
      BY <2>3, <3>1
    <3>3. RowSol[i] = IF x[i] > nc THEN 0 ELSE x[i]
      BY DEF RowSol
    <3>4. CASE x[i] > nc
      BY <3>2, <3>3, <3>4
    <3>5. CASE ~(x[i] > nc)
      <4>0. nc \in Nat /\ n \in Nat
        BY <2>3 DEF Sizes
      <4>1. x[i] <= nc /\ x[i] \in 1..nc /\ x[i] # 0
        BY <3>2, <3>5, <4>0
      <4> QED
        BY <3>3, <3>5, <4>1
    <3> QED
      BY <3>4, <3>5
  <2>5. \A j \in 1..nc : ColSol[j] = 0 => y[j] > nr
    <3> TAKE j \in 1..nc
    <3>1. j \in Cols
      BY <2>3
    <3>2. y[j] \in 1..n
      BY <2>3, <3>1
    <3>3. ColSol[j] = IF y[j] > nr THEN 0 ELSE y[j]
      BY DEF ColSol
    <3>4. y[j] # 0
      BY <3>2
    <3> QED
      BY <3>3, <3>4
  <2>6. ASSUME NEW i \in 1..nr, RowSol[i] # 0 PROVE cost[i][RowSol[i]] <= Limit
    <3>1. RowSol[i] = x[i] /\ x[i] <= nc /\ x[i] \in 1..nc
      BY <2>4, <2>6
    <3>2. a[i] + b[x[i]] = cost[i][x[i]] - Limit /\ a[i] <= 0 /\ b[x[i]] <= 0
      BY <2>2, <3>1
    <3>3. cost[i][x[i]] \in Int /\ a[i] \in Int /\ b[x[i]] \in Int /\ Limit \in Int
      <4>1. i \in Cols /\ x[i] \in Cols
        BY <2>3, <3>1
      <4> QED
        BY <2>2, <2>3, <3>1, <4>1, AssignmentAssumption DEF Shape
    <3> QED
      BY <3>1, <3>2, <3>3
  <2>7. PICK A : Additive(A, a, nr)
    BY <2>3, AdditiveExists
  <2>8. PICK B : Additive(B, b, nc)
    BY <2>3, AdditiveExists
  <2>9. \A f \in Pairings : /\ Bound(A, B) <= CostOf(f)
                             /\ CostOf(f) \in Int /\ Bound(A, B) \in Int
    <3>1. Feasible(a, b)
      BY <2>2 DEF Feasible
    <3> QED
      BY <2>3, <2>7, <2>8, <3>1, NoneCheaper
  <2>10. CostOf(RowSol) <= Bound(A, B)
    <3>1. \A i \in 1..nr : RowSol[i] = 0 => a[i] = 0
      BY <2>2, <2>4
    <3>2. \A i \in 1..nr : RowSol[i] # 0 => a[i] + b[RowSol[i]] = cost[i][RowSol[i]] - Limit
      BY <2>2, <2>4
    <3>3. \A j \in 1..nc : (~ \E i \in 1..nr : RowSol[i] = j) => b[j] = 0
      BY <2>1, <2>2, <2>5
    <3>4. Feasible(a, b) /\ Met(RowSol, a, b)
      BY <2>2, <3>1, <3>2, <3>3 DEF Feasible, Met
    <3> QED
      BY <2>1, <2>3, <2>7, <2>8, <3>4, NoneCheaper
  <2>11. ASSUME NEW f \in Pairings PROVE CostOf(RowSol) <= CostOf(f)
    <3>1. CostOf(f) \in Int /\ CostOf(RowSol) \in Int /\ Bound(A, B) \in Int
      BY <2>1, <2>9
    <3> QED
      BY <2>9, <2>10, <3>1
  <2> QED
    BY <2>1, <2>6, <2>11
<1> QED
  BY <1>1, InvariantHolds, PTL

-----------------------------------------------------------------------------
(* The walk back along a path leaves out a row.                            *)
NonNegative == \A i, j \in Cols : 0 <= cost[i][j]

(* The columns that stand for no detection only become dearer than free,   *)
(* and only once a row has them.                                           *)
DummyPrices == \A j \in nc + 1..n : v[j] <= 0 /\ (y[j] = 0 => v[j] = 0)

(* With one track and one detection no path is needed: what the column     *)
(* reduction leaves open, the row reduction places.                        *)
Spare == y[1] = 0 /\ y[2] # 0 /\ v[1] = Limit \div 2
PairOnly ==
  n = 2 =>
    /\ phase \in {"reduce", "claim", "transfer", "rows", "done"}
    /\ phase \in {"reduce", "claim", "transfer"} => rr = 0
    /\ phase = "transfer" => \/ \A i \in Cols : x[i] # 0
                             \/ Spare /\ \A i \in unique : x[i] = 0
    /\ phase = "rows" => /\ kept = 0
                         /\ current < Len(free) =>
                              /\ Len(free) = 1 /\ Spare
                              /\ free[1] = 2 \/ rr = 0

(* W has for each column the rows on the way to it, by predecessors and    *)
(* the columns of S.  Among them are at most one row and one column, that  *)
(* of a row on the way, that stand for nothing.                            *)
Ways(W, pred, S) ==
  /\ W \in [Cols -> SUBSET Cols]
  /\ \A j \in Cols :
       /\ Root \in W[j]
       /\ \/ pred[j] = Root /\ W[j] = {Root}
          \/ \E l \in S : /\ pred[j] = y[l] /\ y[l] \notin W[l]
                          /\ W[j] = W[l] \cup {y[l]}
       /\ \A r \in W[j] \ {Root} : x[r] \in S /\ y[x[r]] = r
       /\ \A r, q \in W[j] : r > nr /\ q > nr => r = q
       /\ \A r, q \in W[j] \ {Root} : x[r] > nc /\ x[q] > nc => r = q
       /\ j > nc => \A r \in W[j] \ {Root} : x[r] <= nc

Tracked ==
  phase \in {"find", "scan"} =>
    /\ turns = 0
    /\ \A j \in Cols : \E k \in Cols : cost[Root][k] - v[k] <= path.d[j]
    /\ \E W : Ways(W, path.pred, Looked)

(* On the walk: W has the rows that are left on the way to a column.       *)
OnTheWay(W) ==
  LET pred == path.pred IN
  /\ W \in [Cols -> SUBSET Cols]
  /\ turns + Cardinality(W[col]) < n
  /\ \A j \in Cols : Root \in W[j] /\ pred[j] \in W[j]
  /\ \A j \in Cols : pred[j] \in W[col] /\ pred[j] # Root =>
       x[pred[j]] \in Cols /\ W[x[pred[j]]] = W[j] \ {pred[j]}
Walking == phase = "flip" => \E W : OnTheWay(W)

WalkInv == /\ turns \in Nat /\ turns < n /\ NonNegative /\ DummyPrices /\ PairOnly
           /\ Tracked /\ Walking

LEMMA NonNegativeAtFirst == Init => NonNegative
<1> SUFFICES ASSUME Init PROVE NonNegative
  OBVIOUS
<1>1. PICK c \in [1..nr -> [1..nc -> Costs]] : cost = Extended(c, nr, nc)
  BY DEF Init
<1>2. Limit \div 2 \in Nat /\ \A e \in Costs : e >= 0
  BY AssignmentAssumption
<1>3. Sizes /\ Cols = 1..n /\ n = nr + nc
  BY AssignmentAssumption, Indices DEF Init, Sizes
<1>4. \A i, j \in Cols : cost[i][j] = IF i <= nr /\ j <= nc THEN c[i][j]
                                      ELSE IF i > nr /\ j > nc THEN 0 ELSE Limit \div 2
  BY <1>1 DEF Extended, Cols, n
<1>5. \A i, j \in Cols : i <= nr /\ j <= nc => c[i][j] >= 0
  <2> SUFFICES ASSUME NEW i \in Cols, NEW j \in Cols, i <= nr, j <= nc
               PROVE  c[i][j] >= 0
    OBVIOUS
  <2>1. i \in 1..nr /\ j \in 1..nc
    BY <1>3 DEF Sizes
  <2> QED
    BY <1>2, <2>1
<1> QED
  BY <1>2, <1>4, <1>5 DEF NonNegative

(* Once the rows have claimed their columns, prices only fall, and only    *)
(* those of columns that stay taken.                                       *)
LEMMA PricesFall ==
  ASSUME IInv, Step, phase \notin {"reduce", "claim"}
  PROVE  \A j \in Cols : v'[j] <= v[j] /\ (y'[j] = 0 => y[j] = 0 /\ v'[j] = v[j])
<1>1. /\ v \in [Cols -> Int] /\ y \in [Cols -> 0..n] /\ 0 \notin Cols
      /\ n \in Nat /\ Cols = 1..n
  <2>1. n \in Nat /\ Cols = 1..n
    BY Indices DEF IInv
  <2>2. v \in [Cols -> Int] /\ y \in [Cols -> 0..n]
    BY DEF IInv, Shape
  <2> QED
    BY <2>1, <2>2
<1>2. \A j \in Cols : v[j] <= v[j]
  BY <1>1
<1>3. CASE UNCHANGED <<v, y>>
  BY <1>2, <1>3
<1>4. CASE Transfer
  <2>1. y' = y
    BY <1>4 DEF Transfer
  <2> QED
    BY <1>4, <2>1, TransferPrice
<1>5. CASE RowReduction
  <2>1. PICK j \in Cols :
          /\ y' = [y EXCEPT ![j] = Root]
          /\ \A k \in Cols : v'[k] <= v[k]
          /\ \A k \in Cols \ {j} : v'[k] = v[k]
    BY <1>5, RowReductionPrice
  <2>2. Root \in Cols
    <3>1. free \in Seq(Cols) /\ current \in 0..n /\ current < Len(free)
      BY <1>5 DEF IInv, Shape, RowReduction
    <3> QED
      BY <1>1, <3>1 DEF Root
  <2>3. \A k \in Cols : y'[k] = IF k = j THEN Root ELSE y[k]
    BY <1>1, <2>1
  <2> QED
    BY <1>1, <2>1, <2>2, <2>3
<1>6. ASSUME phase \in {"find", "scan"}, y' = y, NEW p, NEW S, Found(p, S), Arrives(p)
      PROVE  \A j \in Cols : v'[j] <= v[j] /\ (y'[j] = 0 => y[j] = 0 /\ v'[j] = v[j])
  <2>1. PICK k \in Cols : k \notin p.ready /\ p.d[k] = p.min /\ Reach(p, k)
    BY <1>6 DEF Arrives
  <2>2. p \in Paths /\ Shortest(p, S) /\ Ordered(p)
    BY <1>6 DEF Found
  <2>3. \A j \in Cols : Repriced(p)[j] <= v[j] /\ (y[j] = 0 => Repriced(p)[j] = v[j])
    BY <1>6, <2>1, <2>2, RepricedKeeps
  <2> QED
    BY <1>6, <2>1, <2>3 DEF Reach
<1>7. CASE FindNearest
  <2>1. phase = "find" /\ y' = y
    BY <1>7 DEF FindNearest
  <2>2. PICK p : Found(p, Looked) /\ (Arrives(p) \/ GoesOn(p, Looked))
    BY <1>7, FindNearestSteps
  <2> QED
    BY <1>3, <1>6, <2>1, <2>2 DEF GoesOn
<1>8. CASE ScanColumn
  <2>1. phase = "scan" /\ y' = y
    BY <1>8 DEF ScanColumn
  <2>2. PICK j, p :
          Found(p, Looked \cup {j}) /\ (Arrives(p) \/ GoesOn(p, Looked \cup {j}))
    BY <1>8, ScanColumnSteps
  <2> QED
    BY <1>3, <1>6, <2>1, <2>2 DEF GoesOn
<1>9. CASE Flip
  <2>1. path.pred[col] \in Cols
    BY <1>9 DEF IInv, Loops, Flipping, Paths, Flip
  <2>2. v' = v /\ y' = [y EXCEPT ![col] = path.pred[col]]
    BY <1>9 DEF Flip
  <2>3. \A j \in Cols : y'[j] = IF j = col THEN path.pred[col] ELSE y[j]
    BY <1>1, <2>2
  <2> QED
    BY <1>1, <1>2, <2>1, <2>2, <2>3
<1> QED
  BY <1>3, <1>4, <1>5, <1>7, <1>8, <1>9
  DEF Step, ColumnReduction, Claim, TransferEnds, PassEnds, StartPath, AllPlaced

LEMMA DummyPricesHold ==
  ASSUME IInv, NonNegative, DummyPrices, [Next]_vars
  PROVE  DummyPrices'
<1>1. /\ n' = n /\ nc' = nc /\ cost' = cost /\ \A j \in nc + 1..n : j \in Cols /\ j > nc
  BY Fixed, Indices DEF IInv
<1>2. \A j \in nc + 1..n : v[j] \in Int /\ v[j] <= 0 /\ (y[j] = 0 => v[j] = 0)
  BY <1>1 DEF IInv, Shape, DummyPrices
<1>3. n \in Cols /\ n > nr /\ \A j \in nc + 1..n : cost[n][j] = 0
  <2>1. n \in Cols /\ n > nr
    BY Indices DEF IInv
  <2> QED
    BY <1>1, <2>1 DEF IInv, Bordered
<1>4. CASE ColumnReduction
  <2>1. IInv' /\ phase' = "claim"
    BY <1>4, ColumnReductionHolds DEF ColumnReduction
  <2>2. \A j \in Cols : y'[j] \in Cols /\ v'[j] <= cost[n][j]
    BY <1>1, <1>3, <2>1, Fixed, <1>4 DEF IInv, Claiming, Fallen, Next, Step
  <2>3. 0 \notin Cols
    BY Indices DEF IInv
  <2> QED
    BY <1>1, <1>3, <2>2, <2>3 DEF DummyPrices
<1>5. CASE Claim
  <2>1. v' = v /\ \A j \in Cols : y[j] \in Cols /\ v[j] = cost[y[j]][j]
    BY <1>5 DEF Claim, IInv, Claiming
  <2>2. \A j \in nc + 1..n : v[j] = 0
    <3> TAKE j \in nc + 1..n
    <3>1. 0 <= v[j]
      BY <1>1, <2>1 DEF NonNegative
    <3> QED
      BY <1>2, <3>1
  <2> QED
    BY <1>1, <2>1, <2>2 DEF DummyPrices
<1>6. CASE Step /\ phase \notin {"reduce", "claim"}
  <2>1. \A j \in Cols : /\ v'[j] <= v[j] /\ v'[j] \in Int
                        /\ y'[j] = 0 => y[j] = 0 /\ v'[j] = v[j]
    <3>1. IInv' /\ Cols' = Cols
      BY <1>6, StepHolds, Fixed
    <3>2. v' \in [Cols -> Int]
      BY <3>1 DEF IInv, Shape
    <3> QED
      BY <1>6, <3>2, PricesFall
  <2> QED
    BY <1>1, <1>2, <2>1 DEF DummyPrices
<1>7. CASE UNCHANGED vars
  BY <1>1, <1>2, <1>7 DEF vars, DummyPrices
<1> QED
  BY <1>4, <1>5, <1>6, <1>7
  DEF Next, Done, Step, Transfer, TransferEnds, RowReduction, PassEnds, StartPath,
      AllPlaced, FindNearest, ScanColumn, Flip

LEMMA Pair ==
  ASSUME Sizes, n = 2
  PROVE  nr = 1 /\ nc = 1 /\ Cols = {1, 2}
<1>1. nr = 1 /\ nc = 1
  BY DEF Sizes, n
<1>2. 1..2 = {1, 2}
  OBVIOUS
<1> QED
  BY <1>1, <1>2 DEF Cols

(* Two columns that want the same row leave the other row open, and the    *)
(* first column at the price of staying alone.                             *)
LEMMA PairClaim ==
  ASSUME IInv, NonNegative, PairOnly, n = 2, Claim
  PROVE  PairOnly'
<1>1. /\ nr = 1 /\ nc = 1 /\ Cols = {1, 2}
      /\ phase = "claim" /\ phase' = "transfer" /\ rr' = rr /\ v' = v
      /\ n' = n /\ Cols' = Cols
  BY Pair, Fixed DEF Claim, IInv, Next, Step
<1>2. rr = 0 /\ Fallen /\ \A j \in Cols : y[j] \in Cols /\ v[j] = cost[y[j]][j]
  BY <1>1 DEF PairOnly, IInv, Claiming
<1>3. /\ \A i \in Cols : x'[i] = Highest(Wanting(i)) /\ Wanting(i) \in SUBSET (1..2)
      /\ \A j \in Cols : y'[j] = IF Highest(Wanting(y[j])) = j THEN y[j] ELSE 0
      /\ unique' = {i \in Cols : \A j, k \in Wanting(i) : j = k}
  BY <1>1 DEF Claim, Wanting
<1>4. CASE y[1] # y[2]
  <2>1. \A i \in Cols : Wanting(i) # {}
    BY <1>1, <1>2, <1>4 DEF Wanting
  <2>2. \A i \in Cols : x'[i] # 0
    BY <1>3, <2>1, HighestIs
  <2> QED
    BY <1>1, <1>2, <2>2 DEF PairOnly
<1>5. CASE y[1] = y[2]
  <2> DEFINE i == y[1]
  <2>1. i \in Cols /\ 1 \in Wanting(i) /\ 2 \in Wanting(i)
    BY <1>1, <1>2, <1>5 DEF Wanting
  <2>2. Highest(Wanting(i)) = 2
    <3>1. 2 <= Highest(Wanting(i)) /\ Highest(Wanting(i)) \in 0..2
      BY <1>3, <2>1, HighestIs
    <3> QED
      BY <3>1
  <2>3. y'[1] = 0 /\ y'[2] # 0
    BY <1>1, <1>2, <1>3, <1>5, <2>2
  <2>4. v[1] = Limit \div 2
    <3>1. /\ cost[2][1] = Limit \div 2 /\ cost[1][2] = Limit \div 2 /\ cost[2][2] = 0
          /\ Limit \div 2 \in Nat
      BY <1>1, AssignmentAssumption DEF IInv, Bordered
    <3>2. CASE i = 2
      BY <1>1, <1>2, <3>1, <3>2
    <3>3. CASE i = 1
      <4>1. v[2] = Limit \div 2 /\ v[2] <= 0 /\ v[1] = cost[1][1] /\ v[1] <= Limit \div 2
        BY <1>1, <1>2, <1>5, <3>1, <3>3 DEF Fallen
      <4>2. 0 <= cost[1][1] /\ cost[1][1] \in Int
        BY <1>1 DEF NonNegative, IInv, Shape
      <4> QED
        BY <3>1, <4>1, <4>2
    <3> QED
      BY <1>1, <2>1, <3>2, <3>3
  <2>5. \A r \in unique' : x'[r] = 0
    <3>1. i \notin unique'
      BY <1>3, <2>1
    <3>2. \A r \in Cols \ {i} : Wanting(r) = {}
      BY <1>1, <1>5 DEF Wanting
    <3> QED
      BY <1>3, <3>1, <3>2, HighestIs
  <2> HIDE DEF i
  <2> QED
    BY <1>1, <1>2, <2>3, <2>4, <2>5 DEF PairOnly, Spare
<1> QED
  BY <1>4, <1>5

LEMMA PairTransferEnds ==
  ASSUME IInv, PairOnly, n = 2, TransferEnds
  PROVE  PairOnly'
<1>1. /\ nr = 1 /\ nc = 1 /\ Cols = {1, 2}
      /\ phase = "transfer" /\ phase' = IF free = <<>> THEN "done" ELSE "rows"
      /\ UNCHANGED <<x, y, v, unique, free, kept, rr>> /\ n' = n /\ Cols' = Cols
  BY Pair, Fixed DEF TransferEnds, IInv, Next, Step
<1>2. /\ free \in Seq(Cols) /\ y \in [Cols -> 0..2] /\ kept = 0 /\ rr = 0
      /\ \A j \in Cols : y[j] # 0 => x[y[j]] = j
      /\ \A k \in 1..Len(free) : x[free[k]] = 0
      /\ \A k, m \in 1..Len(free) : free[k] = free[m] => k = m
  BY <1>1 DEF IInv, Shape, Loops, Transferring, PairOnly
<1>3. CASE free = <<>>
  BY <1>1, <1>3 DEF PairOnly
<1>4. CASE free # <<>>
  <2>1. Len(free) \in Nat \ {0} /\ \A k \in 1..Len(free) : free[k] \in Cols
    BY <1>2, <1>4
  <2>2. Spare
    <3>1. 1 \in 1..Len(free)
      BY <2>1
    <3>2. free[1] \in Cols /\ x[free[1]] = 0
      BY <1>2, <2>1, <3>1
    <3> QED
      BY <1>1, <3>2 DEF PairOnly
  <2>3. Len(free) = 1
    <3> SUFFICES ASSUME Len(free) >= 2 PROVE FALSE
      BY <2>1
    <3>1. 1 \in 1..Len(free) /\ 2 \in 1..Len(free)
      BY <2>1
    <3>2. free[1] \in Cols /\ free[2] \in Cols /\ free[1] # free[2]
      BY <1>2, <2>1, <3>1
    <3>3. y[2] \in Cols /\ x[y[2]] = 2
      BY <1>1, <1>2, <2>2 DEF Spare
    <3>4. x[free[1]] = 0 /\ x[free[2]] = 0
      BY <1>2, <3>1
    <3> QED
      BY <1>1, <3>2, <3>3, <3>4
  <2> QED
    BY <1>1, <1>2, <1>4, <2>2, <2>3 DEF PairOnly, Spare
<1> QED
  BY <1>3, <1>4

(* The row left open takes the first column, or throws out the other row,  *)
(* which then takes it.                                                    *)
LEMMA PairRowReduction ==
  ASSUME IInv, DummyPrices, PairOnly, n = 2, RowReduction
  PROVE  PairOnly'
<1> DEFINE i      == free[current + 1]
           u      == Reduced(i)
           j1     == FirstMin(u, Cols)
           j2     == FirstMin(u, Cols \ {j1})
           lowers == u[j1] < u[j2]
           within == MayExchange(rr + 1)
           j      == IF within /\ ~lowers /\ y[j1] # 0 THEN j2 ELSE j1
<1>1. /\ v' = IF within /\ lowers THEN [v EXCEPT ![j1] = @ - (u[j2] - u[j1])] ELSE v
      /\ ThrownOut(y[j], within /\ lowers)
      /\ y' = [y EXCEPT ![j] = i]
      /\ phase = "rows" /\ phase' = "rows" /\ current < Len(free)
  BY DEF RowReduction
<1>2. /\ nr = 1 /\ nc = 1 /\ Cols = {1, 2} /\ Cols = 1..2 /\ n' = n /\ Cols' = Cols
  BY Pair, Fixed DEF IInv, Next, Step, Cols
<1>3. /\ kept = 0 /\ Len(free) = 1 /\ y[1] = 0 /\ y[2] # 0 /\ v[1] = Limit \div 2
      /\ free[1] = 2 \/ rr = 0
  BY <1>1 DEF PairOnly, Spare
<1>4. current = 0 /\ free \in Seq(Cols) /\ y \in [Cols -> 0..2]
      /\ v \in [Cols -> Int] /\ cost \in [Cols -> [Cols -> Int]]
  <2>1. current \in 0..2 /\ free \in Seq(Cols) /\ y \in [Cols -> 0..2]
        /\ v \in [Cols -> Int] /\ cost \in [Cols -> [Cols -> Int]]
    BY DEF IInv, Shape
  <2> QED
    BY <1>1, <1>3, <2>1
<1>5. i = free[1] /\ i \in Cols /\ y[2] # i
  <2>1. i = free[1] /\ i \in Cols
    <3>1. current + 1 = 1 /\ 1 \in 1..Len(free)
      BY <1>3, <1>4
    <3> QED
      BY <1>4, <3>1
  <2>2. i \in Waiting
    BY <1>3, <1>4, <2>1 DEF Waiting
  <2>3. y[2] \notin Waiting
    BY <1>1, <1>2, <1>3 DEF IInv, Placed, Placing
  <2> QED
    BY <2>1, <2>2, <2>3
<1>6. u \in [1..2 -> Int] /\ \A k \in Cols : u[k] = cost[i][k] - v[k]
  BY <1>5, ReducedType
<1> HIDE DEF i, u
<1>7. /\ j1 \in Cols /\ \A k \in Cols : u[j1] <= u[k]
      /\ \A k \in Cols : u[k] = u[j1] => j1 <= k
  BY <1>2, <1>6, FirstMinIs
<1> HIDE DEF j1
<1>8. CASE j1 = 1
  <2>1. j = 1
    BY <1>3, <1>8
  <2>2. UNCHANGED <<free, kept>> /\ current' = current + 1
    BY <1>1, <1>3, <2>1 DEF ThrownOut
  <2>3. kept' = 0 /\ current' = 1 /\ Len(free') = 1
    BY <1>3, <1>4, <2>2
  <2> QED
    BY <1>1, <2>3 DEF PairOnly
<1>9. CASE j1 = 2
  <2>1. u[2] < u[1]
    BY <1>2, <1>6, <1>7, <1>9
  <2>2. i = 1
    <3> SUFFICES ASSUME i = 2 PROVE FALSE
      BY <1>2, <1>5
    <3>1. cost[2][1] = Limit \div 2 /\ cost[2][2] = 0 /\ Limit \div 2 \in Nat
      BY <1>2, AssignmentAssumption DEF IInv, Bordered
    <3>2. v[2] <= 0 /\ v[2] \in Int
      BY <1>2, <1>4 DEF DummyPrices
    <3>3. u[1] = Limit \div 2 - Limit \div 2 /\ u[2] = 0 - v[2]
      BY <1>2, <1>3, <1>6, <3>1
    <3> QED
      BY <2>1, <3>1, <3>2, <3>3
  <2>3. j2 = 1
    <3>1. Cols \ {j1} = {1}
      BY <1>2, <1>9
    <3>2. \A S : S = {1} => FirstMin(u, S) = 1
      <4> SUFFICES FirstMin(u, {1}) = 1
        OBVIOUS
      <4>1. {1} \in SUBSET (1..2)
        BY <1>2
      <4> QED
        BY <1>6, <4>1, FirstMinIs
    <3> QED
      BY <3>1, <3>2
  <2> HIDE DEF j2
  <2>4. lowers /\ within
    <3>1. rr = 0
      BY <1>3, <1>5, <2>2
    <3> QED
      BY <1>4, <1>9, <2>1, <2>3, <3>1 DEF MayExchange
  <2> HIDE DEF lowers, within
  <2>5. j = 2 /\ y[2] = 2
    BY <1>2, <1>3, <1>4, <1>5, <1>9, <2>2, <2>4
  <2> HIDE DEF j
  <2>6. free' = [free EXCEPT ![1] = 2] /\ UNCHANGED <<current, kept>>
    BY <1>1, <1>4, <2>4, <2>5 DEF ThrownOut
  <2>7. Len(free') = 1 /\ free'[1] = 2
    BY <1>3, <1>4, <2>6
  <2>8. y'[1] = 0 /\ y'[2] # 0
    BY <1>1, <1>2, <1>3, <1>4, <2>2, <2>5
  <2>9. v'[1] = Limit \div 2
    BY <1>1, <1>2, <1>3, <1>4, <1>9
  <2> QED
    BY <1>1, <1>2, <1>3, <2>6, <2>7, <2>8, <2>9 DEF PairOnly, Spare
<1> QED
  BY <1>2, <1>7, <1>8, <1>9

LEMMA PairHolds ==
  ASSUME IInv, NonNegative, DummyPrices, PairOnly, [Next]_vars
  PROVE  PairOnly'
<1>1. n' = n /\ Cols' = Cols
  BY Fixed
<1> SUFFICES ASSUME n = 2 PROVE PairOnly'
  BY <1>1 DEF PairOnly
<1>2. phase \in {"reduce", "claim", "transfer", "rows", "done"}
  BY DEF PairOnly
<1>3. CASE ColumnReduction
  BY <1>3 DEF ColumnReduction, PairOnly
<1>4. CASE Transfer
  <2>1. /\ phase = "transfer" /\ UNCHANGED <<phase, x, y, unique, rr>>
        /\ current + 1 \in Cols
    <3>1. current \in 0..n /\ current < n /\ n \in Nat /\ Cols = 1..n
      BY <1>4, Indices DEF Transfer, IInv, Shape
    <3> QED
      BY <1>4, <3>1 DEF Transfer
  <2>2. CASE \A i \in Cols : x[i] # 0
    BY <1>1, <2>1, <2>2 DEF PairOnly
  <2>3. CASE Spare /\ \A i \in unique : x[i] = 0
    <3>1. v' = v
      BY <1>4, <2>3 DEF Transfer
    <3> QED
      BY <1>1, <2>1, <2>3, <3>1 DEF PairOnly, Spare
  <2> QED
    BY <2>1, <2>2, <2>3 DEF PairOnly
<1>5. CASE PassEnds
  <2>1. kept = 0 /\ phase' = "done"
    BY <1>5 DEF PassEnds, PairOnly
  <2> QED
    BY <2>1 DEF PairOnly
<1>6. CASE UNCHANGED vars
  BY <1>1, <1>6 DEF vars, PairOnly, Spare
<1> QED
  BY <1>2, <1>3, <1>4, <1>5, <1>6, PairClaim, PairTransferEnds, PairRowReduction
  DEF Next, Step, Done, StartPath, AllPlaced, FindNearest, ScanColumn, Flip

-----------------------------------------------------------------------------
(* A way to a free column leaves out a row: a way through all of them      *)
(* would take every row and every column that stands for nothing.          *)
LEMMA WayIsShort ==
  ASSUME IInv, PairOnly, phase \in {"find", "scan"}, NEW W, NEW pred, NEW S,
         Ways(W, pred, S), S \subseteq Cols, NEW k \in Cols, k \notin S
  PROVE  Cardinality(W[k]) < n
<1>1. /\ n \in Nat \ {0, 1} /\ Cols = 1..n /\ n = nr + nc
      /\ nr \in Nat \ {0} /\ nc \in Nat \ {0}
  BY Indices DEF IInv, Sizes
<1>2. n # 2
  BY DEF PairOnly
<1>3. Root \in Cols
  BY RootWaits DEF IInv, Loops
<1>4. IsFiniteSet(Cols) /\ Cardinality(Cols) = n
  BY <1>1, FS_Interval
<1>5. /\ Root \in W[k] /\ W[k] \in SUBSET Cols
      /\ \A r \in W[k] \ {Root} : x[r] \in S /\ y[x[r]] = r
      /\ \A r, q \in W[k] : r > nr /\ q > nr => r = q
      /\ \A r, q \in W[k] \ {Root} : x[r] > nc /\ x[q] > nc => r = q
      /\ k > nc => \A r \in W[k] \ {Root} : x[r] <= nc
  BY DEF Ways
<1> SUFFICES ASSUME ~(Cardinality(W[k]) < n) PROVE FALSE
  OBVIOUS
<1>6. W[k] = Cols
  <2>1. /\ IsFiniteSet(W[k]) /\ Cardinality(W[k]) <= n
        /\ Cardinality(W[k]) = n => W[k] = Cols
    BY <1>4, <1>5, FS_Subset
  <2>2. Cardinality(W[k]) \in Nat
    BY <2>1, FS_CardinalityType
  <2> QED
    BY <1>1, <2>1, <2>2
<1>7. nc = 1 /\ nr >= 2 /\ n >= 3
  <2> SUFFICES ASSUME nc >= 2 PROVE FALSE
    BY <1>1, <1>2
  <2>1. nr + 1 \in Cols /\ nr + 2 \in Cols /\ nr + 1 > nr /\ nr + 2 > nr
    BY <1>1
  <2>2. \A r, q \in Cols : r > nr /\ q > nr => r = q
    BY <1>5, <1>6
  <2>3. nr + 1 = nr + 2
    BY <2>1, <2>2
  <2> QED
    BY <1>1, <2>3
<1>8. ASSUME NEW a \in Cols, a # k
      PROVE  \E r \in Cols \ {Root} : x[r] = a
  <2> SUFFICES ASSUME \A r \in Cols \ {Root} : x[r] # a PROVE FALSE
    OBVIOUS
  <2> DEFINE R == Cols \ {Root}
             T == (Cols \ {k}) \ {a}
             f == [r \in R |-> x[r]]
  <2>1. IsFiniteSet(R) /\ Cardinality(R) = n - 1
    BY <1>3, <1>4, FS_RemoveElement
  <2>2. IsFiniteSet(T) /\ Cardinality(T) = n - 2
    <3>1. IsFiniteSet(Cols \ {k}) /\ Cardinality(Cols \ {k}) = n - 1
      BY <1>4, FS_RemoveElement
    <3>2. a \in Cols \ {k}
      BY <1>8
    <3>3. IsFiniteSet(T) /\ Cardinality(T) = Cardinality(Cols \ {k}) - 1
      BY <3>1, <3>2, FS_RemoveElement
    <3> HIDE DEF T
    <3> QED
      BY <1>1, <3>1, <3>3
  <2>3. f \in [R -> T]
    BY <1>5, <1>6
  <2>4. Cardinality(T) < Cardinality(R)
    BY <1>1, <2>1, <2>2
  <2>5. PICK r, q \in R : r # q /\ f[r] = f[q]
    <3> HIDE DEF f, R, T
    <3> QED
      BY <2>1, <2>2, <2>3, <2>4, FS_PigeonHole
  <2> QED
    BY <1>5, <1>6, <2>5
<1>9. CASE k > nc
  <2>1. PICK a \in {2, 3} : a # k
    OBVIOUS
  <2>2. a \in Cols /\ a > nc
    BY <1>1, <1>7
  <2> QED
    BY <1>5, <1>6, <1>7, <1>8, <1>9, <2>1, <2>2
<1>10. CASE ~(k > nc)
  <2>1. 2 \in Cols /\ 3 \in Cols /\ 2 # k /\ 3 # k
    BY <1>1, <1>7, <1>10
  <2>2. PICK r \in Cols \ {Root} : x[r] = 2
    BY <1>8, <2>1
  <2>3. PICK q \in Cols \ {Root} : x[q] = 3
    BY <1>8, <2>1
  <2> QED
    BY <1>5, <1>6, <1>7, <2>2, <2>3
<1> QED
  BY <1>9, <1>10

(* The walk from the column reached has a turn for each row on the way.    *)
LEMMA ReachWalks ==
  ASSUME IInv, PairOnly, phase \in {"find", "scan"}, turns = 0,
         NEW p, NEW S, Found(p, S), Arrives(p), NEW W, Ways(W, p.pred, S),
         UNCHANGED <<nr, nc, x, y, free, current, turns>>
  PROVE  phase' = "flip" /\ OnTheWay(W)'
<1>1. PICK k \in Cols : y[k] = 0 /\ Reach(p, k)
  BY DEF Arrives
<1>2. phase' = "flip" /\ path' = p /\ col' = k
  BY <1>1 DEF Reach
<1>3. /\ S \subseteq Cols /\ \A l \in S : y[l] # 0 /\ x[y[l]] = l
  <2>1. S \subseteq Near(p) /\ \A l \in S : y[l] # 0
    BY DEF Found, Shortest
  <2>2. Near(p) \subseteq Cols
    BY DEF Found, Near, Paths
  <2>3. \A l \in Cols : y[l] # 0 => x[y[l]] = l
    BY DEF IInv, Placed, Placing
  <2> QED
    BY <2>1, <2>2, <2>3
<1>4. Root' = Root /\ n' = n /\ Cols' = Cols
  BY DEF Root, n, Cols
<1>5. Cardinality(W[k]) < n
  BY <1>1, <1>3, WayIsShort
<1>6. Cardinality(W[k]) \in Nat
  <2>1. W[k] \in SUBSET Cols /\ IsFiniteSet(Cols)
    <3>1. IsFiniteSet(1..n)
      BY Indices, FS_Interval DEF IInv
    <3> QED
      BY <3>1 DEF Ways, Cols
  <2> QED
    BY <2>1, FS_Subset, FS_CardinalityType
<1>7. \A j \in Cols :
        /\ Root \in W[j] /\ p.pred[j] \in W[j]
        /\ p.pred[j] # Root => /\ x[p.pred[j]] \in Cols
                               /\ W[x[p.pred[j]]] = W[j] \ {p.pred[j]}
  <2> TAKE j \in Cols
  <2>1. /\ Root \in W[j]
        /\ \/ p.pred[j] = Root /\ W[j] = {Root}
           \/ \E l \in S : /\ p.pred[j] = y[l] /\ y[l] \notin W[l]
                           /\ W[j] = W[l] \cup {y[l]}
    BY DEF Ways
  <2> QED
    BY <1>3, <2>1
<1>8. turns' + Cardinality(W[k]) < n
  BY <1>5, <1>6
<1>9. W \in [Cols -> SUBSET Cols]
  BY DEF Ways
<1> QED
  BY <1>2, <1>4, <1>7, <1>8, <1>9 DEF OnTheWay

(* A row that stands for no track cannot shorten a way that has such a row *)
(* already: both pay the same everywhere.                                  *)
LEMMA NoSecondRow ==
  ASSUME IInv, phase = "scan", NEW W, Ways(W, path.pred, Looked),
         \A c \in Cols : \E m \in Cols : cost[Root][m] - v[m] <= path.d[c],
         NEW j \in Cols, path.d[j] = path.min, y[j] \in Cols, Cheapest(v, y[j], j),
         NEW k \in Cols, Via(path, j, k) < path.d[k], Ordered(path),
         NEW r \in W[j], r > nr, y[j] > nr
  PROVE  FALSE
<1> DEFINE i == y[j]
<1>1. /\ n \in Nat /\ Cols = 1..n /\ Root \in Cols /\ nr \in Nat /\ nc \in Nat
  BY Indices, RootWaits DEF IInv, Loops, Sizes
<1>2. /\ v \in [Cols -> Int] /\ cost \in [Cols -> [Cols -> Int]]
      /\ path.d \in [Cols -> Int] /\ path.min \in Int
      /\ path.ready \subseteq Cols /\ path.level \subseteq Cols
  BY DEF IInv, Shape, Loops, Paths
<1>3. r \in Cols /\ (r = Root \/ (x[r] \in Looked /\ y[x[r]] = r))
  BY DEF Ways
<1>4. \A m \in Cols : cost[r][m] = cost[i][m] /\ cost[i][m] \in Int /\ v[m] \in Int
  <2> TAKE m \in Cols
  <2>1. m <= nc \/ m > nc
    BY <1>1
  <2>2. cost[r][m] = cost[i][m]
    BY <1>3, <2>1 DEF IInv, Bordered
  <2> QED
    BY <1>2, <2>2
<1>5. \A m \in Cols : cost[i][j] - v[j] <= cost[i][m] - v[m]
  BY DEF Cheapest
<1>6. Via(path, j, k) = path.min + (cost[i][k] - v[k]) - (cost[i][j] - v[j])
  BY DEF Via
<1> HIDE DEF i
<1>7. path.d[k] \in Int /\ path.d[j] \in Int /\ Shortest(path, Looked)
  BY <1>2 DEF IInv, Searching
<1>8. CASE r = Root
  <2>1. path.d[k] <= cost[i][k] - v[k]
    BY <1>4, <1>7, <1>8 DEF Shortest
  <2>2. PICK m \in Cols : cost[Root][m] - v[m] <= path.d[j]
    OBVIOUS
  <2>3. cost[i][j] - v[j] <= path.min
    BY <1>4, <1>5, <1>7, <1>8, <2>2
  <2> QED
    BY <1>2, <1>4, <1>6, <1>7, <2>1, <2>3
<1>9. CASE r # Root
  <2> DEFINE l == x[r]
  <2>1. l \in Looked /\ y[l] = r /\ l \in Near(path) /\ l \in Cols
    BY <1>2, <1>3, <1>9 DEF Looked, Near
  <2> HIDE DEF l
  <2>2. path.d[l] <= path.min /\ path.d[l] \in Int
    BY <1>2, <2>1 DEF Ordered, Near
  <2>3. path.d[k] <= Via(path, l, k)
    BY <1>7, <2>1 DEF Shortest
  <2>4. Via(path, l, k) = path.d[l] + (cost[i][k] - v[k]) - (cost[i][l] - v[l])
    BY <1>4, <2>1 DEF Via
  <2>5. cost[i][j] - v[j] <= cost[i][l] - v[l]
    BY <1>5, <2>1
  <2> QED
    BY <1>2, <1>4, <1>6, <1>7, <2>1, <2>2, <2>3, <2>4, <2>5
<1> QED
  BY <1>8, <1>9

(* A column that stands for no detection is not reached by way of another  *)
(* one: it is no dearer than that one, and so as near.                     *)
LEMMA NoSecondColumn ==
  ASSUME IInv, DummyPrices, phase = "scan", Ordered(path),
         NEW k \in Cols, k > nc, path.min < path.d[k],
         NEW q \in Near(path), q > nc
  PROVE  FALSE
<1>1. /\ n \in Nat /\ Cols = 1..n /\ Root \in Cols /\ nr \in Nat /\ nc \in Nat
  BY Indices, RootWaits DEF IInv, Loops, Sizes
<1>2. /\ v \in [Cols -> Int] /\ cost \in [Cols -> [Cols -> Int]] /\ y \in [Cols -> 0..n]
      /\ path.d \in [Cols -> Int] /\ path.min \in Int
      /\ path.ready \subseteq Cols /\ path.level \subseteq Cols
  BY DEF IInv, Shape, Loops, Paths
<1>3. /\ q \in Cols /\ path.d[q] <= path.min /\ path.d[q] \in Int /\ path.d[k] \in Int
      /\ v[q] \in Int /\ v[k] \in Int
  <2>1. q \in Cols /\ path.d[q] \in Int
    BY <1>2 DEF Near
  <2> QED
    BY <1>2, <2>1 DEF Ordered, Near
<1>4. \A i \in Cols : cost[i][k] = cost[i][q] /\ cost[i][k] \in Int
  <2> TAKE i \in Cols
  <2>1. i <= nr \/ i > nr
    BY <1>1
  <2> QED
    BY <1>2, <1>3, <2>1 DEF IInv, Bordered
<1>5. v[q] <= v[k]
  <2>1. k \in nc + 1..n /\ q \in nc + 1..n
    BY <1>1, <1>3
  <2>2. CASE y[k] = 0
    BY <2>1, <2>2 DEF DummyPrices
  <2>3. CASE y[k] # 0
    <3>1. y[k] \notin Waiting /\ x[y[k]] = k /\ y[k] \in Cols
      <4>1. y[k] \in Cols
        BY <1>1, <1>2, <2>3
      <4> QED
        BY <2>3, <4>1 DEF IInv, Placed, Placing
    <3>2. Cheapest(v, y[k], k)
      BY <3>1 DEF IInv, Placed, Placing
    <3>3. cost[y[k]][k] - v[k] <= cost[y[k]][q] - v[q]
      BY <1>3, <3>2 DEF Cheapest
    <3> QED
      BY <1>3, <1>4, <3>1, <3>3
  <2> QED
    BY <2>2, <2>3
<1>6. path.d[k] <= path.d[q]
  <2>1. Shortest(path, Looked)
    BY DEF IInv, Searching
  <2>2. CASE path.d[q] = cost[Root][q] - v[q]
    <3>1. path.d[k] <= cost[Root][k] - v[k]
      BY <2>1 DEF Shortest
    <3> QED
      BY <1>1, <1>3, <1>4, <1>5, <2>2, <3>1
  <2>3. CASE \E l \in Looked : path.d[q] = Via(path, l, q)
    <3>1. PICK l \in Looked : path.d[q] = Via(path, l, q)
      BY <2>3
    <3>2. l \in Cols /\ y[l] # 0 /\ path.d[k] <= Via(path, l, k)
      BY <1>2, <2>1 DEF Shortest, Looked
    <3>3. y[l] \in Cols /\ path.d[l] \in Int /\ cost[y[l]][l] - v[l] \in Int
      <4>1. y[l] \in Cols
        BY <1>1, <1>2, <3>2
      <4> QED
        BY <1>2, <3>2, <4>1
    <3> DEFINE a == cost[y[l]][k]
               b == cost[y[l]][l] - v[l]
    <3>4. /\ Via(path, l, k) = path.d[l] + (a - v[k]) - b
          /\ Via(path, l, q) = path.d[l] + (a - v[q]) - b
          /\ a \in Int /\ b \in Int
      BY <1>4, <3>3 DEF Via
    <3> HIDE DEF a, b
    <3> QED
      BY <1>3, <1>5, <3>1, <3>2, <3>3, <3>4
  <2> QED
    BY <1>3, <2>1, <2>2, <2>3 DEF Shortest
<1> QED
  BY <1>2, <1>3, <1>6

(* The ways that a scanned column makes nearer are one row longer.         *)
LEMMA ScanLengthens ==
  ASSUME IInv, DummyPrices, phase = "scan", NEW W, Ways(W, path.pred, Looked),
         \A c \in Cols : \E m \in Cols : cost[Root][m] - v[m] <= path.d[c],
         NEW j \in path.scan, j \in Cols, j \in Near(path), path.d[j] = path.min,
         y[j] \in Cols, Cheapest(v, y[j], j),
         NEW near \in SUBSET Cols, NEW p,
         \A k \in near : k \notin Near(path) /\ Via(path, j, k) < path.d[k],
         \A k \in Cols :
           /\ Via(path, j, k) \in Int /\ path.min <= Via(path, j, k)
           /\ p.pred[k] = IF k \in near THEN y[j] ELSE path.pred[k]
  PROVE  Ways([k \in Cols |-> IF k \in near THEN W[j] \cup {y[j]} ELSE W[k]],
              p.pred, Looked \cup {j})
<1> DEFINE i == y[j]
           Z == [k \in Cols |-> IF k \in near THEN W[j] \cup {i} ELSE W[k]]
           S == Looked \cup {j}
<1>1. /\ path.ready \subseteq Cols /\ path.level \subseteq Cols /\ path.min \in Int
      /\ path.d \in [Cols -> Int] /\ Near(path) \subseteq Cols
  BY DEF IInv, Shape, Loops, Paths, Near
<1>2. /\ Ordered(path) /\ j \notin Looked /\ Looked \subseteq Near(path)
      /\ \A k \in Cols : y[k] # 0 => y[k] \notin Waiting /\ x[y[k]] = k
      /\ Root \in Waiting /\ nc \in Int /\ Cols \subseteq Int
  <2>1. Ordered(path) /\ Root \in Waiting
    BY RootWaits DEF IInv, Loops, Searching
  <2>2. j \notin Looked /\ Looked \subseteq Near(path)
    BY DEF Looked, Near
  <2>3. \A k \in Cols : y[k] # 0 => y[k] \notin Waiting /\ x[y[k]] = k
    BY DEF IInv, Placed, Placing
  <2>4. nc \in Int /\ Cols \subseteq Int
    BY Indices DEF IInv, Sizes
  <2> QED
    BY <2>1, <2>2, <2>3, <2>4
<1>3. i # Root /\ x[i] = j
  <2>1. 0 \notin Cols
    BY Indices DEF IInv
  <2> QED
    BY <1>2, <2>1
<1>4. /\ W \in [Cols -> SUBSET Cols]
      /\ \A k \in Cols :
           /\ Root \in W[k]
           /\ \/ path.pred[k] = Root /\ W[k] = {Root}
              \/ \E l \in Looked : /\ path.pred[k] = y[l] /\ y[l] \notin W[l]
                                   /\ W[k] = W[l] \cup {y[l]}
           /\ \A r \in W[k] \ {Root} : x[r] \in Looked /\ y[x[r]] = r
           /\ \A r, q \in W[k] : r > nr /\ q > nr => r = q
           /\ \A r, q \in W[k] \ {Root} : x[r] > nc /\ x[q] > nc => r = q
           /\ k > nc => \A r \in W[k] \ {Root} : x[r] <= nc
  BY DEF Ways
<1>5. i \notin W[j]
  <2>1. \A r \in W[j] \ {Root} : x[r] \in Looked
    BY <1>4
  <2> HIDE DEF i
  <2> QED
    BY <1>2, <1>3, <2>1
<1>6. \A k \in near : path.min < path.d[k] /\ k \in Cols
  <2> TAKE k \in near
  <2>1. path.min <= Via(path, j, k) /\ Via(path, j, k) < path.d[k] /\ k \in Cols
        /\ Via(path, j, k) \in Int /\ path.d[k] \in Int
    BY <1>1
  <2> QED
    BY <1>1, <2>1
<1>7. /\ Z \in [Cols -> SUBSET Cols]
      /\ \A k \in near : Z[k] = W[j] \cup {i}
      /\ \A k \in Cols \ near : Z[k] = W[k]
      /\ Z[j] = W[j] /\ \A l \in Looked : Z[l] = W[l]
  <2>1. \A l \in Near(path) : l \notin near /\ l \in Cols
    BY <1>1
  <2>2. W[j] \cup {i} \in SUBSET Cols
    BY <1>4
  <2> HIDE DEF i
  <2>3. Z \in [Cols -> SUBSET Cols]
    BY <1>4, <2>2
  <2> QED
    BY <1>2, <2>1, <2>3
<1> HIDE DEF Z
<1>8. ASSUME NEW k \in Cols, k \notin near
      PROVE  /\ Root \in Z[k]
             /\ \/ p.pred[k] = Root /\ Z[k] = {Root}
                \/ \E l \in S : /\ p.pred[k] = y[l] /\ y[l] \notin Z[l]
                                /\ Z[k] = Z[l] \cup {y[l]}
             /\ \A r \in Z[k] \ {Root} : x[r] \in S /\ y[x[r]] = r
             /\ \A r, q \in Z[k] : r > nr /\ q > nr => r = q
             /\ \A r, q \in Z[k] \ {Root} : x[r] > nc /\ x[q] > nc => r = q
             /\ k > nc => \A r \in Z[k] \ {Root} : x[r] <= nc
  <2>1. p.pred[k] = path.pred[k] /\ Z[k] = W[k]
    BY <1>7, <1>8
  <2>2. \/ p.pred[k] = Root /\ Z[k] = {Root}
        \/ \E l \in S : /\ p.pred[k] = y[l] /\ y[l] \notin Z[l]
                        /\ Z[k] = Z[l] \cup {y[l]}
    BY <1>4, <1>7, <2>1
  <2> QED
    BY <1>4, <2>1, <2>2
<1>9. ASSUME NEW k \in near
      PROVE  /\ Root \in Z[k]
             /\ \/ p.pred[k] = Root /\ Z[k] = {Root}
                \/ \E l \in S : /\ p.pred[k] = y[l] /\ y[l] \notin Z[l]
                                /\ Z[k] = Z[l] \cup {y[l]}
             /\ \A r \in Z[k] \ {Root} : x[r] \in S /\ y[x[r]] = r
             /\ \A r, q \in Z[k] : r > nr /\ q > nr => r = q
             /\ \A r, q \in Z[k] \ {Root} : x[r] > nc /\ x[q] > nc => r = q
             /\ k > nc => \A r \in Z[k] \ {Root} : x[r] <= nc
  <2>1. p.pred[k] = i /\ Z[k] = W[j] \cup {i} /\ k \in Cols
    BY <1>7
  <2>2. \E l \in S : p.pred[k] = y[l] /\ y[l] \notin Z[l] /\ Z[k] = Z[l] \cup {y[l]}
    BY <1>5, <1>7, <2>1
  <2>3. \A r \in Z[k] \ {Root} : x[r] \in S /\ y[x[r]] = r
    BY <1>3, <1>4, <2>1
  <2>4. \A r \in W[j] : ~(r > nr /\ i > nr)
    <3>1. Via(path, j, k) < path.d[k]
      OBVIOUS
    <3> QED
      BY <1>2, <2>1, <3>1, NoSecondRow
  <2>5. \A r \in W[j] \ {Root} : ~(x[r] > nc /\ x[i] > nc)
    <3> SUFFICES ASSUME NEW r \in W[j] \ {Root}, x[r] > nc, j > nc PROVE FALSE
      BY <1>3
    <3>1. x[r] \in Int
      BY <1>1, <1>2, <1>4
    <3>2. x[r] <= nc
      BY <1>4
    <3> QED
      BY <1>2, <3>1, <3>2
  <2>6. k > nc => \A r \in Z[k] \ {Root} : x[r] <= nc
    <3> SUFFICES ASSUME k > nc, NEW r \in Z[k] \ {Root} PROVE x[r] <= nc
      OBVIOUS
    <3>1. x[r] \in Near(path)
      BY <1>2, <2>3
    <3>2. x[r] \in Int
      BY <1>1, <1>2, <3>1
    <3>3. ~(x[r] > nc)
      BY <1>2, <1>6, <2>1, <3>1, NoSecondColumn
    <3> QED
      BY <1>2, <3>2, <3>3
  <2> HIDE DEF i, S
  <2>7. Root \in Z[k]
    BY <1>4, <2>1
  <2>8. \A r, q \in Z[k] : r > nr /\ q > nr => r = q
    BY <1>4, <2>1, <2>4
  <2>9. \A r, q \in Z[k] \ {Root} : x[r] > nc /\ x[q] > nc => r = q
    BY <1>4, <2>1, <2>5
  <2> QED
    BY <2>2, <2>3, <2>6, <2>7, <2>8, <2>9
<1>10. Ways(Z, p.pred, S)
  <2> HIDE DEF i, S
  <2> QED
    BY <1>7, <1>8, <1>9 DEF Ways
<1> QED
  BY <1>10 DEF Z

(* The ways are known while a search goes on, and become the walk when it  *)
(* arrives.                                                                *)
LEMMA SearchTracks ==
  ASSUME IInv, PairOnly, phase \in {"find", "scan"}, turns = 0, NEW p, NEW S,
         Found(p, S), Arrives(p) \/ GoesOn(p, S), NEW W, Ways(W, p.pred, S),
         \A c \in Cols : \E m \in Cols : cost[Root][m] - v[m] <= p.d[c],
         UNCHANGED <<nr, nc, cost, x, y, free, current, turns>>
  PROVE  Tracked' /\ Walking' /\ turns' = 0
<1>1. CASE Arrives(p)
  BY <1>1, ReachWalks DEF Tracked, Walking
<1>2. CASE GoesOn(p, S)
  <2>1. /\ path' = p /\ v' = v /\ phase' \in {"find", "scan"} /\ Looked' = S
        /\ Root' = Root /\ Cols' = Cols
    BY <1>2 DEF GoesOn, Looked, Near, Root, Cols, n
  <2>2. Ways(W, path.pred, Looked)'
    BY <2>1 DEF Ways
  <2> QED
    BY <2>1, <2>2 DEF Tracked, Walking
<1> QED
  BY <1>1, <1>2

LEMMA FindTracks ==
  ASSUME IInv, PairOnly, Tracked, FindNearest
  PROVE  Tracked' /\ Walking' /\ turns' = 0
<1>1. /\ phase = "find"
      /\ UNCHANGED <<nr, nc, cost, x, y, free, current, turns>>
  BY DEF FindNearest
<1>2. PICK W : Ways(W, path.pred, Looked)
  BY <1>1 DEF Tracked
<1>3. /\ turns = 0
      /\ \A c \in Cols : \E m \in Cols : cost[Root][m] - v[m] <= path.d[c]
  BY <1>1 DEF Tracked
<1>4. PICK p : /\ Found(p, Looked) /\ (Arrives(p) \/ GoesOn(p, Looked))
               /\ p.d = path.d /\ p.pred = path.pred
  BY FindNearestSteps
<1> QED
  BY <1>1, <1>2, <1>3, <1>4, SearchTracks

LEMMA ScanTracks ==
  ASSUME IInv, PairOnly, DummyPrices, Tracked, ScanColumn
  PROVE  Tracked' /\ Walking' /\ turns' = 0
<1>1. /\ phase = "scan"
      /\ UNCHANGED <<nr, nc, cost, x, y, free, current, turns>>
  BY DEF ScanColumn
<1>2. PICK W : Ways(W, path.pred, Looked)
  BY <1>1 DEF Tracked
<1>3. /\ turns = 0
      /\ \A c \in Cols : \E m \in Cols : cost[Root][m] - v[m] <= path.d[c]
  BY <1>1 DEF Tracked
<1>4. PICK j, near, p :
           /\ near \subseteq Cols /\ j \in path.scan
           /\ j \in Cols /\ j \in Near(path) /\ path.d[j] = path.min
           /\ y[j] \in Cols /\ Cheapest(v, y[j], j)
           /\ \A k \in near : k \notin Near(path) /\ Via(path, j, k) < path.d[k]
           /\ \A k \in Cols :
                /\ Via(path, j, k) \in Int /\ path.min <= Via(path, j, k)
                /\ p.d[k] = IF k \in near THEN Via(path, j, k) ELSE path.d[k]
                /\ p.pred[k] = IF k \in near THEN y[j] ELSE path.pred[k]
           /\ Found(p, Looked \cup {j}) /\ (Arrives(p) \/ GoesOn(p, Looked \cup {j}))
  BY ScanColumnSteps
<1> DEFINE Z == [k \in Cols |-> IF k \in near THEN W[j] \cup {y[j]} ELSE W[k]]
<1>5. Ways(Z, p.pred, Looked \cup {j})
  BY <1>1, <1>2, <1>3, <1>4, ScanLengthens
<1> HIDE DEF Z
<1>6. ASSUME NEW c \in Cols
      PROVE  \E m \in Cols : cost[Root][m] - v[m] <= p.d[c]
  <2>1. CASE c \notin near
    BY <1>3, <1>4, <2>1
  <2>2. CASE c \in near
    <3>1. PICK m \in Cols : cost[Root][m] - v[m] <= path.d[j]
      BY <1>3, <1>4
    <3>2. p.d[c] = Via(path, j, c) /\ path.d[j] <= Via(path, j, c)
      BY <1>4, <2>2
    <3>3. cost[Root][m] - v[m] \in Int /\ path.d[j] \in Int /\ Via(path, j, c) \in Int
      <4>1. Root \in Cols
        BY <1>1, RootWaits DEF IInv, Loops
      <4>2. cost[Root][m] \in Int /\ v[m] \in Int /\ path.d[j] \in Int
        BY <1>1, <1>4, <3>1, <4>1 DEF IInv, Shape, Loops, Paths
      <4> QED
        BY <1>4, <4>2
    <3> QED
      BY <3>1, <3>2, <3>3
  <2> QED
    BY <2>1, <2>2
<1> QED
  BY <1>1, <1>3, <1>4, <1>5, <1>6, SearchTracks

LEMMA StartTracks ==
  ASSUME IInv, StartPath
  PROVE  Tracked' /\ Walking' /\ turns' = 0
<1>1. /\ phase = "start" /\ phase' = "find" /\ current < Len(free) /\ turns' = 0
      /\ UNCHANGED <<nr, nc, cost, x, y, v, free, current>>
      /\ path' = [NoPath EXCEPT !.d = Reduced(Root), !.pred = [j \in Cols |-> Root]]
  BY DEF StartPath, Root
<1>2. Root \in Cols /\ Root' = Root /\ Cols' = Cols
  BY <1>1, RootWaits DEF Root, Cols, n
<1>3. /\ path'.d = Reduced(Root) /\ \A j \in Cols : path'.pred[j] = Root
      /\ path'.ready = {} /\ path'.level = {} /\ path'.scan = {}
  BY <1>1 DEF NoPath
<1>4. ASSUME NEW c \in Cols
      PROVE  cost[Root][c] - v[c] <= path'.d[c]
  <2>1. path'.d[c] = cost[Root][c] - v[c]
    BY <1>2, <1>3, ReducedType
  <2>2. cost[Root][c] \in Int /\ v[c] \in Int
    BY <1>2 DEF IInv, Shape
  <2> QED
    BY <2>1, <2>2
<1> DEFINE W == [j \in Cols |-> {Root}]
<1>5. Ways(W, path.pred, Looked)'
  <2>1. W \in [Cols -> SUBSET Cols] /\ \A j \in Cols : W[j] = {Root}
    BY <1>2
  <2> HIDE DEF W
  <2>2. W' = W
    BY <1>2 DEF W
  <2> QED
    BY <1>2, <1>3, <2>1, <2>2 DEF Ways
<1> QED
  BY <1>1, <1>2, <1>4, <1>5 DEF Tracked, Walking

LEMMA FlipWalks ==
  ASSUME IInv, Walking, turns \in Nat, Flip
  PROVE  turns' \in Nat /\ turns' < n /\ Tracked' /\ Walking'
<1> DEFINE i == path.pred[col]
<1>1. /\ phase = "flip" /\ turns' = turns + 1 /\ UNCHANGED <<nr, nc, free>>
      /\ x' = [x EXCEPT ![i] = col]
      /\ IF i = Root
         THEN phase' = "start"
         ELSE col' = x[i] /\ UNCHANGED <<phase, current, path>>
  BY DEF Flip, Root, Left
<1>2. PICK W : OnTheWay(W)
  BY <1>1 DEF Walking
<1>3. /\ W \in [Cols -> SUBSET Cols]
      /\ turns + Cardinality(W[col]) < n
      /\ \A j \in Cols : Root \in W[j] /\ path.pred[j] \in W[j]
      /\ \A j \in Cols : path.pred[j] \in W[col] /\ path.pred[j] # Root =>
           x[path.pred[j]] \in Cols /\ W[x[path.pred[j]]] = W[j] \ {path.pred[j]}
  BY <1>2 DEF OnTheWay
<1>4. /\ col \in Cols /\ n \in Nat /\ x \in [Cols -> 0..n] /\ n' = n /\ Cols' = Cols
      /\ IsFiniteSet(Cols)
  <2>1. col \in Cols /\ n \in Nat /\ x \in [Cols -> 0..n] /\ Cols = 1..n
    BY <1>1, Indices DEF IInv, Flipping, Shape
  <2> QED
    BY <1>1, <2>1, FS_Interval DEF n, Cols
<1>5. i \in W[col] /\ i \in Cols /\ Root \in W[col]
  BY <1>3, <1>4
<1> HIDE DEF i
<1>6. /\ Cardinality(W[col]) \in Nat \ {0} /\ IsFiniteSet(W[col])
      /\ Cardinality(W[col] \ {i}) = Cardinality(W[col]) - 1
  <2>1. W[col] \in SUBSET Cols
    BY <1>3, <1>4
  <2>2. IsFiniteSet(W[col])
    BY <1>4, <2>1, FS_Subset
  <2> QED
    BY <1>5, <2>2, FS_CardinalityType, FS_EmptySet, FS_RemoveElement
<1>7. turns' \in Nat /\ turns' < n
  BY <1>1, <1>3, <1>4, <1>6
<1>8. CASE i = Root
  BY <1>1, <1>7, <1>8 DEF Tracked, Walking
<1>9. CASE i # Root
  <2>1. /\ phase' = "flip" /\ path' = path /\ col' = x[i] /\ Root' = Root
        /\ col' \in Cols /\ W[col'] = W[col] \ {i}
    BY <1>1, <1>3, <1>4, <1>5, <1>9 DEF Root, i
  <2>2. turns' + Cardinality(W[col']) < n
    BY <1>1, <1>3, <1>4, <1>6, <2>1
  <2>3. ASSUME NEW j \in Cols, path.pred[j] \in W[col'], path.pred[j] # Root
        PROVE  /\ x'[path.pred[j]] \in Cols
               /\ W[x'[path.pred[j]]] = W[j] \ {path.pred[j]}
    <3>1. path.pred[j] \in W[col] /\ path.pred[j] # i
      BY <2>1, <2>3
    <3>2. path.pred[j] \in Cols
      BY <1>3, <1>4, <3>1
    <3>3. x'[path.pred[j]] = x[path.pred[j]]
      BY <1>1, <1>4, <3>1, <3>2
    <3> QED
      BY <1>3, <2>3, <3>1, <3>3
  <2>4. OnTheWay(W)'
    BY <1>3, <1>4, <2>1, <2>2, <2>3 DEF OnTheWay
  <2> QED
    BY <1>7, <2>1, <2>4 DEF Tracked, Walking
<1> QED
  BY <1>8, <1>9

LEMMA WalkHolds == IInv /\ WalkInv /\ [Next]_vars => WalkInv'
<1> SUFFICES ASSUME IInv, WalkInv, [Next]_vars PROVE WalkInv'
  OBVIOUS
<1>1. /\ turns \in Nat /\ turns < n /\ NonNegative /\ DummyPrices /\ PairOnly
      /\ Tracked /\ Walking
  BY DEF WalkInv
<1>2. n' = n /\ n \in Nat \ {0} /\ NonNegative'
  BY <1>1, Fixed, Indices DEF IInv, NonNegative
<1>3. DummyPrices' /\ PairOnly'
  BY <1>1, DummyPricesHold, PairHolds
<1>4. turns' \in Nat /\ turns' < n' /\ Tracked' /\ Walking'
  <2>1. CASE /\ turns' = turns
             /\ phase' \in {"claim", "transfer", "rows", "start", "done"}
    BY <1>1, <1>2, <2>1 DEF Tracked, Walking
  <2>2. CASE StartPath
    BY <1>2, <2>2, StartTracks
  <2>3. CASE FindNearest
    BY <1>1, <1>2, <2>3, FindTracks
  <2>4. CASE ScanColumn
    BY <1>1, <1>2, <2>4, ScanTracks
  <2>5. CASE Flip
    BY <1>1, <1>2, <2>5, FlipWalks
  <2>6. CASE UNCHANGED vars
    <3>1. Looked' = Looked /\ Root' = Root /\ Cols' = Cols
      BY <2>6 DEF vars, Looked, Root, Cols, n
    <3>2. Tracked'
      BY <1>1, <2>6, <3>1 DEF vars, Tracked, Ways
    <3>3. Walking'
      BY <1>1, <1>2, <2>6, <3>1 DEF vars, Walking, OnTheWay
    <3> QED
      BY <1>1, <1>2, <2>6, <3>2, <3>3 DEF vars
  <2>7. Transfer => phase' = "transfer"
    BY DEF Transfer
  <2>8. RowReduction => phase' = "rows"
    BY DEF RowReduction
  <2> QED
    BY <2>1, <2>2, <2>3, <2>4, <2>5, <2>6, <2>7, <2>8
    DEF Next, Step, Done, ColumnReduction, Claim, Transfer, TransferEnds, RowReduction,
        PassEnds, AllPlaced
<1> QED
  BY <1>2, <1>3, <1>4 DEF WalkInv

LEMMA WalkInvariantHolds == Spec => []WalkInv
<1>1. Init => WalkInv
  <2> SUFFICES ASSUME Init PROVE WalkInv
    OBVIOUS
  <2>1. Sizes /\ n \in Nat \ {0}
    BY AssignmentAssumption, Indices DEF Init, Sizes
  <2>2. turns = 0 /\ phase = "reduce" /\ rr = 0 /\ \A j \in Cols : v[j] = 0
    BY DEF Init
  <2>3. DummyPrices
    <3>1. \A j \in nc + 1..n : j \in Cols
      BY <2>1, Indices DEF Sizes
    <3> QED
      BY <2>2, <3>1 DEF DummyPrices
  <2> QED
    BY <2>1, <2>2, <2>3, NonNegativeAtFirst DEF WalkInv, PairOnly, Tracked, Walking
<1> QED
  BY <1>1, WalkHolds, InvariantHolds, PTL DEF Spec

(* The walk back along a path takes fewer turns than there are columns:    *)
(* what _ca_dense asserts of k, for the matrices linear_assignment makes.  *)
THEOREM WalkCorrect == Spec => []WalkIsShort
<1>1. WalkInv => WalkIsShort
  BY DEF WalkInv, WalkIsShort
<1> QED
  BY <1>1, WalkInvariantHolds, PTL

-----------------------------------------------------------------------------
(* Less at the part i, and equal before it.                                *)
LEMMA LessAt ==
  ASSUME NEW a, NEW b, NEW i \in 1..4, a[i] \in Nat, b[i] \in Nat, a[i] < b[i],
         \A k \in 1..(i - 1) : a[k] \in Nat /\ a[k] = b[k]
  PROVE  Less(a, b)
BY DEF Less

LEMMA StageAdvances ==
  ASSUME IInv,
         ColumnReduction \/ Claim \/ TransferEnds \/ PassEnds \/ AllPlaced
  PROVE  Less(Remaining', Remaining)
<1>1. pass \in 0..2 /\ (phase \in {"transfer", "rows"} => pass \in 0..1)
  BY DEF IInv, Shape, Loops
<1>2. CASE ColumnReduction
  <2>1. Remaining[1] = 6 /\ Remaining'[1] = 5
    BY <1>2 DEF Remaining, ColumnReduction
  <2> QED
    BY <2>1, LessAt
<1>3. CASE Claim
  <2>1. Remaining[1] = 5 /\ Remaining'[1] = 4
    BY <1>3 DEF Remaining, Claim
  <2> QED
    BY <2>1, LessAt
<1>4. CASE TransferEnds
  <2>1. phase = "transfer" /\ phase' \in {"done", "rows"} /\ pass' = pass
    BY <1>4 DEF TransferEnds
  <2>2. Remaining[1] = 4 /\ Remaining'[1] \in {0, 3 - pass}
    BY <2>1 DEF Remaining
  <2> QED
    BY <1>1, <2>1, <2>2, LessAt
<1>5. CASE PassEnds
  <2>1. phase = "rows" /\ phase' \in {"done", "rows", "start"} /\ pass' = pass + 1
    BY <1>5 DEF PassEnds
  <2>2. phase' = "rows" => pass' < 2
    BY <1>5 DEF PassEnds
  <2>3. Remaining[1] = 3 - pass
    BY <2>1 DEF Remaining
  <2>4. \/ phase' = "rows" /\ Remaining'[1] = 3 - (pass + 1)
        \/ Remaining'[1] \in {0, 1}
    BY <2>1 DEF Remaining
  <2>5. /\ Remaining[1] \in Nat /\ Remaining'[1] \in Nat /\ Remaining'[1] < Remaining[1]
    BY <1>1, <2>1, <2>3, <2>4
  <2> QED
    BY <2>5, LessAt
<1>6. CASE AllPlaced
  <2>1. Remaining[1] = 1 /\ Remaining'[1] = 0
    BY <1>6 DEF Remaining, AllPlaced
  <2> QED
    BY <2>1, LessAt
<1> QED
  BY <1>2, <1>3, <1>4, <1>5, <1>6

LEMMA TransferAdvances ==
  ASSUME IInv, Transfer
  PROVE  Less(Remaining', Remaining)
<1>1. /\ phase = "transfer" /\ phase' = "transfer" /\ current' = current + 1
      /\ current < n /\ current \in Nat /\ n \in Nat /\ n' = n
  <2>1. current \in 0..n /\ n \in Nat
    BY Indices DEF IInv, Shape
  <2> QED
    BY <2>1 DEF Transfer, n
<1>2. /\ Remaining[1] = 4 /\ Remaining'[1] = 4
      /\ Remaining[2] = n - current /\ Remaining'[2] = n - (current + 1)
  BY <1>1 DEF Remaining
<1>3. \A k \in 1..(2 - 1) : k = 1
  OBVIOUS
<1>4. /\ Remaining[2] \in Nat /\ Remaining'[2] \in Nat /\ Remaining'[2] < Remaining[2]
  BY <1>1, <1>2
<1> QED
  BY <1>2, <1>3, <1>4, LessAt

(* A row thrown out is taken next only while rr_cnt has not run out.       *)
LEMMA RowReductionAdvances ==
  ASSUME IInv, RowReduction
  PROVE  Less(Remaining', Remaining)
<1>1. PICK j \in Cols, again \in BOOLEAN :
        ThrownOut(y[j], again) /\ (again => MayExchange(rr + 1))
  BY RowReductionPrice
<1>2. /\ phase = "rows" /\ phase' = "rows" /\ pass' = pass /\ rr' = rr + 1
      /\ current < Len(free) /\ n' = n
  BY DEF RowReduction, n
<1>3. /\ Len(free') = Len(free) /\ Len(free) \in Nat /\ current \in Nat /\ rr \in Nat
      /\ Len(free) <= n /\ n \in Nat /\ pass \in 0..1
  <2>1. /\ free \in Seq(Cols) /\ current \in 0..n /\ n \in Nat /\ rr \in Nat
        /\ Len(free) <= n /\ pass \in 0..1
    BY <1>2, Indices DEF IInv, Shape, Loops
  <2>2. Len(free') = Len(free)
    BY <1>1, ThrownOutWaits
  <2> QED
    BY <2>1, <2>2
<1>4. /\ Remaining[1] = 3 - pass /\ Remaining'[1] = 3 - pass
      /\ Remaining[2] = Len(free) - current /\ Remaining'[2] = Len(free) - current'
      /\ Remaining[3] = IF rr < n * n THEN n * n - rr ELSE 0
      /\ Remaining'[3] = IF rr + 1 < n * n THEN n * n - (rr + 1) ELSE 0
  BY <1>2, <1>3 DEF Remaining
<1>5. Remaining[1] \in Nat /\ Remaining[2] \in Nat /\ Remaining'[1] = Remaining[1]
  BY <1>2, <1>3, <1>4
<1>6. CASE current' = current + 1
  <2>1. Remaining'[2] \in Nat /\ Remaining'[2] < Remaining[2]
    BY <1>2, <1>3, <1>4, <1>6
  <2>2. \A k \in 1..(2 - 1) : k = 1
    OBVIOUS
  <2> QED
    BY <1>5, <2>1, <2>2, LessAt
<1>7. CASE current' = current /\ again
  <2>1. rr + 1 < n * n
    <3>1. rr + 1 < (current + 1) * n /\ current + 1 <= n
      BY <1>1, <1>2, <1>3, <1>7 DEF MayExchange
    <3>2. (current + 1) * n <= n * n
      <4>1. \A a, b, c \in Nat : a <= b => a * c <= b * c
        OBVIOUS
      <4> QED
        BY <1>3, <3>1, <4>1
    <3>3. (current + 1) * n \in Nat /\ n * n \in Nat
      BY <1>3
    <3> QED
      BY <1>3, <3>1, <3>2, <3>3
  <2>2. n * n \in Nat
    BY <1>3
  <2>3. Remaining[3] = n * n - rr /\ Remaining'[3] = n * n - (rr + 1)
    BY <1>3, <1>4, <2>1, <2>2
  <2>4. Remaining[3] \in Nat /\ Remaining'[3] \in Nat /\ Remaining'[3] < Remaining[3]
    BY <1>3, <2>1, <2>2, <2>3
  <2>5. Remaining'[2] = Remaining[2]
    BY <1>4, <1>7
  <2>6. \A k \in 1..(3 - 1) : k = 1 \/ k = 2
    OBVIOUS
  <2> QED
    BY <1>5, <2>4, <2>5, <2>6, LessAt
<1> QED
  BY <1>1, <1>6, <1>7 DEF ThrownOut

(* The parts of an augmentation: with the stage and the rows left the      *)
(* same, the third part falls, or the fourth one.                          *)
LEMMA PartFalls ==
  ASSUME NEW a, NEW b, a[1] = 1, b[1] = 1, a[2] = b[2], a[2] \in Nat,
         a[3] \in Nat, b[3] \in Nat,
         \/ a[3] < b[3]
         \/ a[3] = b[3] /\ a[4] \in Nat /\ b[4] \in Nat /\ a[4] < b[4]
  PROVE  Less(a, b)
<1>1. \A k \in 1..(3 - 1) : k = 1 \/ k = 2
  OBVIOUS
<1>2. \A k \in 1..(4 - 1) : k = 1 \/ k = 2 \/ k = 3
  OBVIOUS
<1>3. CASE a[3] < b[3]
  BY <1>1, <1>3, LessAt
<1>4. CASE a[3] = b[3] /\ a[4] \in Nat /\ b[4] \in Nat /\ a[4] < b[4]
  BY <1>2, <1>4, LessAt
<1> QED
  BY <1>3, <1>4

LEMMA LookedCounts ==
  ASSUME IInv, phase \in {"find", "scan"}
  PROVE  /\ Looked \subseteq Cols /\ IsFiniteSet(Looked) /\ n \in Nat
         /\ Cardinality(Looked) \in 0..n
         /\ \A j \in Cols \ Looked :
              /\ Cardinality(Looked \cup {j}) \in 0..n
              /\ Cardinality(Looked \cup {j}) = Cardinality(Looked) + 1
<1>1. Looked \subseteq Cols
  BY DEF IInv, Loops, Paths, Looked
<1>2. n \in Nat /\ IsFiniteSet(Cols) /\ Cardinality(Cols) = n
  BY Indices, FS_Interval DEF IInv
<1>3. \A S \in SUBSET Cols : IsFiniteSet(S) /\ Cardinality(S) \in 0..n
  <2> TAKE S \in SUBSET Cols
  <2>1. IsFiniteSet(S) /\ Cardinality(S) <= n
    BY <1>2, FS_Subset
  <2> QED
    BY <1>2, <2>1, FS_CardinalityType
<1>4. ASSUME NEW j \in Cols \ Looked
      PROVE  /\ Cardinality(Looked \cup {j}) \in 0..n
             /\ Cardinality(Looked \cup {j}) = Cardinality(Looked) + 1
  <2>1. Looked \cup {j} \in SUBSET Cols /\ IsFiniteSet(Looked)
    BY <1>1, <1>3
  <2> QED
    BY <1>3, <2>1, FS_AddElement
<1> QED
  BY <1>1, <1>2, <1>3, <1>4

LEMMA FreeLeft ==
  ASSUME IInv, phase \in {"start", "find", "scan", "flip"}
  PROVE  /\ current \in Nat /\ Len(free) \in Nat /\ Len(free) - current \in Nat
         /\ n \in Nat /\ (phase # "start" => current < Len(free))
<1>1. current \in 0..n /\ free \in Seq(Cols) /\ n \in Nat
  BY Indices DEF IInv, Shape
<1>2. current <= Len(free)
  <2>1. phase = "start" => current <= Len(free)
    BY DEF IInv, Loops
  <2>2. phase # "start" => current < Len(free)
    BY DEF IInv, Loops
  <2>3. current \in Int /\ Len(free) \in Int
    BY <1>1
  <2> QED
    BY <2>1, <2>2, <2>3
<1>3. phase # "start" => current < Len(free)
  BY DEF IInv, Loops
<1> QED
  BY <1>1, <1>2, <1>3

LEMMA StartAdvances ==
  ASSUME IInv, StartPath
  PROVE  Less(Remaining', Remaining)
<1>1. phase = "start" /\ phase' = "find" /\ UNCHANGED <<free, current>>
  BY DEF StartPath
<1>2. /\ Remaining[1] = 1 /\ Remaining'[1] = 1
      /\ Remaining[2] = Len(free) - current /\ Remaining'[2] = Len(free) - current
      /\ Remaining[3] = 3 /\ Remaining'[3] = 2
  BY <1>1 DEF Remaining
<1>3. Len(free) - current \in Nat
  BY <1>1, FreeLeft
<1> QED
  BY <1>2, <1>3, PartFalls

LEMMA FindNearestAdvances ==
  ASSUME IInv, FindNearest
  PROVE  Less(Remaining', Remaining)
<1>1. /\ phase = "find" /\ phase' \in {"scan", "flip"}
      /\ UNCHANGED <<free, current, nr, nc>>
  BY DEF FindNearest, Reach
<1>2. /\ Remaining[1] = 1 /\ Remaining'[1] = 1
      /\ Remaining[2] = Len(free) - current /\ Remaining'[2] = Len(free) - current
      /\ Remaining[3] = 2 /\ Len(free) - current \in Nat
      /\ Remaining[4] = 2 * (n - Cardinality(Looked)) + 1
  BY <1>1, FreeLeft DEF Remaining
<1>3. CASE phase' = "flip"
  <2>1. Remaining'[3] = 0
    BY <1>3 DEF Remaining
  <2> QED
    BY <1>2, <2>1, PartFalls
<1>4. CASE phase' = "scan"
  <2>1. Looked' = Looked
    <3>1. PICK p : Found(p, Looked) /\ (Arrives(p) \/ GoesOn(p, Looked))
      BY FindNearestSteps
    <3>2. GoesOn(p, Looked)
      BY <1>4, <3>1 DEF Arrives, Reach
    <3> QED
      BY <3>2 DEF GoesOn, Looked, Near
  <2>2. n' = n
    BY <1>1 DEF n
  <2>3. Remaining'[3] = 2 /\ Remaining'[4] = 2 * (n - Cardinality(Looked))
    BY <1>4, <2>1, <2>2 DEF Remaining
  <2>4. n \in Nat /\ Cardinality(Looked) \in 0..n
    BY <1>1, LookedCounts
  <2> DEFINE c == Cardinality(Looked)
  <2>5. 2 * (n - c) \in Nat /\ 2 * (n - c) + 1 \in Nat /\ 2 * (n - c) < 2 * (n - c) + 1
    <3> HIDE DEF c
    <3> QED
      BY <2>4 DEF c
  <2> QED
    BY <1>2, <2>3, <2>5, PartFalls
<1> QED
  BY <1>1, <1>3, <1>4

(* A column of the level is looked through once.                           *)
LEMMA ScanColumnAdvances ==
  ASSUME IInv, ScanColumn
  PROVE  Less(Remaining', Remaining)
<1>1. /\ phase = "scan" /\ UNCHANGED <<free, current, nr, nc>>
      /\ phase' \in {"find", "scan", "flip"}
  BY DEF ScanColumn, Reach
<1>2. /\ Remaining[1] = 1 /\ Remaining'[1] = 1
      /\ Remaining[2] = Len(free) - current /\ Remaining'[2] = Len(free) - current
      /\ Remaining[3] = 2 /\ Len(free) - current \in Nat
      /\ Remaining[4] = 2 * (n - Cardinality(Looked))
  BY <1>1, FreeLeft DEF Remaining
<1>3. CASE phase' = "flip"
  <2>1. Remaining'[3] = 0
    BY <1>3 DEF Remaining
  <2> QED
    BY <1>2, <2>1, PartFalls
<1>4. CASE phase' \in {"find", "scan"}
  <2>1. PICK j, p :
          /\ j \in path.scan /\ j \in Cols
          /\ Found(p, Looked \cup {j}) /\ (Arrives(p) \/ GoesOn(p, Looked \cup {j}))
    BY ScanColumnSteps
  <2>2. j \notin Looked /\ Looked' = Looked \cup {j}
    <3>1. GoesOn(p, Looked \cup {j})
      BY <1>4, <2>1 DEF Arrives, Reach
    <3> QED
      BY <2>1, <3>1 DEF GoesOn, Looked, Near
  <2>3. n' = n
    BY <1>1 DEF n
  <2>4. /\ Remaining'[3] = 2
        /\ Remaining'[4] \in {2 * (n - Cardinality(Looked')),
                              2 * (n - Cardinality(Looked')) + 1}
    BY <1>4, <2>3 DEF Remaining
  <2> DEFINE c == Cardinality(Looked)
  <2>5. n \in Nat /\ c \in 0..n /\ c + 1 \in 0..n /\ Cardinality(Looked') = c + 1
    BY <1>1, <2>1, <2>2, LookedCounts
  <2>6. Remaining'[4] \in Nat /\ Remaining[4] \in Nat /\ Remaining'[4] < Remaining[4]
    <3>1. Remaining[4] = 2 * (n - c)
      BY <1>2
    <3>2. Remaining'[4] \in {2 * (n - (c + 1)), 2 * (n - (c + 1)) + 1}
      BY <2>4, <2>5
    <3> HIDE DEF c
    <3> QED
      BY <2>5, <3>1, <3>2
  <2> QED
    BY <1>2, <2>4, <2>6, PartFalls
<1> QED
  BY <1>1, <1>3, <1>4

LEMMA FlipAdvances ==
  ASSUME IInv, WalkInv, Flip
  PROVE  Less(Remaining', Remaining)
<1>1. /\ phase = "flip" /\ UNCHANGED <<free, nr, nc>> /\ turns' = turns + 1
      /\ \/ phase' = "start" /\ current' = current + 1
         \/ phase' = "flip" /\ current' = current
  BY DEF Flip
<1>2. /\ Remaining[1] = 1 /\ Remaining'[1] = 1
      /\ Remaining[2] = Len(free) - current /\ Remaining'[2] = Len(free) - current'
      /\ Remaining[3] = 0 /\ Remaining[4] = n - turns
  BY <1>1 DEF Remaining
<1>3. /\ current \in Nat /\ Len(free) \in Nat /\ current < Len(free) /\ n \in Nat
      /\ turns \in Nat /\ turns < n /\ n' = n
  BY <1>1, FreeLeft DEF WalkInv, n
<1>4. CASE phase' = "start" /\ current' = current + 1
  <2>1. /\ Remaining[2] \in Nat /\ Remaining'[2] \in Nat
        /\ Remaining'[2] < Remaining[2]
    BY <1>2, <1>3, <1>4
  <2>2. \A k \in 1..(2 - 1) : k = 1
    OBVIOUS
  <2> QED
    BY <1>2, <2>1, <2>2, LessAt
<1>5. CASE phase' = "flip" /\ current' = current
  <2>1. Remaining'[3] = 0 /\ Remaining'[4] = n - (turns + 1)
    BY <1>1, <1>3, <1>5 DEF Remaining
  <2>2. /\ Remaining[4] \in Nat /\ Remaining'[4] \in Nat
        /\ Remaining'[4] < Remaining[4] /\ Len(free) - current \in Nat
    BY <1>2, <1>3, <2>1
  <2> QED
    BY <1>2, <1>5, <2>1, <2>2, PartFalls
<1> QED
  BY <1>1, <1>4, <1>5

(* No step of the solver is idle: the rank falls with each, the rows that  *)
(* throw each other out in _carr_dense, the search of find_path_dense and  *)
(* the walk of _ca_dense included.  As the rank is of naturals, in an      *)
(* order without infinite descents, the solver ends wherever it goes on.   *)
THEOREM AdvancesCorrect == Spec => Advances
<1>1. IInv /\ WalkInv /\ [Next]_vars => [Step => Less(Remaining', Remaining)]_vars
  BY StageAdvances, TransferAdvances, RowReductionAdvances, StartAdvances,
     FindNearestAdvances, ScanColumnAdvances, FlipAdvances DEF Step
<1>2. Spec => [][Step => Less(Remaining', Remaining)]_vars
  BY <1>1, InvariantHolds, WalkInvariantHolds, PTL DEF Spec
<1> QED
  BY <1>2 DEF Advances
=============================================================================
