---------------------------- MODULE Assignment ----------------------------
(***************************************************************************)
(* How BYTETracker pairs tracks with detections: linear_assignment gives   *)
(* the costs and a limit to lapjv, which extends the matrix so that a row  *)
(* or column may stay alone for half the limit, and lapjv_internal solves  *)
(* it after Jonker and Volgenant: column reduction with reduction transfer,*)
(* two passes of augmenting row reduction, and a shortest augmenting path  *)
(* for every row that is still free.  Indices start at 1; 0 is the code's  *)
(* -1.  Costs are integers, where the code has floats of limited precision.*)
(***************************************************************************)
EXTENDS Integers, Sequences, FiniteSets

CONSTANTS MaxRows, MaxCols,  \* bounds on tracks and detections
          Costs,             \* the costs a pair may have
          Limit              \* linear_assignment's thresh

ASSUME AssignmentAssumption ==
  /\ MaxRows \in Nat \ {0} /\ MaxCols \in Nat \ {0}
  /\ Costs \subseteq Nat /\ Costs # {}
  /\ Limit \in Nat /\ Limit % 2 = 0

VARIABLES
  nr, nc,   \* rows and columns asked about
  cost,     \* the extended matrix
  phase,    \* reduce, claim, transfer, rows, start, find, scan, flip, done
  x, y,     \* the column of a row, the row of a column
  v,        \* prices of the columns
  unique,   \* rows that not more than one column wants
  free,     \* free_rows, with
  current,  \*   the rows taken from it; in transfer: the rows looked at
  kept,     \*   and new_free_rows, written back at its front
  rr, pass, \* rr_cnt, and passes of the row reduction so far
  path,     \* find_path_dense's d and pred, and its columns
  col,      \* the column an augmentation has come to
  turns     \* k of _ca_dense: the turns its loop has taken

vars == <<nr, nc, cost, phase, x, y, v, unique, free, current, kept, rr, pass, path,
          col, turns>>

n    == nr + nc
Cols == 1..n

(* The least value of f on S, and the first of S that has it.              *)
Least(f, S)    == CHOOSE c \in {f[j] : j \in S} : \A j \in S : c <= f[j]
FirstMin(f, S) == CHOOSE j \in S : /\ \A k \in S : f[j] <= f[k]
                                   /\ \A k \in S : f[k] = f[j] => j <= k

(* Mutant: a row and a column alone cost the limit each.                   *)
ExtendedWhole(c, rows, columns) ==
  [i \in 1..(rows + columns) |-> [j \in 1..(rows + columns) |->
     IF i <= rows /\ j <= columns THEN c[i][j]
     ELSE IF i > rows /\ j > columns THEN 0 ELSE Limit]]
(* lapjv: a row or column may go to a dummy for half the limit.            *)
Extended(c, rows, columns) ==
  [i \in 1..(rows + columns) |-> [j \in 1..(rows + columns) |->
     IF i <= rows /\ j <= columns THEN c[i][j]
     ELSE IF i > rows /\ j > columns THEN 0 ELSE Limit \div 2]]

NoPath == [d |-> <<>>, pred |-> <<>>, ready |-> {}, level |-> {}, scan |-> {},
           min |-> 0]

Init ==
  /\ nr \in 1..MaxRows /\ nc \in 1..MaxCols
  /\ \E c \in [1..nr -> [1..nc -> Costs]] : cost = Extended(c, nr, nc)
  /\ phase = "reduce"
  /\ x = [i \in Cols |-> 0] /\ y = [j \in Cols |-> 0] /\ v = [j \in Cols |-> 0]
  /\ unique = {} /\ free = <<>> /\ current = 0 /\ kept = 0 /\ rr = 0 /\ pass = 0
  /\ path = NoPath /\ col = 0 /\ turns = 0

Reduced(i) == [j \in Cols |-> cost[i][j] - v[j]]

-----------------------------------------------------------------------------
(* _ccrrt_dense, first loops: each column goes to its cheapest row.        *)
ColumnReduction ==
  /\ phase = "reduce"
  /\ y' = [j \in Cols |-> FirstMin([i \in Cols |-> cost[i][j]], Cols)]
  /\ v' = [j \in Cols |-> Least([i \in Cols |-> cost[i][j]], Cols)]
  /\ phase' = "claim"
  /\ UNCHANGED <<nr, nc, cost, x, unique, free, current, kept, rr, pass,
                 path, col, turns>>

Wanting(i) == {j \in Cols : y[j] = i}
Highest(S) == IF S = {} THEN 0 ELSE CHOOSE j \in S : \A k \in S : k <= j

(* Its second loop: a row that several columns want keeps the last.        *)
Claim ==
  /\ phase = "claim"
  /\ x' = [i \in Cols |-> Highest(Wanting(i))]
  /\ y' = [j \in Cols |-> IF Highest(Wanting(y[j])) = j THEN y[j] ELSE 0]
  /\ unique' = {i \in Cols : \A j, k \in Wanting(i) : j = k}
  /\ phase' = "transfer"
  /\ UNCHANGED <<nr, nc, cost, v, free, current, kept, rr, pass, path, col, turns>>

(* Its third loop, one row: one that no column wants is free, and one that *)
(* only one wants lowers that column's price by what it would pay more     *)
(* elsewhere.                                                              *)
Transfer ==
  /\ phase = "transfer" /\ current < n
  /\ LET i == current + 1
         j == x[i]
     IN \/ j = 0 /\ free' = Append(free, i) /\ UNCHANGED v
        \/ /\ j # 0 /\ i \in unique
           /\ v' = [v EXCEPT ![j] = @ - Least(Reduced(i), Cols \ {j})]
           /\ UNCHANGED free
        \/ j # 0 /\ i \notin unique /\ UNCHANGED <<v, free>>
  /\ current' = current + 1
  /\ UNCHANGED <<nr, nc, cost, phase, x, y, unique, kept, rr, pass, path, col, turns>>

TransferEnds ==
  /\ phase = "transfer" /\ current = n
  /\ current' = 0
  /\ phase' = IF free = <<>> THEN "done" ELSE "rows"
  /\ UNCHANGED <<nr, nc, cost, x, y, v, unique, free, kept, rr, pass, path, col, turns>>

(* _carr_dense, one free row: it takes its cheapest column and lowers the  *)
(* price so that the next one is as good; the row thrown out is taken next *)
(* if the price fell, and later otherwise.  rr_cnt ends the exchange.      *)
(* Mutant: the row thrown out is not put back.                             *)
ThrownOutLost(i0, again) ==
  UNCHANGED <<free, kept>> /\ current' = current + 1
(* Mutant: it is taken next also if the price stayed.                      *)
ThrownOutAgain(i0, again) ==
  \/ i0 = 0 /\ UNCHANGED <<free, kept>> /\ current' = current + 1
  \/ /\ i0 # 0 /\ free' = [free EXCEPT ![current + 1] = i0]
     /\ UNCHANGED <<current, kept>>
ThrownOut(i0, again) ==
  \/ i0 = 0 /\ UNCHANGED <<free, kept>> /\ current' = current + 1
  \/ /\ i0 # 0 /\ again
     /\ free' = [free EXCEPT ![current + 1] = i0]
     /\ UNCHANGED <<current, kept>>
  \/ /\ i0 # 0 /\ ~again
     /\ free' = [free EXCEPT ![kept + 1] = i0]
     /\ kept' = kept + 1 /\ current' = current + 1

MayExchange(r) == r < (current + 1) * n

RowReduction ==
  /\ phase = "rows" /\ current < Len(free)
  /\ LET i      == free[current + 1]
         u      == Reduced(i)
         j1     == FirstMin(u, Cols)
         j2     == FirstMin(u, Cols \ {j1})
         lowers == u[j1] < u[j2]
         within == MayExchange(rr + 1)
         j      == IF within /\ ~lowers /\ y[j1] # 0 THEN j2 ELSE j1
     IN /\ v' = IF within /\ lowers THEN [v EXCEPT ![j1] = @ - (u[j2] - u[j1])]
                                    ELSE v
        /\ ThrownOut(y[j], within /\ lowers)
        /\ x' = [x EXCEPT ![i] = j] /\ y' = [y EXCEPT ![j] = i]
  /\ rr' = rr + 1
  /\ UNCHANGED <<nr, nc, cost, phase, unique, pass, path, col, turns>>

(* The end of a pass: the rows kept are those the next one has to place.   *)
PassEnds ==
  /\ phase = "rows" /\ current = Len(free)
  /\ free' = SubSeq(free, 1, kept)
  /\ current' = 0 /\ kept' = 0 /\ rr' = 0 /\ pass' = pass + 1
  /\ phase' = IF kept = 0 THEN "done" ELSE IF pass' < 2 THEN "rows" ELSE "start"
  /\ UNCHANGED <<nr, nc, cost, x, y, v, unique, path, col, turns>>

-----------------------------------------------------------------------------
(* find_path_dense from the next free row: distances to every column.      *)
StartPath ==
  /\ phase = "start" /\ current < Len(free)
  /\ path' = [NoPath EXCEPT !.d = Reduced(free[current + 1]),
                            !.pred = [j \in Cols |-> free[current + 1]]]
  /\ phase' = "find"
  /\ turns' = 0
  /\ UNCHANGED <<nr, nc, cost, x, y, v, unique, free, current, kept, rr, pass, col>>

AllPlaced ==
  /\ phase = "start" /\ current = Len(free)
  /\ phase' = "done"
  /\ UNCHANGED <<nr, nc, cost, x, y, v, unique, free, current, kept, rr, pass,
                 path, col, turns>>

(* Mutant: the prices of the columns on the way stay.                      *)
RepricedNot(p) == v
(* A free column is reached: the columns nearer than it become dearer by   *)
(* as much as they are nearer.                                             *)
Repriced(p) == [j \in Cols |-> IF j \in p.ready THEN v[j] + p.d[j] - p.min ELSE v[j]]

Reach(p, j) ==
  /\ path' = p /\ v' = Repriced(p) /\ col' = j /\ phase' = "flip"

(* _find_dense, and the look at its columns: the nearest not yet ready.    *)
FindNearest ==
  /\ phase = "find"
  /\ LET ready == path.ready \cup path.level
         todo  == Cols \ ready
         level == {j \in todo : path.d[j] = Least(path.d, todo)}
         p     == [path EXCEPT !.ready = ready, !.level = level, !.scan = level,
                               !.min = Least(path.d, todo)]
         open  == {j \in level : y[j] = 0}
     IN \/ \E j \in open : Reach(p, j)
        \/ open = {} /\ path' = p /\ phase' = "scan" /\ UNCHANGED <<v, col>>
  /\ UNCHANGED <<nr, nc, cost, x, y, unique, free, current, kept, rr, pass, turns>>

(* What a way through row i, whose column is j, saves on another column.   *)
Excess(i, j) == cost[i][j] - v[j] - path.min

(* Mutant: the column stays on SCAN.                                       *)
ScannedAgain(p, j, same) ==
  [p EXCEPT !.level = @ \cup same, !.scan = @ \cup same]
(* Columns found as near as the level join it.                             *)
Scanned(p, j, same) ==
  [p EXCEPT !.level = @ \cup same, !.scan = (@ \ {j}) \cup same]

(* _scan_dense, one column of SCAN: the others by way of its row.          *)
ScanColumn ==
  /\ phase = "scan"
  /\ \E j \in path.scan :
       LET i    == y[j]
           h    == Excess(i, j)
           todo == Cols \ (path.ready \cup path.level)
           near == {k \in todo : cost[i][k] - v[k] - h < path.d[k]}
           same == {k \in near : cost[i][k] - v[k] - h = path.min}
           p    == [path EXCEPT
                     !.d    = [k \in Cols |-> IF k \in near THEN cost[i][k] - v[k] - h
                                                            ELSE @[k]],
                     !.pred = [k \in Cols |-> IF k \in near THEN i ELSE @[k]]]
           q    == Scanned(p, j, same)
           open == {k \in same : y[k] = 0}
       IN \/ \E k \in open : Reach(p, k)
          \/ /\ open = {} /\ path' = q
             /\ phase' = IF q.scan = {} THEN "find" ELSE "scan"
             /\ UNCHANGED <<v, col>>
  /\ UNCHANGED <<nr, nc, cost, x, y, unique, free, current, kept, rr, pass, turns>>

(* Mutant: the swap with x[i] is left out.                                 *)
LeftNot(i) == col
(* The column that row i leaves for another.                               *)
Left(i) == x[i]

(* _ca_dense, one turn of its loop: the column goes to its predecessor,    *)
(* whose own column is the next.                                           *)
Flip ==
  /\ phase = "flip"
  /\ LET i == path.pred[col] IN
       /\ y' = [y EXCEPT ![col] = i] /\ x' = [x EXCEPT ![i] = col]
       /\ IF i = free[current + 1]
          THEN phase' = "start" /\ current' = current + 1 /\ col' = 0 /\ path' = NoPath
          ELSE col' = Left(i) /\ UNCHANGED <<phase, current, path>>
  /\ turns' = turns + 1
  /\ UNCHANGED <<nr, nc, cost, v, unique, free, kept, rr, pass>>

Done == phase = "done" /\ UNCHANGED vars

Step == \/ ColumnReduction \/ Claim \/ Transfer \/ TransferEnds
        \/ RowReduction \/ PassEnds \/ StartPath \/ AllPlaced
        \/ FindNearest \/ ScanColumn \/ Flip
Next == Step \/ Done

(* The steps are one function's: it goes on until it returns.              *)
Spec == Init /\ [][Next]_vars /\ WF_vars(Step)
-----------------------------------------------------------------------------
(* lapjv and linear_assignment: what the caller gets; 0 is unmatched.      *)
RowSol == [i \in 1..nr |-> IF x[i] > nc THEN 0 ELSE x[i]]
ColSol == [j \in 1..nc |-> IF y[j] > nr THEN 0 ELSE y[j]]
TypeOK ==
  /\ phase \in {"reduce", "claim", "transfer", "rows", "start", "find", "scan",
               "flip", "done"}
  /\ x \in [Cols -> 0..n] /\ y \in [Cols -> 0..n] /\ v \in [Cols -> Int]
  /\ unique \subseteq Cols
  /\ free \in Seq(Cols) /\ current \in 0..n /\ kept \in 0..current
  /\ phase # "transfer" => current <= Len(free)
  /\ rr \in Nat /\ pass \in 0..2
  /\ path.ready \subseteq Cols /\ path.level \subseteq Cols
  /\ path.scan \subseteq path.level
  /\ col \in 0..n /\ turns \in Nat

(* The rows that still have to be placed, of which the row reduction and   *)
(* the augmentation take one after the other.                              *)
Waiting == {free[k] : k \in (1..kept) \cup (current + 1..Len(free))}

(* No row is lost or placed twice: free_rows, which the row reduction      *)
(* overwrites at its front while it reads on, holds once each the rows     *)
(* without a column, also after rows were thrown out and put back.         *)
RowsAccounted ==
  /\ TypeOK
  /\ phase \in {"rows", "start", "find", "scan", "done"} =>
    /\ \A i \in Cols \ Waiting : x[i] # 0 /\ y[x[i]] = i
    /\ \A j \in Cols : y[j] # 0 => y[j] \notin Waiting /\ x[y[j]] = j
    /\ \A k, m \in (1..kept) \cup (current + 1..Len(free)) :
         free[k] = free[m] => k = m

(* Every row that has a column pays least for it at the current prices,    *)
(* whatever rows were thrown out and however paths repriced the columns:   *)
(* what makes the result optimal.                                          *)
PaysLeast ==
  phase \in {"rows", "start", "find", "scan", "done"} =>
    \A i \in Cols \ Waiting : \A j \in Cols :
      cost[i][x[i]] - v[x[i]] <= cost[i][j] - v[j]

(* What linear_assignment promises: matched pairs of distinct tracks and   *)
(* detections, none dearer than the limit, at the least cost of all ways   *)
(* to pair them when one left alone costs half the limit.                  *)
Pairings == {f \in [1..nr -> 0..nc] :
               \A i, k \in 1..nr : f[i] = f[k] /\ f[i] # 0 => i = k}
CostOf(f) ==
  LET pairs == {i \in 1..nr : f[i] # 0}
      sum[i \in 0..nr] ==
        IF i = 0 THEN 0 ELSE sum[i - 1] + IF f[i] = 0 THEN 0 ELSE cost[i][f[i]]
  IN sum[nr] + (Limit \div 2) * (nr + nc - 2 * Cardinality(pairs))
Optimal ==
  phase = "done" =>
    /\ RowSol \in Pairings
    /\ \A j \in 1..nc : ColSol[j] = 0 <=> ~ \E i \in 1..nr : RowSol[i] = j
    /\ \A i \in 1..nr :
         RowSol[i] # 0 => ColSol[RowSol[i]] = i /\ cost[i][RowSol[i]] <= Limit
    /\ \A f \in Pairings : CostOf(RowSol) <= CostOf(f)

(* The loop that walks back along a path ends before it has taken as many  *)
(* turns as there are columns, as _ca_dense asserts after each of them.    *)
(* For other matrices than Extended a path may need every column.          *)
WalkIsShort == turns < n

(* Columns whose rows a search has looked at.                              *)
Looked == (path.ready \cup path.level) \ path.scan

(* How far the solver has come: its stage, the rows it still has to take,  *)
(* the exchanges rr_cnt leaves it, or the part of an augmentation, and the *)
(* columns, or turns, left in that part.                                   *)
Remaining ==
  << CASE phase = "reduce"   -> 6
       [] phase = "claim"    -> 5
       [] phase = "transfer" -> 4
       [] phase = "rows"     -> 3 - pass
       [] phase = "done"     -> 0
       [] OTHER              -> 1,
     IF phase = "transfer" THEN n - current ELSE Len(free) - current,
     CASE phase = "rows"     -> IF rr < n * n THEN n * n - rr ELSE 0
       [] phase = "start"    -> 3
       [] phase \in {"find", "scan"} -> 2
       [] OTHER              -> 0,
     CASE phase = "find"     -> 2 * (n - Cardinality(Looked)) + 1
       [] phase = "scan"     -> 2 * (n - Cardinality(Looked))
       [] phase = "flip"     -> n - turns
       [] OTHER              -> 0 >>
Less(a, b) ==
  \E i \in 1..4 : /\ a[i] \in Nat /\ b[i] \in Nat /\ a[i] < b[i]
                 /\ \A k \in 1..(i - 1) : a[k] \in Nat /\ a[k] = b[k]

(* No step is idle, whatever rows throw each other out and however a path  *)
(* runs: what remains is less after each of them.                          *)
Advances == [][Step => Less(Remaining', Remaining)]_vars

(* It ends: rows cannot throw each other out for ever, and every path      *)
(* reaches a free column.                                                  *)
Ends == <>(phase = "done")
=============================================================================
