------------------------ MODULE MessageQueueBoundProofs ------------------------
(***************************************************************************)
(* How long the queues get: what check_queue_sizes drops is enough, for    *)
(* every threshold, and nothing but a push makes the queues longer.        *)
(***************************************************************************)
EXTENDS MessageQueueProofs, Iteration, FiniteSetTheorems

USE KindAssumption, MsgsAssumption, CallsAssumption, RetryAssumption, ConfigAssumption,
    BoundAssumption

\* The elements of S are in a row: A[m] says which are in front of m.
Orders(A, S) ==
    \A m \in S : /\ m \notin A[m]
                 /\ \A x \in S : /\ x = m \/ x \in A[m] \/ m \in A[x]
                                 /\ x \in A[m] => A[x] \cap S \subseteq A[m]

\* A deque in which A says what is in front of an element.
Deque(A, S) == Orders(A, S) /\ \A m \in S : A[m] \subseteq S

\* The position of m among the elements of S.
Position(A, S, m) == Cardinality(A[m] \cap S)

\* Part of a row is a row.
LEMMA OrdersPart == ASSUME NEW A, NEW S, NEW R \in SUBSET S, Orders(A, S) PROVE Orders(A, R)
  BY DEF Orders

\* Positions are numbers below the length of the row, one for each element.
LEMMA Positions ==
    ASSUME NEW A, NEW S, IsFiniteSet(S), Orders(A, S)
    PROVE  /\ Cardinality(S) \in Nat
           /\ \A m \in S : Position(A, S, m) \in Nat /\ Position(A, S, m) < Cardinality(S)
           /\ \A m, x \in S : x \in A[m] => Position(A, S, x) < Position(A, S, m)
           /\ \A m, x \in S : Position(A, S, x) = Position(A, S, m) => x = m
<1>1. Cardinality(S) \in Nat
  BY FS_CardinalityType
<1>2. ASSUME NEW m \in S
      PROVE  /\ IsFiniteSet(A[m] \cap S)
             /\ Position(A, S, m) \in Nat /\ Position(A, S, m) < Cardinality(S)
  <2>1. A[m] \cap S \in SUBSET S /\ A[m] \cap S # S
    BY DEF Orders
  <2>2. /\ IsFiniteSet(A[m] \cap S)
        /\ Cardinality(A[m] \cap S) <= Cardinality(S)
        /\ Cardinality(S) # Cardinality(A[m] \cap S)
    BY <2>1, FS_Subset
  <2>3. Cardinality(A[m] \cap S) \in Nat
    BY <2>2, FS_CardinalityType
  <2> QED
    BY <1>1, <2>2, <2>3 DEF Position
<1>3. ASSUME NEW m \in S, NEW x \in S, x \in A[m]
      PROVE  Position(A, S, x) < Position(A, S, m)
  <2>1. A[x] \cap S \in SUBSET (A[m] \cap S) /\ A[x] \cap S # A[m] \cap S
    BY <1>3 DEF Orders
  <2>2. /\ Cardinality(A[x] \cap S) <= Cardinality(A[m] \cap S)
        /\ Cardinality(A[m] \cap S) # Cardinality(A[x] \cap S)
    BY <1>2, <2>1, FS_Subset
  <2>3. Position(A, S, x) \in Nat /\ Position(A, S, m) \in Nat
    BY <1>2
  <2> QED
    BY <2>2, <2>3 DEF Position
<1>4. ASSUME NEW m \in S, NEW x \in S, Position(A, S, x) = Position(A, S, m) PROVE x = m
  <2>1. x = m \/ x \in A[m] \/ m \in A[x]
    BY DEF Orders
  <2>2. Position(A, S, x) \in Nat
    BY <1>2
  <2>3. ~(x \in A[m]) /\ ~(m \in A[x])
    BY <1>3, <1>4, <2>2
  <2> QED
    BY <2>1, <2>3
<1> QED
  BY <1>1, <1>2, <1>3, <1>4

\* At most as many elements are at position k or behind as positions are left.
LEMMA HighPositions ==
    ASSUME NEW A, NEW S, IsFiniteSet(S), Orders(A, S), NEW k \in Int, k <= Cardinality(S), 0 <= k
    PROVE  Cardinality({m \in S : Position(A, S, m) >= k}) <= Cardinality(S) - k
<1> DEFINE H == {m \in S : Position(A, S, m) >= k}
           R == k .. (Cardinality(S) - 1)
           f == [m \in H |-> Position(A, S, m)]
<1>1. Cardinality(S) \in Nat
  BY FS_CardinalityType
<1>2. f \in [H -> R]
  BY <1>1, Positions
<1>3. \A m, x \in H : f[x] = f[m] => x = m
  BY Positions
<1>4. f \in Injection(H, R)
  BY <1>2, <1>3 DEF Injection, IsInjective
<1>5. IsFiniteSet(R) /\ Cardinality(R) = Cardinality(S) - k
  <2>1. Cardinality(S) - 1 \in Int
    BY <1>1
  <2>2. Cardinality(R) = IF k > Cardinality(S) - 1 THEN 0 ELSE (Cardinality(S) - 1) - k + 1
    BY <2>1, FS_Interval
  <2>3. IsFiniteSet(R)
    BY <2>1, FS_Interval
  <2> QED
    BY <1>1, <2>2, <2>3
<1> HIDE DEF f, R, H
<1>6. Cardinality(H) <= Cardinality(R)
  BY <1>4, <1>5, FS_Injection
<1> QED
  BY <1>5, <1>6 DEF H

\* The first k elements are k elements, or all.
LEMMA LowPositions ==
    ASSUME NEW A, NEW S, IsFiniteSet(S), Orders(A, S), NEW k \in Nat
    PROVE  \/ {m \in S : Position(A, S, m) < k} = S
           \/ Cardinality({m \in S : Position(A, S, m) < k}) >= k
<1> DEFINE L == {m \in S : Position(A, S, m) < k}
           H == {m \in S : Position(A, S, m) >= k}
<1>1. Cardinality(S) \in Nat
  BY FS_CardinalityType
<1>2. CASE Cardinality(S) < k
  <2>1. L = S
    BY <1>1, <1>2, Positions
  <2> QED
    BY <2>1
<1>3. CASE k <= Cardinality(S)
  <2>1. Cardinality(H) <= Cardinality(S) - k
    BY <1>3, HighPositions
  <2>2. L = S \ H /\ S \cap H = H
    BY Positions
  <2>3. H \in SUBSET S
    OBVIOUS
  <2> HIDE DEF H, L
  <2>4. IsFiniteSet(H) /\ Cardinality(H) \in Nat
    BY <2>3, FS_Subset, FS_CardinalityType
  <2>5. Cardinality(L) = Cardinality(S) - Cardinality(H)
    BY <2>2, FS_Difference
  <2> QED
    BY <1>1, <2>1, <2>4, <2>5 DEF L
<1> QED
  BY <1>1, <1>2, <1>3

\* Whole batches that make up for e make up for e.
LEMMA Batches ==
    ASSUME NEW e \in Nat, NEW b \in Nat, b >= 1
    PROVE  b * ((e + b - 1) \div b) \in Nat /\ b * ((e + b - 1) \div b) >= e
<1> DEFINE a == e + b - 1
           q == a \div b
<1>1. a \in Nat
  OBVIOUS
<1> HIDE DEF a
<1>2. q \in Nat /\ a = b * q + (a % b) /\ a % b \in 0..(b - 1)
  BY <1>1, SMT
<1>3. b * q \in Nat
  BY <1>2
<1> HIDE DEF q
<1>4. b * q >= e
  <2>1. a % b <= b - 1 /\ a % b \in Nat
    BY <1>2
  <2> QED
    BY <1>1, <1>2, <1>3, <2>1 DEF a
<1> QED
  BY <1>3, <1>4 DEF q, a

\* Once normal messages were dropped the queues fit, or only BootNotifications
\* are left of them.
LEMMA NormalDrops ==
    ASSUME NEW T, NEW N, NEW A, IsFiniteSet(T), IsFiniteSet(N), Deque(A, N)
    PROVE  LET DN == drop_messages_from_normal_message_queue(T, N, A)
           IN  \/ Excess(T, N \ DN) <= 0
               \/ \A m \in N \ DN : is_boot_notification_message(m)
<1> DEFINE S == {m \in N : ~is_boot_notification_message(m)}
           batch == IF Threshold \div 10 > 1 THEN Threshold \div 10 ELSE 1
           quota == IF Excess(T, N) > 0
                    THEN batch * ((Excess(T, N) + batch - 1) \div batch) ELSE 0
           DN == drop_messages_from_normal_message_queue(T, N, A)
<1>1. DN = {m \in S : Position(A, S, m) < quota}
  <2>1. ASSUME NEW m \in S PROVE {x \in A[m] : ~is_boot_notification_message(x)} = A[m] \cap S
    BY DEF Deque
  <2> HIDE DEF batch
  <2>2. DN = {m \in N : /\ ~is_boot_notification_message(m)
                        /\ Cardinality({x \in A[m] : ~is_boot_notification_message(x)}) < quota}
    BY DEF drop_messages_from_normal_message_queue, batch
  <2> HIDE DEF quota, DN
  <2> QED
    BY <2>1, <2>2 DEF Position
<1>2. /\ Cardinality(T) \in Nat /\ Cardinality(N) \in Nat
      /\ IsFiniteSet(S) /\ Orders(A, S)
  <2>1. S \in SUBSET N
    OBVIOUS
  <2> QED
    BY <2>1, FS_CardinalityType, FS_Subset, OrdersPart DEF Deque
<1>3. Excess(T, N) \in Int
  BY <1>2 DEF Excess
<1>4. quota \in Nat /\ quota >= Excess(T, N)
  <2>1. batch \in Nat /\ batch >= 1
    OBVIOUS
  <2> HIDE DEF batch
  <2>2. CASE Excess(T, N) > 0
    BY <1>3, <2>1, <2>2, Batches
  <2> QED
    BY <1>3, <2>2
<1> HIDE DEF quota, DN
<1>5. CASE DN = S
  BY <1>5 DEF DN
<1>6. CASE Cardinality(DN) >= quota
  <2>1. N \cap DN = DN
    BY <1>1
  <2>2. Cardinality(N \ DN) = Cardinality(N) - Cardinality(DN)
    BY <2>1, FS_Difference
  <2>3. IsFiniteSet(DN) /\ Cardinality(DN) \in Nat
    BY <1>1, <1>2, FS_Subset, FS_CardinalityType
  <2>4. Excess(T, N \ DN) <= 0
    BY <1>2, <1>4, <1>6, <2>2, <2>3 DEF Excess
  <2> QED
    BY <2>4 DEF DN
<1> HIDE DEF S
<1> QED
  BY <1>1, <1>2, <1>4, <1>5, <1>6, LowPositions

\* Whether an update is at position i, and at least two elements behind it.
UpdateAt(S, A, i) ==
    /\ i < Cardinality(S) - 2
    /\ \E m \in S : Cardinality(A[m] \cap S) = i /\ is_transaction_update_message(m)

\* f tells the positions whose elements a pass over S drops.
Passes(f, S, A) ==
    f = [i \in 0..Cardinality(S) |->
            /\ i < Cardinality(S) - 2
            /\ \E m \in S : Cardinality(A[m] \cap S) = i /\ is_transaction_update_message(m)
            /\ i = 0 \/ ~f[i - 1]]

\* The recursion in DropPass is solved by any function that satisfies it.
LEMMA PassesChosen ==
    ASSUME NEW S, NEW A, \E g : Passes(g, S, A)
    PROVE  \E h : Passes(h, S, A) /\ DropPass(S, A) = {m \in S : h[Cardinality(A[m] \cap S)]}
<1> DEFINE h == CHOOSE g : Passes(g, S, A)
<1>1. Passes(h, S, A)
  BY Zenon
<1>2. DropPass(S, A) = {m \in S : h[Cardinality(A[m] \cap S)]}
  BY Zenon DEF DropPass, Passes
<1> QED
  BY <1>1, <1>2

\* There is such a function.
LEMMA PassesExist == ASSUME NEW S, NEW A, IsFiniteSet(S) PROVE \E g : Passes(g, S, A)
<1> DEFINE n == Cardinality(S)
           D == [i \in 1..n |-> [y \in BOOLEAN |-> UpdateAt(S, A, i) /\ ~y]]
<1>0. n \in Nat
  BY FS_CardinalityType
<1>1. \A i \in 1..n : \A y \in BOOLEAN : D[i][y] = (UpdateAt(S, A, i) /\ ~y)
  OBVIOUS
<1>2. \A i \in 1..n : \A y \in BOOLEAN : D[i][y] \in BOOLEAN
  BY <1>1
<1>3. UpdateAt(S, A, 0) \in BOOLEAN
  BY DEF UpdateAt
<1> HIDE DEF D, n
<1> DEFINE first == UpdateAt(S, A, 0)
           Truth == BOOLEAN
<1>4. first \in Truth /\ \A i \in 1..n : \A y \in Truth : D[i][y] \in Truth
  BY <1>2, <1>3
<1> HIDE DEF first, Truth
<1>5. \E g : Iterates(g, n, Truth, D, first)
  BY <1>0, <1>4, CanIterate
<1>6. PICK f : Iterates(f, n, BOOLEAN, D, UpdateAt(S, A, 0))
  BY <1>5 DEF first, Truth
<1>7. /\ f \in [0..n -> BOOLEAN] /\ f[0] = UpdateAt(S, A, 0)
      /\ \A i \in 1..n : f[i] = D[i][f[i - 1]]
  BY <1>6 DEF Iterates
<1>8. \A i \in 1..n : i - 1 \in 0..n /\ f[i] = (UpdateAt(S, A, i) /\ ~f[i - 1])
  <2>1. \A i \in 1..n : i - 1 \in 0..n
    BY <1>0
  <2> QED
    BY <1>1, <1>7, <2>1
<1>9. f = [i \in 0..n |-> UpdateAt(S, A, i) /\ (i = 0 \/ ~f[i - 1])]
  <2>1. ASSUME NEW i \in 0..n PROVE f[i] = (UpdateAt(S, A, i) /\ (i = 0 \/ ~f[i - 1]))
    <3>1. CASE i = 0
      BY <1>3, <1>7, <3>1
    <3>2. CASE i \in 1..n
      BY <1>8, <3>2
    <3> QED
      BY <1>0, <3>1, <3>2
  <2> QED
    BY <1>7, <2>1
<1>10. Passes(f, S, A)
  BY <1>9, Zenon DEF Passes, UpdateAt, n
<1> QED
  BY <1>10

\* A pass drops updates only, none of the last two elements, and something if
\* there is an update before them.
LEMMA PassDrops ==
    ASSUME NEW S, NEW A, IsFiniteSet(S), Orders(A, S)
    PROVE  /\ DropPass(S, A) \subseteq S
           /\ \A m \in DropPass(S, A) : /\ is_transaction_update_message(m)
                                        /\ Position(A, S, m) < Cardinality(S) - 2
           /\ DropPass(S, A) = {} =>
                \A m \in S : is_transaction_update_message(m) =>
                    Position(A, S, m) >= Cardinality(S) - 2
<1> DEFINE n == Cardinality(S)
<1>1. PICK h : Passes(h, S, A) /\ DropPass(S, A) = {m \in S : h[Cardinality(A[m] \cap S)]}
  BY PassesExist, PassesChosen
<1>2. h = [i \in 0..n |-> UpdateAt(S, A, i) /\ (i = 0 \/ ~h[i - 1])]
  BY <1>1, Zenon DEF Passes, UpdateAt
<1>3. ASSUME NEW i \in 0..n PROVE h[i] <=> UpdateAt(S, A, i) /\ (i = 0 \/ ~h[i - 1])
  <2>1. h[i] = (UpdateAt(S, A, i) /\ (i = 0 \/ ~h[i - 1]))
    BY <1>2, Zenon
  <2> QED
    BY <2>1, Zenon
<1>4. n \in Nat /\ \A m \in S : Position(A, S, m) \in 0..n
  BY Positions
<1>5. DropPass(S, A) = {m \in S : h[Position(A, S, m)]}
  BY <1>1, Zenon DEF Position
<1>6. ASSUME NEW m \in DropPass(S, A)
      PROVE  is_transaction_update_message(m) /\ Position(A, S, m) < n - 2
  <2>1. m \in S /\ UpdateAt(S, A, Position(A, S, m))
    BY <1>3, <1>4, <1>5
  <2>2. PICK x \in S : Position(A, S, x) = Position(A, S, m) /\ is_transaction_update_message(x)
    BY <2>1, Zenon DEF UpdateAt, Position
  <2>3. x = m
    BY <2>1, <2>2, Positions
  <2> QED
    BY <2>1, <2>2, <2>3 DEF UpdateAt
<1>7. ASSUME DropPass(S, A) = {}, NEW m \in S, is_transaction_update_message(m),
             Position(A, S, m) < n - 2
      PROVE  FALSE
  <2> DEFINE i == Position(A, S, m)
  <2>1. UpdateAt(S, A, i)
    BY <1>7 DEF UpdateAt, Position
  <2>2. i \in 0..n /\ ~h[i]
    BY <1>4, <1>5, <1>7
  <2>3. i # 0 /\ h[i - 1]
    BY <1>3, <2>1, <2>2
  <2>4. i - 1 \in 0..n
    BY <1>4, <2>2, <2>3
  <2>5. UpdateAt(S, A, i - 1)
    BY <1>3, <2>3, <2>4
  <2>6. PICK x \in S : Position(A, S, x) = i - 1
    BY <2>5, Zenon DEF UpdateAt, Position
  <2> QED
    BY <1>5, <1>7, <2>3, <2>6
<1> QED
  BY <1>1, <1>4, <1>6, <1>7

\* What one turn of the loop over the passes leaves of R.
Turn(R, N, A) == IF Excess(R, N) > 0 THEN R \ DropPass(R, A) ELSE R

\* f tells what the turns leave of T.
Turns(f, T, N, A) ==
    f = [i \in 0..Cardinality(T) |->
            IF i = 0 THEN T
            ELSE IF Excess(f[i - 1], N) > 0
                 THEN f[i - 1] \ DropPass(f[i - 1], A) ELSE f[i - 1]]

\* The updates the turns told by f drop.
TurnsDrop(f, T, A) ==
    {m \in T : /\ is_transaction_update_message(m)
               /\ \E x \in T : m \in A[x]
               /\ m \notin f[Cardinality(T)]}

\* What the loop drops, given what its turns leave.
LEMMA TurnsChosen ==
    ASSUME NEW T, NEW N, NEW A, \E g : Turns(g, T, N, A)
    PROVE  \E h : /\ Turns(h, T, N, A)
                  /\ drop_update_messages_from_transactional_message_queue(T, N, A)
                       = TurnsDrop(h, T, A)
<1> DEFINE h == CHOOSE g : Turns(g, T, N, A)
<1>1. Turns(h, T, N, A)
  BY Zenon
<1>2. drop_update_messages_from_transactional_message_queue(T, N, A) = TurnsDrop(h, T, A)
  BY Zenon DEF drop_update_messages_from_transactional_message_queue, Turns, TurnsDrop
<1> QED
  BY <1>1, <1>2

\* The turns can be made.
LEMMA TurnsExist ==
    ASSUME NEW T, NEW N, NEW A, IsFiniteSet(T) PROVE \E g : Turns(g, T, N, A)
<1> DEFINE n == Cardinality(T)
           S == SUBSET T
           D == [i \in 1..n |-> [R \in S |-> Turn(R, N, A)]]
<1>0. n \in Nat /\ T \in S
  BY FS_CardinalityType
<1>1. \A R \in S : Turn(R, N, A) \in S
  BY DEF Turn
<1> HIDE DEF n, S
<1>2. \A i \in 1..n : \A R \in S : D[i][R] = Turn(R, N, A)
  OBVIOUS
<1> HIDE DEF D
<1>3. PICK f : Iterates(f, n, S, D, T)
  BY <1>0, <1>1, <1>2, CanIterate, ZenonT(60)
<1>4. f \in [0..n -> S] /\ f[0] = T /\ \A i \in 1..n : f[i] = D[i][f[i - 1]]
  BY <1>3 DEF Iterates
<1>5. \A i \in 1..n : f[i] = Turn(f[i - 1], N, A)
  <2>1. \A i \in 1..n : i - 1 \in 0..n
    BY <1>0
  <2> QED
    BY <1>2, <1>4, <2>1
<1>6. f = [i \in 0..n |-> IF i = 0 THEN T ELSE Turn(f[i - 1], N, A)]
  BY <1>0, <1>4, <1>5
<1>7. Turns(f, T, N, A)
  BY <1>6, Zenon DEF Turns, Turn, n
<1> QED
  BY <1>7

\* After i turns: only updates with something behind them are gone, and the
\* queues fit, there is nothing more to drop, or i messages are gone.
AfterTurns(R, i, T, N, A) ==
    /\ R \subseteq T
    /\ \A m \in T \ R : is_transaction_update_message(m) /\ \E x \in T : m \in A[x]
    /\ Excess(R, N) <= 0 \/ DropPass(R, A) = {} \/ Cardinality(R) <= Cardinality(T) - i

\* The loop gets on with every turn.
LEMMA TurnGetsOn ==
    ASSUME NEW T, NEW N, NEW A, IsFiniteSet(T), IsFiniteSet(N), Orders(A, T),
           NEW i \in Nat, NEW R, AfterTurns(R, i, T, N, A)
    PROVE  AfterTurns(Turn(R, N, A), i + 1, T, N, A)
<1>1. R \in SUBSET T
  BY DEF AfterTurns
<1>2. /\ IsFiniteSet(R) /\ Orders(A, R)
      /\ Cardinality(R) \in Nat /\ Cardinality(T) \in Nat /\ Cardinality(N) \in Nat
  BY <1>1, FS_Subset, FS_CardinalityType, OrdersPart
<1>3. Excess(R, N) \in Int
  BY <1>2 DEF Excess
<1>4. CASE ~(Excess(R, N) > 0)
  BY <1>3, <1>4 DEF Turn, AfterTurns
<1>5. CASE Excess(R, N) > 0 /\ DropPass(R, A) = {}
  <2>1. Turn(R, N, A) = R
    BY <1>5 DEF Turn
  <2> QED
    BY <1>5, <2>1 DEF AfterTurns
<1>6. CASE Excess(R, N) > 0 /\ DropPass(R, A) # {}
  <2> DEFINE P == DropPass(R, A)
  <2>1. Turn(R, N, A) = R \ P
    BY <1>6 DEF Turn
  <2>2. P \subseteq R /\ \A m \in P : /\ is_transaction_update_message(m)
                                      /\ Position(A, R, m) < Cardinality(R) - 2
    BY <1>2, PassDrops
  <2> HIDE DEF P
  <2>3. ASSUME NEW m \in P PROVE \E x \in T : m \in A[x]
    <3>1. A[m] \cap R # R \ {m}
      <4>1. Cardinality(R \ {m}) = Cardinality(R) - 1
        BY <1>2, <2>2, FS_RemoveElement
      <4> QED
        BY <1>2, <2>2, <4>1 DEF Position
    <3>2. PICK x \in R : x # m /\ x \notin A[m]
      BY <1>2, <2>2, <3>1 DEF Orders
    <3>3. m \in A[x]
      BY <1>2, <2>2, <3>2 DEF Orders
    <3> QED
      BY <1>1, <3>3
  <2>4. Cardinality(R \ P) <= Cardinality(T) - (i + 1)
    <3>1. Cardinality(R) <= Cardinality(T) - i
      BY <1>3, <1>6 DEF AfterTurns
    <3>2. R \ P \in SUBSET R /\ R \ P # R
      BY <1>6, <2>2 DEF P
    <3>3. /\ Cardinality(R \ P) <= Cardinality(R) /\ Cardinality(R) # Cardinality(R \ P)
          /\ IsFiniteSet(R \ P)
      BY <1>2, <3>2, FS_Subset
    <3>4. Cardinality(R \ P) \in Nat
      BY <3>3, FS_CardinalityType
    <3> QED
      BY <1>2, <3>1, <3>3, <3>4
  <2>5. \A m \in T \ (R \ P) : is_transaction_update_message(m) /\ \E x \in T : m \in A[x]
    <3>1. \A m \in T \ R : is_transaction_update_message(m) /\ \E x \in T : m \in A[x]
      BY DEF AfterTurns
    <3> QED
      BY <2>2, <2>3, <3>1
  <2> QED
    BY <1>1, <2>1, <2>4, <2>5 DEF AfterTurns
<1> QED
  BY <1>4, <1>5, <1>6

\* Once updates were dropped the queues fit, or at most two updates are left.
LEMMA UpdateDrops ==
    ASSUME NEW T, NEW N, NEW A, IsFiniteSet(T), IsFiniteSet(N), Orders(A, T)
    PROVE  LET DT == drop_update_messages_from_transactional_message_queue(T, N, A)
           IN  \/ Excess(T \ DT, N) <= 0
               \/ Cardinality({m \in T \ DT : is_transaction_update_message(m)}) <= 2
<1>1. PICK h : /\ Turns(h, T, N, A)
               /\ drop_update_messages_from_transactional_message_queue(T, N, A)
                    = TurnsDrop(h, T, A)
  BY TurnsExist, TurnsChosen
<1> DEFINE n == Cardinality(T)
           DT == drop_update_messages_from_transactional_message_queue(T, N, A)
<1>0. n \in Nat
  BY FS_CardinalityType
<1>2. h = [i \in 0..n |-> IF i = 0 THEN T ELSE Turn(h[i - 1], N, A)]
  BY <1>1, Zenon DEF Turns, Turn
<1>3. h[0] = T /\ \A i \in 1..n : h[i] = Turn(h[i - 1], N, A)
  <2>1. ASSUME NEW i \in 0..n PROVE h[i] = IF i = 0 THEN T ELSE Turn(h[i - 1], N, A)
    BY <1>2, Zenon
  <2>2. 0 \in 0..n /\ \A i \in 1..n : i \in 0..n /\ i # 0
    BY <1>0
  <2> QED
    BY <2>1, <2>2
<1> HIDE DEF n, DT
<1> DEFINE Bad == {i \in 0..n : ~AfterTurns(h[i], i, T, N, A)}
<1>4. Bad = {}
  <2> SUFFICES ASSUME Bad # {} PROVE FALSE
    OBVIOUS
  <2>0. Bad \in SUBSET Nat
    BY <1>0
  <2> HIDE DEF Bad
  <2>1. PICK i \in Bad : \A j \in Bad : i <= j
    BY <2>0, Least
  <2> USE DEF Bad
  <2>2. i \in 0..n /\ ~AfterTurns(h[i], i, T, N, A)
    BY <2>1
  <2>3. AfterTurns(h[0], 0, T, N, A)
    BY <1>0, <1>3 DEF AfterTurns, n
  <2>4. i \in 1..n
    BY <1>0, <2>2, <2>3
  <2>5. i - 1 \in 0..n /\ i - 1 \in Nat /\ i - 1 \notin Bad
    BY <1>0, <2>1, <2>4
  <2>6. AfterTurns(h[i - 1], i - 1, T, N, A)
    BY <2>5
  <2>7. AfterTurns(Turn(h[i - 1], N, A), (i - 1) + 1, T, N, A)
    BY <2>5, <2>6, TurnGetsOn
  <2> QED
    BY <1>3, <2>2, <2>4, <2>7
<1>5. AfterTurns(h[n], n, T, N, A)
  BY <1>0, <1>4
<1> HIDE DEF Bad
<1> DEFINE R == h[n]
<1>6. T \ DT = R
  BY <1>1, <1>5 DEF AfterTurns, DT, n, TurnsDrop
<1>7. R \in SUBSET T
  BY <1>5 DEF AfterTurns
<1>8. IsFiniteSet(R) /\ Orders(A, R) /\ Cardinality(R) \in Nat
  BY <1>7, FS_Subset, FS_CardinalityType, OrdersPart
<1> DEFINE U == {m \in R : is_transaction_update_message(m)}
<1>9. \/ Excess(R, N) <= 0 \/ DropPass(R, A) = {} \/ Cardinality(R) <= 0
  BY <1>0, <1>5 DEF AfterTurns, n
<1> HIDE DEF R
<1>10. CASE Cardinality(R) <= 2
  <2>1. U \in SUBSET R
    OBVIOUS
  <2>2. Cardinality(U) <= Cardinality(R) /\ Cardinality(U) \in Nat
    BY <1>8, <2>1, FS_Subset, FS_CardinalityType
  <2>3. Cardinality(U) <= 2
    BY <1>8, <1>10, <2>2
  <2> QED
    BY <1>6, <2>3 DEF DT
<1>11. CASE DropPass(R, A) = {} /\ Cardinality(R) > 2
  <2> DEFINE k == Cardinality(R) - 2
             H == {m \in R : Position(A, R, m) >= k}
  <2>1. k \in Int /\ 0 <= k /\ k <= Cardinality(R) /\ Cardinality(R) - k = 2
    BY <1>8, <1>11
  <2>2. \A m \in R : is_transaction_update_message(m) => Position(A, R, m) >= k
    BY <1>8, <1>11, PassDrops
  <2> HIDE DEF k
  <2>3. Cardinality({m \in R : Position(A, R, m) >= k}) <= Cardinality(R) - k
    BY <1>8, <2>1, HighPositions
  <2>4. Cardinality(H) <= 2
    BY <2>1, <2>3
  <2>5. U \in SUBSET H /\ H \in SUBSET R
    BY <2>2
  <2> HIDE DEF U, H
  <2>6. IsFiniteSet(H) /\ Cardinality(H) \in Nat
    BY <1>8, <2>5, FS_Subset, FS_CardinalityType
  <2>7. Cardinality(U) <= Cardinality(H) /\ Cardinality(U) \in Nat
    BY <2>5, <2>6, FS_Subset, FS_CardinalityType
  <2>8. Cardinality(U) <= 2
    BY <2>4, <2>6, <2>7
  <2> QED
    BY <1>6, <2>8 DEF DT, U
<1>12. CASE Excess(R, N) <= 0
  BY <1>6, <1>12 DEF DT
<1> QED
  BY <1>8, <1>9, <1>10, <1>11, <1>12

----------------------------------------------------------------------------
\* An element that is pushed to the front of a deque.
LEMMA PushFrontDeque ==
    ASSUME NEW A \in [Msgs -> SUBSET Msgs], NEW S \in SUBSET Msgs, NEW m \in Msgs,
           m \notin S, Deque(A, S)
    PROVE  Deque(PushFront(A, m, S), S \cup {m})
<1> DEFINE B == PushFront(A, m, S)
<1>1. B[m] = {} /\ \A x \in S : B[x] = A[x] \cup {m}
  BY DEF PushFront
<1> HIDE DEF B
<1>2. Deque(B, S \cup {m})
  BY <1>1 DEF Deque, Orders
<1> QED
  BY <1>2 DEF B

\* As PushFrontDeque, for the back.
LEMMA PushBackDeque ==
    ASSUME NEW A \in [Msgs -> SUBSET Msgs], NEW S \in SUBSET Msgs, NEW m \in Msgs,
           m \notin S, Deque(A, S)
    PROVE  Deque(PushBack(A, m, S), S \cup {m})
<1> DEFINE B == PushBack(A, m, S)
<1>0. \A x \in S : A[x] \ {m} = A[x]
  BY DEF Deque
<1>1. B[m] = S /\ \A x \in S : B[x] = A[x]
  BY <1>0 DEF PushBack
<1> HIDE DEF B
<1>2. Deque(B, S \cup {m})
  BY <1>1 DEF Deque, Orders
<1> QED
  BY <1>2 DEF B

\* The other deque is left alone.
LEMMA PushOtherDeque ==
    ASSUME NEW A \in [Msgs -> SUBSET Msgs], NEW S \in SUBSET Msgs, NEW m \in Msgs,
           m \notin S, NEW Q, S \cap Q = {}, Deque(A, S)
    PROVE  Deque(PushFront(A, m, Q), S) /\ Deque(PushBack(A, m, Q), S)
<1> DEFINE F == PushFront(A, m, Q)
           B == PushBack(A, m, Q)
<1>1. \A x \in S : F[x] = A[x]
  BY DEF PushFront
<1>2. \A x \in S : B[x] = A[x]
  <2>1. \A x \in S : A[x] \ {m} = A[x]
    BY DEF Deque
  <2> QED
    BY <2>1 DEF PushBack
<1> HIDE DEF F, B
<1>3. Deque(F, S) /\ Deque(B, S)
  BY <1>1, <1>2 DEF Deque, Orders
<1> QED
  BY <1>3 DEF F, B

\* What is left of a deque is a deque.
LEMMA EraseDeque ==
    ASSUME NEW A \in [Msgs -> SUBSET Msgs], NEW S \in SUBSET Msgs, NEW X, Deque(A, S)
    PROVE  Deque(Erase(A, X), S \ X)
<1> DEFINE B == Erase(A, X)
<1>1. \A x \in S \ X : B[x] = A[x] \ X
  BY DEF Erase
<1> HIDE DEF B
<1>2. Deque(B, S \ X)
  BY <1>1 DEF Deque, Orders
<1> QED
  BY <1>2 DEF B

\* The messages in the deques, in flight and in the tables.
Held == Live \cup dbTransaction \cup dbNormal

\* The deques are in a row, and so are the messages in order of their
\* acceptance: a restart makes deques of the latter.
RowInv ==
    /\ Deque(ahead, transaction_message_queue)
    /\ Deque(ahead, normal_message_queue)
    /\ Orders(older, Held)

\* The deques once m is pushed, before anything is dropped.
PushedT(m) == IF is_transaction_message(m) THEN transaction_message_queue \cup {m}
              ELSE transaction_message_queue
PushedN(m) == IF is_transaction_message(m) THEN normal_message_queue
              ELSE normal_message_queue \cup {m}
PushedA(m) == IF is_boot_notification_message(m)
              THEN PushFront(ahead, m, normal_message_queue)
              ELSE PushBack(ahead, m, IF is_transaction_message(m)
                                      THEN transaction_message_queue
                                      ELSE normal_message_queue)

\* What is dropped then.
DroppedN(m) == drop_messages_from_normal_message_queue(PushedT(m), PushedN(m), PushedA(m))
DroppedT(m) ==
    drop_update_messages_from_transactional_message_queue(
        PushedT(m), PushedN(m) \ DroppedN(m), PushedA(m))

\* They are deques.
LEMMA PushedDeques ==
    ASSUME TypeInv, PendingIsHeldOnce, RowInv, NEW m \in Msgs, promise[m] # "pending"
    PROVE  /\ PushedT(m) \in SUBSET Msgs /\ PushedN(m) \in SUBSET Msgs
           /\ PushedA(m) \in [Msgs -> SUBSET Msgs]
           /\ Deque(PushedA(m), PushedT(m)) /\ Deque(PushedA(m), PushedN(m))
<1> USE DEF TypeInv, TypeOK, TypeOfMessages
<1>1. m \notin transaction_message_queue /\ m \notin normal_message_queue
  BY DEF PendingIsHeldOnce, Live
<1>2. transaction_message_queue \cap normal_message_queue = {}
  OBVIOUS
<1>3. PushedT(m) \in SUBSET Msgs /\ PushedN(m) \in SUBSET Msgs
  BY DEF PushedT, PushedN
<1>4. PushedA(m) \in [Msgs -> SUBSET Msgs]
  BY PushFrontType, PushBackType DEF PushedA
<1>5. CASE is_transaction_message(m)
  <2>1. ~is_boot_notification_message(m)
    BY <1>5 DEF is_transaction_message, is_boot_notification_message, TransactionKinds
  <2>2. PushedA(m) = PushBack(ahead, m, transaction_message_queue)
    BY <1>5, <2>1 DEF PushedA
  <2> QED
    BY <1>1, <1>2, <1>3, <1>4, <1>5, <2>2, PushBackDeque, PushOtherDeque
    DEF RowInv, PushedT, PushedN
<1>6. CASE ~is_transaction_message(m)
  <2>1. \/ PushedA(m) = PushFront(ahead, m, normal_message_queue)
        \/ PushedA(m) = PushBack(ahead, m, normal_message_queue)
    BY <1>6 DEF PushedA
  <2> QED
    BY <1>1, <1>2, <1>3, <1>4, <1>6, <2>1, PushFrontDeque, PushBackDeque, PushOtherDeque
    DEF RowInv, PushedT, PushedN
<1> QED
  BY <1>5, <1>6

\* A push in these terms.
LEMMA PushedParts ==
    ASSUME PushStep
    PROVE  \E m \in Msgs :
              /\ promise[m] # "pending"
              /\ transaction_message_queue' = PushedT(m) \ DroppedT(m)
              /\ normal_message_queue' = PushedN(m) \ DroppedN(m)
              /\ ahead' = Erase(PushedA(m), DroppedT(m) \cup DroppedN(m))
              /\ older' = [x \in Msgs |-> IF x = m THEN Held \ {m} ELSE older[x] \ {m}]
              /\ dbTransaction' \subseteq dbTransaction \cup {m}
              /\ dbNormal' \subseteq dbNormal \cup {m}
              /\ UNCHANGED in_flight
<1>1. PICK m \in Msgs, fields \in ControlMessage :
        promise[m] # "pending" /\ Enqueue(m, fields) /\ UNCHANGED <<in_flight, modeVars>>
  BY DEF PushStep
<1>2. /\ transaction_message_queue' = PushedT(m) \ DroppedT(m)
      /\ normal_message_queue' = PushedN(m) \ DroppedN(m)
      /\ ahead' = Erase(PushedA(m), DroppedT(m) \cup DroppedN(m))
  BY <1>1, Zenon DEF Enqueue, PushedT, PushedN, PushedA, DroppedT, DroppedN
<1>3. older' = [x \in Msgs |-> IF x = m THEN Held \ {m} ELSE older[x] \ {m}]
  <2>1. Held \ {m} = (transaction_message_queue \cup normal_message_queue
                      \cup dbTransaction \cup dbNormal \cup ({in_flight} \ {None})) \ {m}
    BY DEF Held, Live
  <2> HIDE DEF Held
  <2> QED
    BY <1>1, <2>1 DEF Enqueue
<1>4. dbTransaction' \subseteq dbTransaction \cup {m} /\ dbNormal' \subseteq dbNormal \cup {m}
  BY <1>1, DbEffectsSubset DEF Enqueue
<1> QED
  BY <1>1, <1>2, <1>3, <1>4

\* Every step keeps the deques and the order of acceptance in a row.
LEMMA RowNext ==
    ASSUME TypeInv, PendingIsHeldOnce, RowInv, [Next]_vars
    PROVE  RowInv'
<1> USE DEF TypeInv, TypeOK, TypeOfMessages, TypeOfDelivery
<1>0. ASSUME UNCHANGED older, Held' \subseteq Held PROVE Orders(older, Held)'
  BY <1>0, OrdersPart DEF RowInv
<1>1. CASE UNCHANGED coreVars
  BY <1>1 DEF coreVars, dequeVars, dbVars, RowInv, Held, Live
<1>2. CASE PushStep
  <2>1. PICK m \in Msgs :
          /\ promise[m] # "pending"
          /\ transaction_message_queue' = PushedT(m) \ DroppedT(m)
          /\ normal_message_queue' = PushedN(m) \ DroppedN(m)
          /\ ahead' = Erase(PushedA(m), DroppedT(m) \cup DroppedN(m))
          /\ older' = [x \in Msgs |-> IF x = m THEN Held \ {m} ELSE older[x] \ {m}]
          /\ dbTransaction' \subseteq dbTransaction \cup {m}
          /\ dbNormal' \subseteq dbNormal \cup {m}
          /\ UNCHANGED in_flight
    BY <1>2, PushedParts
  <2>2. /\ PushedT(m) \in SUBSET Msgs /\ PushedN(m) \in SUBSET Msgs
        /\ PushedA(m) \in [Msgs -> SUBSET Msgs]
        /\ Deque(PushedA(m), PushedT(m)) /\ Deque(PushedA(m), PushedN(m))
    BY <2>1, PushedDeques
  <2> DEFINE X == DroppedT(m) \cup DroppedN(m)
  <2>3. DroppedT(m) \subseteq PushedT(m) /\ DroppedN(m) \subseteq PushedN(m)
    BY DropsAreQueued DEF DroppedT, DroppedN
  <2>4. PushedT(m) \cap PushedN(m) = {}
    BY DEF PushedT, PushedN
  <2>5. PushedT(m) \ X = PushedT(m) \ DroppedT(m) /\ PushedN(m) \ X = PushedN(m) \ DroppedN(m)
    BY <2>3, <2>4
  <2>6. Deque(ahead', transaction_message_queue') /\ Deque(ahead', normal_message_queue')
    BY <2>1, <2>2, <2>5, EraseDeque
  <2>7. Held' \subseteq Held \cup {m}
    BY <2>1 DEF Held, Live, PushedT, PushedN
  <2>8. Held \in SUBSET Msgs /\ Orders(older, Held)
    BY DEF Held, Live, RowInv
  <2> HIDE DEF Held
  <2>9. older'[m] = Held \ {m} /\ \A x \in Held \ {m} : older'[x] = older[x] \ {m}
    BY <2>1, <2>8
  <2>10. Orders(older', Held \cup {m})
    BY <2>8, <2>9 DEF Orders
  <2>11. Orders(older', Held')
    BY <2>7, <2>10, OrdersPart
  <2> QED
    BY <2>6, <2>11 DEF RowInv
<1>3. CASE RefuseStep
  BY <1>3 DEF RefuseStep, dequeVars, dbVars, RowInv, Held, Live
<1>4. ASSUME NEW m \in Msgs, WorkerSelect(m) PROVE RowInv'
  <2>1. /\ ahead' = Erase(ahead, {m})
        /\ transaction_message_queue' = transaction_message_queue \ {m}
        /\ normal_message_queue' = normal_message_queue \ {m}
        /\ UNCHANGED <<older, dbTransaction, dbNormal>> /\ in_flight' = m
    BY <1>4 DEF WorkerSelect, Pop, dbVars
  <2>2. m \in transaction_message_queue \cup normal_message_queue
    BY <1>4 DEF WorkerSelect, Selected, TransactionSelected, FirstAllowedNormal
  <2>3. Deque(ahead', transaction_message_queue') /\ Deque(ahead', normal_message_queue')
    BY <2>1, EraseDeque DEF RowInv
  <2>4. Held' \subseteq Held
    BY <2>1, <2>2 DEF Held, Live
  <2> QED
    BY <1>0, <2>1, <2>3, <2>4 DEF RowInv
<1>5. CASE FailStep
  <2>1. PICK answer \in {"error", "offline"} : handle_timeout_or_callerror(answer)
    BY <1>5 DEF FailStep
  <2>2. in_flight \in Msgs /\ in_flight' = None /\ UNCHANGED older
    BY <1>5, <2>1 DEF FailStep, handle_timeout_or_callerror
  <2>3. CASE SendAgain(in_flight)
    <3> DEFINE tx == is_transaction_message(in_flight)
               F  == PushFront(ahead, in_flight, IF tx THEN transaction_message_queue
                                                 ELSE normal_message_queue)
    <3>1. /\ in_flight \notin transaction_message_queue
          /\ in_flight \notin normal_message_queue
          /\ transaction_message_queue \cap normal_message_queue = {}
      BY <2>2 DEF PendingIsHeldOnce
    <3>2. /\ transaction_message_queue' = transaction_message_queue \cup IF tx THEN {in_flight} ELSE {}
          /\ normal_message_queue' = normal_message_queue \cup IF tx THEN {} ELSE {in_flight}
          /\ ahead' = F
          /\ UNCHANGED <<dbTransaction, dbNormal>>
      BY <2>3 DEF SendAgain, queue_type, dbVars
    <3>3. Deque(ahead', transaction_message_queue') /\ Deque(ahead', normal_message_queue')
      <4>1. CASE tx
        BY <2>2, <3>1, <3>2, <4>1, PushFrontDeque, PushOtherDeque DEF RowInv
      <4>2. CASE ~tx
        BY <2>2, <3>1, <3>2, <4>2, PushFrontDeque, PushOtherDeque DEF RowInv
      <4> QED
        BY <4>1, <4>2
    <3>4. Held' \subseteq Held
      BY <2>2, <3>2 DEF Held, Live
    <3> QED
      BY <1>0, <2>2, <3>3, <3>4 DEF RowInv
  <2>4. CASE GiveUp(in_flight, answer)
    <3>1. Held' \subseteq Held /\ UNCHANGED dequeVars
      BY <2>2, <2>4 DEF GiveUp, RemoveRow, dequeVars, Held, Live
    <3> QED
      BY <1>0, <2>2, <3>1 DEF RowInv, dequeVars
  <2> QED
    BY <2>1, <2>3, <2>4 DEF handle_timeout_or_callerror
<1>6. ASSUME NEW id \in sent, ReceiveCallResult(id) PROVE RowInv'
  <2>1. Held' \subseteq Held /\ UNCHANGED <<dequeVars, older>>
    BY <1>6 DEF ReceiveCallResult, RemoveRow, dequeVars, Held, Live
  <2> QED
    BY <1>0, <2>1 DEF RowInv, dequeVars
<1>7. ASSUME NEW queue_all \in QueueAllModes, NEW kind \in RestartKinds,
             Restart(queue_all, kind)
      PROVE  RowInv'
  <2>1. PICK rowsT \in SUBSET dbTransaction, rowsN \in SUBSET dbNormal, ignore \in BOOLEAN :
          get_persisted_messages_from_db(rowsT, rowsN, ignore)
    BY <1>7 DEF Restart, QueryResults
  <2> DEFINE Q == transaction_message_queue'
             P == normal_message_queue'
  <2>2. Q \in SUBSET dbTransaction /\ P \in SUBSET dbNormal
    BY <2>1 DEF get_persisted_messages_from_db
  <2>3. /\ \A m \in Q : ahead'[m] = Q \cap older[m]
        /\ \A m \in P : ahead'[m] = P \cap older[m]
    BY <2>1 DEF get_persisted_messages_from_db, RowsBefore
  <2>4. Q \in SUBSET Held /\ P \in SUBSET Held
    BY <2>2 DEF Held
  <2>5. Orders(older, Q) /\ Orders(older, P)
    BY <2>4, OrdersPart DEF RowInv
  <2>6. Deque(ahead', Q)
    BY <2>3, <2>5 DEF Deque, Orders
  <2>7. Deque(ahead', P)
    BY <2>3, <2>5 DEF Deque, Orders
  <2>8. Held' \subseteq Held /\ UNCHANGED older
    BY <1>7, <2>1, <2>2 DEF Restart, get_persisted_messages_from_db, Held, Live
  <2> QED
    BY <1>0, <2>6, <2>7, <2>8 DEF RowInv
<1> QED
  BY <1>1, <1>2, <1>3, <1>4, <1>5, <1>6, <1>7, CoreSteps

----------------------------------------------------------------------------
\* The messages of L that check_queue_sizes may not drop.
ProtectedOf(L) ==
    {m \in L : is_boot_notification_message(m)
               \/ (is_transaction_message(m) /\ ~is_transaction_update_message(m))}

\* What QueueBound says, of any set of messages.
Within(L) ==
    LET limit == IF Cardinality(ProtectedOf(L)) + 2 > Threshold
                 THEN Cardinality(ProtectedOf(L)) + 2 ELSE Threshold
    IN  Cardinality(L) <= limit + 1

\* The protected messages and the others make up the set.
LEMMA ProtectedSplit ==
    ASSUME NEW L \in SUBSET Msgs
    PROVE  /\ IsFiniteSet(L) /\ IsFiniteSet(ProtectedOf(L)) /\ IsFiniteSet(L \ ProtectedOf(L))
           /\ Cardinality(L) \in Nat /\ Cardinality(ProtectedOf(L)) \in Nat
           /\ Cardinality(L \ ProtectedOf(L)) \in Nat
           /\ Cardinality(L) = Cardinality(ProtectedOf(L)) + Cardinality(L \ ProtectedOf(L))
<1> DEFINE P == ProtectedOf(L)
<1>1. IsFiniteSet(L)
  BY FS_Subset
<1>2. P \in SUBSET L /\ L \cap P = P
  BY DEF ProtectedOf
<1> HIDE DEF P
<1>3. IsFiniteSet(P)
  BY <1>1, <1>2, FS_Subset
<1>4. IsFiniteSet(L \ P) /\ Cardinality(L \ P) = Cardinality(L) - Cardinality(P)
  BY <1>1, <1>2, FS_Difference
<1>5. Cardinality(L) \in Nat /\ Cardinality(P) \in Nat /\ Cardinality(L \ P) \in Nat
  BY <1>1, <1>3, <1>4, FS_CardinalityType
<1> QED
  BY <1>1, <1>3, <1>4, <1>5 DEF P

\* A set within the bound stays so when messages leave, protected ones too.
LEMMA WithinPart ==
    ASSUME NEW L \in SUBSET Msgs, NEW R \in SUBSET L, Within(L)
    PROVE  Within(R)
<1>1. ProtectedOf(R) \in SUBSET ProtectedOf(L)
      /\ R \ ProtectedOf(R) \in SUBSET (L \ ProtectedOf(L))
  BY DEF ProtectedOf
<1>2. /\ Cardinality(L) \in Nat /\ Cardinality(ProtectedOf(L)) \in Nat
      /\ Cardinality(L \ ProtectedOf(L)) \in Nat
      /\ Cardinality(L) = Cardinality(ProtectedOf(L)) + Cardinality(L \ ProtectedOf(L))
  BY ProtectedSplit
<1>3. R \in SUBSET Msgs
  OBVIOUS
<1>4. /\ Cardinality(R) \in Nat /\ Cardinality(ProtectedOf(R)) \in Nat
      /\ Cardinality(R \ ProtectedOf(R)) \in Nat
      /\ Cardinality(R) = Cardinality(ProtectedOf(R)) + Cardinality(R \ ProtectedOf(R))
  BY <1>3, ProtectedSplit
<1>5. /\ Cardinality(ProtectedOf(R)) <= Cardinality(ProtectedOf(L))
      /\ Cardinality(R \ ProtectedOf(R)) <= Cardinality(L \ ProtectedOf(L))
  BY <1>1, ProtectedSplit, FS_Subset
<1> QED
  BY <1>2, <1>4, <1>5 DEF Within

\* Deques that fit, or hold no more than two messages that may be dropped,
\* are within the bound together with the message in flight.
LEMMA WithinInFlight ==
    ASSUME NEW Q \in SUBSET Msgs, NEW x,
           Cardinality(Q) <= Threshold \/ Cardinality(Q \ ProtectedOf(Q)) <= 2,
           NEW L \in SUBSET Msgs, Q \subseteq L, L \subseteq Q \cup {x}
    PROVE  Within(L)
<1>1. /\ IsFiniteSet(Q)
      /\ Cardinality(Q) \in Nat /\ Cardinality(ProtectedOf(Q)) \in Nat
      /\ Cardinality(Q \ ProtectedOf(Q)) \in Nat
      /\ Cardinality(Q) = Cardinality(ProtectedOf(Q)) + Cardinality(Q \ ProtectedOf(Q))
  BY ProtectedSplit
<1>2. /\ IsFiniteSet(L) /\ IsFiniteSet(ProtectedOf(L))
      /\ Cardinality(L) \in Nat /\ Cardinality(ProtectedOf(L)) \in Nat
  BY ProtectedSplit
<1>3. Cardinality(L) <= Cardinality(Q) + 1
  <2>1. /\ IsFiniteSet(Q \cup {x})
        /\ Cardinality(Q \cup {x}) = IF x \in Q THEN Cardinality(Q) ELSE Cardinality(Q) + 1
    BY <1>1, FS_AddElement
  <2>2. L \in SUBSET (Q \cup {x})
    OBVIOUS
  <2>3. Cardinality(L) <= Cardinality(Q \cup {x})
    BY <2>1, <2>2, FS_Subset
  <2> QED
    BY <1>1, <1>2, <2>1, <2>3
<1>4. Cardinality(ProtectedOf(Q)) <= Cardinality(ProtectedOf(L))
  <2>1. ProtectedOf(Q) \in SUBSET ProtectedOf(L)
    BY DEF ProtectedOf
  <2> QED
    BY <1>2, <2>1, FS_Subset
<1> QED
  BY <1>1, <1>2, <1>3, <1>4 DEF Within

\* check_queue_sizes cuts the queues down to the bound.
LEMMA PushWithin ==
    ASSUME TypeInv, PendingIsHeldOnce, RowInv, PushStep
    PROVE  Within(Live')
<1> USE DEF TypeInv, TypeOK, TypeOfMessages, TypeOfDelivery
<1>1. PICK m \in Msgs :
        /\ promise[m] # "pending"
        /\ transaction_message_queue' = PushedT(m) \ DroppedT(m)
        /\ normal_message_queue' = PushedN(m) \ DroppedN(m)
        /\ UNCHANGED in_flight
  BY PushedParts
<1> DEFINE T == PushedT(m)
           N == PushedN(m)
           A == PushedA(m)
           T2 == T \ DroppedT(m)
           N2 == N \ DroppedN(m)
           Q == T2 \cup N2
<1>2. T \in SUBSET Msgs /\ N \in SUBSET Msgs /\ Deque(A, T) /\ Deque(A, N)
  BY <1>1, PushedDeques
<1>3. (\A x \in T : is_transaction_message(x)) /\ \A x \in N : ~is_transaction_message(x)
  BY DEF PushedT, PushedN
<1>4. IsFiniteSet(T) /\ IsFiniteSet(N)
  BY <1>2, FS_Subset
<1>5. T2 \in SUBSET T /\ N2 \in SUBSET N
  OBVIOUS
<1>6. \/ Excess(T, N2) <= 0
      \/ \A x \in N2 : is_boot_notification_message(x)
  BY <1>2, <1>4, NormalDrops DEF DroppedN
<1>7. \/ Excess(T2, N2) <= 0
      \/ Cardinality({x \in T2 : is_transaction_update_message(x)}) <= 2
  BY <1>2, <1>4, <1>5, FS_Subset, UpdateDrops DEF DroppedT, Deque
<1> HIDE DEF T, N, A, T2, N2
<1>8. /\ IsFiniteSet(T2) /\ IsFiniteSet(N2)
      /\ Cardinality(T) \in Nat /\ Cardinality(T2) \in Nat /\ Cardinality(N2) \in Nat
      /\ Cardinality(T2) <= Cardinality(T)
  BY <1>4, <1>5, FS_Subset, FS_CardinalityType
<1>9. ASSUME Excess(T2, N2) <= 0 PROVE Cardinality(Q) <= Threshold
  <2>1. /\ IsFiniteSet(T2 \cap N2)
        /\ Cardinality(Q) = Cardinality(T2) + Cardinality(N2) - Cardinality(T2 \cap N2)
    BY <1>8, FS_Union, FS_Intersection
  <2>2. Cardinality(T2 \cap N2) \in Nat
    BY <2>1, FS_CardinalityType
  <2> QED
    BY <1>8, <1>9, <2>1, <2>2 DEF Excess
<1>10. ASSUME ~(Excess(T2, N2) <= 0) PROVE Cardinality(Q \ ProtectedOf(Q)) <= 2
  <2> DEFINE U == {x \in T2 : is_transaction_update_message(x)}
  <2>1. Cardinality(U) <= 2
    BY <1>7, <1>10
  <2>2. ~(Excess(T, N2) <= 0)
    BY <1>8, <1>10 DEF Excess
  <2>3. Q \ ProtectedOf(Q) \in SUBSET U /\ U \in SUBSET T2
    BY <1>3, <1>5, <1>6, <2>2 DEF ProtectedOf
  <2> HIDE DEF U
  <2>4. IsFiniteSet(U) /\ Cardinality(U) \in Nat
    BY <1>8, <2>3, FS_Subset, FS_CardinalityType
  <2>5. /\ Cardinality(Q \ ProtectedOf(Q)) <= Cardinality(U)
        /\ Cardinality(Q \ ProtectedOf(Q)) \in Nat
    BY <2>3, <2>4, FS_Subset, FS_CardinalityType
  <2> QED
    BY <2>1, <2>4, <2>5
<1>11. Q \in SUBSET Msgs
  BY <1>2, <1>5
<1>12. Live' = Q \cup ({in_flight} \ {None})
  BY <1>1 DEF Live, T2, N2, T, N
<1>13. Live' \in SUBSET Msgs /\ Q \subseteq Live' /\ Live' \subseteq Q \cup {in_flight}
  BY <1>11, <1>12
<1> HIDE DEF Q
<1> QED
  BY <1>9, <1>10, <1>11, <1>13, WithinInFlight

\* Restarts are counted, and nothing else changes their number.
LEMMA RestartsFrame ==
    ASSUME [Next]_vars
    PROVE  /\ UNCHANGED dbMayFail
           /\ \/ UNCHANGED restarts
              \/ \E queue_all \in QueueAllModes, kind \in RestartKinds : Restart(queue_all, kind)
<1> USE DEF setupVars, modeVars
<1>1. CASE Dispatch
  BY <1>1
  DEF Dispatch, DispatchRefused, DispatchQueued, DispatchChecked, EnqueueChecked,
      DispatchAnotherHeartbeat
<1>2. CASE Worker
  BY <1>2
  DEF Worker, WorkerExit, WorkerSleep, WorkerStartAction, WorkerEndAction, WorkerSelect,
      WorkerSend, WorkerSendFails, WorkerHoldsBack, WorkerFindsNothing, WorkerContinues
<1>3. CASE Receive
  BY <1>3
  DEF Receive, ReceiveCallResult, ReceiveCallError, ReceiveMismatch, ReceiveCall,
      AnswerCall, IgnoreCall, HandleBootNotificationResponse,
      set_registration_status_accepted, HandleBootAccepted,
      HandleStartTransactionResponse
<1>4. CASE Connection
  BY <1>4 DEF Connection, Connect, Disconnect, run_when_idle
<1>5. CASE Timers
  BY <1>5
  DEF Timers, Tick, InFlightTimeoutExpires, InFlightTimeoutCallback,
      NotifyQueueTimerExpires, NotifyQueueCallback, ResumeTimerExpires, resume_now
<1>6. CASE Lifecycle
  BY <1>6
  DEF Lifecycle, update_transaction_message_attempts,
      update_transaction_message_retry_interval, Stop, StopTimers, Restart
<1>7. CASE UNCHANGED vars
  BY <1>7 DEF vars
<1> QED
  BY <1>1, <1>2, <1>3, <1>4, <1>5, <1>6, <1>7 DEF Next

\* No step but a push adds to what is held, unless a restart meets rows that
\* could not be removed.
LEMMA LiveShrinks ==
    ASSUME TypeInv, PendingIsHeldOnce, PersistedExactly, [Next]_vars,
           (dbMayFail => restarts = 0)'
    PROVE  PushStep \/ Live' \subseteq Live
<1> USE DEF TypeInv, TypeOK, TypeOfMessages, TypeOfDelivery, Live
<1>1. CASE UNCHANGED coreVars
  BY <1>1 DEF coreVars, dequeVars
<1>2. CASE RefuseStep
  BY <1>2 DEF RefuseStep, dequeVars
<1>3. ASSUME NEW m \in Msgs, WorkerSelect(m) PROVE Live' \subseteq Live
  BY <1>3 DEF WorkerSelect, Selected, TransactionSelected, FirstAllowedNormal, Pop
<1>4. CASE FailStep
  BY <1>4 DEF FailStep, handle_timeout_or_callerror, SendAgain, GiveUp, dequeVars
<1>5. ASSUME NEW id \in sent, ReceiveCallResult(id) PROVE Live' \subseteq Live
  BY <1>5 DEF ReceiveCallResult, dequeVars
<1>6. ASSUME NEW queue_all \in QueueAllModes, NEW kind \in RestartKinds,
             Restart(queue_all, kind)
      PROVE  Live' \subseteq Live
  <2>1. ~dbMayFail
    BY <1>6, RestartsFrame DEF Restart, TypeOfStation, TypeOfFlags
  <2>2. PICK rowsT \in SUBSET dbTransaction, rowsN \in SUBSET dbNormal, ignore \in BOOLEAN :
          get_persisted_messages_from_db(rowsT, rowsN, ignore)
    BY <1>6 DEF Restart, QueryResults
  <2>3. dbTransaction \cup dbNormal \subseteq {m \in Msgs : promise[m] = "pending"}
    BY <2>1 DEF PersistedExactly
  <2> QED
    BY <1>6, <2>2, <2>3 DEF Restart, get_persisted_messages_from_db, PendingIsHeldOnce
<1> QED
  BY <1>1, <1>2, <1>3, <1>4, <1>5, <1>6, CoreSteps

\* Every step keeps the bound.
LEMMA BoundNext ==
    ASSUME TypeInv, PendingIsHeldOnce, PersistedExactly, RowInv, QueueBound, [Next]_vars
    PROVE  QueueBound'
<1>0. /\ QueueBound <=> ((dbMayFail => restarts = 0) => Within(Live))
      /\ QueueBound' <=> ((dbMayFail' => restarts' = 0) => Within(Live'))
  BY DEF QueueBound, Within, Protected, ProtectedOf
<1> SUFFICES ASSUME (dbMayFail => restarts = 0)' PROVE Within(Live')
  BY <1>0
<1>1. dbMayFail => restarts = 0
  <2>1. UNCHANGED dbMayFail /\ (UNCHANGED restarts \/ restarts' = restarts + 1)
    BY RestartsFrame DEF Restart
  <2>2. restarts \in Nat
    BY DEF TypeInv, TypeOK, TypeOfStation
  <2>3. restarts' = 0 => restarts = 0
    BY <2>1, <2>2
  <2> QED
    BY <2>1, <2>3
<1>2. CASE PushStep
  BY <1>2, PushWithin
<1>3. CASE Live' \subseteq Live
  <2>1. Live \in SUBSET Msgs
    BY DEF Live, TypeInv, TypeOK, TypeOfMessages, TypeOfDelivery
  <2> QED
    BY <1>0, <1>1, <1>3, <2>1, WithinPart
<1> QED
  BY <1>2, <1>3, LiveShrinks

\* The queues hold no more than the configured number of messages, one that
\* comes back from flight, and those that may not be dropped: every
\* push_call is followed by enough drops, for every threshold and every mix of
\* messages, and nothing else makes the queues longer.
THEOREM BoundCorrect == Spec => []QueueBound
<1> DEFINE BInv == TypeInv /\ PendingIsHeldOnce /\ PersistedExactly /\ RowInv /\ QueueBound
<1>1. Init => BInv
  <2> SUFFICES ASSUME Init PROVE BInv
    OBVIOUS
  <2>1. TypeInv
    BY InitType
  <2>2. PendingIsHeldOnce /\ PersistedExactly
    BY DEF Init, PendingIsHeldOnce, Live, PersistedExactly
  <2>3. RowInv
    BY DEF Init, RowInv, Deque, Orders, Held, Live
  <2>4. Live = {} /\ Protected = {}
    BY DEF Init, Live, Protected
  <2>5. QueueBound
    BY <2>4, FS_EmptySet DEF QueueBound
  <2> QED
    BY <2>1, <2>2, <2>3, <2>5
<1>2. BInv /\ [Next]_vars => BInv'
  BY TypeNext, HeldNext, PersistedNext, RowNext, BoundNext
<1>3. BInv => QueueBound
  OBVIOUS
<1> QED
  BY <1>1, <1>2, <1>3, PTL DEF Spec
=============================================================================
