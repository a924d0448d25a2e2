---------------------- MODULE ReservationArrivalProofs ----------------------
(***************************************************************************)
(* Theorems about the question whether global reservations are possible:   *)
(* what can_virtual_car_arrive computes, that is_reservation_possible asks *)
(* for nothing but that every car finds a place, and that the global       *)
(* reservations which are held can be honoured.                            *)
(***************************************************************************)
EXTENDS ReservationsProofs, FiniteSetTheorems

-----------------------------------------------------------------------------
(* The cars of one order.                                                  *)

\* The cars i..(j - 1) of the order have parked at a, beside the EVSEs used.
Parked(v, order, taken, used, i, j, a) ==
    /\ a \in [i..(j - 1) -> Evses]
    /\ \A k \in i..(j - 1) : a[k] \notin used /\ CanArriveAt(v, a[k], order[k], taken)
    /\ \A k, l \in i..(j - 1) : a[k] = a[l] => k = l

\* The cars from i on find a place, however the ones before them park.
Fits(v, order, taken, used, i) ==
    \A j \in i..Len(order) : \A a : Parked(v, order, taken, used, i, j, a) =>
        \E e \in Places(v, used, order[j], taken) : \A k \in i..(j - 1) : a[k] # e

\* Fits, one car at a time: the first car finds a place, and wherever it parks
\* the others fit.
LEMMA FitsOneByOne ==
    ASSUME NEW v, NEW order, Len(order) \in Nat, NEW taken, NEW used \in SUBSET Evses,
           NEW i \in 1..Len(order)
    PROVE  Fits(v, order, taken, used, i)
             <=> /\ Places(v, used, order[i], taken) # {}
                 /\ i < Len(order) => \A e \in Places(v, used, order[i], taken) :
                                        Fits(v, order, taken, used \cup {e}, i + 1)
<1> DEFINE n == Len(order)
<1>1. ASSUME Fits(v, order, taken, used, i) PROVE Places(v, used, order[i], taken) # {}
  <2> DEFINE a == [k \in i..(i - 1) |-> CHOOSE e \in Evses : TRUE]
  <2>1. Parked(v, order, taken, used, i, i, a)
    BY DEF Parked
  <2>2. i \in i..n
    OBVIOUS
  <2> HIDE DEF a
  <2> QED
    BY <1>1, <2>1, <2>2 DEF Fits
<1>2. ASSUME Fits(v, order, taken, used, i), i < n, NEW e \in Places(v, used, order[i], taken)
      PROVE  Fits(v, order, taken, used \cup {e}, i + 1)
  <2> SUFFICES ASSUME NEW j \in (i + 1)..n, NEW a, Parked(v, order, taken, used \cup {e}, i + 1, j, a)
               PROVE  \E f \in Places(v, used \cup {e}, order[j], taken) : \A k \in (i + 1)..(j - 1) : a[k] # f
    BY DEF Fits
  <2> DEFINE b == [k \in i..(j - 1) |-> IF k = i THEN e ELSE a[k]]
  <2>1. j \in i..n /\ i \in i..(j - 1)
    OBVIOUS
  <2>2. \A k \in i..(j - 1) : k # i => k \in (i + 1)..(j - 1)
    OBVIOUS
  <2>3. e \in Evses /\ e \notin used /\ CanArriveAt(v, e, order[i], taken)
    BY DEF Places
  <2>4. /\ a \in [(i + 1)..(j - 1) -> Evses]
        /\ \A k \in (i + 1)..(j - 1) : a[k] \notin used /\ a[k] # e /\ CanArriveAt(v, a[k], order[k], taken)
        /\ \A k, l \in (i + 1)..(j - 1) : a[k] = a[l] => k = l
    BY DEF Parked
  <2>5. b \in [i..(j - 1) -> Evses] /\ b[i] = e /\ \A k \in (i + 1)..(j - 1) : b[k] = a[k]
    BY <2>1, <2>2, <2>3, <2>4
  <2> HIDE DEF b
  <2>6. \A k \in i..(j - 1) : b[k] \notin used /\ CanArriveAt(v, b[k], order[k], taken)
    BY <2>2, <2>3, <2>4, <2>5
  <2>7. \A k, l \in i..(j - 1) : b[k] = b[l] => k = l
    BY <2>2, <2>4, <2>5
  <2>8. Parked(v, order, taken, used, i, j, b)
    BY <2>5, <2>6, <2>7 DEF Parked
  <2>9. PICK f \in Places(v, used, order[j], taken) : \A k \in i..(j - 1) : b[k] # f
    BY <1>2, <2>1, <2>8 DEF Fits
  <2>10. f # e /\ \A k \in (i + 1)..(j - 1) : a[k] # f
    BY <2>1, <2>5, <2>9
  <2>11. f \in Places(v, used \cup {e}, order[j], taken)
    BY <2>9, <2>10 DEF Places
  <2> QED
    BY <2>10, <2>11
<1>3. ASSUME Places(v, used, order[i], taken) # {},
             i < n => \A e \in Places(v, used, order[i], taken) : Fits(v, order, taken, used \cup {e}, i + 1)
      PROVE  Fits(v, order, taken, used, i)
  <2> SUFFICES ASSUME NEW j \in i..n, NEW a, Parked(v, order, taken, used, i, j, a)
               PROVE  \E f \in Places(v, used, order[j], taken) : \A k \in i..(j - 1) : a[k] # f
    BY DEF Fits
  <2>1. CASE j = i
    BY <1>3, <2>1
  <2>2. CASE j # i
    <3> DEFINE e == a[i]
               b == [k \in (i + 1)..(j - 1) |-> a[k]]
    <3>1. i \in i..(j - 1) /\ j \in (i + 1)..n /\ i < n
      BY <2>2
    <3>2. \A k \in (i + 1)..(j - 1) : k \in i..(j - 1) /\ k # i
      OBVIOUS
    <3>3. /\ a \in [i..(j - 1) -> Evses]
          /\ \A k \in i..(j - 1) : a[k] \notin used /\ CanArriveAt(v, a[k], order[k], taken)
          /\ \A k, l \in i..(j - 1) : a[k] = a[l] => k = l
      BY DEF Parked
    <3>4. e \in Places(v, used, order[i], taken)
      BY <3>1, <3>3 DEF Places
    <3>5. b \in [(i + 1)..(j - 1) -> Evses] /\ \A k \in (i + 1)..(j - 1) : b[k] = a[k]
      BY <3>2, <3>3
    <3>6. \A k \in (i + 1)..(j - 1) : b[k] # e
      BY <3>1, <3>2, <3>3, <3>5
    <3> HIDE DEF b, e
    <3>7. Parked(v, order, taken, used \cup {e}, i + 1, j, b)
      BY <3>2, <3>3, <3>5, <3>6 DEF Parked
    <3>8. Fits(v, order, taken, used \cup {e}, i + 1)
      BY <1>3, <3>1, <3>4
    <3>9. PICK f \in Places(v, used \cup {e}, order[j], taken) : \A k \in (i + 1)..(j - 1) : b[k] # f
      BY <3>1, <3>7, <3>8 DEF Fits
    <3>10. f \in Places(v, used, order[j], taken) /\ f # e
      BY <3>9 DEF Places
    <3>11. \A k \in i..(j - 1) : a[k] # f
      BY <3>5, <3>9, <3>10 DEF e
    <3> QED
      BY <3>10, <3>11
  <2> QED
    BY <2>1, <2>2
<1> QED
  BY <1>1, <1>2, <1>3

\* The equation of the recursion in can_virtual_car_arrive.
Arrives(g, v, order, taken) ==
    g = [i \in DOMAIN order |->
          [used \in SUBSET Evses |->
              /\ Places(v, used, order[i], taken) # {}
              /\ i < Len(order) => \A e \in Places(v, used, order[i], taken) : g[i + 1][used \cup {e}]]]

\* If a function has that equation, the one the definition chooses has it.
LEMMA ArriveChosen ==
    ASSUME NEW v, NEW order, NEW taken, NEW f, Arrives(f, v, order, taken)
    PROVE  \E g : Arrives(g, v, order, taken) /\ can_virtual_car_arrive(v, order, taken) = g[1][{}]
<1> DEFINE h == CHOOSE g : Arrives(g, v, order, taken)
<1>1. Arrives(h, v, order, taken)
  BY Zenon
<1>2. can_virtual_car_arrive(v, order, taken) = h[1][{}]
  BY Zenon DEF can_virtual_car_arrive, Arrives
<1> QED
  BY <1>1, <1>2

\* One step of the recursion.
LEMMA ArriveStep ==
    ASSUME NEW v, NEW order, NEW taken, NEW g, Arrives(g, v, order, taken),
           NEW i \in DOMAIN order, NEW used \in SUBSET Evses
    PROVE  g[i][used] = (/\ Places(v, used, order[i], taken) # {}
                         /\ i < Len(order) => \A e \in Places(v, used, order[i], taken) : g[i + 1][used \cup {e}])
<1> DEFINE P(u) == /\ Places(v, u, order[i], taken) # {}
                   /\ i < Len(order) => \A e \in Places(v, u, order[i], taken) : g[i + 1][u \cup {e}]
<1>1. g[i] = [u \in SUBSET Evses |-> P(u)]
  BY Zenon DEF Arrives
<1>2. g[i][used] = P(used)
  <2> HIDE DEF P
  <2> QED
    BY <1>1
<1> QED
  BY <1>2, Zenon DEF P

\* Fits solves the equation.
LEMMA FitsArrives ==
    ASSUME NEW v, NEW order, Len(order) \in Nat, DOMAIN order = 1..Len(order), NEW taken
    PROVE  Arrives([i \in DOMAIN order |-> [used \in SUBSET Evses |-> Fits(v, order, taken, used, i)]],
                   v, order, taken)
<1> DEFINE F == [i \in DOMAIN order |-> [used \in SUBSET Evses |-> Fits(v, order, taken, used, i)]]
           P(i, used) == /\ Places(v, used, order[i], taken) # {}
                         /\ i < Len(order) => \A e \in Places(v, used, order[i], taken) : F[i + 1][used \cup {e}]
<1>1. ASSUME NEW i \in DOMAIN order, NEW used \in SUBSET Evses
      PROVE  Fits(v, order, taken, used, i) = P(i, used)
  <2>1. ASSUME i < Len(order), NEW e \in Places(v, used, order[i], taken)
        PROVE  F[i + 1][used \cup {e}] = Fits(v, order, taken, used \cup {e}, i + 1)
    <3>1. i + 1 \in DOMAIN order /\ used \cup {e} \in SUBSET Evses
      BY <2>1 DEF Places
    <3> QED
      BY <3>1, Zenon
  <2>2. Fits(v, order, taken, used, i) <=> P(i, used)
    <3> HIDE DEF F
    <3> QED
      BY <2>1, FitsOneByOne
  <2>3. Fits(v, order, taken, used, i) \in BOOLEAN /\ P(i, used) \in BOOLEAN
    BY DEF Fits
  <2> QED
    BY <2>2, <2>3
<1> HIDE DEF P
<1>2. F = [i \in DOMAIN order |-> [used \in SUBSET Evses |-> P(i, used)]]
  BY <1>1, Zenon
<1> QED
  BY <1>2, Zenon DEF Arrives, P

\* can_virtual_car_arrive computes Fits.
LEMMA ArriveIsFits ==
    ASSUME NEW v, NEW order, Len(order) \in Nat \ {0}, DOMAIN order = 1..Len(order), NEW taken
    PROVE  can_virtual_car_arrive(v, order, taken) <=> Fits(v, order, taken, {}, 1)
<1> DEFINE n == Len(order)
<1>1. PICK g : Arrives(g, v, order, taken) /\ can_virtual_car_arrive(v, order, taken) = g[1][{}]
  BY FitsArrives, ArriveChosen
<1> DEFINE Right(i) == \A used \in SUBSET Evses : g[i][used] <=> Fits(v, order, taken, used, i)
           T == {d \in 0..(n - 1) : ~Right(n - d)}
<1>2. ASSUME NEW i \in 1..n, i < n => Right(i + 1)
      PROVE  Right(i)
  <2> SUFFICES ASSUME NEW used \in SUBSET Evses
               PROVE  g[i][used] <=> Fits(v, order, taken, used, i)
    OBVIOUS
  <2> DEFINE p == Places(v, used, order[i], taken)
  <2>1. g[i][used] = (p # {} /\ (i < n => \A e \in p : g[i + 1][used \cup {e}]))
    BY <1>1, ArriveStep, ZenonT(60)
  <2>2. \A e \in p : used \cup {e} \in SUBSET Evses
    BY DEF Places
  <2>3. i < n => \A e \in p : g[i + 1][used \cup {e}] <=> Fits(v, order, taken, used \cup {e}, i + 1)
    BY <1>2, <2>2
  <2>4. Fits(v, order, taken, used, i)
          <=> p # {} /\ (i < n => \A e \in p : Fits(v, order, taken, used \cup {e}, i + 1))
    BY FitsOneByOne
  <2> HIDE DEF p
  <2> QED
    BY <2>1, <2>3, <2>4
<1> HIDE DEF Right
<1>3. T = {}
  <2>1. SUFFICES ASSUME T # {} PROVE FALSE
    BY <2>1
  <2>2. T \in SUBSET Nat
    OBVIOUS
  <2>3. PICK d \in T : \A k \in T : d <= k
    BY <2>1, <2>2, Least
  <2>4. n - d \in 1..n /\ (n - d < n => n - d + 1 = n - (d - 1) /\ d - 1 \in 0..(n - 1))
    BY <2>3
  <2>5. n - d < n => Right(n - d + 1)
    BY <2>3, <2>4
  <2>6. Right(n - d)
    BY <1>2, <2>4, <2>5
  <2> QED
    BY <2>3, <2>6
<1>4. Right(1)
  <2>1. n - 1 \in 0..(n - 1) /\ n - (n - 1) = 1
    OBVIOUS
  <2> QED
    BY <1>3, <2>1
<1> QED
  BY <1>1, <1>4 DEF Right

-----------------------------------------------------------------------------
(* All orders.                                                             *)

\* A finite set can be counted.
LEMMA Counted ==
    ASSUME NEW S, IsFiniteSet(S)
    PROVE  /\ Cardinality(S) \in Nat
           /\ \E f \in [1..Cardinality(S) -> S] :
                 /\ \A x, y \in 1..Cardinality(S) : f[x] = f[y] => x = y
                 /\ \A s \in S : \E x \in 1..Cardinality(S) : f[x] = s
<1>1. Cardinality(S) \in Nat /\ ExistsBijection(1..Cardinality(S), S)
  BY FS_CardinalityType
<1>2. PICK f : f \in Bijection(1..Cardinality(S), S)
  BY <1>1 DEF ExistsBijection
<1>3. f \in [1..Cardinality(S) -> S] /\ DOMAIN f = 1..Cardinality(S)
  BY <1>2 DEF Bijection, Injection
<1>4. \A x, y \in 1..Cardinality(S) : f[x] = f[y] => x = y
  BY <1>2, <1>3 DEF Bijection, Injection, IsInjective
<1>5. \A s \in S : \E x \in 1..Cardinality(S) : f[x] = s
  BY <1>2 DEF Bijection, Surjection
<1> QED
  BY <1>1, <1>3, <1>4, <1>5

\* The order p of 1..n begins with the k numbers of S, and then comes i.
BeginsWith(p, n, S, k, i) ==
    /\ k \in 0..(n - 1)
    /\ p \in [1..n -> 1..n]
    /\ \A x, y \in 1..n : p[x] = p[y] => x = y
    /\ \A x \in 1..k : p[x] \in S
    /\ \A s \in S : \E x \in 1..k : p[x] = s
    /\ p[k + 1] = i

\* There is such an order for every S and i.
LEMMA OrderExists ==
    ASSUME NEW n \in Nat, NEW S, S \subseteq 1..n, NEW i, i \in (1..n) \ S
    PROVE  \E k, p : BeginsWith(p, n, S, k, i)
<1> DEFINE C == (1..n) \ (S \cup {i})
           k == Cardinality(S)
           m == Cardinality(C)
<1>1. IsFiniteSet(1..n) /\ Cardinality(1..n) = n
  BY FS_Interval
<1>2. IsFiniteSet(S) /\ IsFiniteSet(C)
  BY <1>1, FS_Subset
<1>3. k \in Nat /\ m \in Nat
  BY <1>2, FS_CardinalityType
<1>4. k + 1 + m = n
  <2>1. IsFiniteSet(S \cup {i}) /\ Cardinality(S \cup {i}) = k + 1
    BY <1>2, FS_AddElement
  <2>2. (1..n) \cap (S \cup {i}) = S \cup {i}
    OBVIOUS
  <2>3. m = n - Cardinality((1..n) \cap (S \cup {i}))
    BY <1>1, FS_Difference
  <2> QED
    BY <1>3, <2>1, <2>2, <2>3
<1>5. PICK f \in [1..k -> S] : /\ \A x, y \in 1..k : f[x] = f[y] => x = y
                               /\ \A s \in S : \E x \in 1..k : f[x] = s
  BY <1>2, Counted
<1>6. PICK h \in [1..m -> C] : \A x, y \in 1..m : h[x] = h[y] => x = y
  BY <1>2, Counted
<1>7. C \subseteq 1..n /\ C \cap S = {} /\ i \notin C
  OBVIOUS
<1> HIDE DEF C, k, m
<1> DEFINE p == [x \in 1..n |-> IF x <= k THEN f[x] ELSE IF x = k + 1 THEN i ELSE h[x - k - 1]]
<1>8. \A x \in 1..n : \/ x \in 1..k /\ p[x] = f[x] /\ f[x] \in S
                      \/ x = k + 1 /\ p[x] = i
                      \/ x > k + 1 /\ x - k - 1 \in 1..m /\ p[x] = h[x - k - 1] /\ h[x - k - 1] \in C
  BY <1>3, <1>4, <1>5, <1>6
<1>9. p \in [1..n -> 1..n]
  <2>1. \A x \in 1..n : p[x] \in 1..n
    BY <1>7, <1>8
  <2>2. p = [x \in 1..n |-> p[x]]
    OBVIOUS
  <2> HIDE DEF p
  <2> QED
    BY <2>1, <2>2
<1> HIDE DEF p
<1>10. \A x, y \in 1..n : p[x] = p[y] => x = y
  <2> SUFFICES ASSUME NEW x \in 1..n, NEW y \in 1..n, p[x] = p[y] PROVE x = y
    OBVIOUS
  <2>1. CASE x \in 1..k /\ p[x] = f[x] /\ f[x] \in S
    <3>1. y \in 1..k /\ p[y] = f[y]
      BY <1>7, <1>8, <2>1
    <3> QED
      BY <1>5, <2>1, <3>1
  <2>2. CASE x = k + 1 /\ p[x] = i
    BY <1>3, <1>7, <1>8, <2>2
  <2>3. CASE x > k + 1 /\ x - k - 1 \in 1..m /\ p[x] = h[x - k - 1] /\ h[x - k - 1] \in C
    <3>1. y > k + 1 /\ y - k - 1 \in 1..m /\ p[y] = h[y - k - 1]
      BY <1>7, <1>8, <2>3
    <3>2. x - k - 1 = y - k - 1
      BY <1>6, <2>3, <3>1
    <3> QED
      BY <1>3, <3>2
  <2> QED
    BY <1>8, <2>1, <2>2, <2>3
<1>11. \A x \in 1..k : x \in 1..n /\ p[x] = f[x]
  BY <1>3, <1>4, <1>8
<1>12. p[k + 1] = i /\ k \in 0..(n - 1)
  BY <1>3, <1>4, <1>8
<1> QED
  BY <1>5, <1>9, <1>10, <1>11, <1>12 DEF BeginsWith

\* The orders the code looks at.
Order(types, p) == [i \in DOMAIN types |-> types[p[i]]]

\* The order is a sequence of the same length, of the same types.
LEMMA OrderFacts ==
    ASSUME NEW X, NEW types \in Seq(X), NEW p \in [1..Len(types) -> 1..Len(types)]
    PROVE  /\ Order(types, p) \in Seq(X) /\ Len(Order(types, p)) = Len(types)
           /\ DOMAIN Order(types, p) = 1..Len(types)
           /\ \A i \in 1..Len(types) : Order(types, p)[i] = types[p[i]]
<1>1. DOMAIN types = 1..Len(types) /\ Len(types) \in Nat /\ \A i \in 1..Len(types) : types[i] \in X
  OBVIOUS
<1>2. Order(types, p) \in [1..Len(types) -> X]
  BY <1>1 DEF Order
<1>3. Order(types, p) \in Seq(X)
  BY <1>1, <1>2
<1> QED
  BY <1>1, <1>2, <1>3 DEF Order

\* Every permutation gives an order, and every order comes from one.
LEMMA Orders ==
    ASSUME NEW X, NEW types \in Seq(X)
    PROVE  /\ \A p \in [1..Len(types) -> 1..Len(types)] :
                 (\A x, y \in 1..Len(types) : p[x] = p[y] => x = y)
                 => Order(types, p) \in get_all_possible_orders(types)
           /\ \A order \in get_all_possible_orders(types) :
                 \E p \in [1..Len(types) -> 1..Len(types)] :
                    order = Order(types, p) /\ \A x, y \in 1..Len(types) : p[x] = p[y] => x = y
<1>1. DOMAIN types = 1..Len(types)
  OBVIOUS
<1> QED
  BY <1>1, Zenon DEF get_all_possible_orders, Order

\* The cars of S have parked at `at`, and car k finds a place.
Together(v, types, taken, S, at) ==
    /\ at \in [S -> Evses]
    /\ \A i \in S : CanArriveAt(v, at[i], types[i], taken)
    /\ \A i, j \in S : at[i] = at[j] => i = j
FindsPlace(v, types, taken, S, at, k) ==
    \E e \in Evses : CanArriveAt(v, e, types[k], taken) /\ \A j \in S : at[j] # e

\* Extendable, for one set of cars that have parked and one that has not.
LEMMA ExtendAt ==
    ASSUME NEW v, NEW types \in Seq(Types), NEW taken, Extendable(v, types, taken),
           NEW S, S \subseteq 1..Len(types), NEW at, Together(v, types, taken, S, at),
           NEW k, k \in (1..Len(types)) \ S
    PROVE  FindsPlace(v, types, taken, S, at, k)
<1>1. S \in SUBSET DOMAIN types /\ k \in DOMAIN types \ S
  OBVIOUS
<1>2. \A i \in DOMAIN types \ S : \E e \in Evses : CanArriveAt(v, e, types[i], taken) /\ \A j \in S : at[j] # e
  BY <1>1 DEF Extendable, Together
<1> QED
  BY <1>1, <1>2 DEF FindsPlace

\* The numbers up to n are n numbers.
LEMMA CountUpTo == ASSUME NEW n \in Nat PROVE Cardinality(1..n) = n
  BY FS_Interval

\* If every order of the cars fits, then so does every set of them.
LEMMA FitsExtends ==
    ASSUME NEW v, NEW types \in Seq(Types), NEW taken,
           \A order \in get_all_possible_orders(types) : Fits(v, order, taken, {}, 1)
    PROVE  Extendable(v, types, taken)
<1> DEFINE n == Len(types)
<1>0. n \in Nat /\ DOMAIN types = 1..n
  OBVIOUS
<1> SUFFICES ASSUME NEW S \in SUBSET DOMAIN types, NEW at \in [S -> Evses],
                    \A i \in S : CanArriveAt(v, at[i], types[i], taken),
                    \A i, j \in S : at[i] = at[j] => i = j,
                    NEW i \in DOMAIN types \ S
             PROVE  \E e \in Evses : CanArriveAt(v, e, types[i], taken) /\ \A j \in S : at[j] # e
  BY Zenon DEF Extendable
<1>1. PICK k, p : BeginsWith(p, n, S, k, i)
  <2>1. S \subseteq 1..n /\ i \in (1..n) \ S
    BY <1>0
  <2> QED
    BY <1>0, <2>1, OrderExists
<1>a. /\ k \in 0..(n - 1)
      /\ p \in [1..n -> 1..n]
      /\ \A x, y \in 1..n : p[x] = p[y] => x = y
      /\ \A x \in 1..k : p[x] \in S
      /\ \A s \in S : \E x \in 1..k : p[x] = s
      /\ p[k + 1] = i
  BY <1>1 DEF BeginsWith
<1> DEFINE order == Order(types, p)
           a == [x \in 1..k |-> at[p[x]]]
<1>2. /\ order \in get_all_possible_orders(types) /\ Len(order) = n
      /\ \A x \in 1..n : order[x] = types[p[x]]
  <2>1. order \in get_all_possible_orders(types)
    BY <1>a, Orders
  <2>2. Len(order) = n /\ \A x \in 1..n : order[x] = types[p[x]]
    BY <1>a, OrderFacts
  <2> QED
    BY <2>1, <2>2
<1>3. k + 1 \in 1..Len(order) /\ (k + 1) - 1 = k /\ \A x \in 1..k : x \in 1..n
  BY <1>0, <1>2, <1>a
<1> HIDE DEF order
<1>4. a \in [1..k -> Evses] /\ \A x \in 1..k : a[x] = at[p[x]]
  BY <1>a
<1> HIDE DEF a
<1>5. Parked(v, order, taken, {}, 1, k + 1, a)
  <2>1. \A x \in 1..k : CanArriveAt(v, a[x], order[x], taken)
    BY <1>a, <1>2, <1>3, <1>4
  <2>2. \A x, y \in 1..k : a[x] = a[y] => x = y
    BY <1>a, <1>3, <1>4
  <2> QED
    BY <1>3, <1>4, <2>1, <2>2 DEF Parked
<1>6. Fits(v, order, taken, {}, 1)
  BY <1>2
<1>7. PICK e \in Places(v, {}, order[k + 1], taken) : \A x \in 1..k : a[x] # e
  BY <1>3, <1>5, <1>6, SMTT(40) DEF Fits
<1>8. order[k + 1] = types[i]
  BY <1>0, <1>a, <1>2
<1>9. e \in Evses /\ CanArriveAt(v, e, types[i], taken)
  BY <1>7, <1>8 DEF Places
<1>10. \A j \in S : at[j] # e
  BY <1>a, <1>4, <1>7, SMTT(40)
<1> QED
  BY <1>9, <1>10

\* If every set of cars fits, then so does every order of them.
LEMMA ExtendsFits ==
    ASSUME NEW v, NEW types \in Seq(Types), NEW taken, Extendable(v, types, taken),
           NEW order \in get_all_possible_orders(types)
    PROVE  Fits(v, order, taken, {}, 1)
<1> DEFINE n == Len(types)
<1>0. n \in Nat /\ DOMAIN types = 1..n
  OBVIOUS
<1>1. PICK p \in [1..n -> 1..n] : order = Order(types, p) /\ \A x, y \in 1..n : p[x] = p[y] => x = y
  BY Orders
<1>2. Len(order) = n /\ \A x \in 1..n : order[x] = types[p[x]]
  BY <1>1, OrderFacts
<1> SUFFICES ASSUME NEW j \in 1..n, NEW a, Parked(v, order, taken, {}, 1, j, a)
             PROVE  \E e \in Places(v, {}, order[j], taken) : \A k \in 1..(j - 1) : a[k] # e
  BY <1>2 DEF Fits
<1>3. /\ a \in [1..(j - 1) -> Evses]
      /\ \A k \in 1..(j - 1) : CanArriveAt(v, a[k], order[k], taken)
      /\ \A k, l \in 1..(j - 1) : a[k] = a[l] => k = l
  BY DEF Parked
<1> DEFINE S == {p[x] : x \in 1..(j - 1)}
           pos(s) == CHOOSE x \in 1..(j - 1) : p[x] = s
           at == [s \in S |-> a[pos(s)]]
<1>4. \A x \in 1..(j - 1) : x \in 1..n /\ p[x] \in S /\ pos(p[x]) = x
  BY <1>0, <1>1
<1>5. S \in SUBSET (1..n) /\ p[j] \in (1..n) \ S
  BY <1>0, <1>1, SMTT(40)
<1>6. \A s \in S : pos(s) \in 1..(j - 1) /\ p[pos(s)] = s
  OBVIOUS
<1> HIDE DEF pos
<1>7. at \in [S -> Evses] /\ \A x \in 1..(j - 1) : at[p[x]] = a[x]
  BY <1>3, <1>4, <1>6
<1>8. \A s \in S : at[s] = a[pos(s)]
  OBVIOUS
<1> HIDE DEF at, S
<1>9. \A s \in S : CanArriveAt(v, at[s], types[s], taken)
  BY <1>2, <1>3, <1>4, <1>6, <1>8
<1>10. \A s, t \in S : at[s] = at[t] => s = t
  BY <1>3, <1>6, <1>8
<1>11. PICK e \in Evses : CanArriveAt(v, e, types[p[j]], taken) /\ \A s \in S : at[s] # e
  <2>1. Together(v, types, taken, S, at)
    BY <1>7, <1>9, <1>10 DEF Together
  <2>2. FindsPlace(v, types, taken, S, at, p[j])
    BY <1>5, <2>1, ExtendAt
  <2> QED
    BY <2>2 DEF FindsPlace
<1>12. e \in Places(v, {}, order[j], taken)
  BY <1>2, <1>11 DEF Places
<1>13. \A k \in 1..(j - 1) : a[k] # e
  BY <1>4, <1>7, <1>11
<1> QED
  BY <1>12, <1>13

\* If every set of cars fits, all of them can park at once.
LEMMA AllPark ==
    ASSUME NEW v, NEW types \in Seq(Types), NEW taken, Extendable(v, types, taken)
    PROVE  \E a \in [1..Len(types) -> Evses] :
              /\ \A i \in 1..Len(types) : CanArriveAt(v, a[i], types[i], taken)
              /\ \A i, j \in 1..Len(types) : a[i] = a[j] => i = j
<1> DEFINE n == Len(types)
           Park(m) == \E a \in [1..m -> Evses] :
                        /\ \A i \in 1..m : CanArriveAt(v, a[i], types[i], taken)
                        /\ \A i, j \in 1..m : a[i] = a[j] => i = j
           T == {m \in 0..n : ~Park(m)}
<1>0. n \in Nat /\ DOMAIN types = 1..n
  OBVIOUS
<1>1. Park(0)
  <2> DEFINE a == [i \in 1..0 |-> CHOOSE e \in Evses : TRUE]
  <2>1. a \in [1..0 -> Evses] /\ 1..0 = {}
    OBVIOUS
  <2> HIDE DEF a
  <2> QED
    BY <2>1
<1>2. ASSUME NEW m \in 1..n, Park(m - 1) PROVE Park(m)
  <2>1. PICK a \in [1..(m - 1) -> Evses] :
                /\ \A i \in 1..(m - 1) : CanArriveAt(v, a[i], types[i], taken)
                /\ \A i, j \in 1..(m - 1) : a[i] = a[j] => i = j
    BY <1>2
  <2>2. 1..(m - 1) \in SUBSET (1..n) /\ m \in (1..n) \ (1..(m - 1))
    BY <1>0
  <2>3. PICK e \in Evses : CanArriveAt(v, e, types[m], taken) /\ \A j \in 1..(m - 1) : a[j] # e
    <3> DEFINE S == 1..(m - 1)
    <3>1. S \subseteq 1..n /\ m \in (1..n) \ S
      BY <2>2
    <3>2. Together(v, types, taken, S, a)
      BY <2>1 DEF Together
    <3> HIDE DEF S
    <3>3. FindsPlace(v, types, taken, S, a, m)
      BY <3>1, <3>2, ExtendAt
    <3> QED
      BY <3>3 DEF S, FindsPlace
  <2> DEFINE b == [i \in 1..m |-> IF i = m THEN e ELSE a[i]]
  <2>4. /\ b \in [1..m -> Evses] /\ b[m] = e /\ \A i \in 1..(m - 1) : b[i] = a[i]
        /\ \A i \in 1..m : i # m => i \in 1..(m - 1)
    OBVIOUS
  <2> HIDE DEF b
  <2>5. \A i \in 1..m : CanArriveAt(v, b[i], types[i], taken)
    BY <2>1, <2>3, <2>4
  <2>6. \A i, j \in 1..m : b[i] = b[j] => i = j
    BY <2>1, <2>3, <2>4
  <2> QED
    BY <2>4, <2>5, <2>6
<1> HIDE DEF Park
<1>3. T = {}
  <2>1. SUFFICES ASSUME T # {} PROVE FALSE
    BY <2>1
  <2>2. T \in SUBSET Nat
    OBVIOUS
  <2>3. PICK m \in T : \A k \in T : m <= k
    BY <2>1, <2>2, Least
  <2>4. m \in 1..n /\ m - 1 \in 0..n /\ m - 1 \notin T
    BY <1>1, <2>3
  <2>5. Park(m)
    BY <1>2, <2>4
  <2> QED
    BY <2>3, <2>5
<1>4. Park(n)
  BY <1>0, <1>3
<1> QED
  BY <1>4 DEF Park

\* Then there are EVSEs enough.
LEMMA EnoughEvses ==
    ASSUME NEW v, NEW types \in Seq(Types), NEW taken \in SUBSET Evses, Extendable(v, types, taken)
    PROVE  Len(types) + Cardinality(taken) <= Cardinality(Evses)
<1> DEFINE n == Len(types)
           F == Evses \ taken
<1>0. n \in Nat
  OBVIOUS
<1>1. PICK a \in [1..n -> Evses] : /\ \A i \in 1..n : CanArriveAt(v, a[i], types[i], taken)
                                   /\ \A i, j \in 1..n : a[i] = a[j] => i = j
  BY AllPark
<1>2. \A i \in 1..n : a[i] \notin taken
  BY <1>1 DEF CanArriveAt, get_evse_connector_state_reservation_result
<1>3. a \in Injection(1..n, F)
  BY <1>1, <1>2 DEF Injection, IsInjective
<1>4. IsFiniteSet(Evses) /\ Evses \cap taken = taken
  BY ReservationAssumption
<1>5. IsFiniteSet(F) /\ Cardinality(F) = Cardinality(Evses) - Cardinality(taken)
  BY <1>4, FS_Difference
<1>6. Cardinality(1..n) <= Cardinality(F)
  BY <1>3, <1>5, FS_Injection
<1>7. Cardinality(1..n) = n
  BY <1>0, CountUpTo
<1>8. Cardinality(Evses) \in Nat /\ Cardinality(taken) \in Nat
  BY <1>4, FS_CardinalityType, FS_Subset
<1> QED
  BY <1>0, <1>5, <1>6, <1>7, <1>8

\* is_reservation_possible, with its orders, its recursion and its count of
\* EVSEs, asks exactly whether every set of cars leaves room for the others.
THEOREM PossibleMeansExtendable ==
    ASSUME NEW v, NEW types \in Seq(Types), NEW taken \in SUBSET Evses
    PROVE  is_reservation_possible(v, types, taken) <=> Extendable(v, types, taken)
<1> DEFINE n == Len(types)
<1>0. n \in Nat /\ DOMAIN types = 1..n /\ (types = <<>> <=> n = 0)
  OBVIOUS
<1>1. ASSUME NEW order \in get_all_possible_orders(types), types # <<>>
      PROVE  can_virtual_car_arrive(v, order, taken) <=> Fits(v, order, taken, {}, 1)
  <2>1. Len(order) = n /\ DOMAIN order = 1..n
    BY Orders, OrderFacts
  <2> QED
    BY <1>0, <1>1, <2>1, ArriveIsFits
<1>2. CASE types = <<>>
  <2>1. Extendable(v, types, taken)
    BY <1>0, <1>2 DEF Extendable
  <2> QED
    BY <1>2, <2>1, EnoughEvses DEF is_reservation_possible
<1>3. CASE types # <<>>
  <2>1. ASSUME is_reservation_possible(v, types, taken) PROVE Extendable(v, types, taken)
    BY <1>1, <1>3, <2>1, FitsExtends DEF is_reservation_possible
  <2>2. ASSUME Extendable(v, types, taken) PROVE is_reservation_possible(v, types, taken)
    BY <1>1, <1>3, <2>2, ExtendsFits, EnoughEvses DEF is_reservation_possible
  <2> QED
    BY <2>1, <2>2
<1> QED
  BY <1>2, <1>3

\* The types of global reservations are types of connectors.
LEMMA TypesType ==
    ASSUME NEW global \in Seq(Reservation)
    PROVE  /\ TypesOf(global) \in Seq(Types) /\ Len(TypesOf(global)) = Len(global)
           /\ DOMAIN TypesOf(global) = 1..Len(global)
           /\ \A i \in 1..Len(global) : TypesOf(global)[i] = TypeOf(global[i])
<1>1. \A i \in 1..Len(global) : TypeOf(global[i]) \in Types
  BY ReservationAssumption, HasId DEF TypeOf, Reservation
<1>2. DOMAIN global = 1..Len(global) /\ Len(global) \in Nat
  OBVIOUS
<1>3. TypesOf(global) \in [1..Len(global) -> Types]
  BY <1>1, <1>2 DEF TypesOf
<1>4. TypesOf(global) \in Seq(Types)
  BY <1>2, <1>3
<1> QED
  BY <1>2, <1>3, <1>4 DEF TypesOf

\* get_all_possible_orders and can_virtual_car_arrive answer the question that
\* Extendable asks, for the reservations that are held and one more.
THEOREM PossibleIsExtendableAlways == Spec => []PossibleIsExtendable
<1>1. IInv => PossibleIsExtendable
  <2> SUFFICES ASSUME IInv, NEW type \in Types
               PROVE  LET types == Append(TypesOf(book.global), type)
                      IN  is_reservation_possible(seen, types, Taken(book)) <=> Extendable(seen, types, Taken(book))
    BY DEF PossibleIsExtendable
  <2>1. book.global \in Seq(Reservation)
    BY DEF IInv, TypeOK, BookType
  <2>2. Append(TypesOf(book.global), type) \in Seq(Types)
    BY <2>1, TypesType
  <2>3. Taken(book) \in SUBSET Evses
    BY DEF Taken
  <2> QED
    BY <2>2, <2>3, PossibleMeansExtendable
<1> QED
  BY Invariance, <1>1, PTL

-----------------------------------------------------------------------------
(* Fewer cars, or more EVSEs.                                              *)

\* The EVSE e is free, for a car of a type that it has.
Available(v, e, taken) ==
    get_evse_connector_state_reservation_result(v, e, taken) /\ v[e].connector = "AVAILABLE"

\* A car can arrive where the EVSE is available and has its type.
LEMMA ArriveAvailable ==
    ASSUME NEW v, NEW e, NEW type, NEW taken
    PROVE  CanArriveAt(v, e, type, taken) <=> Available(v, e, taken) /\ has_evse_connector_type(e, type)
  BY DEF CanArriveAt, Available, get_connector_availability_reservation_result

\* The cars `some` are among the cars `types`: q says which.
Among(some, types, q) ==
    /\ q \in [DOMAIN some -> DOMAIN types]
    /\ \A i \in DOMAIN some : some[i] = types[q[i]]
    /\ \A i, j \in DOMAIN some : q[i] = q[j] => i = j

\* What fits still fits when cars are missing and EVSEs become available.
LEMMA StillExtendable ==
    ASSUME NEW v, NEW types \in Seq(Types), NEW taken, Extendable(v, types, taken),
           NEW u, NEW some \in Seq(Types), NEW left,
           \A e \in Evses : Available(v, e, taken) => Available(u, e, left),
           NEW q, Among(some, types, q)
    PROVE  Extendable(u, some, left)
<1> SUFFICES ASSUME NEW S \in SUBSET DOMAIN some, NEW at \in [S -> Evses],
                    \A i \in S : CanArriveAt(u, at[i], some[i], left),
                    \A i, j \in S : at[i] = at[j] => i = j,
                    NEW k \in DOMAIN some \ S
             PROVE  \E e \in Evses : CanArriveAt(u, e, some[k], left) /\ \A j \in S : at[j] # e
  BY Zenon DEF Extendable
<1>1. /\ q \in [DOMAIN some -> DOMAIN types]
      /\ \A i \in DOMAIN some : some[i] = types[q[i]]
      /\ \A i, j \in DOMAIN some : q[i] = q[j] => i = j
  BY DEF Among
<1> DEFINE old == {i \in S : Available(v, at[i], taken)}
           Q == {q[i] : i \in old}
           pos(x) == CHOOSE i \in old : q[i] = x
           b == [x \in Q |-> at[pos(x)]]
<1>2. DOMAIN types = 1..Len(types)
  OBVIOUS
<1>3. \A x \in Q : pos(x) \in old /\ q[pos(x)] = x
  OBVIOUS
<1>4. \A i \in old : q[i] \in Q /\ pos(q[i]) = i
  BY <1>1
<1>5. Q \subseteq 1..Len(types) /\ q[k] \in (1..Len(types)) \ Q
  BY <1>1, <1>2
<1>6. \A x \in Q : b[x] = at[pos(x)]
  OBVIOUS
<1>7. b \in [Q -> Evses]
  BY <1>3
<1>8. old \subseteq S
  OBVIOUS
<1>9. \A i \in old : CanArriveAt(v, at[i], some[i], taken)
  BY ArriveAvailable
<1> HIDE DEF pos, b, Q
<1>10. \A x \in Q : CanArriveAt(v, b[x], types[x], taken)
  BY <1>1, <1>3, <1>6, <1>8, <1>9
<1>11. \A x, y \in Q : b[x] = b[y] => x = y
  BY <1>3, <1>6, <1>8
<1>12. Together(v, types, taken, Q, b)
  BY <1>7, <1>10, <1>11 DEF Together
<1>13. FindsPlace(v, types, taken, Q, b, q[k])
  BY <1>5, <1>12, ExtendAt
<1>14. PICK e \in Evses : CanArriveAt(v, e, types[q[k]], taken) /\ \A x \in Q : b[x] # e
  BY <1>13 DEF FindsPlace
<1>15. CanArriveAt(u, e, some[k], left) /\ Available(v, e, taken)
  BY <1>1, <1>14, ArriveAvailable
<1>16. ASSUME NEW j \in S PROVE at[j] # e
  <2>1. CASE j \in old
    BY <1>4, <1>6, <1>14, <2>1
  <2>2. CASE j \notin old
    BY <1>15, <2>2
  <2> QED
    BY <2>1, <2>2
<1> QED
  BY <1>15, <1>16

\* No cars always fit.
LEMMA NoneExtendable == ASSUME NEW v, NEW taken PROVE Extendable(v, <<>>, taken)
  BY DEF Extendable

-----------------------------------------------------------------------------
(* The global reservations that are kept.                                  *)

\* The equation of Kept.
Keeps(g, global, v, taken) ==
    g = [i \in 0..Len(global) |->
          IF i = 0 THEN <<>>
          ELSE IF is_reservation_possible(v, AndAlso(TypesOf(g[i - 1]), global[i].type), taken)
          THEN Append(g[i - 1], global[i])
          ELSE g[i - 1]]

\* If a function has that equation, Kept has it.
LEMMA KeptChosen ==
    ASSUME NEW global, NEW v, NEW taken, NEW f, Keeps(f, global, v, taken)
    PROVE  Keeps(Kept(global, v, taken), global, v, taken)
<1> DEFINE h == CHOOSE g : Keeps(g, global, v, taken)
<1>1. Keeps(h, global, v, taken)
  BY Zenon
<1>2. Kept(global, v, taken) = h
  BY Zenon DEF Kept, Keeps
<1> QED
  BY <1>1, <1>2

\* One round of the loop of check_reservations_and_cancel_if_not_possible.
KeepStep(s, global, i, v, taken) ==
    IF is_reservation_possible(v, AndAlso(TypesOf(s), global[i].type), taken) THEN Append(s, global[i]) ELSE s

\* The rounds of the loop, one after the other.
LEMMA KeptSteps ==
    ASSUME NEW global \in Seq(Reservation), NEW v, NEW taken
    PROVE  LET g == Kept(global, v, taken)
           IN  /\ g[0] = <<>>
               /\ \A i \in 0..Len(global) : g[i] \in Seq(Reservation)
               /\ \A i \in 1..Len(global) : g[i] = KeepStep(g[i - 1], global, i, v, taken)
<1> DEFINE n == Len(global)
           S == Seq(Reservation)
           D == [i \in 1..n |-> [s \in S |-> KeepStep(s, global, i, v, taken)]]
<1>0. n \in Nat /\ \A i \in 1..n : global[i] \in Reservation
  OBVIOUS
<1>1. \A i \in 1..n : \A s \in S : KeepStep(s, global, i, v, taken) \in S
  <2> SUFFICES ASSUME NEW i \in 1..n, NEW s \in S PROVE KeepStep(s, global, i, v, taken) \in S
    OBVIOUS
  <2>1. Append(s, global[i]) \in S
    BY <1>0
  <2> QED
    BY <2>1 DEF KeepStep
<1>2. <<>> \in S
  OBVIOUS
<1> HIDE DEF S
<1>3. \A i \in 1..n : \A s \in S : D[i][s] = KeepStep(s, global, i, v, taken)
  OBVIOUS
<1>4. PICK f : Iterates(f, n, S, D, <<>>)
  BY <1>0, <1>1, <1>2, <1>3, CanIterate
<1>5. f \in [0..n -> S] /\ f[0] = <<>> /\ \A i \in 1..n : f[i] = D[i][f[i - 1]]
  BY <1>4 DEF Iterates
<1>6. \A i \in 1..n : i - 1 \in 0..n /\ f[i] = KeepStep(f[i - 1], global, i, v, taken)
  BY <1>0, <1>3, <1>5
<1>7. f = [i \in 0..n |-> IF i = 0 THEN <<>> ELSE KeepStep(f[i - 1], global, i, v, taken)]
  <2>1. \A i \in 0..n : f[i] = IF i = 0 THEN <<>> ELSE KeepStep(f[i - 1], global, i, v, taken)
    BY <1>0, <1>5, <1>6
  <2> QED
    BY <1>5, <2>1
<1>8. Keeps(f, global, v, taken)
  BY <1>7 DEF Keeps, KeepStep
<1> DEFINE g == Kept(global, v, taken)
<1>9. Keeps(g, global, v, taken)
  BY <1>8, KeptChosen
<1> HIDE DEF g
<1>10. g = [i \in 0..n |-> IF i = 0 THEN <<>> ELSE KeepStep(g[i - 1], global, i, v, taken)]
  BY <1>9 DEF Keeps, KeepStep
<1>11. g[0] = <<>> /\ \A i \in 1..n : g[i] = KeepStep(g[i - 1], global, i, v, taken)
  BY <1>0, <1>10
<1> DEFINE T == {i \in 0..n : g[i] \notin S}
<1>12. T = {}
  <2>1. SUFFICES ASSUME T # {} PROVE FALSE
    BY <2>1
  <2>2. T \in SUBSET Nat
    OBVIOUS
  <2>3. PICK m \in T : \A k \in T : m <= k
    BY <2>1, <2>2, Least
  <2>4. m \in 1..n /\ m - 1 \in 0..n /\ m - 1 \notin T
    BY <1>2, <1>11, <2>3
  <2>5. g[m] \in S
    BY <1>1, <1>11, <2>4
  <2> QED
    BY <2>3, <2>5
<1> QED
  BY <1>11, <1>12 DEF g, S

\* The book b after i rounds: of the first i global reservations only the kept
\* ones are left, the others are as they were.
AfterRounds(b, was, kept, i) ==
    /\ b.evse = was.evse
    /\ Len(b.global) = Len(kept) + (Len(was.global) - i)
    /\ \A k \in 1..Len(kept) : b.global[k] = kept[k]
    /\ \A k \in 1..(Len(was.global) - i) : b.global[Len(kept) + k] = was.global[i + k]

\* A round in which the reservation is kept.
LEMMA RoundKeeps ==
    ASSUME NEW b, NEW was, NEW kept \in Seq(Reservation), NEW i \in 1..Len(was.global),
           was.global \in Seq(Reservation), AfterRounds(b, was, kept, i - 1)
    PROVE  AfterRounds(b, was, Append(kept, was.global[i]), i)
<1> DEFINE r == was.global[i]
           more == Append(kept, r)
           n == Len(was.global)
<1>1. /\ Len(kept) \in Nat /\ n \in Nat /\ Len(more) = Len(kept) + 1
      /\ more[Len(kept) + 1] = r /\ \A k \in 1..Len(kept) : more[k] = kept[k]
  OBVIOUS
<1>2. Len(b.global) = Len(more) + (n - i)
  <2>1. Len(b.global) = Len(kept) + (n - (i - 1))
    BY DEF AfterRounds
  <2>2. i \in Int /\ n - (i - 1) = 1 + (n - i)
    BY <1>1
  <2> HIDE DEF more, n
  <2> QED
    BY <1>1, <2>1, <2>2
<1>3. b.global[Len(kept) + 1] = r
  <2>1. 1 \in 1..(n - (i - 1)) /\ (i - 1) + 1 = i
    BY <1>1
  <2> QED
    BY <2>1 DEF AfterRounds
<1>4. \A k \in 1..Len(more) : b.global[k] = more[k]
  <2> SUFFICES ASSUME NEW k \in 1..Len(more) PROVE b.global[k] = more[k]
    OBVIOUS
  <2>1. CASE k = Len(kept) + 1
    BY <1>1, <1>3, <2>1
  <2>2. CASE k # Len(kept) + 1
    BY <1>1, <2>2 DEF AfterRounds
  <2> QED
    BY <2>1, <2>2
<1>5. \A k \in 1..(n - i) : b.global[Len(more) + k] = was.global[i + k]
  <2> SUFFICES ASSUME NEW k \in 1..(n - i) PROVE b.global[Len(more) + k] = was.global[i + k]
    OBVIOUS
  <2>1. k + 1 \in 1..(n - (i - 1)) /\ (i - 1) + (k + 1) = i + k /\ Len(kept) + (k + 1) = Len(more) + k
    BY <1>1
  <2>2. b.global[Len(kept) + (k + 1)] = was.global[(i - 1) + (k + 1)]
    BY <2>1 DEF AfterRounds
  <2> QED
    BY <2>1, <2>2
<1> HIDE DEF more
<1>6. AfterRounds(b, was, more, i)
  BY <1>2, <1>4, <1>5 DEF AfterRounds
<1> QED
  BY <1>6 DEF more

\* A round in which it is cancelled.
LEMMA RoundCancels ==
    ASSUME NEW b, BookOK(b), NEW was, NEW kept \in Seq(Reservation), NEW i \in 1..Len(was.global),
           was.global \in Seq(Reservation), AfterRounds(b, was, kept, i - 1)
    PROVE  AfterRounds(cancel_reservation(b, was.global[i].id), was, kept, i)
<1> DEFINE id == was.global[i].id
           c == cancel_reservation(b, id)
           n == Len(was.global)
           m == Len(kept) + 1
<1>1. id \in Ids /\ n \in Nat /\ Len(kept) \in Nat
  BY HasId
<1>2. CancelEffect(b, c, id)
  BY <1>1, CancelIs
<1>3. b \in BookType /\ Once(b) /\ b.global \in Seq(Reservation) /\ DOMAIN b.global = 1..Len(b.global)
  BY DEF BookOK, BookType
<1>4. m \in DOMAIN b.global /\ b.global[m].id = id
  <2>1. 1 \in 1..(n - (i - 1)) /\ (i - 1) + 1 = i
    BY <1>1
  <2>2. m \in 1..Len(b.global)
    BY <1>1 DEF AfterRounds
  <2> QED
    BY <1>3, <2>1, <2>2 DEF AfterRounds
<1>5. id \in b.timer
  BY <1>3, <1>4, HeldId DEF Once
<1>6. \A e \in Taken(b) : b.evse[e].id # id
  BY <1>3, <1>4 DEF Once
<1>7. \A k \in DOMAIN b.global : b.global[k].id = id => k = m
  BY <1>3, <1>4 DEF Once
<1> HIDE DEF c, id
<1>8. c.evse = b.evse /\ c.global = Dropped(b.global, m)
  BY <1>2, <1>5, <1>6, <1>7 DEF CancelEffect
<1>9. /\ Len(c.global) = Len(b.global) - 1 /\ DOMAIN c.global = 1..(Len(b.global) - 1)
      /\ \A k \in DOMAIN c.global : c.global[k] = IF k < m THEN b.global[k] ELSE b.global[k + 1]
  <2> DEFINE d == Dropped(b.global, m)
  <2>1. /\ Len(d) = Len(b.global) - 1 /\ DOMAIN d = 1..(Len(b.global) - 1)
        /\ \A k \in DOMAIN d : d[k] = IF k < m THEN b.global[k] ELSE b.global[k + 1]
    BY <1>3, <1>4, DroppedFacts
  <2> QED
    BY <1>8, <2>1
<1>10. Len(b.global) = Len(kept) + (n - (i - 1))
  BY DEF AfterRounds
<1>11. \A k \in 1..Len(kept) : c.global[k] = kept[k]
  <2> SUFFICES ASSUME NEW k \in 1..Len(kept) PROVE c.global[k] = kept[k]
    OBVIOUS
  <2>1. k \in DOMAIN c.global /\ k < m
    BY <1>1, <1>9, <1>10
  <2>2. b.global[k] = kept[k]
    BY DEF AfterRounds
  <2> QED
    BY <1>9, <2>1, <2>2
<1>12. \A k \in 1..(n - i) : c.global[Len(kept) + k] = was.global[i + k]
  <2> SUFFICES ASSUME NEW k \in 1..(n - i) PROVE c.global[Len(kept) + k] = was.global[i + k]
    OBVIOUS
  <2>1. /\ k + 1 \in 1..(n - (i - 1)) /\ (i - 1) + (k + 1) = i + k
        /\ Len(kept) + k \in DOMAIN c.global /\ ~(Len(kept) + k < m)
        /\ (Len(kept) + k) + 1 = Len(kept) + (k + 1)
    BY <1>1, <1>9, <1>10
  <2>2. b.global[Len(kept) + (k + 1)] = was.global[(i - 1) + (k + 1)]
    BY <2>1 DEF AfterRounds
  <2> QED
    BY <1>9, <2>1, <2>2
<1>13. AfterRounds(c, was, kept, i)
  <2>1. Len(c.global) = Len(kept) + (n - i)
    BY <1>1, <1>9, <1>10
  <2>2. c.evse = was.evse
    BY <1>8 DEF AfterRounds
  <2> QED
    BY <1>11, <1>12, <2>1, <2>2 DEF AfterRounds
<1> QED
  BY <1>13 DEF c, id

\* The types after one more reservation.
LEMMA TypesOfAppend ==
    ASSUME NEW s \in Seq(Reservation), NEW r \in Reservation
    PROVE  TypesOf(Append(s, r)) = Append(TypesOf(s), TypeOf(r))
<1>1. /\ DOMAIN Append(s, r) = 1..(Len(s) + 1) /\ DOMAIN s = 1..Len(s) /\ Len(s) \in Nat
      /\ Append(s, r)[Len(s) + 1] = r /\ \A i \in 1..Len(s) : Append(s, r)[i] = s[i]
  OBVIOUS
<1>2. TypesOf(s) \in Seq(Types) /\ Len(TypesOf(s)) = Len(s) /\ \A i \in 1..Len(s) : TypesOf(s)[i] = TypeOf(s[i])
  BY TypesType
<1> DEFINE a == Append(TypesOf(s), TypeOf(r))
<1>a. TypeOf(r) \in Types
  BY ReservationAssumption DEF TypeOf, Reservation
<1>b. a \in Seq(Types) /\ Len(a) = Len(s) + 1 /\ a[Len(s) + 1] = TypeOf(r)
  BY <1>2, <1>a
<1>c. \A i \in 1..Len(s) : a[i] = TypesOf(s)[i]
  BY <1>2, <1>a
<1>3. /\ DOMAIN a = 1..(Len(s) + 1) /\ a[Len(s) + 1] = TypeOf(r)
      /\ \A i \in 1..Len(s) : a[i] = TypeOf(s[i])
  BY <1>1, <1>2, <1>b, <1>c
<1>4. \A i \in 1..(Len(s) + 1) : a[i] = TypeOf(Append(s, r)[i])
  <2> SUFFICES ASSUME NEW i \in 1..(Len(s) + 1) PROVE a[i] = TypeOf(Append(s, r)[i])
    OBVIOUS
  <2>1. CASE i = Len(s) + 1
    BY <1>1, <1>3, <2>1
  <2>2. CASE i # Len(s) + 1
    BY <1>1, <1>3, <2>2
  <2> QED
    BY <2>1, <2>2
<1> HIDE DEF a
<1>5. a = [i \in DOMAIN a |-> a[i]]
  <2>1. PICK n \in Nat : a \in [1..n -> Types]
    BY <1>b DEF Seq
  <2> QED
    BY <2>1
<1>6. TypesOf(Append(s, r)) = a
  BY <1>1, <1>3, <1>4, <1>5 DEF TypesOf
<1> QED
  BY <1>6 DEF a

\* The global reservations that have a type fit: whichever of them are looked
\* at, in whatever order, they are extendable.
TypedAmong(some, global, q) ==
    Among(some, TypesOf(global), q) /\ \A i \in DOMAIN some : global[q[i]].type # None
Fit(v, global, taken) ==
    \A some \in Seq(Types) : \A q : TypedAmong(some, global, q) => Extendable(v, some, taken)

\* All together are extendable: then those with a type fit.
LEMMA ExtendableFit ==
    ASSUME NEW v, NEW global \in Seq(Reservation), NEW taken, Extendable(v, TypesOf(global), taken)
    PROVE  Fit(v, global, taken)
<1> SUFFICES ASSUME NEW some \in Seq(Types), NEW q, TypedAmong(some, global, q)
             PROVE  Extendable(v, some, taken)
  BY DEF Fit
<1>1. TypesOf(global) \in Seq(Types)
  BY TypesType
<1>2. Among(some, TypesOf(global), q)
  BY DEF TypedAmong
<1> QED
  BY <1>1, <1>2, StillExtendable

\* All have a type and those with a type fit: then all together are extendable.
LEMMA FitExtendable ==
    ASSUME NEW v, NEW global \in Seq(Reservation), NEW taken, Fit(v, global, taken),
           \A i \in DOMAIN global : global[i].type # None
    PROVE  Extendable(v, TypesOf(global), taken)
<1> DEFINE types == TypesOf(global)
           q == [i \in DOMAIN types |-> i]
<1>1. types \in Seq(Types) /\ DOMAIN types = DOMAIN global
  BY TypesType
<1>2. TypedAmong(types, global, q)
  BY <1>1 DEF TypedAmong, Among
<1> QED
  BY <1>1, <1>2 DEF Fit

\* The new list has only reservations of the old one, each no more often.
Within(some, global, p) ==
    /\ p \in [DOMAIN some -> DOMAIN global]
    /\ \A i \in DOMAIN some : some[i] = global[p[i]]
    /\ \A i, j \in DOMAIN some : p[i] = p[j] => i = j

\* Fewer reservations and no fewer EVSEs: those with a type still fit.
LEMMA StillFit ==
    ASSUME NEW v, NEW global \in Seq(Reservation), NEW taken, Fit(v, global, taken),
           NEW u, NEW less \in Seq(Reservation), NEW left, NEW p, Within(less, global, p),
           \A e \in Evses : Available(v, e, taken) => Available(u, e, left)
    PROVE  Fit(u, less, left)
<1> SUFFICES ASSUME NEW some \in Seq(Types), NEW q, TypedAmong(some, less, q)
             PROVE  Extendable(u, some, left)
  BY DEF Fit
<1> DEFINE pq == [i \in DOMAIN some |-> p[q[i]]]
           id == [i \in DOMAIN some |-> i]
<1>1. /\ DOMAIN TypesOf(global) = DOMAIN global /\ DOMAIN TypesOf(less) = DOMAIN less
      /\ \A i \in DOMAIN global : TypesOf(global)[i] = TypeOf(global[i])
      /\ \A i \in DOMAIN less : TypesOf(less)[i] = TypeOf(less[i])
  BY DEF TypesOf
<1>2. /\ q \in [DOMAIN some -> DOMAIN less]
      /\ \A i \in DOMAIN some : some[i] = TypeOf(less[q[i]]) /\ less[q[i]].type # None
      /\ \A i, j \in DOMAIN some : q[i] = q[j] => i = j
  BY <1>1 DEF TypedAmong, Among
<1>3. \A i \in DOMAIN some : pq[i] \in DOMAIN global /\ less[q[i]] = global[pq[i]]
  BY <1>2 DEF Within
<1>4. \A i, j \in DOMAIN some : pq[i] = pq[j] => i = j
  BY <1>2 DEF Within
<1>5. pq \in [DOMAIN some -> DOMAIN global]
  BY <1>3
<1> HIDE DEF pq
<1>6. TypedAmong(some, global, pq)
  BY <1>1, <1>2, <1>3, <1>4, <1>5 DEF TypedAmong, Among
<1>7. Extendable(v, some, taken)
  BY <1>6 DEF Fit
<1>8. Among(some, some, id)
  BY DEF Among
<1> HIDE DEF id
<1> QED
  BY <1>7, <1>8, StillExtendable

\* One more reservation that has no type does not matter.
LEMMA UntypedFit ==
    ASSUME NEW v, NEW global \in Seq(Reservation), NEW taken, Fit(v, global, taken),
           NEW r \in Reservation, r.type = None
    PROVE  Fit(v, Append(global, r), taken)
<1> DEFINE more == Append(global, r)
           n == Len(global)
<1> SUFFICES ASSUME NEW some \in Seq(Types), NEW q, TypedAmong(some, more, q)
             PROVE  Extendable(v, some, taken)
  BY DEF Fit
<1>1. /\ n \in Nat /\ DOMAIN global = 1..n /\ DOMAIN more = 1..(n + 1) /\ more[n + 1] = r
      /\ \A i \in 1..n : more[i] = global[i]
  OBVIOUS
<1> HIDE DEF more
<1>2. /\ DOMAIN TypesOf(global) = 1..n /\ DOMAIN TypesOf(more) = 1..(n + 1)
      /\ \A i \in 1..n : TypesOf(global)[i] = TypeOf(global[i])
      /\ \A i \in 1..(n + 1) : TypesOf(more)[i] = TypeOf(more[i])
  BY <1>1 DEF TypesOf
<1>3. /\ q \in [DOMAIN some -> 1..(n + 1)]
      /\ \A i \in DOMAIN some : some[i] = TypesOf(more)[q[i]] /\ more[q[i]].type # None
      /\ \A i, j \in DOMAIN some : q[i] = q[j] => i = j
  BY <1>2 DEF TypedAmong, Among
<1>4. \A i \in DOMAIN some : q[i] \in 1..(n + 1) /\ q[i] # n + 1
  BY <1>1, <1>3
<1>5. \A i \in 1..(n + 1) : i # n + 1 => i \in 1..n
  BY <1>1
<1>6. \A i \in DOMAIN some : q[i] \in 1..n
  BY <1>4, <1>5
<1>7. q \in [DOMAIN some -> 1..n]
  BY <1>3, <1>6
<1>8. \A i \in DOMAIN some : some[i] = TypesOf(global)[q[i]] /\ global[q[i]].type # None
  <2> SUFFICES ASSUME NEW i \in DOMAIN some
               PROVE  some[i] = TypesOf(global)[q[i]] /\ global[q[i]].type # None
    OBVIOUS
  <2>1. q[i] \in 1..n /\ q[i] \in 1..(n + 1)
    BY <1>4, <1>6
  <2>2. more[q[i]] = global[q[i]]
    BY <1>1, <2>1
  <2>3. TypesOf(more)[q[i]] = TypeOf(more[q[i]]) /\ TypesOf(global)[q[i]] = TypeOf(global[q[i]])
    BY <1>2, <2>1
  <2> QED
    BY <1>3, <2>2, <2>3
<1>9. TypedAmong(some, global, q)
  BY <1>2, <1>3, <1>7, <1>8 DEF TypedAmong, Among
<1> QED
  BY <1>9 DEF Fit

\* Of the reservations that are kept, those with a type fit.
LEMMA KeptFit ==
    ASSUME NEW global \in Seq(Reservation), NEW v, NEW taken \in SUBSET Evses, NEW i \in 0..Len(global)
    PROVE  Fit(v, Kept(global, v, taken)[i], taken)
<1> DEFINE g == Kept(global, v, taken)
           n == Len(global)
           T == {k \in 0..n : ~Fit(v, g[k], taken)}
<1>1. /\ g[0] = <<>>
      /\ \A k \in 0..n : g[k] \in Seq(Reservation)
      /\ \A k \in 1..n : g[k] = KeepStep(g[k - 1], global, k, v, taken)
  BY KeptSteps
<1> HIDE DEF g
<1>2. T = {}
  <2>1. SUFFICES ASSUME T # {} PROVE FALSE
    BY <2>1
  <2>2. T \in SUBSET Nat
    OBVIOUS
  <2>3. PICK m \in T : \A k \in T : m <= k
    BY <2>1, <2>2, Least
  <2>4. m # 0
    <3>1. TypesOf(<<>>) = <<>> /\ <<>> \in Seq(Reservation)
      BY DEF TypesOf
    <3>2. Extendable(v, TypesOf(<<>>), taken)
      BY <3>1, NoneExtendable
    <3>3. Fit(v, g[0], taken)
      BY <1>1, <3>1, <3>2, ExtendableFit
    <3> QED
      BY <2>3, <3>3
  <2>5. m \in 1..n /\ m - 1 \in 0..n /\ m - 1 \notin T
    BY <2>3, <2>4
  <2> DEFINE s == g[m - 1]
             r == global[m]
  <2>6. s \in Seq(Reservation) /\ r \in Reservation /\ Fit(v, s, taken)
    BY <1>1, <2>5
  <2>7. g[m] = KeepStep(s, global, m, v, taken)
    BY <1>1, <2>5
  <2>8. CASE g[m] = s
    BY <2>3, <2>6, <2>8
  <2>9. CASE g[m] # s
    <3>1. g[m] = Append(s, r) /\ is_reservation_possible(v, AndAlso(TypesOf(s), r.type), taken)
      BY <2>7, <2>9 DEF KeepStep
    <3>2. CASE r.type = None
      <4>1. Fit(v, Append(s, r), taken)
        BY <2>6, <3>2, UntypedFit
      <4> QED
        BY <2>3, <3>1, <4>1
    <3>3. CASE r.type # None
      <4>1. TypeOf(r) = r.type /\ AndAlso(TypesOf(s), r.type) = TypesOf(Append(s, r))
        BY <2>6, <3>3, TypesOfAppend DEF TypeOf, AndAlso
      <4>2. Append(s, r) \in Seq(Reservation)
        BY <2>6
      <4>3. TypesOf(Append(s, r)) \in Seq(Types)
        BY <4>2, TypesType
      <4>4. Extendable(v, TypesOf(Append(s, r)), taken)
        BY <3>1, <4>1, <4>3, PossibleMeansExtendable
      <4>5. Fit(v, Append(s, r), taken)
        BY <4>2, <4>4, ExtendableFit
      <4> QED
        BY <2>3, <3>1, <4>5
    <3> QED
      BY <3>2, <3>3
  <2> QED
    BY <2>8, <2>9
<1> QED
  BY <1>2 DEF g

\* check_reservations_and_cancel_if_not_possible leaves global reservations
\* of which those with a type fit.
LEMMA CheckFits ==
    ASSUME NEW w \in WorldType, BookOK(w.book), NEW v
    PROVE  LET x == check_reservations_and_cancel_if_not_possible(w, v).book
           IN  Fit(v, x.global, Taken(x))
<1> DEFINE b == w.book
           n == Len(b.global)
           kept == Kept(b.global, v, Taken(b))
<1>0. b.global \in Seq(Reservation) /\ n \in Nat /\ DOMAIN b.global = 1..n /\ Taken(b) \in SUBSET Evses
  BY DEF BookOK, BookType, Taken
<1>1. PICK g : /\ g[0] = w
               /\ \A i \in 1..n : g[i] = IF kept[i] # kept[i - 1] THEN g[i - 1]
                                         ELSE CancelAndTell(g[i - 1], v, b.global[i].id)
               /\ check_reservations_and_cancel_if_not_possible(w, v) = g[n]
  BY LoopExists
<1>2. /\ kept[0] = <<>>
      /\ \A i \in 0..n : kept[i] \in Seq(Reservation)
      /\ \A i \in 1..n : kept[i] = KeepStep(kept[i - 1], b.global, i, v, Taken(b))
  BY <1>0, KeptSteps
<1>3. \A i \in 1..n : b.global[i].id \in Ids
  BY <1>0, HasId
<1>4. Fit(v, kept[n], Taken(b))
  BY <1>0, KeptFit
<1> HIDE DEF kept, b
<1> DEFINE P(i) == /\ g[i] \in WorldType /\ BookOK(g[i].book)
                   /\ AfterRounds(g[i].book, b, kept[i], i)
           T == {i \in 0..n : ~P(i)}
<1>5. P(0)
  <2>1. AfterRounds(b, b, <<>>, 0)
    BY <1>0 DEF AfterRounds
  <2> QED
    BY <1>1, <1>2, <2>1 DEF b
<1>6. ASSUME NEW i \in 1..n, P(i - 1) PROVE P(i)
  <2> DEFINE c == g[i - 1].book
  <2>1. i - 1 \in 0..n /\ kept[i - 1] \in Seq(Reservation) /\ kept[i] = KeepStep(kept[i - 1], b.global, i, v, Taken(b))
    BY <1>0, <1>2
  <2>2. CASE kept[i] # kept[i - 1]
    <3>1. g[i] = g[i - 1] /\ kept[i] = Append(kept[i - 1], b.global[i])
      BY <1>1, <2>1, <2>2 DEF KeepStep
    <3>2. AfterRounds(c, b, Append(kept[i - 1], b.global[i]), i)
      BY <1>0, <1>6, <2>1, RoundKeeps
    <3> QED
      BY <1>6, <3>1, <3>2
  <2>3. CASE kept[i] = kept[i - 1]
    <3> DEFINE id == b.global[i].id
    <3>1. g[i] = CancelAndTell(g[i - 1], v, id)
      BY <1>1, <2>3
    <3>2. AfterRounds(cancel_reservation(c, id), b, kept[i - 1], i)
      BY <1>0, <1>6, <2>1, RoundCancels
    <3>3. id \in Ids
      BY <1>3
    <3> HIDE DEF id
    <3>4. g[i] \in WorldType /\ g[i].book = cancel_reservation(c, id)
      BY <1>6, <3>1, <3>3, CancelAndTellOK
    <3>5. BookOK(cancel_reservation(c, id))
      BY <1>6, <3>3, CancelOK
    <3> QED
      BY <2>3, <3>2, <3>4, <3>5
  <2> QED
    BY <2>2, <2>3
<1> HIDE DEF P
<1>7. T = {}
  <2>1. SUFFICES ASSUME T # {} PROVE FALSE
    BY <2>1
  <2>2. T \in SUBSET Nat
    OBVIOUS
  <2>3. PICK m \in T : \A k \in T : m <= k
    BY <2>1, <2>2, Least
  <2>4. m \in 1..n /\ m - 1 \in 0..n /\ m - 1 \notin T
    BY <1>5, <2>3
  <2>5. P(m)
    BY <1>6, <2>4
  <2> QED
    BY <2>3, <2>5
<1>8. P(n)
  BY <1>0, <1>7
<1> DEFINE x == g[n].book
<1>9. BookOK(x) /\ AfterRounds(x, b, kept[n], n)
  BY <1>8 DEF P
<1> HIDE DEF x
<1>10. x.global \in Seq(Reservation) /\ kept[n] \in Seq(Reservation)
  BY <1>0, <1>2, <1>9 DEF BookOK, BookType
<1>11. Len(x.global) = Len(kept[n]) /\ \A k \in 1..Len(kept[n]) : x.global[k] = kept[n][k]
  BY <1>0, <1>9, <1>10 DEF AfterRounds
<1>12. x.global = kept[n]
  BY <1>10, <1>11
<1>13. Taken(x) = Taken(b)
  BY <1>9 DEF AfterRounds, Taken
<1> QED
  BY <1>1, <1>4, <1>9, <1>12, <1>13 DEF x, b

-----------------------------------------------------------------------------
(* GlobalsCanBeHonoured.                                                   *)

\* What Auth would know if the cars that are plugged in and have not started
\* their transactions were gone: SessionStarted is not followed by a check.
Free(v) == [e \in Evses |-> [v[e] EXCEPT !.plugged_in = FALSE]]
Honoured(b, v) == Fit(Free(v), b.global, Taken(b))

\* Then only the connector and the reservation of the EVSE matter.
LEMMA FreeAvailable ==
    ASSUME NEW v \in [Evses -> ViewType], NEW e \in Evses, NEW taken
    PROVE  /\ Available(Free(v), e, taken) <=> v[e].connector = "AVAILABLE" /\ e \notin taken
           /\ Available(v, e, taken) => Available(Free(v), e, taken)
<1>1. Free(v)[e].connector = v[e].connector /\ Free(v)[e].plugged_in = FALSE
  BY DEF Free, ViewType
<1> QED
  BY <1>1 DEF Available, get_evse_connector_state_reservation_result

\* What fits fits without the plugged-in cars.
LEMMA FitHonoured ==
    ASSUME NEW b, b.global \in Seq(Reservation), NEW v \in [Evses -> ViewType], Fit(v, b.global, Taken(b))
    PROVE  Honoured(b, v)
<1> DEFINE p == [i \in DOMAIN b.global |-> i]
<1>1. Within(b.global, b.global, p)
  BY DEF Within
<1>2. \A e \in Evses : Available(v, e, Taken(b)) => Available(Free(v), e, Taken(b))
  BY FreeAvailable
<1> HIDE DEF p
<1> QED
  BY <1>1, <1>2, StillFit DEF Honoured

\* Nothing new at the EVSEs that have no reservation of their own but
\* connectors that become available, and the same reservations.
LEMMA HonouredStays ==
    ASSUME NEW b, b.global \in Seq(Reservation), NEW v \in [Evses -> ViewType], Honoured(b, v),
           NEW u \in [Evses -> ViewType],
           \A e \in Evses \ Taken(b) : v[e].connector = "AVAILABLE" => u[e].connector = "AVAILABLE"
    PROVE  Honoured(b, u)
<1> DEFINE p == [i \in DOMAIN b.global |-> i]
<1>1. Within(b.global, b.global, p)
  BY DEF Within
<1>2. \A e \in Evses : Available(Free(v), e, Taken(b)) => Available(Free(u), e, Taken(b))
  BY FreeAvailable
<1> HIDE DEF p
<1> QED
  BY <1>1, <1>2, StillFit DEF Honoured

\* cancel_reservation, likewise.
LEMMA CancelHonoured ==
    ASSUME NEW b, BookOK(b), NEW id \in Ids, NEW v \in [Evses -> ViewType], Honoured(b, v)
    PROVE  Honoured(cancel_reservation(b, id), v)
<1> DEFINE c == cancel_reservation(b, id)
<1>1. CancelEffect(b, c, id) /\ c \in BookType
  BY CancelIs
<1>2. b.global \in Seq(Reservation) /\ b.evse \in Maps /\ c.global \in Seq(Reservation)
  BY <1>1 DEF BookOK, BookType
<1> HIDE DEF c
<1>3. CASE c = b
  BY <1>3 DEF c
<1>4. ASSUME Taken(c) \subseteq Taken(b), NEW p, Within(c.global, b.global, p) PROVE Honoured(c, v)
  <2>1. \A e \in Evses : Available(Free(v), e, Taken(b)) => Available(Free(v), e, Taken(c))
    BY <1>4, FreeAvailable
  <2> QED
    BY <1>2, <1>4, <2>1, StillFit DEF Honoured
<1>5. ASSUME NEW e \in Taken(b), c.evse = [b.evse EXCEPT ![e] = None], c.global = b.global
      PROVE  Honoured(c, v)
  <2> DEFINE p == [i \in DOMAIN b.global |-> i]
  <2>1. Taken(c) \subseteq Taken(b)
    BY <1>2, <1>5 DEF Taken, Maps
  <2>2. Within(c.global, b.global, p)
    BY <1>5 DEF Within
  <2> HIDE DEF p
  <2> QED
    BY <1>4, <2>1, <2>2
<1>6. ASSUME NEW k \in DOMAIN b.global, c.evse = b.evse, c.global = Dropped(b.global, k)
      PROVE  Honoured(c, v)
  <2> DEFINE d == Dropped(b.global, k)
             p == [i \in DOMAIN d |-> IF i < k THEN i ELSE i + 1]
             n == Len(b.global)
  <2>1. DOMAIN d = 1..(n - 1) /\ \A i \in DOMAIN d : d[i] = IF i < k THEN b.global[i] ELSE b.global[i + 1]
    BY <1>2, <1>6, DroppedFacts
  <2>2. n \in Nat /\ DOMAIN b.global = 1..n /\ k \in 1..n
    BY <1>2
  <2> HIDE DEF d
  <2>3. \A i \in DOMAIN d : p[i] \in DOMAIN b.global /\ d[i] = b.global[p[i]]
    BY <2>1, <2>2
  <2>4. \A i, j \in DOMAIN d : p[i] = p[j] => i = j
    BY <2>1, <2>2
  <2>5. p \in [DOMAIN d -> DOMAIN b.global]
    BY <2>3
  <2> HIDE DEF p
  <2>6. Within(d, b.global, p)
    BY <2>3, <2>4, <2>5 DEF Within
  <2>7. Taken(c) = Taken(b)
    BY <1>6 DEF Taken
  <2> QED
    BY <1>4, <1>6, <2>6, <2>7 DEF d
<1>7. Honoured(c, v)
  BY <1>1, <1>3, <1>5, <1>6 DEF CancelEffect
<1> QED
  BY <1>7 DEF c

\* make_reservation: what is accepted can be honoured with the rest.
LEMMA MakeHonoured ==
    ASSUME NEW b, BookOK(b), NEW v \in [Evses -> ViewType], Honoured(b, v),
           NEW r \in Reservation, NEW late \in BOOLEAN
    PROVE  Honoured(make_reservation(b, v, r, late).book, v)
<1> DEFINE c == cancel_reservation(b, r.id)
           ok == ~late /\ Acceptable(c, v, r)
           d == store_reservations([Added(c, r) EXCEPT !.timer = @ \cup {r.id}, !.armed = @ \cup {r.id}])
<1>1. r.id \in Ids /\ r.evse \in Evses \cup {None}
  BY DEF Reservation
<1>2. BookOK(c) /\ r.id \notin HeldIds(c) /\ Honoured(c, v)
  BY <1>1, CancelOK, CancelHonoured
<1>3. make_reservation(b, v, r, late) = [ok |-> ok, book |-> IF ok THEN d ELSE IF late THEN b ELSE c]
  BY DEF make_reservation, Added
<1>4. c \in BookType /\ c.global \in Seq(Reservation) /\ c.evse \in Maps /\ Taken(c) \in SUBSET Evses
  BY <1>2 DEF BookOK, BookType, Taken
<1> HIDE DEF c
<1>5. ASSUME ok PROVE Honoured(d, v)
  <2>1. r.evse # None => c.evse[r.evse] = None
    BY <1>1, <1>5 DEF Acceptable, CanArriveAt, get_evse_connector_state_reservation_result, Taken
  <2>2. BookOK(d) /\ d.evse = Added(c, r).evse /\ d.global = Added(c, r).global
    BY <1>2, <2>1, AddOK
  <2>3. d.global \in Seq(Reservation)
    BY <2>2 DEF BookOK, BookType
  <2> HIDE DEF d
  <2>4. CASE r.evse = None
    <3>1. d.evse = c.evse /\ d.global = Append(c.global, r)
      BY <1>4, <2>2, <2>4 DEF Added, BookType
    <3>2. Taken(d) = Taken(c)
      BY <3>1 DEF Taken
    <3>3. is_reservation_possible(v, TypesOf(d.global), Taken(d))
      BY <1>4, <1>5, <2>4, <3>1, <3>2, TypesOfAppend DEF Acceptable
    <3>4. Extendable(v, TypesOf(d.global), Taken(d))
      BY <1>4, <2>3, <3>2, <3>3, TypesType, PossibleMeansExtendable
    <3> QED
      BY <2>3, <3>4, ExtendableFit, FitHonoured
  <2>5. CASE r.evse # None
    <3>1. d.evse = [c.evse EXCEPT ![r.evse] = r] /\ d.global = c.global
      BY <1>4, <2>2, <2>5 DEF Added, BookType
    <3>2. r # None
      BY ReservationAssumption
    <3>3. Taken(d) = Taken(c) \cup {r.evse}
      BY <1>1, <1>4, <2>5, <3>1, <3>2 DEF Taken, Maps
    <3>4. Extendable(v, TypesOf(d.global), Taken(d))
      <4>1. CASE d.global = <<>>
        <5>1. TypesOf(d.global) = <<>>
          BY <4>1 DEF TypesOf
        <5> QED
          BY <5>1, NoneExtendable
      <4>2. CASE d.global # <<>>
        <5>1. is_reservation_possible(v, TypesOf(d.global), Taken(d))
          BY <1>5, <2>5, <3>1, <3>3, <4>2 DEF Acceptable
        <5>2. Taken(d) \in SUBSET Evses
          BY DEF Taken
        <5> QED
          BY <2>3, <5>1, <5>2, TypesType, PossibleMeansExtendable
      <4> QED
        BY <4>1, <4>2
    <3> QED
      BY <2>3, <3>4, ExtendableFit, FitHonoured
  <2> QED
    BY <2>4, <2>5
<1> HIDE DEF ok, d
<1> QED
  BY <1>2, <1>3, <1>5

\* on_connector_state_changed, after an event that changed what Auth knows of e
\* from v to u.
LEMMA ConnectorHonoured ==
    ASSUME NEW w \in WorldType, BookOK(w.book), NEW e \in Evses,
           NEW v \in [Evses -> ViewType], NEW u \in [Evses -> ViewType], Honoured(w.book, v),
           \A f \in Evses \ {e} : u[f] = v[f]
    PROVE  Honoured(on_connector_state_changed(w, u, e).book, u)
<1> DEFINE r == w.book.evse[e]
<1>0. w.book.global \in Seq(Reservation) /\ w.book.evse \in Maps
  BY DEF BookOK, BookType
<1>1. CASE u[e].connector = "AVAILABLE"
  <2>1. on_connector_state_changed(w, u, e).book = w.book
    BY <1>1 DEF on_connector_state_changed
  <2> QED
    BY <1>0, <1>1, <2>1, HonouredStays
<1>2. CASE u[e].connector # "AVAILABLE" /\ r # None /\ r.type # None /\ has_evse_connector_type(e, r.type)
  <2>1. on_connector_state_changed(w, u, e) = CancelAndTell(w, u, r.id)
    BY <1>2 DEF on_connector_state_changed
  <2>2. r \in Reservation
    BY <1>0, <1>2 DEF Maps
  <2>3. r.id \in Ids
    BY <2>2 DEF Reservation
  <2>4. e \in Taken(w.book)
    BY <1>2 DEF Taken
  <2> HIDE DEF r
  <2>5. CancelAndTell(w, u, r.id).book = cancel_reservation(w.book, r.id)
    BY <2>3, CancelAndTellOK
  <2>6. Honoured(w.book, u)
    BY <1>0, <2>4, HonouredStays
  <2> QED
    BY <2>1, <2>3, <2>5, <2>6, CancelHonoured
<1>3. CASE u[e].connector # "AVAILABLE" /\ ~(r # None /\ r.type # None /\ has_evse_connector_type(e, r.type))
  <2> DEFINE x == check_reservations_and_cancel_if_not_possible(w, u)
  <2>1. on_connector_state_changed(w, u, e) = x
    BY <1>3 DEF on_connector_state_changed
  <2>2. BookOK(x.book) /\ Fit(u, x.book.global, Taken(x.book))
    BY CheckOK, CheckFits
  <2> HIDE DEF x
  <2>3. x.book.global \in Seq(Reservation)
    BY <2>2 DEF BookOK, BookType
  <2> QED
    BY <2>1, <2>2, <2>3, FitHonoured
<1> QED
  BY <1>1, <1>2, <1>3

\* handle_session_event.
LEMMA SessionEventHonoured ==
    ASSUME IInv, Honoured(book, seen), NEW e \in Evses, handle_session_event(e)
    PROVE  Honoured(book, seen)'
<1> DEFINE event == Head(em[e].out)
           v == [seen EXCEPT ![e] = View(@, event)]
           w == [World EXCEPT !.em[e].out = Tail(@)]
           check_reservations == event \in {"TransactionStarted", "SessionFinished", "Disabled", "Enabled"}
<1>1. /\ em \in [Evses -> EvseManagerType] /\ em[e] \in EvseManagerType
      /\ em[e].out \in Seq(Events) /\ em[e].out # <<>> /\ seen \in [Evses -> ViewType]
  BY DEF handle_session_event, IInv, TypeOK, EvseManagerType
<1>2. event \in Events /\ Tail(em[e].out) \in Seq(Events)
  BY <1>1
<1>3. w \in WorldType /\ w.book = book
  <2>1. [em[e] EXCEPT !.out = Tail(@)] \in EvseManagerType
    BY <1>1, <1>2 DEF EvseManagerType
  <2>2. [em EXCEPT ![e].out = Tail(@)] \in [Evses -> EvseManagerType]
    BY <1>1, <2>1
  <2>3. w = [World EXCEPT !.em = [em EXCEPT ![e].out = Tail(@)]]
    BY DEF World
  <2>4. World \in WorldType /\ World.book = book
    BY WorldNow
  <2> HIDE DEF w, World
  <2> QED
    BY <2>2, <2>3, <2>4 DEF WorldType
<1>4. v \in [Evses -> ViewType] /\ v[e] = View(seen[e], event) /\ \A f \in Evses \ {e} : v[f] = seen[f]
  BY <1>1, <1>2, ViewStays
<1>5. /\ seen' = v
      /\ book' = IF check_reservations THEN on_connector_state_changed(w, v, e).book
                 ELSE IF event = "ReservationEnd" /\ book.evse[e] # None
                 THEN CancelAndTell(w, v, book.evse[e].id).book
                 ELSE w.book
  BY DEF handle_session_event, Become
<1>6. BookOK(book) /\ book.global \in Seq(Reservation)
  BY BookNow DEF BookOK, BookType
<1>7. ~check_reservations => v[e].connector = seen[e].connector
  <2>1. seen[e] \in ViewType
    BY <1>1
  <2>2. ~check_reservations => event \in {"SessionStarted", "TransactionFinished", "Deauthorized", "ReservationEnd"}
    BY <1>2, EventNames
  <2> HIDE DEF event
  <2>3. event = "SessionStarted" => View(seen[e], event).connector = seen[e].connector
    BY <2>1 DEF View, ViewType
  <2>4. event \in {"TransactionFinished", "Deauthorized", "ReservationEnd"} => View(seen[e], event) = seen[e]
    BY DEF View
  <2> QED
    BY <1>4, <2>2, <2>3, <2>4
<1> HIDE DEF w, v, event
<1>8. CASE check_reservations
  <2>1. Honoured(on_connector_state_changed(w, v, e).book, v)
    BY <1>1, <1>3, <1>4, <1>6, ConnectorHonoured
  <2> QED
    BY <1>5, <1>8, <2>1 DEF Honoured
<1>9. CASE ~check_reservations
  <2>1. Honoured(book, v)
    BY <1>1, <1>4, <1>6, <1>7, <1>9, HonouredStays
  <2>2. book.evse[e] # None => book.evse[e] \in Reservation
    BY DEF IInv, TypeOK, BookType, Maps
  <2>3. book.evse[e] # None => book.evse[e].id \in Ids
    BY <2>2 DEF Reservation
  <2>4. book' = book \/ (book.evse[e] # None /\ book' = cancel_reservation(book, book.evse[e].id))
    BY <1>3, <1>5, <1>6, <1>9, <2>3, CancelAndTellOK
  <2>5. Honoured(book', v)
    BY <1>4, <1>6, <2>1, <2>3, <2>4, CancelHonoured
  <2> QED
    BY <1>5, <2>5 DEF Honoured
<1> QED
  BY <1>8, <1>9

\* load_reservations: what is made again can be honoured.
LEMMA LoadHonoured ==
    ASSUME IInv, Honoured(book, seen), NEW late \in BOOLEAN, load_reservations(late)
    PROVE  Honoured(book, seen)'
<1> DEFINE first == {e \in Evses : loading.evse[e] # None /\ \A f \in Evses : loading.evse[f] # None => e <= f}
           R == IF first # {} THEN {loading.evse[e] : e \in first}
                ELSE {loading.global[i] : i \in DOMAIN loading.global \cap {1}}
           made(r) == make_reservation(book, seen, r, late)
           w(r) == [World EXCEPT !.book = made(r).book]
           x(r) == IF made(r).ok THEN w(r) ELSE call_reservation_cancelled(w(r), seen, Evses \cap {r.evse})
<1>0. loading \in [evse: Maps, global: Seq(Reservation), done: BOOLEAN, again: SUBSET Ids]
  BY DEF IInv, TypeOK
<1>1. R \subseteq Reservation
  <2>1. \A e \in first : loading.evse[e] \in Reservation
    BY <1>0 DEF Maps
  <2>2. \A i \in DOMAIN loading.global : loading.global[i] \in Reservation
    BY <1>0
  <2> QED
    BY <2>1, <2>2
<1>2. PICK r \in R : Become(x(r))
  BY Zenon DEF load_reservations
<1>3. r \in Reservation /\ BookOK(book) /\ seen \in [Evses -> ViewType]
  BY <1>1, BookNow DEF IInv, TypeOK
<1>4. BookOK(made(r).book) /\ Honoured(made(r).book, seen)
  BY <1>3, MakeOK, MakeHonoured
<1> HIDE DEF made, R, first
<1>5. w(r) \in WorldType /\ w(r).book = made(r).book
  <2>1. World \in WorldType
    BY WorldNow
  <2> HIDE DEF World
  <2> QED
    BY <1>4, <2>1 DEF WorldType, BookOK
<1> HIDE DEF w
<1>6. x(r).book = made(r).book
  BY <1>5, TellOK
<1> HIDE DEF x
<1>7. book' = made(r).book /\ seen' = seen
  BY <1>2, <1>6 DEF load_reservations, Become
<1> QED
  BY <1>4, <1>7 DEF Honoured

\* Nothing is reserved in a book without reservations.
LEMMA EmptyHonoured ==
    ASSUME NEW b, b.global = <<>>, NEW v
    PROVE  Honoured(b, v)
<1>1. TypesOf(<<>>) = <<>> /\ <<>> \in Seq(Reservation)
  BY DEF TypesOf
<1>2. Extendable(Free(v), TypesOf(<<>>), Taken(b))
  BY <1>1, NoneExtendable
<1> QED
  BY <1>1, <1>2, ExtendableFit DEF Honoured

\* The steps that leave the reservations and what Auth knows of the EVSEs.
LEMMA SameHonoured ==
    ASSUME Honoured(book, seen), book'.global = book.global, book'.evse = book.evse, seen' = seen
    PROVE  Honoured(book, seen)'
BY DEF Honoured, Taken

\* Every step keeps the global reservations that have a type possible.
LEMMA NextHonoured ==
    ASSUME IInv, Honoured(book, seen), Next
    PROVE  Honoured(book, seen)'
<1>0. BookOK(book) /\ seen \in [Evses -> ViewType] /\ book \in BookType
  BY BookNow DEF IInv, TypeOK
<1>1. ASSUME NEW id \in Ids, book' = cancel_reservation(book, id), seen' = seen PROVE Honoured(book, seen)'
  <2>1. Honoured(cancel_reservation(book, id), seen)
    BY <1>0, CancelHonoured
  <2> QED
    BY <1>1, <2>1 DEF Honoured
<1>2. CASE \E r \in Requests : place_reservation(r)
  BY <1>2, SameHonoured DEF place_reservation
<1>3. CASE \E late \in BOOLEAN : handle_reservation(late)
  <2>1. PICK late \in BOOLEAN : handle_reservation(late)
    BY <1>3
  <2> DEFINE r == caller["place"].r
  <2>2. r \in Reservation
    <3>1. "place" \in Callers /\ caller["place"].pc = "make"
      BY <2>1 DEF Callers, handle_reservation
    <3>2. caller["place"].r # None
      BY <3>1 DEF IInv, CallersOK, HasReservation, WithReservation
    <3>3. caller["place"] \in CallerType
      BY <3>1 DEF IInv, TypeOK
    <3> QED
      BY <3>2, <3>3 DEF CallerType
  <2>3. book' = make_reservation(book, seen, r, late).book /\ seen' = seen
    BY <2>1 DEF handle_reservation
  <2> HIDE DEF r
  <2>4. Honoured(make_reservation(book, seen, r, late).book, seen)
    BY <1>0, <2>2, MakeHonoured
  <2> QED
    BY <2>3, <2>4 DEF Honoured
<1>4. CASE \E late \in BOOLEAN : load_reservations(late)
  BY <1>4, LoadHonoured
<1>5. ASSUME NEW t \in Callers, CallerStep(t) PROVE Honoured(book, seen)'
  <2>1. CASE cancel_replaced_if_dropped(t)
    BY <2>1, SameHonoured DEF cancel_replaced_if_dropped
  <2>2. CASE call_reserved(t)
    BY <2>2, SameHonoured DEF call_reserved
  <2>7. CASE reserve(t)
    BY <2>7, SameHonoured DEF reserve
  <2>3. CASE Undo(t)
    <3> DEFINE id == caller[t].r.id
    <3>1. caller[t] \in CallerType /\ caller[t].r # None
      BY <2>3 DEF Undo, IInv, TypeOK, CallersOK, HasReservation, WithReservation
    <3>2. caller[t].r \in Reservation
      BY <3>1 DEF CallerType
    <3>3. id \in Ids
      BY <3>2 DEF Reservation
    <3>4. book' = cancel_reservation(book, id) /\ seen' = seen
      BY <2>3 DEF Undo
    <3> QED
      BY <1>1, <3>3, <3>4
  <2>4. CASE Confirm(t)
    BY <2>4, SameHonoured DEF Confirm
  <2>5. CASE CheckReserved(t)
    BY <2>5, SameHonoured DEF CheckReserved
  <2>6. CASE CallEvses(t)
    BY <2>6, SameHonoured DEF CallEvses
  <2> QED
    BY <1>5, <2>1, <2>2, <2>3, <2>4, <2>5, <2>6, <2>7 DEF CallerStep
<1>6. CASE \E id \in Ids : handle_cancel_reservation(id)
  BY <1>1, <1>6 DEF handle_cancel_reservation
<1>7. ASSUME NEW id \in Ids, Expire(id) PROVE Honoured(book, seen)'
  <2>1. book'.global = book.global /\ book'.evse = book.evse /\ seen' = seen
    BY <1>0, <1>7 DEF Expire, BookType
  <2> QED
    BY <2>1, SameHonoured
<1>8. CASE TellCancelled
  BY <1>8, SameHonoured DEF TellCancelled
<1>9. CASE take_restored_reservation
  BY <1>9, SameHonoured DEF take_restored_reservation
<1>10. CASE ReservationExpired
  <2> DEFINE id == Head(expired)
  <2>1. expired \in Seq(Ids) /\ expired # <<>>
    BY <1>10 DEF ReservationExpired, IInv, TypeOK
  <2>2. id \in Ids
    BY <2>1
  <2>3. World \in WorldType /\ World.book = book
    BY WorldNow
  <2>4. book' = CancelAndTell(World, seen, id).book /\ seen' = seen
    BY <1>10 DEF ReservationExpired, Become
  <2> HIDE DEF World, id
  <2>5. book' = cancel_reservation(book, id)
    BY <1>0, <2>2, <2>3, <2>4, CancelAndTellOK
  <2> QED
    BY <1>1, <2>2, <2>4, <2>5
<1>11. CASE initialize
  BY <1>11, SameHonoured DEF initialize
<1>12. CASE \E e \in Evses : apply_restored_reservation(e)
  BY <1>12, SameHonoured DEF apply_restored_reservation
<1>13. CASE \E e \in Evses : handle_session_event(e)
  BY <1>13, SessionEventHonoured
<1>14. CASE \E e \in Evses : \/ PlugIn(e) \/ Unplug(e) \/ DisableEvse(e) \/ EnableEvse(e) \/ MainLoop(e)
                             \/ WithdrawAuthorization(e)
  <2>1. UNCHANGED <<book, seen>>
    BY <1>14 DEF PlugIn, Unplug, DisableEvse, EnableEvse, MainLoop, WithdrawAuthorization, EvseChange
  <2> QED
    BY <2>1, SameHonoured
<1>15. ASSUME NEW e \in Evses, NEW t \in Tokens, NEW parent, UseToken(e, t, parent) PROVE Honoured(book, seen)'
  <2>1. PICK id \in Ids \cup {None} : book' = IF id = None THEN book ELSE cancel_reservation(book, id)
    BY <1>15, TokenIs
  <2>2. seen' = seen
    BY <1>15 DEF UseToken
  <2>3. CASE id = None
    BY <2>1, <2>2, <2>3, SameHonoured
  <2>4. CASE id # None
    BY <1>1, <2>1, <2>2, <2>4
  <2> QED
    BY <2>3, <2>4
<1>17. CASE \E w \in waiting, waiting_for_pnc \in BOOLEAN : notify_evse(w, waiting_for_pnc)
  BY <1>17, SameHonoured DEF notify_evse
<1>18. CASE \E e \in Evses : ResumeHandler(e)
  BY <1>18, SameHonoured DEF ResumeHandler
<1>16. CASE \E s \in Startups : Restart(s.disabled, s.late)
  <2>1. book' = [EmptyBook EXCEPT !.store = book.store]
    BY <1>16 DEF Restart
  <2>2. book'.global = <<>>
    BY <2>1 DEF EmptyBook
  <2>3. Honoured(book', seen')
    BY <2>2, EmptyHonoured
  <2> QED
    BY <2>3 DEF Honoured
<1> QED
  BY <1>2, <1>3, <1>4, <1>5, <1>6, <1>7, <1>8, <1>9, <1>10, <1>11, <1>12, <1>13, <1>14, <1>15, <1>16,
     <1>17, <1>18 DEF Next

\* Whatever has been reserved, cancelled, expired, plugged in, disabled or
\* restored, the global reservations that have a type fit the EVSEs whose
\* connectors are available, in any order and wherever the cars park.
THEOREM TypedFitAlways == Spec => []Honoured(book, seen)
<1>1. Init => Honoured(book, seen)
  <2> SUFFICES ASSUME Init PROVE Honoured(book, seen)
    OBVIOUS
  <2>1. book.global = <<>>
    BY DEF Init, EmptyBook
  <2> QED
    BY <2>1, EmptyHonoured
<1>2. IInv /\ Honoured(book, seen) /\ [Next]_vars => Honoured(book, seen)'
  <2> SUFFICES ASSUME IInv, Honoured(book, seen), [Next]_vars PROVE Honoured(book, seen)'
    OBVIOUS
  <2>1. CASE Next
    BY <2>1, NextHonoured
  <2>2. CASE UNCHANGED vars
    BY <2>2, SameHonoured DEF vars
  <2> QED
    BY <2>1, <2>2
<1> QED
  BY Invariance, <1>1, <1>2, PTL DEF Spec

\* check_reservations_and_cancel_if_not_possible and make_reservation: as long
\* as all of them have a type, the answer of is_reservation_possible to the
\* global reservations that are held is yes.
THEOREM GlobalsCanBeHonouredAlways == Spec => []GlobalsCanBeHonoured
<1>1. IInv /\ Honoured(book, seen) => GlobalsCanBeHonoured
  <2> SUFFICES ASSUME IInv, Honoured(book, seen),
                      \A e \in Evses : seen[e].plugged_in => seen[e].connector = "OCCUPIED",
                      \A i \in DOMAIN book.global : book.global[i].type # None
               PROVE  is_reservation_possible(seen, TypesOf(book.global), Taken(book))
    BY DEF GlobalsCanBeHonoured
  <2>1. book.global \in Seq(Reservation) /\ seen \in [Evses -> ViewType] /\ Taken(book) \in SUBSET Evses
    BY DEF IInv, TypeOK, BookType, Taken
  <2> DEFINE p == [i \in DOMAIN book.global |-> i]
  <2>2. Within(book.global, book.global, p)
    BY DEF Within
  <2>3. \A e \in Evses : Available(Free(seen), e, Taken(book)) => Available(seen, e, Taken(book))
    <3> SUFFICES ASSUME NEW e \in Evses, Available(Free(seen), e, Taken(book))
                 PROVE  Available(seen, e, Taken(book))
      OBVIOUS
    <3>1. seen[e].connector = "AVAILABLE" /\ e \notin Taken(book)
      BY <2>1, FreeAvailable
    <3>2. ~seen[e].plugged_in
      BY <3>1
    <3> QED
      BY <3>1, <3>2 DEF Available, get_evse_connector_state_reservation_result
  <2> HIDE DEF p
  <2>4. Fit(seen, book.global, Taken(book))
    BY <2>1, <2>2, <2>3, StillFit DEF Honoured
  <2>5. Extendable(seen, TypesOf(book.global), Taken(book))
    BY <2>1, <2>4, FitExtendable
  <2> QED
    BY <2>1, <2>5, TypesType, PossibleMeansExtendable
<1> QED
  BY Invariance, TypedFitAlways, <1>1, PTL
=============================================================================
