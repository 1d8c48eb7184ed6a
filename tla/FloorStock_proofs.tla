------------------------- MODULE FloorStock_proofs -------------------------
(***************************************************************************)
(* What the floor keeps when its requests do not overlap, for any          *)
(* products, orders, invoices and quantities: no unit of stock is lost or  *)
(* created, a table has one account, the reservations are what the kitchen *)
(* holds and the counter sells none of them, and the operations on an      *)
(* order act as the single steps of OrderLife.                             *)
(*                                                                         *)
(* Stock and reservations are compared with sums over sets of invoices and *)
(* orders that grow without bound, so the module first proves how a sum    *)
(* changes with its set and its weights, by induction over the subsets of  *)
(* a finite set.                                                           *)
(***************************************************************************)
EXTENDS FloorOrders_proofs, FiniteSetTheorems

Sum(w, S) == MapThenSumSet(LAMBDA x : w[x], S)

Some(s) == CHOOSE x \in s : TRUE

Rest(s) == s \ {Some(s)}

IsSum(g, w, S) == g = [s \in SUBSET S |-> IF s = {} THEN 0 ELSE w[Some(s)] + g[Rest(s)]]

\* Some element of a set that has one is in it.
LEMMA SomeIn == ASSUME NEW S, S # {} PROVE Some(S) \in S
BY DEF Some

\* The rest of a set is a smaller part of it.
LEMMA RestIn == ASSUME NEW S, S # {} PROVE Rest(S) \subseteq S /\ Rest(S) # S
BY SomeIn DEF Rest

\* A sum is the value, at the whole set, of the function the library defines by recursion.
LEMMA SumUnfold ==
  ASSUME NEW w, NEW S
  PROVE  Sum(w, S) = (CHOOSE g : IsSum(g, w, S))[S]
BY DEF Sum, MapThenSumSet, MapThenFoldSet, IsSum, Some, Rest

\* Induction over the subsets of a finite set, with the induction hypothesis as a set.
LEMMA SubsetInduction ==
  ASSUME NEW S, IsFiniteSet(S), NEW G,
         \A T \in SUBSET S : (\A U \in SUBSET T : U # T => U \in G) => T \in G
  PROVE  \A T \in SUBSET S : T \in G
<1> DEFINE Bad == {T \in SUBSET S : T \notin G}
<1> SUFFICES ASSUME Bad # {} PROVE FALSE
  OBVIOUS
<1>1. IsWellFoundedOn(StrictSubsetOrdering(S), SUBSET S)
  <2>1. IsWellFoundedOn(StrictSubsetOrdering(S), FiniteSubsetsOf(S))
    BY FS_StrictSubsetOrderingWellFounded
  <2>2. FiniteSubsetsOf(S) = SUBSET S
    BY FS_FiniteSubsetsOfFinite
  <2> QED
    BY <2>1, <2>2
<1>2. PICK T \in Bad : \A U \in Bad : ~ (<<U, T>> \in StrictSubsetOrdering(S))
  <2> HIDE DEF Bad
  <2>1. Bad \subseteq SUBSET S
    BY DEF Bad
  <2> QED
    BY <1>1, <2>1, WFMin
<1>3. \A U \in SUBSET T : U # T => U \in G
  BY <1>2 DEF StrictSubsetOrdering
<1> QED
  BY <1>2, <1>3

\* The recursion of a sum has one solution.
LEMMA SumUnique ==
  ASSUME NEW S, IsFiniteSet(S), NEW w, NEW g, NEW h, IsSum(g, w, S), IsSum(h, w, S)
  PROVE  g = h
<1> DEFINE G == {T \in SUBSET S : g[T] = h[T]}
<1>1. ASSUME NEW T \in SUBSET S, \A U \in SUBSET T : U # T => U \in G
      PROVE  T \in G
  <2>1. CASE T = {}
    BY <2>1 DEF IsSum
  <2>2. CASE T # {}
    <3>1. Rest(T) \in SUBSET S /\ g[Rest(T)] = h[Rest(T)]
      BY <1>1, <2>2, RestIn
    <3>2. g[T] = w[Some(T)] + g[Rest(T)] /\ h[T] = w[Some(T)] + h[Rest(T)]
      BY <2>2 DEF IsSum
    <3> QED
      BY <3>1, <3>2
  <2> QED
    BY <2>1, <2>2
<1>2. \A T \in SUBSET S : T \in G
  <2> HIDE DEF G
  <2> QED
    BY <1>1, SubsetInduction
<1>3. \A T \in SUBSET S : g[T] = h[T]
  BY <1>2
<1> QED
  BY <1>3 DEF IsSum

\* Cut to the subsets of a part, it solves the recursion of the part.
LEMMA SumRestricted ==
  ASSUME NEW S, NEW T \in SUBSET S, NEW w, NEW g, IsSum(g, w, S),
         NEW h, h = [s \in SUBSET T |-> g[s]]
  PROVE  IsSum(h, w, T)
<1>1. ASSUME NEW s \in SUBSET T
      PROVE  h[s] = IF s = {} THEN 0 ELSE w[Some(s)] + h[Rest(s)]
  <2>1. g[s] = IF s = {} THEN 0 ELSE w[Some(s)] + g[Rest(s)]
    BY DEF IsSum
  <2>2. s # {} => Rest(s) \in SUBSET T
    BY RestIn
  <2> QED
    BY <2>1, <2>2
<1>2. h = [s \in SUBSET T |-> IF s = {} THEN 0 ELSE w[Some(s)] + h[Rest(s)]]
  <2>1. h = [s \in SUBSET T |-> h[s]]
    OBVIOUS
  <2> QED
    BY <1>1, <2>1
<1> QED
  BY <1>2 DEF IsSum

\* The sum of T is the value at T of the function of any larger set.
LEMMA SumAt ==
  ASSUME NEW S, IsFiniteSet(S), NEW T \in SUBSET S, NEW w, NEW g, IsSum(g, w, S)
  PROVE  Sum(w, T) = g[T]
<1> PICK h : h = [s \in SUBSET T |-> g[s]]
  OBVIOUS
<1>1. IsSum(h, w, T)
  BY SumRestricted
<1>2. IsFiniteSet(T) /\ h[T] = g[T]
  BY FS_Subset
<1>3. IsSum((CHOOSE f : IsSum(f, w, T)), w, T)
  BY <1>1
<1>4. (CHOOSE f : IsSum(f, w, T)) = h
  BY <1>1, <1>2, <1>3, SumUnique
<1> QED
  BY <1>2, <1>4, SumUnfold

\* The recursion of a sum over a finite set has a solution.
LEMMA SumExists ==
  ASSUME NEW S, IsFiniteSet(S), NEW w
  PROVE  \E g : IsSum(g, w, S)
<1> DEFINE G == {T \in SUBSET S : \E g : IsSum(g, w, T)}
<1>1. ASSUME NEW T \in SUBSET S, \A U \in SUBSET T : U # T => U \in G
      PROVE  T \in G
  <2>1. IsFiniteSet(T)
    BY FS_Subset
  <2> PICK g : g = [s \in SUBSET T |-> IF s = {} THEN 0 ELSE w[Some(s)] + Sum(w, Rest(s))]
    OBVIOUS
  <2>2. ASSUME NEW s \in SUBSET T, s # T
        PROVE  g[s] = Sum(w, s)
    <3>1. PICK h : IsSum(h, w, s)
      BY <1>1, <2>2
    <3>2. IsFiniteSet(s)
      BY <2>1, FS_Subset
    <3>3. Sum(w, s) = h[s] /\ (s # {} => Sum(w, Rest(s)) = h[Rest(s)])
      BY <3>1, <3>2, SumAt, RestIn
    <3>4. h[s] = IF s = {} THEN 0 ELSE w[Some(s)] + h[Rest(s)]
      BY <3>1 DEF IsSum
    <3> QED
      BY <3>3, <3>4
  <2>3. ASSUME NEW s \in SUBSET T, s # {}
        PROVE  g[Rest(s)] = Sum(w, Rest(s))
    <3>1. Rest(s) \in SUBSET T /\ Rest(s) # T
      BY <2>3, RestIn
    <3> QED
      BY <2>2, <3>1
  <2>4. IsSum(g, w, T)
    BY <2>3 DEF IsSum
  <2> QED
    BY <2>4
<1>2. \A T \in SUBSET S : T \in G
  <2> HIDE DEF G
  <2> QED
    BY <1>1, SubsetInduction
<1> QED
  BY <1>2

\* Nothing sums to zero.
LEMMA SumEmpty == ASSUME NEW w PROVE Sum(w, {}) = 0
<1>1. PICK g : IsSum(g, w, {})
  BY SumExists, FS_EmptySet
<1>2. Sum(w, {}) = g[{}]
  BY <1>1, SumAt, FS_EmptySet
<1> QED
  BY <1>1, <1>2 DEF IsSum

\* A sum is the weight of one element and the sum of the others.
LEMMA SumSome ==
  ASSUME NEW S, IsFiniteSet(S), S # {}, NEW w
  PROVE  Sum(w, S) = w[Some(S)] + Sum(w, Rest(S))
<1>1. PICK g : IsSum(g, w, S)
  BY SumExists
<1>2. Sum(w, S) = g[S] /\ Sum(w, Rest(S)) = g[Rest(S)]
  BY <1>1, SumAt, RestIn
<1> QED
  BY <1>1, <1>2 DEF IsSum

\* The sum of integers is an integer, of naturals a natural.
LEMMA SumType ==
  ASSUME NEW S, IsFiniteSet(S), NEW w, NEW V \in {Nat, Int}, \A x \in S : w[x] \in V
  PROVE  Sum(w, S) \in V
<1> DEFINE G == {T \in SUBSET S : Sum(w, T) \in V}
<1>1. ASSUME NEW T \in SUBSET S, \A U \in SUBSET T : U # T => U \in G
      PROVE  T \in G
  <2>1. CASE T = {}
    BY <2>1, SumEmpty
  <2>2. CASE T # {}
    <3>1. Sum(w, T) = w[Some(T)] + Sum(w, Rest(T)) /\ Some(T) \in S
      BY <2>2, SumSome, SomeIn, FS_Subset
    <3>2. Sum(w, Rest(T)) \in V
      BY <1>1, <2>2, RestIn
    <3> QED
      BY <3>1, <3>2
  <2> QED
    BY <2>1, <2>2
<1>2. \A T \in SUBSET S : T \in G
  <2> HIDE DEF G
  <2> QED
    BY <1>1, SubsetInduction
<1> QED
  BY <1>2

\* Any element can be taken out of a sum.
LEMMA SumTake ==
  ASSUME NEW S, IsFiniteSet(S), NEW w, \A x \in S : w[x] \in Int, NEW x \in S
  PROVE  Sum(w, S) = w[x] + Sum(w, S \ {x})
<1> DEFINE G == {T \in SUBSET S : \A y \in T : Sum(w, T) = w[y] + Sum(w, T \ {y})}
<1>1. ASSUME NEW T \in SUBSET S, \A U \in SUBSET T : U # T => U \in G
      PROVE  T \in G
  <2> SUFFICES ASSUME NEW y \in T PROVE Sum(w, T) = w[y] + Sum(w, T \ {y})
    OBVIOUS
  <2> DEFINE z == Some(T)
  <2>1. z \in T /\ IsFiniteSet(T) /\ Sum(w, T) = w[z] + Sum(w, T \ {z})
    BY SumSome, SomeIn, FS_Subset DEF Rest
  <2> HIDE DEF z
  <2>2. CASE y = z
    BY <2>1, <2>2
  <2>3. CASE y # z
    <3>1. Sum(w, T \ {z}) = w[y] + Sum(w, (T \ {z}) \ {y})
      BY <1>1, <2>1, <2>3
    <3>2. Sum(w, T \ {y}) = w[z] + Sum(w, (T \ {y}) \ {z})
      BY <1>1, <2>1, <2>3
    <3>3. (T \ {z}) \ {y} = (T \ {y}) \ {z}
      OBVIOUS
    <3>4. Sum(w, (T \ {y}) \ {z}) \in Int /\ w[y] \in Int /\ w[z] \in Int
      BY <2>1, SumType, FS_Subset
    <3>5. Sum(w, T) = w[z] + (w[y] + Sum(w, (T \ {y}) \ {z}))
      BY <2>1, <3>1, <3>3
    <3>6. w[z] + (w[y] + Sum(w, (T \ {y}) \ {z})) = w[y] + (w[z] + Sum(w, (T \ {y}) \ {z}))
      BY <3>4
    <3> QED
      BY <3>2, <3>5, <3>6
  <2> QED
    BY <2>2, <2>3
<1>2. \A T \in SUBSET S : T \in G
  <2> HIDE DEF G
  <2> QED
    BY <1>1, SubsetInduction
<1> QED
  BY <1>2

\* Only the weights of the elements count.
LEMMA SumSame ==
  ASSUME NEW S, IsFiniteSet(S), NEW v, NEW w, \A x \in S : v[x] = w[x]
  PROVE  Sum(v, S) = Sum(w, S)
<1> DEFINE G == {T \in SUBSET S : Sum(v, T) = Sum(w, T)}
<1>1. ASSUME NEW T \in SUBSET S, \A U \in SUBSET T : U # T => U \in G
      PROVE  T \in G
  <2>1. CASE T = {}
    BY <2>1, SumEmpty
  <2>2. CASE T # {}
    <3>1. Sum(w, T) = w[Some(T)] + Sum(w, Rest(T)) /\ Some(T) \in S
          /\ Sum(v, T) = v[Some(T)] + Sum(v, Rest(T))
      BY <2>2, SumSome, SomeIn, FS_Subset
    <3>2. Sum(w, Rest(T)) = Sum(v, Rest(T))
      BY <1>1, <2>2, RestIn
    <3> QED
      BY <3>1, <3>2
  <2> QED
    BY <2>1, <2>2
<1>2. \A T \in SUBSET S : T \in G
  <2> HIDE DEF G
  <2> QED
    BY <1>1, SubsetInduction
<1> QED
  BY <1>2

\* Weights that are the same on S, and weights that are integers on S.
Agree(v, w, S) == \A y \in S : v[y] = w[y]
Ints(w, S) == \A y \in S : w[y] \in Int

\* An element is added to a sum whose other weights stay.
LEMMA SumAdd ==
  ASSUME NEW S, IsFiniteSet(S), NEW x, x \notin S, NEW v, NEW w,
         Agree(v, w, S), Ints(w, S \cup {x})
  PROVE  Sum(w, S \cup {x}) = Sum(v, S) + w[x] /\ Sum(v, S) \in Int
<1> USE DEF Agree, Ints
<1>1. IsFiniteSet(S \cup {x}) /\ (S \cup {x}) \ {x} = S /\ x \in S \cup {x}
  BY FS_AddElement
<1>2. Sum(w, S \cup {x}) = w[x] + Sum(w, S)
  <2>1. PICK T : T = S \cup {x}
    OBVIOUS
  <2>2. IsFiniteSet(T) /\ x \in T /\ T \ {x} = S /\ \A y \in T : w[y] \in Int
    BY <1>1, <2>1
  <2>3. Sum(w, T) = w[x] + Sum(w, T \ {x})
    BY <2>2, SumTake
  <2> QED
    BY <2>1, <2>2, <2>3
<1>3. Sum(w, S) = Sum(v, S) /\ Sum(w, S) \in Int
  BY SumSame, SumType
<1> QED
  BY <1>2, <1>3

\* An element is taken out of a sum whose other weights stay.
LEMMA SumRemove ==
  ASSUME NEW S, IsFiniteSet(S), NEW x \in S, NEW v, NEW w,
         Agree(v, w, S \ {x}), Ints(w, S)
  PROVE  Sum(w, S) = Sum(v, S \ {x}) + w[x] /\ Sum(v, S \ {x}) \in Int
<1> USE DEF Agree, Ints
<1>1. IsFiniteSet(S \ {x})
  BY FS_RemoveElement
<1>2. Sum(w, S) = w[x] + Sum(w, S \ {x})
  BY SumTake
<1>3. Sum(w, S \ {x}) = Sum(v, S \ {x}) /\ Sum(w, S \ {x}) \in Int
  BY <1>1, SumSame, SumType
<1> QED
  BY <1>1, <1>2, <1>3

-----------------------------------------------------------------------------
(* The sums of the model, of the rows f of invoices or of orders. *)

\* The standing invoices of a product, of the kinds K.
SoldRows(f, p, K) ==
  {i \in Invoices : f[i].product = p /\ f[i].status = "PAID" /\ f[i].kind \in K}

Units(f) == [i \in Invoices |-> f[i].lines * Taken(f[i].kind, f[i].qty)]

KitchenRows(f, p) == {o \in Orders : f[o].product = p /\ f[o].status \in Active}

Asked(f) == [o \in Orders |-> f[o].qty]

UnitsSum(f, S) == MapThenSumSet(LAMBDA i : f[i].lines * Taken(f[i].kind, f[i].qty), S)

AskedSum(f, S) == MapThenSumSet(LAMBDA o : f[o].qty, S)

\* The units sold by a set of invoices are a sum of this kind.
LEMMA UnitsSumIs ==
  ASSUME NEW f, NEW S \in SUBSET Invoices, IsFiniteSet(S)
  PROVE  UnitsSum(f, S) = Sum(Units(f), S)
<1> DEFINE Is(g) == g = [s \in SUBSET S |-> IF s = {} THEN 0 ELSE
                       f[Some(s)].lines * Taken(f[Some(s)].kind, f[Some(s)].qty) + g[Rest(s)]]
<1>1. UnitsSum(f, S) = (CHOOSE g : Is(g))[S]
  BY DEF UnitsSum, MapThenSumSet, MapThenFoldSet, Some, Rest
<1>2. ASSUME NEW s \in SUBSET S, s # {}
      PROVE  Units(f)[Some(s)] = f[Some(s)].lines * Taken(f[Some(s)].kind, f[Some(s)].qty)
  BY <1>2, SomeIn DEF Units
<1>3. \A g : Is(g) <=> IsSum(g, Units(f), S)
  BY <1>2 DEF IsSum
<1>4. Is(CHOOSE g : Is(g))
  <2>1. \E g : Is(g)
    BY <1>3, SumExists
  <2> HIDE DEF Is
  <2> QED
    BY <2>1
<1>5. IsSum((CHOOSE g : Is(g)), Units(f), S)
  <2> HIDE DEF Is
  <2> QED
    BY <1>3, <1>4
<1>6. PICK h : h = (CHOOSE g : Is(g))
  OBVIOUS
<1>7. Sum(Units(f), S) = h[S]
  <2> HIDE DEF Is
  <2> QED
    BY <1>5, <1>6, SumAt
<1> QED
  BY <1>1, <1>6, <1>7

\* The quantities asked by a set of orders are a sum of this kind.
LEMMA AskedSumIs ==
  ASSUME NEW f, NEW S \in SUBSET Orders, IsFiniteSet(S)
  PROVE  AskedSum(f, S) = Sum(Asked(f), S)
<1> DEFINE Is(g) == g = [s \in SUBSET S |-> IF s = {} THEN 0 ELSE f[Some(s)].qty + g[Rest(s)]]
<1>1. AskedSum(f, S) = (CHOOSE g : Is(g))[S]
  BY DEF AskedSum, MapThenSumSet, MapThenFoldSet, Some, Rest
<1>2. ASSUME NEW s \in SUBSET S, s # {}
      PROVE  Asked(f)[Some(s)] = f[Some(s)].qty
  BY <1>2, SomeIn DEF Asked
<1>3. \A g : Is(g) <=> IsSum(g, Asked(f), S)
  BY <1>2 DEF IsSum
<1>4. Is(CHOOSE g : Is(g))
  <2>1. \E g : Is(g)
    BY <1>3, SumExists
  <2> HIDE DEF Is
  <2> QED
    BY <2>1
<1>5. IsSum((CHOOSE g : Is(g)), Asked(f), S)
  <2> HIDE DEF Is
  <2> QED
    BY <1>3, <1>4
<1>6. PICK h : h = (CHOOSE g : Is(g))
  OBVIOUS
<1>7. Sum(Asked(f), S) = h[S]
  <2> HIDE DEF Is
  <2> QED
    BY <1>5, <1>6, SumAt
<1> QED
  BY <1>1, <1>6, <1>7

\* The units sold of a product are the sum over its invoices that stand, those of the imports the
\* sum over the imported ones.
LEMMA SoldUnitsIs ==
  ASSUME NEW p, IsFiniteSet(Placed), invoice \in [Invoices -> InvoiceRow]
  PROVE  /\ SoldUnits(p) = Sum(Units(invoice), SoldRows(invoice, p, LineKinds))
         /\ ImportedUnits(p) = Sum(Units(invoice), SoldRows(invoice, p, {"imported"}))
         /\ \A K : IsFiniteSet(SoldRows(invoice, p, K))
<1>1. \A K : SoldRows(invoice, p, K) \in SUBSET Invoices /\ SoldRows(invoice, p, K) \subseteq Placed
  BY DEF SoldRows, Placed
<1>2. \A K : IsFiniteSet(SoldRows(invoice, p, K))
  BY <1>1, FS_Subset
<1>3. PICK S, T : /\ S = {i \in Placed : invoice[i].product = p /\ invoice[i].status = "PAID"}
                  /\ T = {i \in Placed : /\ invoice[i].product = p /\ invoice[i].status = "PAID"
                                         /\ invoice[i].kind = "imported"}
  OBVIOUS
<1>4. S = SoldRows(invoice, p, LineKinds) /\ T = SoldRows(invoice, p, {"imported"})
  BY <1>3 DEF SoldRows, Placed, InvoiceRow
<1>5. SoldUnits(p) = UnitsSum(invoice, S) /\ ImportedUnits(p) = UnitsSum(invoice, T)
  BY <1>3 DEF SoldUnits, ImportedUnits, UnitsSum, MapThenSumSet, MapThenFoldSet
<1> QED
  BY <1>1, <1>2, <1>4, <1>5, UnitsSumIs

\* The same of the next state.
LEMMA SoldUnitsNext ==
  ASSUME NEW p, IsFiniteSet(Placed'), invoice' \in [Invoices -> InvoiceRow]
  PROVE  /\ SoldUnits(p)' = Sum(Units(invoice'), SoldRows(invoice', p, LineKinds))
         /\ ImportedUnits(p)' = Sum(Units(invoice'), SoldRows(invoice', p, {"imported"}))
         /\ \A K : IsFiniteSet(SoldRows(invoice', p, K))
<1>1. \A K : SoldRows(invoice', p, K) \in SUBSET Invoices /\ SoldRows(invoice', p, K) \subseteq Placed'
  BY DEF SoldRows, Placed
<1>2. \A K : IsFiniteSet(SoldRows(invoice', p, K))
  BY <1>1, FS_Subset
<1>3. PICK S, T : /\ S = {i \in Placed' : invoice'[i].product = p /\ invoice'[i].status = "PAID"}
                  /\ T = {i \in Placed' : /\ invoice'[i].product = p /\ invoice'[i].status = "PAID"
                                          /\ invoice'[i].kind = "imported"}
  OBVIOUS
<1>4. S = SoldRows(invoice', p, LineKinds) /\ T = SoldRows(invoice', p, {"imported"})
  BY <1>3 DEF SoldRows, Placed, InvoiceRow
<1>5. SoldUnits(p)' = UnitsSum(invoice', S) /\ ImportedUnits(p)' = UnitsSum(invoice', T)
  BY <1>3 DEF SoldUnits, ImportedUnits, UnitsSum, MapThenSumSet, MapThenFoldSet
<1> QED
  BY <1>1, <1>2, <1>4, <1>5, UnitsSumIs

\* What the orders of the kitchen ask of a product is the sum over them.
LEMMA KitchenTotal ==
  ASSUME NEW p, IsFiniteSet({o \in Orders : Exists(o)})
  PROVE  /\ Total({o \in Orders : order[o].product = p /\ order[o].status \in Active})
              = Sum(Asked(order), KitchenRows(order, p))
         /\ IsFiniteSet(KitchenRows(order, p))
<1>1. KitchenRows(order, p) \in SUBSET Orders
      /\ KitchenRows(order, p) \subseteq {o \in Orders : Exists(o)}
  BY DEF KitchenRows, Exists, Active
<1>2. IsFiniteSet(KitchenRows(order, p))
  BY <1>1, FS_Subset
<1>3. Total({o \in Orders : order[o].product = p /\ order[o].status \in Active})
        = AskedSum(order, KitchenRows(order, p))
  BY DEF Total, AskedSum, KitchenRows, MapThenSumSet, MapThenFoldSet
<1> QED
  BY <1>1, <1>2, <1>3, AskedSumIs

-----------------------------------------------------------------------------
(* How a sale and a void change the units sold. *)

\* An invoice sold a whole number of units.
LEMMA UnitsInt ==
  ASSUME NEW f \in [Invoices -> InvoiceRow], NEW i \in Invoices
  PROVE  Units(f)[i] \in Int /\ Units(f)[i] = f[i].lines * Taken(f[i].kind, f[i].qty)
<1>1. f[i].lines \in Nat /\ f[i].kind \in LineKinds /\ f[i].qty \in Nat
  BY DEF InvoiceRow, LineKinds
<1>2. Taken(f[i].kind, f[i].qty) \in Nat
  BY <1>1, TakenType
<1>3. f[i].lines * Taken(f[i].kind, f[i].qty) \in Nat
  BY <1>1, <1>2, ProductType
<1> QED
  BY <1>3 DEF Units

\* The row of one invoice is written.
Written(f, g, i, row) ==
  /\ f \in [Invoices -> InvoiceRow] /\ row \in InvoiceRow /\ i \in Invoices
  /\ g = [f EXCEPT ![i] = row]

\* An invoice written as paid adds its units to those of its product and kind, and to no others.
LEMMA SoldMore ==
  ASSUME NEW f, NEW g, NEW i, NEW row, Written(f, g, i, row), f[i].status = "none",
         row.status = "PAID", NEW p, NEW K, IsFiniteSet(SoldRows(f, p, K))
  PROVE  /\ Sum(Units(f), SoldRows(f, p, K)) \in Int
         /\ row.lines * Taken(row.kind, row.qty) \in Int
         /\ row.product = p /\ row.kind \in K => Sum(Units(g), SoldRows(g, p, K)) =
              Sum(Units(f), SoldRows(f, p, K)) + row.lines * Taken(row.kind, row.qty)
         /\ ~(row.product = p /\ row.kind \in K) => Sum(Units(g), SoldRows(g, p, K)) = Sum(Units(f), SoldRows(f, p, K))
<1> USE DEF Written
<1>1. PICK S, v, w : S = SoldRows(f, p, K) /\ v = Units(f) /\ w = Units(g)
  OBVIOUS
<1>2. S \subseteq Invoices /\ i \notin S /\ IsFiniteSet(S)
  BY <1>1 DEF SoldRows
<1>3. g \in [Invoices -> InvoiceRow] /\ g[i] = row /\ \A j \in Invoices : j # i => g[j] = f[j]
  OBVIOUS
<1>4. w[i] = row.lines * Taken(row.kind, row.qty) /\ w[i] \in Int
  BY <1>1, <1>3, UnitsInt
<1>5. Agree(v, w, S) /\ Ints(w, S \cup {i}) /\ \A j \in S : v[j] = w[j] /\ w[j] \in Int
  <2>1. ASSUME NEW j \in S PROVE v[j] = w[j] /\ w[j] \in Int
    <3>1. j \in Invoices /\ g[j] = f[j]
      BY <1>2, <1>3, <2>1
    <3> QED
      BY <1>1, <1>3, <3>1, UnitsInt
  <2> QED
    BY <1>4, <2>1 DEF Agree, Ints
<1>6. Sum(v, S) \in Int /\ Sum(w, S) = Sum(v, S) /\ Sum(w, S \cup {i}) = Sum(v, S) + w[i]
  <2>1. Sum(w, S \cup {i}) = Sum(v, S) + w[i] /\ Sum(v, S) \in Int
    BY <1>2, <1>4, <1>5, SumAdd
  <2>2. Sum(v, S) = Sum(w, S)
    BY <1>2, <1>5, SumSame
  <2> QED
    BY <2>1, <2>2
<1>7. row.product = p /\ row.kind \in K => SoldRows(g, p, K) = S \cup {i}
  BY <1>1, <1>3 DEF SoldRows
<1>8. ~(row.product = p /\ row.kind \in K) => SoldRows(g, p, K) = S
  BY <1>1, <1>3 DEF SoldRows
<1> QED
  BY <1>1, <1>4, <1>6, <1>7, <1>8

\* An invoice voided takes its units from those of its product and kind, and from no others.
LEMMA SoldLess ==
  ASSUME NEW f, NEW g, NEW i, NEW row, Written(f, g, i, row), f[i].status = "PAID",
         row.status = "CANCELLED", NEW p, NEW K, IsFiniteSet(SoldRows(f, p, K))
  PROVE  /\ Sum(Units(f), SoldRows(f, p, K)) \in Int
         /\ f[i].lines * Taken(f[i].kind, f[i].qty) \in Int
         /\ f[i].product = p /\ f[i].kind \in K => Sum(Units(g), SoldRows(g, p, K)) =
              Sum(Units(f), SoldRows(f, p, K)) - f[i].lines * Taken(f[i].kind, f[i].qty)
         /\ ~(f[i].product = p /\ f[i].kind \in K) => Sum(Units(g), SoldRows(g, p, K)) = Sum(Units(f), SoldRows(f, p, K))
<1> USE DEF Written
<1>1. PICK S, v, w : S = SoldRows(f, p, K) /\ v = Units(f) /\ w = Units(g)
  OBVIOUS
<1>2. S \subseteq Invoices /\ IsFiniteSet(S)
  BY <1>1 DEF SoldRows
<1>3. g \in [Invoices -> InvoiceRow] /\ g[i] = row /\ \A j \in Invoices : j # i => g[j] = f[j]
  OBVIOUS
<1>4. v[i] = f[i].lines * Taken(f[i].kind, f[i].qty) /\ \A j \in Invoices : v[j] \in Int
  BY <1>1, UnitsInt
<1>5. \A j \in S \ {i} : w[j] = v[j]
  <2>1. ASSUME NEW j \in S, j # i PROVE w[j] = v[j]
    <3>1. j \in Invoices /\ g[j] = f[j]
      BY <1>2, <1>3, <2>1
    <3> QED
      BY <1>1, <1>3, <3>1, UnitsInt
  <2> QED
    BY <2>1
<1>6. Sum(v, S) \in Int
  BY <1>2, <1>4, SumType
<1>7. f[i].product = p /\ f[i].kind \in K => SoldRows(g, p, K) = S \ {i} /\ i \in S
  BY <1>1, <1>3 DEF SoldRows
<1>8. ~(f[i].product = p /\ f[i].kind \in K) => SoldRows(g, p, K) = S /\ i \notin S
  BY <1>1, <1>3 DEF SoldRows
<1>9. i \in S => Sum(v, S) = Sum(w, S \ {i}) + v[i] /\ Sum(w, S \ {i}) \in Int
  <2>1. ASSUME i \in S PROVE Sum(v, S) = Sum(w, S \ {i}) + v[i] /\ Sum(w, S \ {i}) \in Int
    <3>1. Ints(v, S) /\ Agree(w, v, S \ {i})
      BY <1>2, <1>4, <1>5 DEF Ints, Agree
    <3> QED
      BY <1>2, <2>1, <3>1, SumRemove
  <2> QED
    BY <2>1
<1>10. i \notin S => Sum(w, S) = Sum(v, S)
  <2>1. i \notin S => \A j \in S : w[j] = v[j]
    BY <1>5
  <2> QED
    BY <1>2, <2>1, SumSame
<1>11. i \in S => Sum(w, S \ {i}) = Sum(v, S) - v[i]
  BY <1>4, <1>6, <1>9
<1> QED
  BY <1>1, <1>4, <1>6, <1>7, <1>8, <1>10, <1>11

-----------------------------------------------------------------------------
(* The stock of a product. *)

\* Only finitely many invoices exist, and their sums are the units they sold.
Stocked == IsFiniteSet(Placed) /\ StockConserved

\* The units the standing invoices sold are an integer, before and after a step.
LEMMA SoldInt ==
  ASSUME Inv, IsFiniteSet(Placed), NEW p
  PROVE  SoldUnits(p) \in Int
<1>1. SoldRows(invoice, p, LineKinds) \subseteq Invoices /\ \A i \in SoldRows(invoice, p, LineKinds) : Units(invoice)[i] \in Int
  BY UnitsInt DEF SoldRows, Inv, TypeOK
<1>2. PICK S, w : S = SoldRows(invoice, p, LineKinds) /\ w = Units(invoice)
  OBVIOUS
<1>3. SoldUnits(p) = Sum(w, S) /\ IsFiniteSet(S)
  BY <1>2, SoldUnitsIs DEF Inv, TypeOK
<1> QED
  BY <1>1, <1>2, <1>3, SumType

\* What moves the stock without an invoice is counted as received or consumed.
LEMMA StockMoved ==
  ASSUME Inv, Inv', Stocked, invoice' = invoice,
         \A p \in Products : stock'[p] - received'[p] + consumed'[p]
                               = stock[p] - received[p] + consumed[p]
  PROVE  Stocked'
<1>1. Placed' = Placed /\ IsFiniteSet(Placed) /\ IsFiniteSet(Placed')
  BY DEF Stocked, Placed
<1>2. ASSUME NEW p \in Products, ~VoidedUnevenly(p)'
      PROVE  stock'[p] = Opening + received'[p] - consumed'[p] - SoldUnits(p)'
  <2>1. ~VoidedUnevenly(p)
    BY <1>1, <1>2 DEF VoidedUnevenly
  <2>2. SoldUnits(p)' = SoldUnits(p)
    BY <1>1, SoldUnitsIs, SoldUnitsNext DEF Inv, TypeOK
  <2>3. /\ stock[p] \in Int /\ received[p] \in Int /\ consumed[p] \in Int
        /\ stock'[p] \in Int /\ received'[p] \in Int /\ consumed'[p] \in Int
    BY DEF Inv, TypeOK
  <2>4. SoldUnits(p) \in Int /\ Opening \in Int
    BY <1>1, SoldInt, InventoryAssumption
  <2>5. stock[p] = Opening + received[p] - consumed[p] - SoldUnits(p)
    BY <2>1 DEF Stocked, StockConserved
  <2> QED
    BY <2>2, <2>3, <2>4, <2>5
<1> QED
  BY <1>1, <1>2 DEF Stocked, StockConserved

\* A sale takes from the stock what its invoice says.
LEMMA StockSold ==
  ASSUME Inv, Inv', Stocked, NEW sale \in ReqRow, sale.qty \in Nat, NEW i \in Invoices,
         SellAs(sale, i)
  PROVE  Stocked'
<1>1. PICK row : row = [status |-> "PAID", product |-> sale.product, kind |-> sale.kind,
                        qty |-> sale.qty, lines |-> sale.lines]
  OBVIOUS
<1>2. row \in InvoiceRow /\ row.status = "PAID" /\ row.product = sale.product
  BY <1>1 DEF InvoiceRow, ReqRow, LineKinds
<1>3. row.kind = sale.kind /\ row.qty = sale.qty /\ row.lines = sale.lines
  BY <1>1
<1>4. PICK n : n = row.lines * Taken(row.kind, row.qty)
  OBVIOUS
<1>5. /\ invoice' = [invoice EXCEPT ![i] = row] /\ invoice[i].status = "none"
      /\ stock' = [stock EXCEPT ![row.product] = @ - n] /\ UNCHANGED <<consumed, received>>
  BY <1>1, <1>2, <1>3, <1>4 DEF SellAs, Placed
<1>6. invoice \in [Invoices -> InvoiceRow] /\ stock \in [Products -> Int]
  BY DEF Inv, TypeOK
<1>7. Placed' = Placed \cup {i}
  BY <1>2, <1>5, <1>6 DEF Placed
<1>8. IsFiniteSet(Placed) /\ IsFiniteSet(Placed')
  BY <1>7, FS_AddElement DEF Stocked
<1>9. ASSUME NEW p \in Products, ~VoidedUnevenly(p)'
      PROVE  stock'[p] = Opening + received'[p] - consumed'[p] - SoldUnits(p)'
  <2>1. ~VoidedUnevenly(p)
    BY <1>2, <1>5, <1>6, <1>7, <1>9 DEF VoidedUnevenly, Placed
  <2>2. stock[p] = Opening + received[p] - consumed[p] - SoldUnits(p)
    BY <2>1 DEF Stocked, StockConserved
  <2>3. /\ SoldUnits(p) = Sum(Units(invoice), SoldRows(invoice, p, LineKinds))
        /\ SoldUnits(p)' = Sum(Units(invoice'), SoldRows(invoice', p, LineKinds))
        /\ IsFiniteSet(SoldRows(invoice, p, LineKinds))
    BY <1>8, SoldUnitsIs, SoldUnitsNext DEF Inv, TypeOK
  <2>4. /\ SoldUnits(p) \in Int /\ n \in Int
        /\ row.product = p => SoldUnits(p)' = SoldUnits(p) + n
        /\ row.product # p => SoldUnits(p)' = SoldUnits(p)
    <3>1. PICK f, g : f = invoice /\ g = invoice'
      OBVIOUS
    <3>2. /\ Written(f, g, i, row) /\ f[i].status = "none"
          /\ IsFiniteSet(SoldRows(f, p, LineKinds)) /\ SoldUnits(p) = Sum(Units(f), SoldRows(f, p, LineKinds))
          /\ SoldUnits(p)' = Sum(Units(g), SoldRows(g, p, LineKinds))
      BY <1>2, <1>5, <1>6, <2>3, <3>1 DEF Written
    <3>3. /\ Sum(Units(f), SoldRows(f, p, LineKinds)) \in Int
          /\ row.lines * Taken(row.kind, row.qty) \in Int
          /\ row.product = p => Sum(Units(g), SoldRows(g, p, LineKinds)) =
               Sum(Units(f), SoldRows(f, p, LineKinds)) + row.lines * Taken(row.kind, row.qty)
          /\ row.product # p => Sum(Units(g), SoldRows(g, p, LineKinds)) = Sum(Units(f), SoldRows(f, p, LineKinds))
      <4>1. row.kind \in LineKinds
        BY <1>2 DEF InvoiceRow
      <4> QED
        BY <1>2, <3>2, <4>1, SoldMore
    <3> QED
      BY <1>4, <3>2, <3>3
  <2>5. /\ stock[p] \in Int /\ received[p] \in Int /\ consumed[p] \in Int /\ Opening \in Int
        /\ received'[p] = received[p] /\ consumed'[p] = consumed[p]
    BY <1>5, InventoryAssumption DEF Inv, TypeOK
  <2>6. /\ row.product = p => stock'[p] = stock[p] - n
        /\ row.product # p => stock'[p] = stock[p]
    BY <1>5, <1>6
  <2> QED
    BY <2>2, <2>4, <2>5, <2>6
<1> QED
  BY <1>8, <1>9 DEF Stocked, StockConserved

\* The void of a standing invoice gives back what it took, but for variants and imported recipes.
LEMMA StockVoided ==
  ASSUME Inv, Inv', Stocked, NEW r \in Requests, VoidCommit(r),
         invoice[req[r].subject].status = "PAID"
  PROVE  Stocked'
<1>1. PICK i \in Invoices : i = req[r].subject
  BY Rows DEF VoidCommit, At, Subject
<1>2. PICK row : row = [invoice[i] EXCEPT !.status = "CANCELLED"]
  OBVIOUS
<1>3. invoice \in [Invoices -> InvoiceRow] /\ stock \in [Products -> Int] /\ invoice[i] \in InvoiceRow
  BY DEF Inv, TypeOK
<1>4. /\ row \in InvoiceRow /\ row.status = "CANCELLED" /\ row.product = invoice[i].product
      /\ row.kind = invoice[i].kind
  BY <1>2, <1>3 DEF InvoiceRow
<1>5. PICK n : n = invoice[i].lines * Restored(invoice[i].kind, invoice[i].qty)
  OBVIOUS
<1>6. /\ invoice' = [invoice EXCEPT ![i] = row] /\ invoice[i].status = "PAID"
      /\ stock' = [stock EXCEPT ![invoice[i].product] = @ + n] /\ UNCHANGED <<consumed, received>>
  BY <1>1, <1>2, <1>5 DEF VoidCommit
<1>7. Placed' = Placed /\ i \in Placed
  BY <1>3, <1>4, <1>6 DEF Placed
<1>8. IsFiniteSet(Placed) /\ IsFiniteSet(Placed')
  BY <1>7 DEF Stocked
<1>9. ASSUME NEW p \in Products, ~VoidedUnevenly(p)'
      PROVE  stock'[p] = Opening + received'[p] - consumed'[p] - SoldUnits(p)'
  <2>1. ~VoidedUnevenly(p)
    <3>1. \A j \in Placed : j # i => invoice'[j] = invoice[j]
      BY <1>3, <1>6 DEF Placed
    <3> QED
      BY <1>6, <1>7, <1>9, <3>1 DEF VoidedUnevenly
  <2>2. stock[p] = Opening + received[p] - consumed[p] - SoldUnits(p)
    BY <2>1 DEF Stocked, StockConserved
  <2>3. /\ SoldUnits(p) = Sum(Units(invoice), SoldRows(invoice, p, LineKinds))
        /\ SoldUnits(p)' = Sum(Units(invoice'), SoldRows(invoice', p, LineKinds))
        /\ IsFiniteSet(SoldRows(invoice, p, LineKinds))
    BY <1>8, SoldUnitsIs, SoldUnitsNext DEF Inv, TypeOK
  <2>4. PICK m : m = invoice[i].lines * Taken(invoice[i].kind, invoice[i].qty)
    OBVIOUS
  <2>5. /\ SoldUnits(p) \in Int /\ m \in Int
        /\ invoice[i].product = p => SoldUnits(p)' = SoldUnits(p) - m
        /\ invoice[i].product # p => SoldUnits(p)' = SoldUnits(p)
    <3>1. PICK f, g : f = invoice /\ g = invoice'
      OBVIOUS
    <3>2. /\ Written(f, g, i, row) /\ f[i].status = "PAID"
          /\ IsFiniteSet(SoldRows(f, p, LineKinds)) /\ SoldUnits(p) = Sum(Units(f), SoldRows(f, p, LineKinds))
          /\ SoldUnits(p)' = Sum(Units(g), SoldRows(g, p, LineKinds))
          /\ f[i] = invoice[i]
      BY <1>3, <1>4, <1>6, <2>3, <3>1 DEF Written
    <3>3. /\ Sum(Units(f), SoldRows(f, p, LineKinds)) \in Int
          /\ f[i].lines * Taken(f[i].kind, f[i].qty) \in Int
          /\ f[i].product = p => Sum(Units(g), SoldRows(g, p, LineKinds)) =
               Sum(Units(f), SoldRows(f, p, LineKinds)) - f[i].lines * Taken(f[i].kind, f[i].qty)
          /\ f[i].product # p => Sum(Units(g), SoldRows(g, p, LineKinds)) = Sum(Units(f), SoldRows(f, p, LineKinds))
      <4>1. f[i].kind \in LineKinds
        BY <1>3, <3>2 DEF InvoiceRow
      <4> QED
        BY <1>4, <3>2, <4>1, SoldLess
    <3> QED
      BY <2>4, <3>2, <3>3
  <2>6. invoice[i].product = p => m = n
    <3>1. ASSUME invoice[i].product = p
          PROVE  invoice'[i] = row /\ invoice[i].kind \in {"plain", "combo", "imported"}
      <4>1. invoice'[i] = row
        BY <1>3, <1>6
      <4>2. invoice[i].kind \notin {"variant", "noDeduct", "importedCombo"}
        BY <1>4, <1>7, <1>9, <3>1, <4>1 DEF VoidedUnevenly
      <4> QED
        BY <1>3, <4>1, <4>2 DEF InvoiceRow, LineKinds, Imports
    <3>2. invoice[i].kind \in {"plain", "combo", "imported"} =>
            Taken(invoice[i].kind, invoice[i].qty) = Restored(invoice[i].kind, invoice[i].qty)
      BY DEF Taken, Restored
    <3> QED
      BY <1>5, <2>4, <3>1, <3>2
  <2>7. /\ stock[p] \in Int /\ received[p] \in Int /\ consumed[p] \in Int /\ Opening \in Int
        /\ received'[p] = received[p] /\ consumed'[p] = consumed[p]
    BY <1>6, InventoryAssumption DEF Inv, TypeOK
  <2>8. /\ invoice[i].product = p => stock'[p] = stock[p] + n
        /\ invoice[i].product # p => stock'[p] = stock[p]
    BY <1>3, <1>6
  <2> QED
    BY <2>2, <2>5, <2>6, <2>7, <2>8
<1> QED
  BY <1>8, <1>9 DEF Stocked, StockConserved

\* The greater of two integers.
LEMMA MaxIs ==
  ASSUME NEW x \in Int, NEW y \in Int
  PROVE  /\ Max({x, y}) \in Int
         /\ (x >= y => Max({x, y}) = x) /\ (y >= x => Max({x, y}) = y)
<1>1. \E z \in {x, y} : \A w \in {x, y} : z >= w
  OBVIOUS
<1>2. Max({x, y}) \in {x, y} /\ \A w \in {x, y} : Max({x, y}) >= w
  BY <1>1 DEF Max
<1> QED
  BY <1>2

\* What is added and what is taken make up the change.
LEMMA MaxDifference ==
  ASSUME NEW d \in Int, NEW e \in Int, e = 0 - d
  PROVE  /\ Max({0, d}) \in Int /\ Max({0, e}) \in Int /\ Max({0, d}) - Max({0, e}) = d
         /\ Max({0, e}) >= 0
<1>1. Max({0, d}) \in Int /\ Max({0, e}) \in Int
  BY MaxIs
<1>2. CASE d >= 0
  <2>1. Max({0, d}) = d /\ Max({0, e}) = 0
    BY <1>2, MaxIs
  <2> QED
    BY <2>1
<1>3. CASE ~(d >= 0)
  <2>1. Max({0, d}) = 0 /\ Max({0, e}) = e /\ e >= 0
    BY <1>3, MaxIs
  <2> QED
    BY <2>1
<1> QED
  BY <1>1, <1>2, <1>3

\* What a request that adjusts or voids has read is still so.
Settled(q) ==
  /\ q.pc = "adjust" => "adjust" \in Operations /\ q.seen = stock[q.product]
  /\ q.pc = "void" => "void" \in Operations /\ invoice[q.subject].status = "PAID"

\* A consumption lowers the stock by what it adds to the consumed units.
LEMMA StockLowered ==
  ASSUME Inv, Inv', Stocked, NEW r \in Requests, OutflowCommit(r)
  PROVE  Stocked'
<1>1. PICK p, n : p = req[r].product /\ n = req[r].lines * Taken(req[r].kind, req[r].qty)
  OBVIOUS
<1>2. /\ stock' = [stock EXCEPT ![p] = @ - n] /\ consumed' = [consumed EXCEPT ![p] = @ + n]
      /\ UNCHANGED <<invoice, received>>
  BY <1>1 DEF OutflowCommit
<1>3. n \in Int
  <2>1. Taken(req[r].kind, req[r].qty) \in Nat /\ req[r].lines \in Nat
    BY TakenType, Rows DEF OutflowCommit, At, Subject, ReqRow
  <2> QED
    BY <1>1, <2>1, ProductType
<1>4. ASSUME NEW x \in Products
      PROVE  stock'[x] - received'[x] + consumed'[x] = stock[x] - received[x] + consumed[x]
  <2>1. stock[x] \in Int /\ received[x] \in Int /\ consumed[x] \in Int /\ received'[x] = received[x]
    BY <1>2 DEF Inv, TypeOK
  <2>2. \/ stock'[x] = stock[x] /\ consumed'[x] = consumed[x]
        \/ stock'[x] = stock[x] - n /\ consumed'[x] = consumed[x] + n
    BY <1>2 DEF Inv, TypeOK
  <2> QED
    BY <1>3, <2>1, <2>2
<1> QED
  BY <1>2, <1>4, StockMoved

\* An adjustment whose level is still the stock's adds to the consumed units what it takes.
LEMMA StockAdjusted ==
  ASSUME Inv, Inv', Stocked, NEW r \in Requests, AdjustCommit(r),
         req[r].seen = stock[req[r].product]
  PROVE  Stocked'
<1>1. PICK p, d, e : p = req[r].product /\ d = req[r].qty /\ e = 0 - req[r].qty
  OBVIOUS
<1>2. PICK m, n : m = Max({0, e}) /\ n = Max({0, d})
  OBVIOUS
<1>3. /\ stock' = [stock EXCEPT ![p] = stock[p] + d] /\ consumed' = [consumed EXCEPT ![p] = @ + m]
      /\ received' = [received EXCEPT ![p] = @ + n] /\ UNCHANGED invoice
  BY <1>1, <1>2 DEF AdjustCommit, NextStock
<1>4. d \in Int /\ e \in Int
  BY <1>1, Rows DEF ReqRow
<1>5. m \in Int /\ n \in Int /\ n - m = d
  BY <1>1, <1>2, <1>4, MaxDifference
<1>6. ASSUME NEW x \in Products
      PROVE  stock'[x] - received'[x] + consumed'[x] = stock[x] - received[x] + consumed[x]
  <2>1. stock[x] \in Int /\ received[x] \in Int /\ consumed[x] \in Int
    BY DEF Inv, TypeOK
  <2>2. \/ stock'[x] = stock[x] /\ consumed'[x] = consumed[x] /\ received'[x] = received[x]
        \/ stock'[x] = stock[x] + d /\ consumed'[x] = consumed[x] + m /\ received'[x] = received[x] + n
    BY <1>3 DEF Inv, TypeOK
  <2> QED
    BY <1>4, <1>5, <2>1, <2>2
<1> QED
  BY <1>3, <1>6, StockMoved

\* A level written by hand adds to one of the two sums what it changes.
LEMMA StockWritten ==
  ASSUME Inv, Inv', Stocked, NEW p \in Products, NEW level \in Levels, SetLevel(p, level)
  PROVE  Stocked'
<1>1. PICK d, e : d = level - stock[p] /\ e = stock[p] - level
  OBVIOUS
<1>2. PICK m, n : m = Max({0, e}) /\ n = Max({0, d})
  OBVIOUS
<1>3. /\ stock' = [stock EXCEPT ![p] = level] /\ consumed' = [consumed EXCEPT ![p] = @ + m]
      /\ received' = [received EXCEPT ![p] = @ + n] /\ UNCHANGED invoice
  BY <1>1, <1>2 DEF SetLevel
<1>4. level \in Int /\ stock[p] \in Int
  BY InventoryAssumption DEF Inv, TypeOK
<1>5. d \in Int /\ e \in Int /\ e = 0 - d
  BY <1>1, <1>4
<1>6. m \in Int /\ n \in Int /\ n - m = d
  BY <1>2, <1>5, MaxDifference
<1>7. ASSUME NEW x \in Products
      PROVE  stock'[x] - received'[x] + consumed'[x] = stock[x] - received[x] + consumed[x]
  <2>1. stock[x] \in Int /\ received[x] \in Int /\ consumed[x] \in Int
    BY DEF Inv, TypeOK
  <2>2. \/ stock'[x] = stock[x] /\ consumed'[x] = consumed[x] /\ received'[x] = received[x]
        \/ x = p /\ stock'[x] = level /\ consumed'[x] = consumed[x] + m /\ received'[x] = received[x] + n
    BY <1>3 DEF Inv, TypeOK
  <2>3. level - (received[p] + n) + (consumed[p] + m) = stock[p] - received[p] + consumed[p]
    <3>1. received[p] \in Int /\ consumed[p] \in Int
      BY DEF Inv, TypeOK
    <3> QED
      BY <1>1, <1>4, <1>6, <3>1
  <2> QED
    BY <2>2, <2>3
<1> QED
  BY <1>3, <1>7, StockMoved

\* A purchase adds to the stock what it adds to the received units.
LEMMA StockReceived ==
  ASSUME Inv, Inv', Stocked, NEW r, NEW p \in Products, NEW qty \in Quantities, Receive(r, p, qty)
  PROVE  Stocked'
<1>1. qty \in Int
  BY InventoryAssumption
<1>2. ASSUME NEW x \in Products
      PROVE  stock'[x] - received'[x] + consumed'[x] = stock[x] - received[x] + consumed[x]
  <2>1. stock[x] \in Int /\ received[x] \in Int /\ consumed[x] \in Int /\ consumed'[x] = consumed[x]
    BY DEF Receive, Inv, TypeOK
  <2>2. \/ stock'[x] = stock[x] /\ received'[x] = received[x]
        \/ stock'[x] = stock[x] + qty /\ received'[x] = received[x] + qty
    BY DEF Receive, Inv, TypeOK
  <2> QED
    BY <1>1, <2>1, <2>2
<1> QED
  BY <1>2, StockMoved DEF Receive

\* Of the floor's statements only the sale of a charge touches stock and invoices.
LEMMA FloorLeavesStock ==
  ASSUME NEW r, FloorNext(r), \A i \in Invoices : ~ChargeSale(r, i)
  PROVE  UNCHANGED <<stock, invoice, consumed, received>>
<1>1. \/ UNCHANGED inventoryVars
      \/ ReserveWrite(r) \/ Cancel(r)
  BY DEF FloorNext, Reserve, TakeOrder, BeginTable, OpenAccount, InsertOrder, BeginSend, BeginCancel,
         BeginCharge, BeginStatus, SendCreated, WriteStatus, ChargeMark, BeginClose, BeginPayment,
         Pay, ClaimAccount, ClaimOrders, Unclaim, BeginTab, ClaimTab, Fail
<1> QED
  BY <1>1 DEF inventoryVars, ReserveWrite, Cancel

\* No step loses a unit, if the requests go by the stock and the invoices there are.
LEMMA StockNext ==
  ASSUME Inv, Inv', Stocked, [Next]_vars, \A r \in Requests : Settled(req[r])
  PROVE  Stocked'
<1>1. CASE UNCHANGED <<stock, invoice, consumed, received>>
  BY <1>1, StockMoved
<1>2. CASE UNCHANGED vars
  BY <1>1, <1>2 DEF vars, inventoryVars
<1>3. ASSUME NEW r \in Requests, InventoryNext(r) PROVE Stocked'
  <2>1. CASE UNCHANGED inventoryVars
    BY <1>1, <2>1 DEF inventoryVars
  <2>2. ASSUME NEW i \in Invoices, SaleCommit(r, i) PROVE Stocked'
    <3>1. PICK sale : sale = req[r]
      OBVIOUS
    <3>2. sale \in ReqRow /\ sale.qty \in Nat /\ SellAs(sale, i)
      BY <2>2, <3>1, Rows DEF SaleCommit, At, Subject
    <3> QED
      BY <3>2, StockSold
  <2>3. CASE VoidCommit(r)
    BY <2>3, StockVoided DEF Settled, VoidCommit, At
  <2>4. CASE AdjustCommit(r)
    BY <2>4, StockAdjusted DEF Settled, AdjustCommit, At
  <2>5. CASE OutflowCommit(r)
    BY <2>5, StockLowered
  <2>6. CASE \E p \in Products, level \in Levels :
               EditProduct(r, p, level) \/ ImportCatalogue(r, p, level) \/ ImportStock(r, p, level)
    BY <2>6, StockWritten DEF EditProduct, ImportCatalogue, ImportStock
  <2>7. CASE \E p \in Products, qty \in Quantities : Receive(r, p, qty)
    BY <2>7, StockReceived
  <2>8. \/ UNCHANGED inventoryVars \/ \E i \in Invoices : SaleCommit(r, i)
        \/ VoidCommit(r) \/ AdjustCommit(r) \/ OutflowCommit(r)
        \/ \E p \in Products, level \in Levels :
             EditProduct(r, p, level) \/ ImportCatalogue(r, p, level) \/ ImportStock(r, p, level)
        \/ \E p \in Products, qty \in Quantities : Receive(r, p, qty)
    BY <1>3 DEF InventoryNext, BeginSale, BeginVoid, BeginOutflow, BeginConsumptions, BeginImport,
                BeginAdjust
  <2> QED
    BY <2>1, <2>2, <2>3, <2>4, <2>5, <2>6, <2>7, <2>8
<1>4. ASSUME NEW r \in Requests, FloorNext(r) PROVE Stocked'
  <2>1. ASSUME NEW i \in Invoices, ChargeSale(r, i) PROVE Stocked'
    <3>1. PICK sale : sale = req[r]
      OBVIOUS
    <3>2. sale \in ReqRow /\ sale.qty \in Nat /\ SellAs(sale, i)
      BY <2>1, <3>1, Rows DEF ChargeSale, At, Subject
    <3> QED
      BY <3>2, StockSold
  <2> QED
    BY <1>1, <1>4, <2>1, FloorLeavesStock
<1> QED
  BY <1>2, <1>3, <1>4 DEF Next

-----------------------------------------------------------------------------
(* What a request knows. *)

\* A step of a request is one of these.
Acts(r) == FloorNext(r) \/ (InventoryNext(r) /\ UNCHANGED floorVars)

\* The request that takes a step has its new locals, the others keep theirs.
LEMMA Becomes ==
  ASSUME Inv, NEW r \in Requests, NEW t, Become(r, t)
  PROVE  req'[r] = t /\ \A q \in Requests : q # r => req'[q] = req[q]
BY DEF Inv, Become

\* The statement of one request leaves the others where they are.
LEMMA OnlyOne ==
  ASSUME Inv, NEW r \in Requests, Acts(r)
  PROVE  \A q \in Requests : q # r => req'[q] = req[q]
<1>1. CASE FloorNext(r)
  <2>1. \E t : Become(r, t)
    BY <1>1
       DEF FloorNext, TakeOrder, BeginTable, OpenAccount, InsertOrder, BeginSend, BeginCancel,
           BeginCharge, BeginStatus, SendCreated, WriteStatus, ChargeMark, BeginClose, BeginPayment,
           Pay, ClaimAccount, ClaimOrders, Unclaim, BeginTab, ClaimTab, Fail, Reserve,
           ReserveWrite, Cancel, ChargeSale, Created, Goto, Finish
  <2> QED
    BY <2>1, Becomes
<1>2. CASE InventoryNext(r)
  <2>1. (\E t : Become(r, t)) \/ req' = req
    BY <1>2
       DEF InventoryNext, BeginSale, SaleCommit, BeginVoid, VoidCommit, BeginOutflow,
           BeginConsumptions, OutflowCommit, Receive, BeginImport, BeginAdjust, AdjustCommit,
           EditProduct, ImportCatalogue, ImportStock, SetLevel, Finish
  <2> QED
    BY <2>1, Becomes
<1> QED
  BY <1>1, <1>2 DEF Acts

\* Steps at which a request relies on nothing it has read of other rows.
Careless == {"idle", "outflow", "insert", "pay", "claimTab", "sendRead"}

\* The statements after which a request relies on what it has read.
Relies(r) ==
  \/ /\ \/ \E p \in Products, kind \in Kinds, qty \in Quantities, lines \in LineCounts :
             BeginSale(r, p, kind, qty, lines)
        \/ \E p \in Products, kind \in Imports, qty \in Quantities, lines \in LineCounts :
             \E skip \in BOOLEAN : BeginImport(r, p, kind, qty, lines, skip)
        \/ \E i \in Invoices : BeginVoid(r, i)
        \/ \E p \in Products, delta \in Deltas : BeginAdjust(r, p, delta)
     /\ UNCHANGED floorVars
  \/ \E t \in Tables \cap Modes, p \in Products, qty \in Quantities : BeginTable(r, t, p, qty)
  \/ \E o \in Orders : BeginSend(r, o) \/ BeginCancel(r, o) \/ BeginCharge(r, o)
  \/ \E o \in Orders, status \in {"IN_PREP", "READY"} : BeginStatus(r, o, status)
  \/ \E a \in Accounts : BeginClose(r, a)
  \/ SendCreated(r) \/ Reserve(r) \/ ClaimAccount(r) \/ ClaimOrders(r)
  \/ \E i \in Invoices : ChargeSale(r, i)

\* A step that is not one of those that read leaves its request with nothing to rely on.
LEMMA CarelessSteps ==
  ASSUME Inv, NEW r \in Requests, Acts(r), ~Relies(r)
  PROVE  req'[r].pc \in Careless
<1>1. Finish(r) => req'[r].pc \in Careless
  BY Becomes, IdleRow DEF Finish, Careless
<1>2. CASE FloorNext(r)
  <2>1. ASSUME NEW o \in Orders, NEW now \in BOOLEAN, Created(r, o, now)
        PROVE  req'[r].pc \in Careless
    <3>1. CASE now
      <4>1. PICK t : t = [Idle EXCEPT !.pc = "sendRead", !.subject = o]
        OBVIOUS
      <4>2. t.pc = "sendRead"
        BY <4>1 DEF Idle
      <4> QED
        BY <2>1, <3>1, <4>1, <4>2, Becomes DEF Created, Careless
    <3> QED
      BY <1>1, <2>1, <3>1 DEF Created
  <2>2. CASE OpenAccount(r)
    <3>1. ASSUME NEW a \in Accounts, Become(r, [req[r] EXCEPT !.pc = "insert", !.subject = a])
          PROVE  req'[r].pc \in Careless
      <4>1. PICK t : t = [req[r] EXCEPT !.pc = "insert", !.subject = a]
        OBVIOUS
      <4>2. t.pc = "insert"
        BY <4>1, Rows DEF ReqRow
      <4> QED
        BY <3>1, <4>1, <4>2, Becomes DEF Careless
    <3> QED
      BY <1>1, <2>2, <3>1 DEF OpenAccount
  <2>3. ASSUME NEW a \in Accounts, NEW amount \in Amounts, BeginPayment(r, a, amount)
        PROVE  req'[r].pc \in Careless
    <3>1. PICK t : t = [Idle EXCEPT !.pc = "pay", !.subject = a, !.qty = amount]
      OBVIOUS
    <3>2. t.pc = "pay"
      BY <3>1 DEF Idle
    <3> QED
      BY <2>3, <3>1, <3>2, Becomes DEF BeginPayment, Careless
  <2>4. CASE BeginTab(r)
    <3>1. PICK t : t = [Idle EXCEPT !.pc = "claimTab"]
      OBVIOUS
    <3>2. t.pc = "claimTab"
      BY <3>1 DEF Idle
    <3> QED
      BY <2>4, <3>1, <3>2, Becomes DEF BeginTab, Careless
  <2>5. \/ \E o \in Orders, now \in BOOLEAN : Created(r, o, now)
        \/ OpenAccount(r) \/ BeginTab(r) \/ Finish(r)
        \/ \E a \in Accounts, amount \in Amounts : BeginPayment(r, a, amount)
    BY <1>2
       DEF Relies, FloorNext, TakeOrder, InsertOrder, WriteStatus, ChargeMark, Pay, Unclaim,
           ClaimTab, Fail, ReserveWrite, Cancel
  <2> QED
    BY <1>1, <2>1, <2>2, <2>3, <2>4, <2>5
<1>3. CASE InventoryNext(r) /\ UNCHANGED floorVars
  <2>1. ASSUME NEW p \in Products, NEW kind \in Kinds, NEW qty \in Quantities,
               BeginOutflow(r, p, kind, qty)
        PROVE  req'[r].pc \in Careless
    <3>1. PICK t : t = [Idle EXCEPT !.pc = "outflow", !.product = p, !.kind = kind, !.qty = qty,
                                    !.lines = 1]
      OBVIOUS
    <3>2. t.pc = "outflow"
      BY <3>1 DEF Idle
    <3> QED
      BY <2>1, <3>1, <3>2, Becomes DEF BeginOutflow, Careless
  <2>2. ASSUME NEW p \in Products, NEW qty \in Quantities, NEW lines \in LineCounts,
               BeginConsumptions(r, p, qty, lines)
        PROVE  req'[r].pc \in Careless
    <3>1. PICK t : t = [Idle EXCEPT !.pc = "outflow", !.product = p, !.qty = qty, !.lines = lines]
      OBVIOUS
    <3>2. t.pc = "outflow"
      BY <3>1 DEF Idle
    <3> QED
      BY <2>2, <3>1, <3>2, Becomes DEF BeginConsumptions, Careless
  <2>3. ASSUME req' = req, At(r, "idle") PROVE req'[r].pc \in Careless
    BY <2>3 DEF At, Careless
  <2>4. \/ \E p \in Products, kind \in Kinds, qty \in Quantities : BeginOutflow(r, p, kind, qty)
        \/ \E p \in Products, qty \in Quantities, lines \in LineCounts :
             BeginConsumptions(r, p, qty, lines)
        \/ Finish(r)
        \/ req' = req /\ At(r, "idle")
    BY <1>3
       DEF Relies, InventoryNext, SaleCommit, VoidCommit, OutflowCommit, AdjustCommit, Receive,
           EditProduct, ImportCatalogue, ImportStock, SetLevel, Moving, Arrives
  <2> QED
    BY <1>1, <2>1, <2>2, <2>3, <2>4
<1> QED
  BY <1>2, <1>3 DEF Acts

\* What a request has read is still so, when nothing else ran since.
Knows(q) ==
  /\ Settled(q)
  /\ q.pc = "saleCommit" =>
       q.released = 0 /\ (q.kind \in Imports \/ LinesCovered(q.product, q.kind, q.qty, 0))
  /\ q.pc = "chargeSale" => /\ q.kind = "plain" /\ q.lines = 1 /\ q.released = q.qty
                            /\ LinesCovered(q.product, "plain", q.qty, q.qty)
  /\ q.pc \in {"chargeSale", "chargeMark", "status"} => order[q.subject].status \in Active
  /\ q.pc = "status" => order[q.subject].status \in From(q.was)
  /\ q.pc \in {"reserve", "reserveWrite"} => order[q.subject].status = "DRAFT"
  /\ q.pc = "reserveWrite" => Fits(q.subject)
  /\ q.pc = "cancel" => order[q.subject].status = q.was /\ q.was \in Active \cup {"DRAFT"}
  /\ q.pc = "account" => OpenAccounts(q.subject) = {}
  /\ q.pc \in {"claim", "claimOrders", "unclaim"} => q.subject \in Accounts
  /\ q.pc \in {"claimOrders", "unclaim"} => account[q.subject].key = "closing"

\* A request at a step that relies on nothing knows enough.
LEMMA CarelessKnows ==
  ASSUME NEW x, x.pc \in Careless
  PROVE  Knows(x) /\ Knows(x)' /\ Settled(x)'
BY DEF Careless, Knows, Settled

\* What a request knows stays true while no table changes.
LEMMA KnowsStays ==
  ASSUME UNCHANGED <<inventoryVars, floorVars>>, NEW x, Knows(x)
  PROVE  Knows(x)'
<1>1. UNCHANGED <<stock, reserved, invoice, order, account>>
  BY DEF inventoryVars, floorVars
<1>2. Settled(x)'
  BY <1>1 DEF Knows, Settled
<1>3. \A p, kind, qty, released : LinesCovered(p, kind, qty, released)' = LinesCovered(p, kind, qty, released)
  BY <1>1 DEF LinesCovered, AvailableUnits
<1>4. (\A t : OpenAccounts(t)' = OpenAccounts(t)) /\ (\A o : Fits(o)' = Fits(o))
  BY <1>1 DEF OpenAccounts, Fits, AvailableStock
<1> QED
  BY <1>1, <1>2, <1>3, <1>4 DEF Knows

\* A request that starts, and reads what it will rely on; it has sold nothing yet.
Fresh(t) == Knows(t) /\ t.pc # "chargeMark"

\* A step that only reads leaves its request knowing what it read.
LEMMA ReadKnows ==
  ASSUME Inv, NEW r \in Requests, Relies(r), NEW x, x = req'[r],
         ~(\E i \in Invoices : ChargeSale(r, i)), ~Reserve(r), ~ClaimAccount(r), ~ClaimOrders(r)
  PROVE  Knows(x)' /\ x.pc # "chargeMark"
<1>1. SUFFICES \E t : Become(r, t) /\ Fresh(t) /\ UNCHANGED <<inventoryVars, floorVars>>
  BY KnowsStays, Becomes DEF Fresh
<1>2. ASSUME NEW p \in Products, NEW kind \in Kinds, NEW qty \in Quantities,
             NEW lines \in LineCounts, BeginSale(r, p, kind, qty, lines)
      PROVE  \E t : Become(r, t) /\ Fresh(t) /\ UNCHANGED inventoryVars
  <2>1. PICK t : t = [Idle EXCEPT !.pc = "saleCommit", !.product = p, !.kind = kind,
                                  !.qty = qty, !.lines = lines]
    OBVIOUS
  <2>2. t.pc = "saleCommit" /\ t.product = p /\ t.kind = kind /\ t.qty = qty /\ t.released = 0
    BY <2>1 DEF Idle
  <2>3. Fresh(t)
    BY <1>2, <2>2 DEF Fresh, Knows, Settled, BeginSale
  <2> QED
    BY <1>2, <2>1, <2>3 DEF BeginSale
<1>3. ASSUME NEW p \in Products, NEW kind \in Imports, NEW qty \in Quantities,
             NEW lines \in LineCounts, NEW skip \in BOOLEAN, BeginImport(r, p, kind, qty, lines, skip)
      PROVE  \E t : Become(r, t) /\ Fresh(t) /\ UNCHANGED inventoryVars
  <2>1. PICK t : t = [Idle EXCEPT !.pc = "saleCommit", !.product = p, !.kind = kind,
                                  !.qty = qty, !.lines = lines]
    OBVIOUS
  <2>2. t.pc = "saleCommit" /\ t.kind \in Imports /\ t.released = 0
    BY <2>1 DEF Idle
  <2>3. Fresh(t)
    BY <2>2 DEF Fresh, Knows, Settled
  <2> QED
    BY <1>3, <2>1, <2>3 DEF BeginImport
<1>4. ASSUME NEW i \in Invoices, BeginVoid(r, i)
      PROVE  \E t : Become(r, t) /\ Fresh(t) /\ UNCHANGED inventoryVars
  <2>1. PICK t : t = [Idle EXCEPT !.pc = "void", !.subject = i]
    OBVIOUS
  <2>2. t.pc = "void" /\ t.subject = i
    BY <2>1 DEF Idle
  <2>3. Fresh(t)
    BY <1>4, <2>2 DEF Fresh, Knows, Settled, BeginVoid, Voidable, Arrives
  <2> QED
    BY <1>4, <2>1, <2>3 DEF BeginVoid
<1>5. ASSUME NEW p \in Products, NEW delta \in Deltas, BeginAdjust(r, p, delta)
      PROVE  \E t : Become(r, t) /\ Fresh(t) /\ UNCHANGED inventoryVars
  <2>1. PICK t : t = [Idle EXCEPT !.pc = "adjust", !.product = p, !.qty = delta, !.seen = stock[p]]
    OBVIOUS
  <2>2. t.pc = "adjust" /\ t.product = p /\ t.seen = stock[p]
    BY <2>1 DEF Idle
  <2>3. Fresh(t)
    BY <1>5, <2>2 DEF Fresh, Knows, Settled, BeginAdjust, Moving, Arrives
  <2> QED
    BY <1>5, <2>1, <2>3 DEF BeginAdjust
<1>6. ASSUME NEW u \in Tables, NEW p \in Products, NEW qty \in Quantities, BeginTable(r, u, p, qty)
      PROVE  \E t : Become(r, t) /\ Fresh(t) /\ UNCHANGED <<inventoryVars, floorVars>>
  <2>1. PICK q : q = [Idle EXCEPT !.product = p, !.qty = qty]
    OBVIOUS
  <2>2. CASE OpenAccounts(u) = {}
    <3>1. PICK t : t = [q EXCEPT !.pc = "account", !.subject = u]
      OBVIOUS
    <3>2. t.pc = "account" /\ t.subject = u
      BY <2>1, <3>1 DEF Idle
    <3>3. Fresh(t)
      BY <2>2, <3>2 DEF Fresh, Knows, Settled
    <3> QED
      BY <1>6, <2>1, <2>2, <3>1, <3>3 DEF BeginTable
  <2>3. CASE OpenAccounts(u) # {}
    <3>1. PICK a : Become(r, [q EXCEPT !.pc = "insert", !.subject = a])
      BY <1>6, <2>1, <2>3 DEF BeginTable
    <3>2. PICK t : t = [q EXCEPT !.pc = "insert", !.subject = a]
      OBVIOUS
    <3>3. t.pc \in Careless /\ t.pc # "chargeMark"
      BY <2>1, <3>2 DEF Idle, Careless
    <3>4. Fresh(t)
      BY <3>3, CarelessKnows DEF Fresh
    <3> QED
      BY <1>6, <3>1, <3>2, <3>4 DEF BeginTable
  <2> QED
    BY <2>2, <2>3
<1>7. ASSUME NEW o \in Orders, BeginSend(r, o)
      PROVE  \E t : Become(r, t) /\ Fresh(t) /\ UNCHANGED <<inventoryVars, floorVars>>
  <2>1. PICK t : t = [Idle EXCEPT !.pc = "reserve", !.subject = o]
    OBVIOUS
  <2>2. t.pc = "reserve" /\ t.subject = o
    BY <2>1 DEF Idle
  <2>3. Fresh(t)
    BY <1>7, <2>2 DEF Fresh, Knows, Settled, BeginSend, Sendable
  <2> QED
    BY <1>7, <2>1, <2>3 DEF BeginSend
<1>8. ASSUME NEW o \in Orders, BeginCancel(r, o)
      PROVE  \E t : Become(r, t) /\ Fresh(t) /\ UNCHANGED <<inventoryVars, floorVars>>
  <2>1. PICK t : t = [Idle EXCEPT !.pc = "cancel", !.subject = o, !.was = order[o].status]
    OBVIOUS
  <2>2. t.pc = "cancel" /\ t.subject = o /\ t.was = order[o].status
    BY <2>1 DEF Idle
  <2>3. Fresh(t)
    BY <1>8, <2>2 DEF Fresh, Knows, Settled, BeginCancel
  <2> QED
    BY <1>8, <2>1, <2>3 DEF BeginCancel
<1>9. ASSUME NEW o \in Orders, BeginCharge(r, o)
      PROVE  \E t : Become(r, t) /\ Fresh(t) /\ UNCHANGED <<inventoryVars, floorVars>>
  <2>1. PICK t : t = [Idle EXCEPT !.pc = "chargeSale", !.subject = o,
                                  !.product = order[o].product, !.qty = order[o].qty,
                                  !.lines = 1, !.released = order[o].qty]
    OBVIOUS
  <2>2. /\ t.pc = "chargeSale" /\ t.subject = o /\ t.product = order[o].product
        /\ t.qty = order[o].qty /\ t.lines = 1 /\ t.released = order[o].qty /\ t.kind = "plain"
    BY <2>1 DEF Idle
  <2>3. Fresh(t)
    BY <1>9, <2>2 DEF Fresh, Knows, Settled, BeginCharge, Chargeable
  <2> QED
    BY <1>9, <2>1, <2>3 DEF BeginCharge
<1>10. ASSUME NEW o \in Orders, NEW status \in {"IN_PREP", "READY"}, BeginStatus(r, o, status)
       PROVE  \E t : Become(r, t) /\ Fresh(t) /\ UNCHANGED <<inventoryVars, floorVars>>
  <2>1. PICK t : t = [Idle EXCEPT !.pc = "status", !.subject = o, !.was = status]
    OBVIOUS
  <2>2. t.pc = "status" /\ t.subject = o /\ t.was = status
    BY <2>1 DEF Idle
  <2>3. Fresh(t)
    BY <1>10, <2>2 DEF Fresh, Knows, Settled, BeginStatus, From, Active
  <2> QED
    BY <1>10, <2>1, <2>3 DEF BeginStatus
<1>11. ASSUME NEW a \in Accounts, BeginClose(r, a)
       PROVE  \E t : Become(r, t) /\ Fresh(t) /\ UNCHANGED <<inventoryVars, floorVars>>
  <2>1. PICK t : t = [Idle EXCEPT !.pc = "claim", !.subject = a]
    OBVIOUS
  <2>2. t.pc = "claim" /\ t.subject = a
    BY <2>1 DEF Idle
  <2>3. Fresh(t)
    BY <1>11, <2>2 DEF Fresh, Knows, Settled
  <2> QED
    BY <1>11, <2>1, <2>3 DEF BeginClose
<1>12. ASSUME SendCreated(r)
       PROVE  \E t : Become(r, t) /\ Fresh(t) /\ UNCHANGED <<inventoryVars, floorVars>>
  <2>1. PICK o : o = req[r].subject
    OBVIOUS
  <2>2. CASE Sendable(o) /\ Goto(r, "reserve")
    <3>1. PICK t : t = [req[r] EXCEPT !.pc = "reserve"]
      OBVIOUS
    <3>2. t.pc = "reserve" /\ t.subject = o
      BY <2>1, <3>1, Rows DEF ReqRow
    <3>3. Fresh(t)
      BY <2>2, <3>2 DEF Fresh, Knows, Settled, Sendable
    <3> QED
      BY <1>12, <2>2, <3>1, <3>3 DEF Goto, SendCreated
  <2>3. CASE Finish(r)
    <3>1. Fresh(Idle)
      BY IdleRow, CarelessKnows DEF Fresh, Careless
    <3> QED
      BY <1>12, <2>3, <3>1 DEF Finish, SendCreated
  <2> QED
    BY <1>12, <2>1, <2>2, <2>3 DEF SendCreated
<1> QED
  BY <1>2, <1>3, <1>4, <1>5, <1>6, <1>7, <1>8, <1>9, <1>10, <1>11, <1>12 DEF Relies

\* Whoever acts relies on what it knows: what it read before, or has just read or written.
LEMMA ActorKnows ==
  ASSUME Inv, NEW r \in Requests, Acts(r), Knows(req[r]), NEW x, x = req'[r]
  PROVE  Knows(x)'
<1>1. PICK q : q = req[r]
  OBVIOUS
<1>2. q \in ReqRow /\ Knows(q) /\ Subject(q)
  BY <1>1, Rows
<1>3. CASE ~Relies(r)
  BY <1>3, CarelessSteps, CarelessKnows
<1>4. ASSUME NEW i \in Invoices, ChargeSale(r, i) PROVE Knows(x)'
  <2>1. x = [q EXCEPT !.pc = "chargeMark", !.sold = i]
    BY <1>1, <1>4, Becomes DEF ChargeSale
  <2>2. q.pc = "chargeSale" /\ x.pc = "chargeMark" /\ x.subject = q.subject
    BY <1>1, <1>2, <1>4, <2>1 DEF ChargeSale, At, ReqRow
  <2>3. order' = order /\ order[q.subject].status \in Active
    BY <1>2, <1>4, <2>2 DEF ChargeSale, floorVars, Knows
  <2> QED
    BY <2>2, <2>3 DEF Knows, Settled
<1>5. CASE ClaimAccount(r)
  <2>1. CASE Finish(r)
    BY <2>1, Becomes, IdleRow, CarelessKnows DEF Finish, Careless
  <2>2. CASE account[q.subject].key = "open" /\ Goto(r, "claimOrders")
             /\ account' = [account EXCEPT ![q.subject].key = "closing"]
    <3>1. x = [q EXCEPT !.pc = "claimOrders"]
      BY <1>1, <2>2, Becomes DEF Goto
    <3>2. q.pc = "claim" /\ x.pc = "claimOrders" /\ x.subject = q.subject
      BY <1>1, <1>2, <1>5, <3>1 DEF ClaimAccount, At, ReqRow
    <3>3. q.subject \in Accounts /\ account'[q.subject].key = "closing"
      <4>1. q.subject \in Accounts
        BY <1>2, <3>2 DEF Knows
      <4>2. account[q.subject] \in AccountRow /\ account'[q.subject] = [account[q.subject] EXCEPT !.key = "closing"]
        BY <2>2, <4>1 DEF Inv, TypeOK
      <4> QED
        BY <4>1, <4>2 DEF AccountRow
    <3> QED
      BY <3>2, <3>3 DEF Knows, Settled
  <2> QED
    BY <1>1, <1>5, <2>1, <2>2 DEF ClaimAccount
<1>6. CASE ClaimOrders(r)
  <2>1. x = [q EXCEPT !.pc = "unclaim"]
    BY <1>1, <1>6, Becomes DEF ClaimOrders, Goto
  <2>2. q.pc = "claimOrders" /\ x.pc = "unclaim" /\ x.subject = q.subject
    BY <1>1, <1>2, <1>6, <2>1 DEF ClaimOrders, At, ReqRow
  <2>3. q.subject \in Accounts /\ account' = account /\ account[q.subject].key = "closing"
    BY <1>2, <1>6, <2>2 DEF ClaimOrders, floorVars, Knows
  <2> QED
    BY <2>2, <2>3 DEF Knows, Settled
<1>7. CASE Reserve(r)
  <2>1. CASE Finish(r)
    BY <2>1, Becomes, IdleRow, CarelessKnows DEF Finish, Careless
  <2>2. CASE Fits(q.subject) /\ Goto(r, "reserveWrite")
    <3>1. x = [q EXCEPT !.pc = "reserveWrite"]
      BY <1>1, <2>2, Becomes DEF Goto
    <3>2. q.pc = "reserve" /\ x.pc = "reserveWrite" /\ x.subject = q.subject
      BY <1>1, <1>2, <1>7, <3>1 DEF Reserve, At, ReqRow
    <3>3. order[q.subject].status = "DRAFT"
      BY <1>2, <3>2 DEF Knows
    <3>4. Knows(x)
      BY <2>2, <3>2, <3>3 DEF Knows, Settled
    <3> QED
      BY <1>7, <3>4, KnowsStays DEF Reserve
  <2> QED
    BY <1>1, <1>7, <2>1, <2>2 DEF Reserve
<1> QED
  BY <1>3, <1>4, <1>5, <1>6, <1>7, ReadKnows

\* What a request that adjusts or voids needs, it has read whatever it knew before.
LEMMA ActorSettled ==
  ASSUME Inv, NEW r \in Requests, Acts(r), NEW x, x = req'[r]
  PROVE  Settled(x)'
<1>1. CASE ~Relies(r)
  BY <1>1, CarelessSteps, CarelessKnows
<1>2. CASE /\ Relies(r) /\ ~(\E i \in Invoices : ChargeSale(r, i))
           /\ ~Reserve(r) /\ ~ClaimAccount(r) /\ ~ClaimOrders(r)
  BY <1>2, ReadKnows DEF Knows
<1>3. CASE (\E i \in Invoices : ChargeSale(r, i)) \/ Reserve(r) \/ ClaimAccount(r) \/ ClaimOrders(r)
  <2>1. PICK q \in ReqRow : q = req[r]
    BY Rows
  <2>2. \/ x = [q EXCEPT !.pc = "claimOrders"] \/ x = [q EXCEPT !.pc = "unclaim"] \/ x = Idle
        \/ x = [q EXCEPT !.pc = "reserveWrite"]
        \/ \E i : x = [q EXCEPT !.pc = "chargeMark", !.sold = i]
    BY <1>3, <2>1, Becomes DEF ChargeSale, Reserve, ClaimAccount, ClaimOrders, Goto, Finish
  <2>3. x.pc \notin {"adjust", "void"}
    BY <2>1, <2>2, IdleRow DEF ReqRow
  <2> QED
    BY <2>3 DEF Settled
<1> QED
  BY <1>1, <1>2, <1>3

-----------------------------------------------------------------------------
(* Units are neither lost nor made. *)

OneAtATime == \A r, s \in Requests : r = s

\* Adjustments and voids, which write what they read before, run alone, or not at all.
Undisturbed == OneAtATime \/ Operations \cap {"adjust", "void"} = {}

\* An adjustment and a void go by what they read, if nobody disturbs them.
LEMMA SettledNext ==
  ASSUME Undisturbed, Inv, [Next]_vars, \A q \in Requests : Settled(req[q])
  PROVE  (\A q \in Requests : Settled(req[q]))'
<1>1. SUFFICES ASSUME NEW q \in Requests, NEW x, x = req'[q] PROVE Settled(x)'
  OBVIOUS
<1>2. CASE UNCHANGED vars
  <2>1. x = req[q] /\ UNCHANGED <<stock, invoice>>
    BY <1>1, <1>2 DEF vars, inventoryVars
  <2> QED
    BY <2>1 DEF Settled
<1>3. ASSUME NEW r \in Requests, Acts(r) PROVE Settled(x)'
  <2>1. CASE q = r
    BY <1>1, <1>3, <2>1, ActorSettled
  <2>2. CASE q # r
    <3>1. Operations \cap {"adjust", "void"} = {}
      BY <2>2 DEF Undisturbed, OneAtATime
    <3>2. x = req[q]
      BY <1>1, <1>3, <2>2, OnlyOne
    <3>3. Settled(req[q])
      OBVIOUS
    <3> QED
      BY <3>1, <3>2, <3>3 DEF Settled
  <2> QED
    BY <2>1, <2>2
<1> QED
  BY <1>2, <1>3 DEF Next, Acts

\* At the start the stock is the opening stock.
LEMMA InitStocked == Init => Stocked /\ \A r \in Requests : Settled(req[r])
<1> SUFFICES ASSUME Init PROVE Stocked /\ \A r \in Requests : Settled(req[r])
  OBVIOUS
<1>1. Placed = {} /\ IsFiniteSet(Placed)
  BY FS_EmptySet DEF Init, InitInventory, Placed, NoInvoice
<1>2. ASSUME NEW p \in Products
      PROVE  stock[p] = Opening + received[p] - consumed[p] - SoldUnits(p)
  <2>1. SoldRows(invoice, p, LineKinds) = {} /\ invoice \in [Invoices -> InvoiceRow]
    BY <1>1, InitInv DEF SoldRows, Placed, Inv, TypeOK
  <2>2. SoldUnits(p) = 0
    BY <1>1, <2>1, SoldUnitsIs, SumEmpty
  <2>3. stock[p] = Opening /\ received[p] = 0 /\ consumed[p] = 0 /\ Opening \in Int
    BY InventoryAssumption DEF Init, InitInventory
  <2> QED
    BY <2>2, <2>3
<1>3. \A r \in Requests : Settled(req[r])
  BY IdleRow DEF Init, Settled
<1> QED
  BY <1>1, <1>2, <1>3 DEF Stocked, StockConserved

StockInv == Inv /\ Stocked /\ \A r \in Requests : Settled(req[r])

\* The sums go with the stock in every state.
LEMMA AlwaysStocked == ASSUME Undisturbed PROVE Spec => []StockInv
<1>1. Init => StockInv
  BY InitInv, InitStocked DEF StockInv
<1>2. StockInv /\ [Next]_vars => StockInv'
  <2> SUFFICES ASSUME StockInv, [Next]_vars PROVE StockInv'
    OBVIOUS
  <2>1. Inv'
    BY NextInv DEF StockInv
  <2>2. Stocked'
    BY <2>1, StockNext DEF StockInv
  <2>3. (\A r \in Requests : Settled(req[r]))'
    BY SettledNext DEF StockInv
  <2> QED
    BY <2>1, <2>2, <2>3 DEF StockInv
<1> QED
  BY <1>1, <1>2, PTL DEF Spec

\* Sales, charges, reservations, cancellations, imports, consumption, purchases and levels written
\* outright interleave in any way, and die at any step, without losing or making a unit; so do
\* adjustments and voids when no two requests overlap, but for the void of a variant or of an
\* imported bundle, which gives back something else than was taken.
THEOREM UnitsConserved ==
  ASSUME OneAtATime \/ Operations \cap {"adjust", "void"} = {}
  PROVE  Spec => []StockConserved
<1>1. Spec => []StockInv
  BY AlwaysStocked DEF Undisturbed
<1>2. StockInv => StockConserved
  BY DEF StockInv, Stocked
<1> QED
  BY <1>1, <1>2, PTL

-----------------------------------------------------------------------------
(* Requests that do not overlap. *)

\* One request at a time knows what it read, until it ends.
LEMMA KnowsNext ==
  ASSUME OneAtATime, Inv, [Next]_vars, \A q \in Requests : Knows(req[q])
  PROVE  (\A q \in Requests : Knows(req[q]))'
<1>1. SUFFICES ASSUME NEW q \in Requests, NEW x, x = req'[q] PROVE Knows(x)'
  OBVIOUS
<1>2. CASE UNCHANGED vars
  <2>1. x = req[q] /\ UNCHANGED <<inventoryVars, floorVars>>
    BY <1>1, <1>2 DEF vars
  <2> QED
    BY <2>1, KnowsStays
<1>3. ASSUME NEW r \in Requests, Acts(r) PROVE Knows(x)'
  <2>1. q = r
    BY DEF OneAtATime
  <2> QED
    BY <1>1, <1>3, <2>1, ActorKnows
<1> QED
  BY <1>2, <1>3 DEF Next, Acts

\* At the start nothing runs.
LEMMA InitKnows == Init => \A r \in Requests : Knows(req[r])
<1> SUFFICES ASSUME Init, NEW r \in Requests PROVE Knows(req[r])
  OBVIOUS
<1>1. req[r].pc \in Careless
  BY IdleRow DEF Init, Careless
<1> QED
  BY <1>1, CarelessKnows

\* What holds at every step of requests that do not overlap.
Alone == Inv /\ \A r \in Requests : Knows(req[r])

\* One request at a time is well typed and knows what it read, in every state.
LEMMA AlwaysAlone == ASSUME OneAtATime PROVE Spec => []Alone
<1>1. Init => Alone
  BY InitInv, InitKnows DEF Alone
<1>2. Alone /\ [Next]_vars => Alone'
  BY NextInv, KnowsNext DEF Alone
<1> QED
  BY <1>1, <1>2, PTL DEF Spec

\* Keys and tables of the accounts, while an account is closed too.
Accounted ==
  /\ \A a \in Accounts :
       /\ account[a].table = None <=> account[a].key = "none"
       /\ \A b \in Accounts \ {a} : account[a].table = account[b].table => account[a].table = None
  /\ \A r \in Requests, a \in Accounts : account[a].key = "closing" =>
       req[r].pc \in {"claimOrders", "unclaim"} /\ req[r].subject = a

\* No step of one request at a time gives a table two accounts, or leaves one CLOSING when it ends.
LEMMA AccountedNext ==
  ASSUME OneAtATime, "failure" \notin Operations, Alone, Accounted, [Next]_vars
  PROVE  Accounted'
<1>1. CASE UNCHANGED vars
  BY <1>1 DEF vars, floorVars, Accounted
<1>2. ASSUME NEW r \in Requests, Acts(r) PROVE Accounted'
  <2>1. PICK q \in ReqRow : q = req[r] /\ Knows(q) /\ Subject(q)
    BY Rows DEF Alone
  <2>2. \A s \in Requests : s = r
    BY DEF OneAtATime
  <2>3. CASE account' = account /\ q.pc \notin {"claimOrders", "unclaim"}
    <3>1. \A a \in Accounts : account[a].key # "closing"
      BY <2>1, <2>3 DEF Accounted
    <3> QED
      BY <2>3, <3>1 DEF Accounted
  <2>4. CASE ClaimOrders(r)
    <3>1. PICK x : x = [q EXCEPT !.pc = "unclaim"]
      OBVIOUS
    <3>2. x.pc = "unclaim" /\ x.subject = q.subject
      BY <3>1 DEF ReqRow
    <3>3. req'[r] = x /\ account' = account
      BY <2>1, <2>4, <3>1, Becomes DEF Alone, ClaimOrders, Goto, floorVars
    <3> QED
      BY <2>1, <2>2, <3>2, <3>3 DEF Accounted
  <2>5. CASE ClaimAccount(r) /\ account' # account
    <3>1. PICK a : a = q.subject
      OBVIOUS
    <3>2. PICK x : x = [q EXCEPT !.pc = "claimOrders"]
      OBVIOUS
    <3>3. /\ x.pc = "claimOrders" /\ x.subject = a /\ a \in Accounts /\ account[a].key = "open"
          /\ account' = [account EXCEPT ![a].key = "closing"] /\ req'[r] = x /\ q.pc = "claim"
      <4>1. q.pc = "claim" /\ account[a].key = "open" /\ Goto(r, "claimOrders")
            /\ account' = [account EXCEPT ![a].key = "closing"]
        BY <2>1, <2>5, <3>1 DEF ClaimAccount, At
      <4>2. x.pc = "claimOrders" /\ x.subject = a
        BY <3>1, <3>2 DEF ReqRow
      <4>3. req'[r] = x
        BY <2>1, <3>2, <4>1, Becomes DEF Alone, Goto
      <4> QED
        BY <2>1, <3>1, <4>1, <4>2, <4>3 DEF Knows
    <3>4. /\ account'[a].key = "closing" /\ account'[a].table = account[a].table
          /\ \A b \in Accounts : b # a => account'[b] = account[b]
      <4>1. account[a] \in AccountRow /\ account'[a] = [account[a] EXCEPT !.key = "closing"]
        BY <3>3 DEF Alone, Inv, TypeOK
      <4> QED
        BY <3>3, <4>1 DEF AccountRow, Alone, Inv, TypeOK
    <3>5. \A b \in Accounts : account[b].key # "closing"
      BY <2>1, <3>3 DEF Accounted
    <3>6. \A b \in Accounts : account'[b].table = account[b].table
      BY <3>4
    <3>7. \A b \in Accounts : account'[b].table = None <=> account'[b].key = "none"
      BY <3>3, <3>4 DEF Accounted
    <3>8. \A s \in Requests, b \in Accounts : account'[b].key = "closing" =>
            req'[s].pc \in {"claimOrders", "unclaim"} /\ req'[s].subject = b
      BY <2>2, <3>3, <3>4, <3>5
    <3> QED
      BY <3>6, <3>7, <3>8 DEF Accounted
  <2>6. CASE Unclaim(r)
    <3>1. PICK a : a = q.subject
      OBVIOUS
    <3>2. q.pc = "unclaim" /\ a \in Accounts /\ account[a].key = "closing"
      BY <2>1, <2>6, <3>1 DEF Unclaim, At, Knows
    <3>3. None \notin Accounts /\ account[a].table # None
      BY <3>2, FloorAssumption DEF Accounted
    <3>4. KeyFree(account[a].table)
      BY <3>2, <3>3 DEF KeyFree, Accounted
    <3>5. account'[a] = [account[a] EXCEPT !.key = "open"] /\ \A b \in Accounts : b # a => account'[b] = account[b]
      BY <2>1, <2>6, <3>1, <3>2, <3>4 DEF Unclaim, Unclaimed, Alone, Inv, TypeOK
    <3>6. account'[a].key = "open" /\ account'[a].table = account[a].table
      <4>1. account[a] \in AccountRow
        BY <3>2 DEF Alone, Inv, TypeOK
      <4> QED
        BY <3>5, <4>1 DEF AccountRow
    <3>7. \A b \in Accounts : account[b].key = "closing" => b = a
      BY <2>1, <3>1 DEF Accounted
    <3>8. \A b \in Accounts : account'[b].key # "closing"
      BY <3>5, <3>6, <3>7
    <3>9. \A b \in Accounts : account'[b].table = account[b].table
      BY <3>5, <3>6
    <3>10. \A b \in Accounts : account'[b].table = None <=> account'[b].key = "none"
      BY <3>3, <3>5, <3>6 DEF Accounted
    <3> QED
      BY <3>8, <3>9, <3>10 DEF Accounted
  <2>7. CASE OpenAccount(r) /\ account' # account
    <3>1. PICK u : u = q.subject
      OBVIOUS
    <3>2. PICK a \in Accounts : account' = [account EXCEPT ![a] = [table |-> u, key |-> "open"]]
      BY <2>1, <2>7, <3>1 DEF OpenAccount
    <3>3. q.pc = "account" /\ u \in Tables /\ u # None /\ OpenAccounts(u) = {}
      BY <2>1, <2>7, <3>1, FloorAssumption DEF OpenAccount, At, Subject, Knows
    <3>4. /\ account'[a].table = u /\ account'[a].key = "open"
          /\ \A b \in Accounts : b # a => account'[b] = account[b]
      BY <3>2 DEF Alone, Inv, TypeOK
    <3>5. \A b \in Accounts : account[b].key # "closing" /\ account[b].table # u
      BY <2>1, <3>3 DEF Accounted, OpenAccounts
    <3>6. \A b \in Accounts : account'[b].table = None <=> account'[b].key = "none"
      BY <3>3, <3>4 DEF Accounted
    <3>7. \A b \in Accounts : account'[b].key # "closing"
      BY <3>4, <3>5
    <3>8. ASSUME NEW b \in Accounts, NEW c \in Accounts, b # c, account'[b].table = account'[c].table
          PROVE  account'[b].table = None
      <4>1. CASE b = a \/ c = a
        BY <3>4, <3>5, <3>8, <4>1
      <4>2. CASE b # a /\ c # a
        BY <3>4, <3>8, <4>2 DEF Accounted
      <4> QED
        BY <4>1, <4>2
    <3> QED
      BY <3>6, <3>7, <3>8 DEF Accounted
  <2>8. account' = account \/ ClaimAccount(r) \/ OpenAccount(r) \/ Unclaim(r)
    BY <1>2
       DEF Acts, FloorNext, TakeOrder, BeginTable, InsertOrder, BeginSend, BeginCancel, BeginCharge,
           BeginStatus, SendCreated, Reserve, ReserveWrite, WriteStatus, Cancel, ChargeMark,
           ChargeSale, BeginClose, BeginPayment, Pay, ClaimOrders, BeginTab, ClaimTab, Fail, floorVars
  <2>9. CASE q.pc \in {"claimOrders", "unclaim"}
    <3>1. ~At(r, "idle") /\ req[r].pc \in {"claimOrders", "unclaim"}
      BY <2>1, <2>9 DEF At
    <3>2. InventoryNext(r) => FALSE
      BY <3>1
         DEF InventoryNext, BeginSale, SaleCommit, BeginVoid, VoidCommit, BeginOutflow,
             BeginConsumptions, OutflowCommit, Receive, BeginImport, BeginAdjust, AdjustCommit,
             EditProduct, ImportCatalogue, ImportStock, Moving, Arrives, At
    <3>3. ClaimOrders(r) \/ Unclaim(r)
      BY <1>2, <3>1, <3>2
         DEF Acts, FloorNext, TakeOrder, BeginTable, OpenAccount, InsertOrder, BeginSend,
             BeginCancel, BeginCharge, BeginStatus, SendCreated, Reserve, ReserveWrite, WriteStatus,
             Cancel, ChargeMark, ChargeSale, BeginClose, BeginPayment, Pay, ClaimAccount, BeginTab,
             ClaimTab, Fail, Arrives, At
    <3> QED
      BY <2>4, <2>6, <3>3
  <2> QED
    BY <2>3, <2>5, <2>6, <2>7, <2>8, <2>9
<1> QED
  BY <1>1, <1>2 DEF Next, Acts

\* With one request at a time, and a process that stays up, a table never has two open
\* accounts, and no account is left without the key that closing it took away.
THEOREM AccountsKeptSound ==
  ASSUME OneAtATime, "failure" \notin Operations, Requests # {}
  PROVE  Spec => []AccountsSound
<1>1. Init => Accounted
  BY DEF Init, Accounted, NoAccount
<1>2. Alone /\ Accounted /\ [Next]_vars => Accounted'
  BY AccountedNext
<1>3. Accounted => AccountsSound
  BY DEF Accounted, AccountsSound, Quiet, At
<1>4. Spec => []Alone
  BY AlwaysAlone
<1> QED
  BY <1>1, <1>2, <1>3, <1>4, PTL DEF Spec

-----------------------------------------------------------------------------
(* How a change of one order changes what the kitchen holds. *)

Held(f, p) == Sum(Asked(f), KitchenRows(f, p))

\* The row of one order is written.
Ordered(f, g, o, row) ==
  /\ f \in [Orders -> OrderRow] /\ row \in OrderRow /\ o \in Orders
  /\ g = [f EXCEPT ![o] = row]

\* What the lemmas below share: the weights before and after, on the rows before.
Weighed(f, g, o, row, S) ==
  /\ S \subseteq Orders /\ IsFiniteSet(S)
  /\ Agree(Asked(g), Asked(f), S \ {o}) /\ Agree(Asked(f), Asked(g), S \ {o})
  /\ Ints(Asked(f), S) /\ Ints(Asked(g), S \cup {o})
  /\ Asked(f)[o] = f[o].qty /\ Asked(g)[o] = row.qty /\ row.qty \in Int /\ f[o].qty \in Int
  /\ Sum(Asked(f), S) \in Int
  /\ g[o] = row /\ \A x \in Orders : x # o => g[x] = f[x]

\* An order written changes the weight of no other order of the kitchen.
LEMMA KitchenWeights ==
  ASSUME NEW f, NEW g, NEW o, NEW row, Ordered(f, g, o, row), NEW p,
         IsFiniteSet(KitchenRows(f, p)), NEW S, S = KitchenRows(f, p)
  PROVE  Weighed(f, g, o, row, S)
<1>1. S \subseteq Orders /\ IsFiniteSet(S) /\ o \in Orders
  BY DEF KitchenRows, Ordered
<1>2. g \in [Orders -> OrderRow] /\ g[o] = row /\ \A x \in Orders : x # o => g[x] = f[x]
  BY DEF Ordered
<1>3. \A x \in Orders : /\ f[x].qty \in Int /\ g[x].qty \in Int
                        /\ Asked(f)[x] = f[x].qty /\ Asked(g)[x] = g[x].qty
  BY <1>2 DEF Ordered, OrderRow, Asked
<1>4. Agree(Asked(g), Asked(f), S \ {o}) /\ Agree(Asked(f), Asked(g), S \ {o})
  BY <1>1, <1>2, <1>3 DEF Agree
<1>5. Ints(Asked(f), S) /\ Ints(Asked(g), S \cup {o})
  BY <1>1, <1>3 DEF Ints
<1>6. Sum(Asked(f), S) \in Int
  <2>1. PICK v : v = Asked(f)
    OBVIOUS
  <2>2. \A x \in S : v[x] \in Int
    BY <1>5, <2>1 DEF Ints
  <2> QED
    BY <1>1, <2>1, <2>2, SumType
<1> QED
  BY <1>1, <1>2, <1>3, <1>4, <1>5, <1>6 DEF Weighed

\* An order sent adds what it asks to what the kitchen holds of its product, and to no other.
LEMMA SentHeld ==
  ASSUME NEW f, NEW g, NEW o, NEW row, Ordered(f, g, o, row), f[o].status \notin Active,
         row.status \in Active, NEW p, IsFiniteSet(KitchenRows(f, p))
  PROVE  /\ Held(f, p) \in Int /\ row.qty \in Int
         /\ row.product = p => Held(g, p) = Held(f, p) + row.qty
         /\ row.product # p => Held(g, p) = Held(f, p)
<1>1. PICK S, v, w : S = KitchenRows(f, p) /\ v = Asked(f) /\ w = Asked(g)
  OBVIOUS
<1>2. /\ S \subseteq Orders /\ IsFiniteSet(S) /\ o \notin S /\ S \ {o} = S
      /\ Agree(v, w, S) /\ Ints(w, S \cup {o}) /\ w[o] = row.qty /\ row.qty \in Int
      /\ Sum(v, S) \in Int /\ g[o] = row /\ \A x \in Orders : x # o => g[x] = f[x]
  <2>1. o \notin S /\ S \ {o} = S
    BY <1>1 DEF KitchenRows
  <2>2. Weighed(f, g, o, row, S)
    BY <1>1, KitchenWeights
  <2> QED
    BY <1>1, <2>1, <2>2 DEF Weighed
<1>3. Sum(w, S \cup {o}) = Sum(v, S) + row.qty
  <2>1. IsFiniteSet(S) /\ o \notin S /\ Agree(v, w, S) /\ Ints(w, S \cup {o}) /\ w[o] = row.qty
    BY <1>2
  <2>2. Sum(w, S \cup {o}) = Sum(v, S) + w[o] /\ Sum(v, S) \in Int
    BY <2>1, SumAdd
  <2> QED
    BY <2>1, <2>2
<1>4. Sum(w, S) = Sum(v, S)
  BY <1>2, SumSame DEF Agree
<1>5. row.product = p => KitchenRows(g, p) = S \cup {o}
  BY <1>1, <1>2 DEF KitchenRows, Ordered
<1>6. row.product # p => KitchenRows(g, p) = S
  BY <1>1, <1>2 DEF KitchenRows, Ordered
<1> QED
  BY <1>1, <1>2, <1>3, <1>4, <1>5, <1>6 DEF Held

\* An order that leaves the kitchen takes what it asks from what the kitchen holds of its product.
LEMMA LeftHeld ==
  ASSUME NEW f, NEW g, NEW o, NEW row, Ordered(f, g, o, row), f[o].status \in Active,
         row.status \notin Active, NEW p, IsFiniteSet(KitchenRows(f, p))
  PROVE  /\ Held(f, p) \in Int /\ f[o].qty \in Int
         /\ f[o].product = p => Held(g, p) = Held(f, p) - f[o].qty
         /\ f[o].product # p => Held(g, p) = Held(f, p)
<1>1. PICK S, v, w : S = KitchenRows(f, p) /\ v = Asked(f) /\ w = Asked(g)
  OBVIOUS
<1>2. /\ S \subseteq Orders /\ IsFiniteSet(S)
      /\ Agree(w, v, S \ {o}) /\ Ints(v, S) /\ v[o] = f[o].qty /\ f[o].qty \in Int
      /\ Sum(v, S) \in Int /\ g[o] = row /\ \A x \in Orders : x # o => g[x] = f[x]
  <2>1. Weighed(f, g, o, row, S)
    BY <1>1, KitchenWeights
  <2> QED
    BY <1>1, <2>1 DEF Weighed
<1>3. ASSUME f[o].product = p PROVE Held(g, p) = Held(f, p) - f[o].qty
  <2>1. o \in S /\ KitchenRows(g, p) = S \ {o}
    BY <1>1, <1>2, <1>3 DEF KitchenRows, Ordered
  <2>2. Sum(v, S) = Sum(w, S \ {o}) + v[o] /\ Sum(w, S \ {o}) \in Int
    BY <1>2, <2>1, SumRemove
  <2>3. Held(g, p) = Sum(w, S \ {o}) /\ Held(f, p) = Sum(v, S)
    BY <1>1, <2>1 DEF Held
  <2> QED
    BY <1>2, <2>2, <2>3
<1>4. ASSUME f[o].product # p PROVE Held(g, p) = Held(f, p)
  <2>1. o \notin S /\ KitchenRows(g, p) = S /\ S \ {o} = S
    BY <1>1, <1>2, <1>4 DEF KitchenRows, Ordered
  <2>2. Sum(w, S) = Sum(v, S)
    BY <1>2, <2>1, SumSame DEF Agree
  <2> QED
    BY <1>1, <2>1, <2>2 DEF Held
<1> QED
  BY <1>1, <1>2, <1>3, <1>4 DEF Held

\* An order that stays in the kitchen, or stays out of it, changes nothing.
LEMMA StayHeld ==
  ASSUME NEW f, NEW g, NEW o, NEW row, Ordered(f, g, o, row),
         \/ f[o].status \notin Active /\ row.status \notin Active
         \/ /\ f[o].status \in Active /\ row.status \in Active
            /\ row.product = f[o].product /\ row.qty = f[o].qty,
         NEW p, IsFiniteSet(KitchenRows(f, p))
  PROVE  Held(g, p) = Held(f, p) /\ Held(f, p) \in Int
<1>1. PICK S, v, w : S = KitchenRows(f, p) /\ v = Asked(f) /\ w = Asked(g)
  OBVIOUS
<1>2. /\ S \subseteq Orders /\ IsFiniteSet(S)
      /\ Agree(w, v, S \ {o}) /\ v[o] = f[o].qty /\ w[o] = row.qty
      /\ Sum(v, S) \in Int /\ g[o] = row /\ \A x \in Orders : x # o => g[x] = f[x]
  <2>1. Weighed(f, g, o, row, S)
    BY <1>1, KitchenWeights
  <2> QED
    BY <1>1, <2>1 DEF Weighed
<1>3. o \in Orders
  BY DEF Ordered
<1>4. KitchenRows(g, p) = S
  BY <1>1, <1>2, <1>3 DEF KitchenRows
<1>5. o \in S => w[o] = v[o]
  BY <1>1, <1>2 DEF KitchenRows
<1>6. \A x \in S : w[x] = v[x]
  BY <1>2, <1>5 DEF Agree
<1>7. Sum(w, S) = Sum(v, S)
  BY <1>2, <1>6, SumSame
<1> QED
  BY <1>1, <1>2, <1>4, <1>7 DEF Held

\* What the kitchen holds of a product is a natural, and no less than any order in it asks.
LEMMA HeldCovers ==
  ASSUME NEW f \in [Orders -> OrderRow], NEW p, IsFiniteSet(KitchenRows(f, p)),
         NEW o \in KitchenRows(f, p)
  PROVE  Held(f, p) >= f[o].qty
<1>1. PICK S, v : S = KitchenRows(f, p) /\ v = Asked(f)
  OBVIOUS
<1>2. S \subseteq Orders /\ IsFiniteSet(S) /\ o \in S
  BY <1>1 DEF KitchenRows
<1>3. \A x \in S : v[x] \in Nat /\ v[x] \in Int /\ v[x] = f[x].qty
  BY <1>1, <1>2 DEF Asked, OrderRow
<1>4. PICK T : T = S \ {o}
  OBVIOUS
<1>5. IsFiniteSet(T) /\ \A x \in T : v[x] \in Nat
  BY <1>2, <1>3, <1>4, FS_RemoveElement
<1>6. Sum(v, T) \in Nat
  BY <1>5, SumType
<1>7. Sum(v, S) = v[o] + Sum(v, T)
  BY <1>2, <1>3, <1>4, SumTake
<1>8. v[o] \in Nat /\ v[o] = f[o].qty
  BY <1>2, <1>3
<1> QED
  BY <1>1, <1>6, <1>7, <1>8 DEF Held

-----------------------------------------------------------------------------
(* The reservations of requests that do not overlap. *)

\* A charge has released, and not yet marked, what its order asked.
Due(q, p) == IF q.pc = "chargeMark" /\ q.product = p THEN q.qty ELSE 0

\* What is reserved, with what a charge has released of it, is what the kitchen holds.
Kept ==
  /\ IsFiniteSet({o \in Orders : Exists(o)})
  /\ \A r \in Requests, p \in Products : reserved[p] + Due(req[r], p) = Held(order, p)

\* The orders of a product in the kitchen are finitely many.
LEMMA KitchenFinite ==
  ASSUME Kept, NEW p
  PROVE  IsFiniteSet(KitchenRows(order, p))
BY KitchenTotal DEF Kept

\* Only the sale of a charge leaves a request about to mark its order.
LEMMA MarkAfterSale ==
  ASSUME Inv, NEW r \in Requests, Acts(r), req'[r].pc = "chargeMark"
  PROVE  \E i \in Invoices : ChargeSale(r, i)
<1> SUFFICES ASSUME \A i \in Invoices : ~ChargeSale(r, i) PROVE FALSE
  OBVIOUS
<1>1. Relies(r)
  BY CarelessSteps DEF Careless
<1>2. CASE ~Reserve(r) /\ ~ClaimAccount(r) /\ ~ClaimOrders(r)
  BY <1>1, <1>2, ReadKnows
<1>3. CASE Reserve(r) \/ ClaimAccount(r) \/ ClaimOrders(r)
  <2>1. PICK q \in ReqRow : q = req[r]
    BY Rows
  <2>2. req'[r] = [q EXCEPT !.pc = "claimOrders"] \/ req'[r] = [q EXCEPT !.pc = "unclaim"]
        \/ req'[r] = [q EXCEPT !.pc = "reserveWrite"] \/ req'[r] = Idle
    BY <1>3, <2>1, Becomes DEF Reserve, ClaimAccount, ClaimOrders, Goto, Finish
  <2> QED
    BY <2>1, <2>2, IdleRow DEF ReqRow
<1> QED
  BY <1>2, <1>3

\* A request about to mark its order marks it, unless it may die.
LEMMA MarksNext ==
  ASSUME NEW r \in Requests, Acts(r), At(r, "chargeMark"), "failure" \notin Operations
  PROVE  ChargeMark(r)
<1>1. InventoryNext(r) => FALSE
  BY DEF InventoryNext, BeginSale, SaleCommit, BeginVoid, VoidCommit, BeginOutflow,
         BeginConsumptions, OutflowCommit, Receive, BeginImport, BeginAdjust, AdjustCommit,
         EditProduct, ImportCatalogue, ImportStock, Moving, Arrives, At
<1> QED
  BY <1>1
     DEF Acts, FloorNext, TakeOrder, BeginTable, OpenAccount, InsertOrder, BeginSend, BeginCancel,
         BeginCharge, BeginStatus, SendCreated, Reserve, ReserveWrite, WriteStatus, Cancel,
         ChargeSale, BeginClose, BeginPayment, Pay, ClaimAccount, ClaimOrders, Unclaim, BeginTab, ClaimTab,
         Fail, Arrives, At

\* Who writes orders and reservations.
Reserves(r) ==
  \/ \E o \in Orders : \/ \E mode \in Modes, p \in Products, qty \in Quantities, now \in BOOLEAN :
                            TakeOrder(r, o, mode, p, qty, now)
                       \/ \E now \in BOOLEAN : InsertOrder(r, o, now)
  \/ ReserveWrite(r) \/ WriteStatus(r) \/ Cancel(r) \/ ChargeMark(r)
  \/ \E i \in Invoices : ChargeSale(r, i) \/ (SaleCommit(r, i) /\ UNCHANGED floorVars)

\* The steps that are not of reservations change neither reservations nor orders.
LEMMA OthersReserveNothing ==
  ASSUME NEW r \in Requests, Acts(r), ~Reserves(r)
  PROVE  UNCHANGED <<reserved, order>>
<1>1. CASE FloorNext(r)
  BY <1>1
     DEF Reserves, FloorNext, BeginTable, OpenAccount, BeginSend, BeginCancel, BeginCharge,
         BeginStatus, SendCreated, Reserve, BeginClose, BeginPayment, Pay, ClaimAccount,
         ClaimOrders, Unclaim, BeginTab, ClaimTab, Fail, inventoryVars, floorVars
<1>2. CASE InventoryNext(r) /\ UNCHANGED floorVars
  BY <1>2
     DEF Reserves, InventoryNext, BeginSale, BeginVoid, VoidCommit, BeginOutflow,
         BeginConsumptions, OutflowCommit, Receive, BeginImport, BeginAdjust, AdjustCommit,
         EditProduct, ImportCatalogue, ImportStock, SetLevel, inventoryVars, floorVars
<1> QED
  BY <1>1, <1>2 DEF Acts

\* The lesser of two integers, where the first is.
LEMMA MinIs ==
  ASSUME NEW x \in Int, NEW y \in Int
  PROVE  Min({x, y}) \in Int /\ (y >= x => Min({x, y}) = x)
<1>1. \E z \in {x, y} : \A w \in {x, y} : z =< w
  OBVIOUS
<1>2. Min({x, y}) \in {x, y} /\ \A w \in {x, y} : Min({x, y}) =< w
  BY <1>1 DEF Min
<1> QED
  BY <1>2

\* A sale over the counter releases nothing, a charge the units of its order.
LEMMA ReleasedIs ==
  ASSUME NEW q \in ReqRow, q.qty \in Nat,
         \/ q.released = 0
         \/ q.kind = "plain" /\ q.lines = 1 /\ q.released = q.qty
  PROVE  Released(q) = q.released /\ q.released \in Int
<1>1. q.kind \in LineKinds /\ q.lines \in Nat /\ q.qty \in Nat /\ q.released \in Int
  BY DEF ReqRow
<1>2. PICK n : n = q.lines * Taken(q.kind, q.qty)
  OBVIOUS
<1>3. n \in Nat
  <2>1. Taken(q.kind, q.qty) \in Nat
    BY <1>1, TakenType
  <2> QED
    BY <1>1, <1>2, <2>1, ProductType
<1>4. n >= q.released
  <2>1. CASE q.released = 0
    BY <1>3, <2>1
  <2>2. CASE q.kind = "plain" /\ q.lines = 1 /\ q.released = q.qty
    <3>1. Taken(q.kind, q.qty) = q.qty
      BY <2>2 DEF Taken
    <3>2. n = q.qty
      BY <1>1, <1>2, <2>2, <3>1
    <3> QED
      BY <1>1, <2>2, <3>2
  <2> QED
    BY <2>1, <2>2
<1>5. Min({q.released, n}) = q.released
  BY <1>1, <1>3, <1>4, MinIs
<1> QED
  BY <1>1, <1>2, <1>5 DEF Released

\* The new row of an order.
LEMMA OrderWritten ==
  ASSUME Inv, NEW o \in Orders, NEW row \in OrderRow, order' = [order EXCEPT ![o] = row],
         NEW f, NEW g, f = order, g = order'
  PROVE  Ordered(f, g, o, row)
BY DEF Inv, TypeOK, Ordered

\* A step that writes the row of one order, of a request that neither has sold nor sells.
LEMMA KeptByRow ==
  ASSUME Inv, Inv', Kept, OneAtATime, NEW r \in Requests,
         ~At(r, "chargeMark"), req'[r].pc # "chargeMark",
         NEW o \in Orders, NEW row \in OrderRow, order' = [order EXCEPT ![o] = row],
         \A p \in Products : Held(order', p) - Held(order, p) = reserved'[p] - reserved[p]
  PROVE  Kept'
<1>1. {x \in Orders : Exists(x)}' \subseteq {x \in Orders : Exists(x)} \cup {o}
  BY DEF Exists, Inv, TypeOK
<1>2. IsFiniteSet({x \in Orders : Exists(x)} \cup {o})
  BY FS_AddElement DEF Kept
<1>3. IsFiniteSet({x \in Orders : Exists(x)}')
  BY <1>1, <1>2, FS_Subset
<1>4. ASSUME NEW q \in Requests, NEW p \in Products
      PROVE  reserved'[p] + Due(req[q], p)' = Held(order, p)'
  <2>1. q = r
    BY DEF OneAtATime
  <2>2. Due(req[q], p) = 0 /\ Due(req[q], p)' = 0
    BY <2>1 DEF Due, At
  <2>3. reserved[p] \in Int /\ reserved'[p] \in Int
    BY DEF Inv, TypeOK
  <2>4. reserved[p] = Held(order, p)
    BY <2>2, <2>3 DEF Kept
  <2>5. Held(order', p) \in Int
    <3>1. PICK f, g : f = order /\ g = order'
      OBVIOUS
    <3>2. g \in [Orders -> OrderRow] /\ KitchenRows(g, p) \subseteq {x \in Orders : Exists(x)}'
      BY <3>1 DEF Inv, TypeOK, KitchenRows, Exists, Active
    <3>3. IsFiniteSet(KitchenRows(g, p))
      BY <1>3, <3>2, FS_Subset
    <3>4. PICK S, v : S = KitchenRows(g, p) /\ v = Asked(g)
      OBVIOUS
    <3>5. \A x \in S : v[x] \in Int
      BY <3>2, <3>4 DEF KitchenRows, Asked, OrderRow
    <3>6. Sum(v, S) \in Int
      BY <3>3, <3>4, <3>5, SumType
    <3> QED
      BY <3>1, <3>4, <3>6 DEF Held
  <2>6. Held(order', p) - Held(order, p) = reserved'[p] - reserved[p]
    OBVIOUS
  <2>7. reserved'[p] = Held(order', p)
    BY <2>3, <2>4, <2>5, <2>6
  <2>8. Held(order, p)' = Held(order', p)
    BY DEF Held, Asked, KitchenRows
  <2> QED
    BY <2>2, <2>3, <2>7, <2>8
<1> QED
  BY <1>3, <1>4 DEF Kept

\* Every step of one request at a time keeps the reservations equal to what the kitchen holds.
LEMMA KeptNext ==
  ASSUME OneAtATime, "failure" \notin Operations, Alone, Alone', Kept, [Next]_vars
  PROVE  Kept'
<1>0. Inv /\ Inv'
  BY DEF Alone
<1>1. ASSUME NEW r \in Requests, UNCHANGED <<reserved, order>>,
             ~At(r, "chargeMark"), req'[r].pc # "chargeMark"
      PROVE  Kept'
  <2>1. \A q \in Requests : q = r
    BY DEF OneAtATime
  <2>2. \A p \in Products : Due(req[r], p) = 0 /\ Due(req[r], p)' = 0
    BY <1>1 DEF Due, At
  <2>3. {o \in Orders : Exists(o)}' = {o \in Orders : Exists(o)}
    BY <1>1 DEF Exists
  <2>4. \A p \in Products : Held(order, p)' = Held(order, p)
    BY <1>1 DEF Held, Asked, KitchenRows
  <2> QED
    BY <1>1, <2>1, <2>2, <2>3, <2>4 DEF Kept
<1>2. CASE UNCHANGED vars
  <2>1. UNCHANGED <<reserved, order, req>>
    BY <1>2 DEF vars, inventoryVars, floorVars
  <2>2. \A p, q : Held(order, p)' = Held(order, p) /\ Due(q, p) = Due(q, p)
    BY <2>1 DEF Held, Asked, KitchenRows
  <2> QED
    BY <2>1, <2>2 DEF Kept, Exists, Due
<1>3. ASSUME NEW r \in Requests, Acts(r) PROVE Kept'
  <2>0. PICK q \in ReqRow : q = req[r] /\ Knows(q) /\ Subject(q) /\ Charging(q)
    BY <1>0, Rows DEF Alone
  <2>1. CASE ~Reserves(r)
    <3>1. UNCHANGED <<reserved, order>>
      BY <1>3, <2>1, OthersReserveNothing
    <3>2. ~At(r, "chargeMark")
      BY <1>3, <2>1, MarksNext DEF Reserves
    <3>3. req'[r].pc # "chargeMark"
      BY <1>0, <1>3, <2>1, MarkAfterSale DEF Reserves
    <3> QED
      BY <1>1, <3>1, <3>2, <3>3
  <2>2. ASSUME NEW o \in Orders, NEW row \in OrderRow, order' = [order EXCEPT ![o] = row],
               reserved' = reserved, order[o].status \notin Active, row.status \notin Active,
               ~At(r, "chargeMark"), \A i \in Invoices : ~ChargeSale(r, i)
        PROVE  Kept'
    <3>1. PICK f, g : f = order /\ g = order'
      OBVIOUS
    <3>2. Ordered(f, g, o, row) /\ f[o].status \notin Active
      BY <1>0, <2>2, <3>1, OrderWritten
    <3>3. \A p : IsFiniteSet(KitchenRows(f, p))
      BY <3>1, KitchenFinite
    <3>4. \A p : Held(g, p) = Held(f, p) /\ Held(f, p) \in Int
      BY <2>2, <3>2, <3>3, StayHeld
    <3>5. ASSUME NEW p \in Products
          PROVE  Held(order', p) - Held(order, p) = reserved'[p] - reserved[p]
      <4>1. Held(g, p) = Held(f, p) /\ Held(f, p) \in Int
        BY <3>4
      <4>2. reserved[p] \in Int /\ reserved'[p] = reserved[p]
        BY <1>0, <2>2 DEF Inv, TypeOK
      <4> QED
        BY <3>1, <4>1, <4>2
    <3>6. req'[r].pc # "chargeMark"
      BY <1>0, <1>3, <2>2, MarkAfterSale
    <3> QED
      BY <1>0, <2>2, <3>5, <3>6, KeptByRow
  <2>3. ASSUME NEW o \in Orders, NEW now \in BOOLEAN, InsertOrder(r, o, now) PROVE Kept'
    <3>1. PICK row : row = [NoOrder EXCEPT !.status = "DRAFT", !.product = req[r].product,
                                           !.qty = req[r].qty, !.account = req[r].subject,
                                           !.open = TRUE]
      OBVIOUS
    <3>2. order' = [order EXCEPT ![o] = row] /\ reserved' = reserved /\ order[o].status = "none"
          /\ At(r, "insert")
      BY <2>3, <3>1 DEF InsertOrder, Exists, inventoryVars
    <3>3. row \in OrderRow /\ row.status = "DRAFT"
      <4>1. row.status = "DRAFT"
        BY <3>1 DEF NoOrder
      <4>2. order'[o] = row /\ order'[o] \in OrderRow
        BY <1>0, <3>2 DEF Inv, TypeOK
      <4> QED
        BY <4>1, <4>2
    <3>4. order[o].status \notin Active /\ row.status \notin Active /\ ~At(r, "chargeMark")
          /\ \A i \in Invoices : ~ChargeSale(r, i)
      BY <3>2, <3>3 DEF Active, At, ChargeSale
    <3> QED
      BY <2>2, <3>2, <3>3, <3>4
  <2>4. ASSUME NEW o \in Orders, NEW mode \in Modes, NEW p \in Products, NEW qty \in Quantities,
               NEW now \in BOOLEAN, TakeOrder(r, o, mode, p, qty, now)
        PROVE  Kept'
    <3>1. PICK row : row = [NoOrder EXCEPT !.status = "DRAFT", !.product = p, !.qty = qty,
                                           !.open = mode = "CUENTA_ABIERTA"]
      OBVIOUS
    <3>2. order' = [order EXCEPT ![o] = row] /\ reserved' = reserved /\ order[o].status = "none"
          /\ At(r, "idle")
      BY <2>4, <3>1 DEF TakeOrder, Exists, Arrives, inventoryVars
    <3>3. row \in OrderRow /\ row.status = "DRAFT"
      <4>1. row.status = "DRAFT"
        BY <3>1 DEF NoOrder
      <4>2. order'[o] = row /\ order'[o] \in OrderRow
        BY <1>0, <3>2 DEF Inv, TypeOK
      <4> QED
        BY <4>1, <4>2
    <3>4. order[o].status \notin Active /\ row.status \notin Active /\ ~At(r, "chargeMark")
          /\ \A i \in Invoices : ~ChargeSale(r, i)
      BY <3>2, <3>3 DEF Active, At, ChargeSale
    <3> QED
      BY <2>2, <3>2, <3>3, <3>4
  <2>6. CASE ReserveWrite(r)
    <3>1. PICK o \in Orders : o = q.subject /\ order[o].status = "DRAFT"
      BY <2>0, <2>6 DEF ReserveWrite, At, Subject, OnOrder, Knows
    <3>2. ~At(r, "chargeMark") /\ req'[r].pc # "chargeMark"
      BY <1>0, <2>6, Becomes, IdleRow DEF ReserveWrite, At, Finish
    <3>3. CASE /\ reserved' = [reserved EXCEPT ![order[o].product] = @ + order[o].qty]
               /\ order' = [order EXCEPT ![o].status = "SENT"]
      <4>1. PICK row : row = [order[o] EXCEPT !.status = "SENT"]
        OBVIOUS
      <4>2. "SENT" \in Statuses /\ "SENT" \in Active /\ order[o].status \notin Active
        BY <3>1 DEF Statuses, Active
      <4>3. /\ row \in OrderRow /\ order' = [order EXCEPT ![o] = row] /\ row.status = "SENT"
            /\ row.product = order[o].product /\ row.qty = order[o].qty /\ order[o].qty \in Nat
        BY <1>0, <3>1, <3>3, <4>1, <4>2, Rows DEF OrderRow
      <4>4. PICK f, g : f = order /\ g = order'
        OBVIOUS
      <4>5. Ordered(f, g, o, row) /\ f[o].status \notin Active /\ row.status \in Active
        BY <1>0, <4>2, <4>3, <4>4, OrderWritten
      <4>6. \A p : IsFiniteSet(KitchenRows(f, p))
        BY <4>4, KitchenFinite
      <4>7. ASSUME NEW p \in Products
            PROVE  Held(order', p) - Held(order, p) = reserved'[p] - reserved[p]
        <5>1. /\ Held(f, p) \in Int /\ row.qty \in Int
              /\ row.product = p => Held(g, p) = Held(f, p) + row.qty
              /\ row.product # p => Held(g, p) = Held(f, p)
          BY <4>5, <4>6, SentHeld
        <5>2. reserved[p] \in Int
          BY <1>0 DEF Inv, TypeOK
        <5>3. /\ row.product = p => reserved'[p] = reserved[p] + row.qty
              /\ row.product # p => reserved'[p] = reserved[p]
          BY <1>0, <3>3, <4>3 DEF Inv, TypeOK
        <5> QED
          BY <4>4, <5>1, <5>2, <5>3
      <4> QED
        BY <1>0, <3>2, <4>3, <4>7, KeptByRow
    <3> QED
      BY <2>0, <2>6, <3>1, <3>3 DEF ReserveWrite
  <2>7. CASE WriteStatus(r)
    <3>1. PICK o \in Orders : o = q.subject /\ order[o].status \in Active
      BY <2>0, <2>7 DEF WriteStatus, At, Subject, OnOrder, Knows
    <3>2. ~At(r, "chargeMark") /\ req'[r].pc # "chargeMark"
      BY <1>0, <2>7, Becomes, IdleRow DEF WriteStatus, At, Finish
    <3>3. PICK status : status = q.was
      OBVIOUS
    <3>4. status \in Active /\ status \in Statuses
      BY <2>0, <2>7, <3>3 DEF WriteStatus, At, Subject, Active, Statuses
    <3>5. PICK row : row = [order[o] EXCEPT !.status = status]
      OBVIOUS
    <3>6. order' = [order EXCEPT ![o].status = status] /\ reserved' = reserved
      BY <2>0, <2>7, <3>1, <3>3 DEF WriteStatus, inventoryVars
    <3>7. /\ row \in OrderRow /\ order' = [order EXCEPT ![o] = row] /\ row.status = status
          /\ row.product = order[o].product /\ row.qty = order[o].qty
      BY <1>0, <3>1, <3>4, <3>5, <3>6, Rows DEF OrderRow
    <3>8. PICK f, g : f = order /\ g = order'
      OBVIOUS
    <3>9. /\ Ordered(f, g, o, row) /\ f[o].status \in Active /\ row.status \in Active
          /\ row.product = f[o].product /\ row.qty = f[o].qty
      BY <1>0, <3>1, <3>4, <3>7, <3>8, OrderWritten
    <3>10. \A p : IsFiniteSet(KitchenRows(f, p))
      BY <3>8, KitchenFinite
    <3>11. ASSUME NEW p \in Products
           PROVE  Held(order', p) - Held(order, p) = reserved'[p] - reserved[p]
      <4>1. Held(g, p) = Held(f, p) /\ Held(f, p) \in Int
        BY <3>9, <3>10, StayHeld
      <4>2. reserved[p] \in Int /\ reserved'[p] = reserved[p]
        BY <1>0, <3>6 DEF Inv, TypeOK
      <4> QED
        BY <3>8, <4>1, <4>2
    <3> QED
      BY <1>0, <3>2, <3>7, <3>11, KeptByRow
  <2>8. CASE Cancel(r)
    <3>1. PICK o \in Orders : /\ o = q.subject /\ order[o].status = q.was
                              /\ q.was \in Active \cup {"DRAFT"}
      BY <2>0, <2>8 DEF Cancel, At, Subject, OnOrder, Knows
    <3>2. ~At(r, "chargeMark") /\ req'[r].pc # "chargeMark"
      BY <1>0, <2>8, Becomes, IdleRow DEF Cancel, At, Finish
    <3>3. PICK row : row = [order[o] EXCEPT !.status = "CANCELLED"]
      OBVIOUS
    <3>4. order' = [order EXCEPT ![o].status = "CANCELLED"] /\ "CANCELLED" \in Statuses
          /\ "CANCELLED" \notin Active
      BY <2>0, <2>8, <3>1 DEF Cancel, Statuses, Active
    <3>5. /\ row \in OrderRow /\ order' = [order EXCEPT ![o] = row] /\ row.status = "CANCELLED"
          /\ row.product = order[o].product /\ row.qty = order[o].qty
      BY <1>0, <3>1, <3>3, <3>4, Rows DEF OrderRow
    <3>6. CASE order[o].status \notin Active
      <4>1. reserved' = reserved /\ \A i \in Invoices : ~ChargeSale(r, i)
        BY <2>0, <2>8, <3>1, <3>6 DEF Cancel, HeldStock, ChargeSale, At
      <4> QED
        BY <2>2, <3>2, <3>4, <3>5, <3>6, <4>1
    <3>7. CASE order[o].status \in Active
      <4>1. PICK f, g : f = order /\ g = order'
        OBVIOUS
      <4>2. Ordered(f, g, o, row) /\ f[o].status \in Active /\ row.status \notin Active
        BY <1>0, <3>4, <3>5, <3>7, <4>1, OrderWritten
      <4>3. \A p : IsFiniteSet(KitchenRows(f, p))
        BY <4>1, KitchenFinite
      <4>4. reserved' = [reserved EXCEPT ![order[o].product] = Max({0, @ - order[o].qty})]
        BY <2>0, <2>8, <3>1, <3>7 DEF Cancel, HeldStock
      <4>5. ASSUME NEW p \in Products
            PROVE  Held(order', p) - Held(order, p) = reserved'[p] - reserved[p]
        <5>1. /\ Held(f, p) \in Int /\ f[o].qty \in Int
              /\ f[o].product = p => Held(g, p) = Held(f, p) - f[o].qty
              /\ f[o].product # p => Held(g, p) = Held(f, p)
          BY <4>2, <4>3, LeftHeld
        <5>2. reserved[p] \in Int /\ reserved[p] = Held(f, p)
          <6>1. Due(req[r], p) = 0 /\ reserved[p] \in Int
            BY <1>0, <3>2 DEF Due, At, Inv, TypeOK
          <6> QED
            BY <4>1, <6>1 DEF Kept
        <5>3. CASE f[o].product # p
          <6>1. reserved'[p] = reserved[p]
            BY <1>0, <4>1, <4>4, <5>3 DEF Inv, TypeOK
          <6> QED
            BY <4>1, <5>1, <5>2, <5>3, <6>1
        <5>4. CASE f[o].product = p
          <6>1. Held(f, p) >= f[o].qty
            <7>1. o \in KitchenRows(f, p) /\ f \in [Orders -> OrderRow]
              BY <4>2, <5>4 DEF KitchenRows, Ordered
            <7> QED
              BY <4>3, <7>1, HeldCovers
          <6>2. PICK m : m = reserved[p] - f[o].qty
            OBVIOUS
          <6>3. m \in Int /\ m >= 0
            BY <5>1, <5>2, <6>1, <6>2
          <6>4. Max({0, m}) = m
            BY <6>3, MaxIs
          <6>5. reserved'[p] = m
            BY <1>0, <4>1, <4>4, <5>4, <6>2, <6>4 DEF Inv, TypeOK
          <6> QED
            BY <4>1, <5>1, <5>2, <5>4, <6>2, <6>5
        <5> QED
          BY <5>3, <5>4
      <4> QED
        BY <1>0, <3>2, <3>5, <4>5, KeptByRow
    <3> QED
      BY <3>6, <3>7
  <2>9. ASSUME NEW i \in Invoices, SaleCommit(r, i), UNCHANGED floorVars PROVE Kept'
    <3>1. q.pc = "saleCommit" /\ q.released = 0 /\ q.qty \in Nat
      BY <2>0, <2>9 DEF SaleCommit, At, Knows, Subject
    <3>2. Released(q) = 0
      BY <3>1, ReleasedIs
    <3>3. reserved' = [reserved EXCEPT ![q.product] = @ - 0] /\ order' = order
      BY <2>0, <2>9, <3>2 DEF SaleCommit, SellAs, floorVars
    <3>4. reserved' = reserved
      <4>1. \A p \in Products : reserved[p] \in Int /\ reserved[p] - 0 = reserved[p]
        BY <1>0 DEF Inv, TypeOK
      <4> QED
        BY <1>0, <3>3, <4>1 DEF Inv, TypeOK
    <3>5. ~At(r, "chargeMark") /\ req'[r].pc # "chargeMark"
      BY <1>0, <2>9, Becomes, IdleRow DEF SaleCommit, At, Finish
    <3> QED
      BY <1>1, <3>3, <3>4, <3>5
  <2>10. ASSUME NEW i \in Invoices, ChargeSale(r, i) PROVE Kept'
    <3>1. /\ q.pc = "chargeSale" /\ q.released = q.qty /\ q.qty \in Nat /\ q.kind = "plain"
          /\ q.lines = 1
      BY <2>0, <2>10 DEF ChargeSale, At, Knows, Subject
    <3>2. Released(q) = q.qty
      BY <3>1, ReleasedIs
    <3>3. PICK x : x = [q EXCEPT !.pc = "chargeMark", !.sold = i]
      OBVIOUS
    <3>4. x.pc = "chargeMark" /\ x.product = q.product /\ x.qty = q.qty
      BY <3>3 DEF ReqRow
    <3>5. /\ req'[r] = x /\ order' = order
          /\ reserved' = [reserved EXCEPT ![q.product] = @ - q.qty]
      BY <1>0, <2>0, <2>10, <3>2, <3>3, Becomes DEF ChargeSale, SellAs, floorVars
    <3>6. ASSUME NEW s \in Requests, NEW p \in Products
          PROVE  reserved'[p] + Due(req[s], p)' = Held(order, p)'
      <4>1. s = r
        BY DEF OneAtATime
      <4>2. Due(req[s], p) = 0 /\ Due(req[s], p)' = IF q.product = p THEN q.qty ELSE 0
        BY <2>0, <3>1, <3>4, <3>5, <4>1 DEF Due
      <4>3. reserved[p] \in Int
        BY <1>0 DEF Inv, TypeOK
      <4>4. reserved[p] = Held(order, p)
        BY <4>2, <4>3 DEF Kept
      <4>5. Held(order, p)' = Held(order, p)
        BY <3>5 DEF Held, Asked, KitchenRows
      <4>6. /\ q.product = p => reserved'[p] = reserved[p] - q.qty
            /\ q.product # p => reserved'[p] = reserved[p]
        BY <1>0, <3>5 DEF Inv, TypeOK
      <4> QED
        BY <3>1, <4>2, <4>3, <4>4, <4>5, <4>6
    <3>7. {o \in Orders : Exists(o)}' = {o \in Orders : Exists(o)}
      BY <3>5 DEF Exists
    <3> QED
      BY <3>6, <3>7 DEF Kept
  <2>11. CASE ChargeMark(r)
    <3>1. PICK o \in Orders : o = q.subject /\ order[o].status \in Active
      BY <2>0, <2>11 DEF ChargeMark, At, Subject, OnOrder, Knows
    <3>2. q.pc = "chargeMark" /\ q.product = order[o].product /\ q.qty = order[o].qty
      BY <2>0, <2>11, <3>1 DEF ChargeMark, At, Charging
    <3>3. PICK row : row = [order[o] EXCEPT !.status = "CHARGED", !.charged = q.sold]
      OBVIOUS
    <3>4. order' = [order EXCEPT ![o] = row] /\ reserved' = reserved
      BY <2>0, <2>11, <3>1, <3>3 DEF ChargeMark, inventoryVars
    <3>5. row \in OrderRow /\ row.status = "CHARGED" /\ row.status \notin Active
      <4>1. order[o] \in OrderRow /\ order'[o] \in OrderRow /\ order'[o] = row
        BY <1>0, <3>4 DEF Inv, TypeOK
      <4> QED
        BY <3>3, <4>1 DEF OrderRow, Active
    <3>6. PICK f, g : f = order /\ g = order'
      OBVIOUS
    <3>7. Ordered(f, g, o, row) /\ f[o].status \in Active
      BY <1>0, <3>1, <3>4, <3>5, <3>6, OrderWritten
    <3>8. \A p : IsFiniteSet(KitchenRows(f, p))
      BY <3>6, KitchenFinite
    <3>9. req'[r].pc # "chargeMark"
      BY <1>0, <2>11, Becomes, IdleRow DEF ChargeMark, Finish
    <3>10. ASSUME NEW s \in Requests, NEW p \in Products
           PROVE  reserved'[p] + Due(req[s], p)' = Held(order, p)'
      <4>1. s = r
        BY DEF OneAtATime
      <4>2. /\ f[o].product = p => Held(g, p) = Held(f, p) - f[o].qty
            /\ f[o].product # p => Held(g, p) = Held(f, p)
            /\ Held(f, p) \in Int /\ f[o].qty \in Int
        BY <3>5, <3>7, <3>8, LeftHeld
      <4>3. Due(req[s], p) = IF f[o].product = p THEN f[o].qty ELSE 0
        BY <2>0, <3>2, <3>6, <4>1 DEF Due
      <4>4. Due(req[s], p)' = 0
        BY <3>9, <4>1 DEF Due
      <4>5. reserved[p] \in Int /\ reserved[p] + Due(req[s], p) = Held(f, p)
        BY <1>0, <3>6 DEF Kept, Inv, TypeOK
      <4>6. Held(order, p)' = Held(g, p)
        BY <3>6 DEF Held, Asked, KitchenRows
      <4> QED
        BY <3>4, <4>2, <4>3, <4>4, <4>5, <4>6
    <3>11. IsFiniteSet({x \in Orders : Exists(x)}')
      <4>1. {x \in Orders : Exists(x)}' \subseteq {x \in Orders : Exists(x)}
        BY <1>0, <3>1, <3>4 DEF Exists, Inv, TypeOK, Active
      <4> QED
        BY <4>1, FS_Subset DEF Kept
    <3> QED
      BY <3>10, <3>11 DEF Kept
  <2> QED
    BY <2>1, <2>3, <2>4, <2>6, <2>7, <2>8, <2>9, <2>10, <2>11 DEF Reserves
<1> QED
  BY <1>2, <1>3 DEF Next, Acts

\* At the start nothing is reserved.
LEMMA InitKept == Init => Kept
<1> SUFFICES ASSUME Init PROVE Kept
  OBVIOUS
<1>1. {o \in Orders : Exists(o)} = {}
  BY DEF Init, Exists, NoOrder
<1>2. IsFiniteSet({o \in Orders : Exists(o)})
  BY <1>1, FS_EmptySet
<1>3. ASSUME NEW r \in Requests, NEW p \in Products
      PROVE  reserved[p] + Due(req[r], p) = Held(order, p)
  <2>1. KitchenRows(order, p) = {}
    BY <1>1 DEF KitchenRows, Exists, Active
  <2>2. Held(order, p) = 0
    BY <2>1, SumEmpty DEF Held
  <2>3. reserved[p] = 0 /\ Due(req[r], p) = 0
    BY IdleRow DEF Init, InitInventory, Due
  <2> QED
    BY <2>2, <2>3
<1> QED
  BY <1>2, <1>3 DEF Kept

\* With one request at a time, and a process that stays up, the units reserved of a product are
\* what its orders in the kitchen ask, for any number of orders of any sizes.
THEOREM ReservationsAreHeld ==
  ASSUME OneAtATime, "failure" \notin Operations, Requests # {}
  PROVE  Spec => []ReservationsMatch
<1>1. Init => Kept
  BY InitKept
<1>2. Alone /\ Alone' /\ Kept /\ [Next]_vars => Kept'
  BY KeptNext
<1>3. Alone /\ Kept => ReservationsMatch
  <2> SUFFICES ASSUME Alone, Kept, Quiet, NEW p \in Products
               PROVE  reserved[p] = Total({o \in Orders : order[o].product = p
                                                          /\ order[o].status \in Active})
    BY DEF ReservationsMatch
  <2>1. PICK r \in Requests : TRUE
    OBVIOUS
  <2>2. Due(req[r], p) = 0 /\ reserved[p] \in Int
    BY DEF Quiet, At, Due, Alone, Inv, TypeOK
  <2>3. reserved[p] = Held(order, p)
    BY <2>2 DEF Kept
  <2> QED
    BY <2>3, KitchenTotal DEF Kept, Held
<1>4. Spec => []Alone
  BY AlwaysAlone
<1> QED
  BY <1>1, <1>2, <1>3, <1>4, PTL DEF Spec

-----------------------------------------------------------------------------
(* The stock under the reservations. *)

\* The stock of a product, with what consumption, corrections and imports took of it.
Behind(p) == stock[p] + consumed[p] + ImportedUnits(p)

\* The invariant: consumption, corrections and imports aside, the stock covers what is reserved of
\* a product, until a sale lists the product twice.
Covers == \A p \in Products : ~SoldInTwoLines(p) => reserved[p] <= 0 \/ reserved[p] <= Behind(p)

\* What a request that runs alone goes by, and sums that are over finite sets.
Calm == Inv /\ IsFiniteSet(Placed)

\* The units of the imports are a natural number.
LEMMA ImportsType ==
  ASSUME Calm, NEW p
  PROVE  /\ ImportedUnits(p) \in Nat
         /\ p \in Products => stock[p] \in Int /\ consumed[p] \in Nat /\ Behind(p) \in Int
<1>1. PICK S, w : S = SoldRows(invoice, p, {"imported"}) /\ w = Units(invoice)
  OBVIOUS
<1>2. ImportedUnits(p) = Sum(w, S) /\ IsFiniteSet(S) /\ S \subseteq Invoices
  BY <1>1, SoldUnitsIs DEF Calm, Inv, TypeOK, SoldRows
<1>3. ASSUME NEW i \in S PROVE w[i] \in Nat
  <2>1. i \in Invoices /\ invoice[i] \in InvoiceRow
    BY <1>2, <1>3 DEF Calm, Inv, TypeOK
  <2>2. /\ invoice[i].lines \in Nat /\ invoice[i].kind \in LineKinds /\ invoice[i].qty \in Nat
    BY <2>1 DEF InvoiceRow, LineKinds
  <2>3. Taken(invoice[i].kind, invoice[i].qty) \in Nat
    BY <2>2, TakenType
  <2> QED
    BY <1>1, <2>1, <2>2, <2>3, ProductType DEF Units
<1>4. ImportedUnits(p) \in Nat
  BY <1>2, <1>3, SumType
<1> QED
  BY <1>4 DEF Calm, Inv, TypeOK, Behind

\* The same of the next state.
LEMMA ImportsNext ==
  ASSUME Calm', NEW p
  PROVE  ImportedUnits(p)' \in Nat
<1>1. PICK S, f, w : S = SoldRows(invoice', p, {"imported"}) /\ f = invoice' /\ w = Units(f)
  OBVIOUS
<1>2. /\ ImportedUnits(p)' = Sum(w, S) /\ IsFiniteSet(S) /\ S \subseteq Invoices
      /\ f \in [Invoices -> InvoiceRow]
  BY <1>1, SoldUnitsNext DEF Calm, Inv, TypeOK, SoldRows
<1>3. ASSUME NEW i \in S PROVE w[i] \in Nat
  <2>1. /\ f[i].lines \in Nat /\ f[i].kind \in LineKinds /\ f[i].qty \in Nat
    BY <1>2, <1>3 DEF InvoiceRow, LineKinds
  <2>2. Taken(f[i].kind, f[i].qty) \in Nat
    BY <2>1, TakenType
  <2> QED
    BY <1>1, <1>2, <1>3, <2>1, <2>2, ProductType DEF Units
<1> QED
  BY <1>2, <1>3, SumType

\* Where no invoice is written, the imports stay.
LEMMA ImportsStay ==
  ASSUME Calm, Calm', invoice' = invoice, NEW p
  PROVE  ImportedUnits(p)' = ImportedUnits(p)
<1>1. /\ ImportedUnits(p) = Sum(Units(invoice), SoldRows(invoice, p, {"imported"}))
      /\ ImportedUnits(p)' = Sum(Units(invoice'), SoldRows(invoice', p, {"imported"}))
  BY SoldUnitsIs, SoldUnitsNext DEF Calm, Inv, TypeOK
<1> QED
  BY <1>1

\* A sale adds to the imports what it takes, if it is one.
LEMMA ImportsSold ==
  ASSUME Calm, Calm', NEW q \in ReqRow, q.qty \in Nat, NEW i \in Invoices, SellAs(q, i), NEW p,
         NEW n, n = q.lines * Taken(q.kind, q.qty)
  PROVE  ImportedUnits(p)' =
           ImportedUnits(p) + IF q.product = p /\ q.kind = "imported" THEN n ELSE 0
<1>1. PICK row : row = [status |-> "PAID", product |-> q.product, kind |-> q.kind,
                        qty |-> q.qty, lines |-> q.lines]
  OBVIOUS
<1>2. row \in InvoiceRow /\ row.status = "PAID" /\ row.product = q.product /\ row.kind = q.kind
      /\ row.lines * Taken(row.kind, row.qty) = n
  BY <1>1 DEF InvoiceRow, ReqRow, LineKinds
<1>3. PICK f, g, K : f = invoice /\ g = invoice' /\ K = {"imported"}
  OBVIOUS
<1>4. Written(f, g, i, row) /\ f[i].status = "none"
  BY <1>1, <1>2, <1>3 DEF Written, SellAs, Placed, Calm, Inv, TypeOK
<1>5. /\ ImportedUnits(p) = Sum(Units(f), SoldRows(f, p, K))
      /\ ImportedUnits(p)' = Sum(Units(g), SoldRows(g, p, K))
      /\ IsFiniteSet(SoldRows(f, p, K))
  BY <1>3, SoldUnitsIs, SoldUnitsNext DEF Calm, Inv, TypeOK
<1>6. /\ Sum(Units(f), SoldRows(f, p, K)) \in Int
      /\ row.lines * Taken(row.kind, row.qty) \in Int
      /\ row.product = p /\ row.kind \in K => Sum(Units(g), SoldRows(g, p, K)) =
           Sum(Units(f), SoldRows(f, p, K)) + row.lines * Taken(row.kind, row.qty)
      /\ ~(row.product = p /\ row.kind \in K) =>
           Sum(Units(g), SoldRows(g, p, K)) = Sum(Units(f), SoldRows(f, p, K))
  BY <1>2, <1>4, <1>5, SoldMore
<1> QED
  BY <1>2, <1>3, <1>5, <1>6

\* The void of a standing invoice takes from the imports what it gives back, if it is one.
LEMMA ImportsVoided ==
  ASSUME Calm, Calm', NEW r \in Requests, VoidCommit(r), NEW i \in Invoices, i = req[r].subject,
         invoice[i].status = "PAID", NEW p, NEW n, n = invoice[i].lines * Restored(invoice[i].kind, invoice[i].qty)
  PROVE  ImportedUnits(p)' = ImportedUnits(p) -
           IF invoice[i].product = p /\ invoice[i].kind = "imported" THEN n ELSE 0
<1>1. PICK row : row = [invoice[i] EXCEPT !.status = "CANCELLED"]
  OBVIOUS
<1>2. PICK f, g, K : f = invoice /\ g = invoice' /\ K = {"imported"}
  OBVIOUS
<1>3. Written(f, g, i, row) /\ row.status = "CANCELLED" /\ f[i].status = "PAID"
  <2>1. invoice[i] \in InvoiceRow /\ invoice' = [invoice EXCEPT ![i] = row]
    BY <1>1 DEF VoidCommit, Calm, Inv, TypeOK
  <2> QED
    BY <1>1, <1>2, <2>1 DEF Written, InvoiceRow, Calm, Inv, TypeOK
<1>4. /\ ImportedUnits(p) = Sum(Units(f), SoldRows(f, p, K))
      /\ ImportedUnits(p)' = Sum(Units(g), SoldRows(g, p, K))
      /\ IsFiniteSet(SoldRows(f, p, K))
  BY <1>2, SoldUnitsIs, SoldUnitsNext DEF Calm, Inv, TypeOK
<1>5. /\ Sum(Units(f), SoldRows(f, p, K)) \in Int
      /\ f[i].lines * Taken(f[i].kind, f[i].qty) \in Int
      /\ f[i].product = p /\ f[i].kind \in K => Sum(Units(g), SoldRows(g, p, K)) =
           Sum(Units(f), SoldRows(f, p, K)) - f[i].lines * Taken(f[i].kind, f[i].qty)
      /\ ~(f[i].product = p /\ f[i].kind \in K) =>
           Sum(Units(g), SoldRows(g, p, K)) = Sum(Units(f), SoldRows(f, p, K))
  BY <1>3, <1>4, SoldLess
<1>6. f[i].kind \in K => n = f[i].lines * Taken(f[i].kind, f[i].qty)
  BY <1>2 DEF Taken, Restored
<1> QED
  BY <1>2, <1>4, <1>5, <1>6

\* A sale listing a product twice is never forgotten: invoices keep product and lines.
LEMMA TwoLinesStay ==
  ASSUME Inv, NEW r \in Requests, Acts(r), NEW p \in Products, SoldInTwoLines(p)
  PROVE  SoldInTwoLines(p)'
<1>1. PICK i \in Invoices : /\ i \in Placed /\ invoice[i].product = p /\ invoice[i].lines > 1
                            /\ invoice[i].kind \notin Imports
  BY DEF SoldInTwoLines, Placed
<1>2. invoice \in [Invoices -> InvoiceRow] /\ invoice[i].status # "none"
  BY <1>1 DEF Inv, TypeOK, Placed
<1>3. CASE invoice' = invoice
  BY <1>1, <1>2, <1>3 DEF SoldInTwoLines, Placed
<1>4. ASSUME NEW sale, NEW j \in Invoices, SellAs(sale, j) PROVE SoldInTwoLines(p)'
  <2>1. i # j
    BY <1>1, <1>4 DEF SellAs
  <2>2. invoice'[i] = invoice[i]
    BY <1>2, <1>4, <2>1 DEF SellAs
  <2> QED
    BY <1>1, <1>2, <2>2 DEF SoldInTwoLines, Placed
<1>5. CASE VoidCommit(r)
  <2>1. PICK j : j = req[r].subject
    OBVIOUS
  <2>2. invoice' = [invoice EXCEPT ![j].status = "CANCELLED"]
    BY <1>5, <2>1 DEF VoidCommit
  <2>3. /\ invoice'[i].product = invoice[i].product /\ invoice'[i].lines = invoice[i].lines
        /\ invoice'[i].kind = invoice[i].kind /\ invoice'[i].status # "none"
    <3>1. invoice[i] \in InvoiceRow
      BY <1>2
    <3>2. invoice'[i] = invoice[i] \/ invoice'[i] = [invoice[i] EXCEPT !.status = "CANCELLED"]
      BY <1>2, <2>2
    <3> QED
      BY <1>2, <3>1, <3>2 DEF InvoiceRow
  <2> QED
    BY <1>1, <2>3 DEF SoldInTwoLines, Placed
<1>6. \/ invoice' = invoice \/ VoidCommit(r)
      \/ \E i_1 \in Invoices : SellAs(req[r], i_1)
  <2>1. CASE FloorNext(r)
    BY <2>1, FloorLeavesStock DEF ChargeSale
  <2>2. CASE InventoryNext(r)
    BY <2>2
       DEF InventoryNext, BeginSale, SaleCommit, BeginVoid, BeginOutflow, BeginConsumptions,
           OutflowCommit, Receive, BeginImport, BeginAdjust, AdjustCommit, EditProduct,
           ImportCatalogue, ImportStock, SetLevel, inventoryVars
  <2> QED
    BY <2>1, <2>2 DEF Acts
<1> QED
  BY <1>3, <1>4, <1>5, <1>6

\* A step that reserves nothing and takes nothing but what it counts as consumed or imported.
LEMMA CoversStay ==
  ASSUME Calm, Calm', Covers, NEW r \in Requests, Acts(r),
         \A p \in Products : reserved'[p] <= 0 \/ reserved'[p] <= reserved[p],
         \A p \in Products : Behind(p) <= Behind(p)'
  PROVE  Covers'
<1> SUFFICES ASSUME NEW p \in Products, ~SoldInTwoLines(p)'
             PROVE  reserved'[p] <= 0 \/ reserved'[p] <= Behind(p)'
  BY DEF Covers
<1>1. reserved[p] <= 0 \/ reserved[p] <= Behind(p)
  BY TwoLinesStay DEF Covers, Calm
<1>2. PICK b, c : b = Behind(p) /\ c = Behind(p)'
  OBVIOUS
<1>3. b \in Int /\ c \in Int
  <2>1. b \in Int
    BY <1>2, ImportsType
  <2>2. c = stock'[p] + consumed'[p] + ImportedUnits(p)'
    BY <1>2 DEF Behind
  <2>3. ImportedUnits(p)' \in Int /\ stock'[p] \in Int /\ consumed'[p] \in Int
    BY ImportsNext DEF Calm, Inv, TypeOK
  <2> QED
    BY <2>1, <2>2, <2>3
<1>4. reserved[p] \in Int /\ reserved'[p] \in Int
  BY DEF Calm, Inv, TypeOK
<1> QED
  BY <1>1, <1>2, <1>3, <1>4

\* The same of a step that writes no invoice.
LEMMA CoversSteady ==
  ASSUME Calm, Calm', Covers, NEW r \in Requests, Acts(r), invoice' = invoice,
         \A p \in Products : reserved'[p] <= 0 \/ reserved'[p] <= reserved[p],
         \A p \in Products : stock[p] + consumed[p] <= stock'[p] + consumed'[p]
  PROVE  Covers'
<1>1. ASSUME NEW p \in Products PROVE Behind(p) <= Behind(p)'
  <2>1. ImportedUnits(p)' = ImportedUnits(p) /\ ImportedUnits(p) \in Nat
    BY ImportsStay, ImportsType
  <2>2. /\ stock[p] \in Int /\ consumed[p] \in Int /\ stock'[p] \in Int /\ consumed'[p] \in Int
        /\ stock[p] + consumed[p] <= stock'[p] + consumed'[p]
    BY DEF Calm, Inv, TypeOK
  <2> QED
    BY <2>1, <2>2 DEF Behind
<1> QED
  BY <1>1, CoversStay

\* The sale of an import takes what it counts as imported.
LEMMA CoversImport ==
  ASSUME Calm, Calm', Covers, NEW r \in Requests, Acts(r), NEW q \in ReqRow, NEW i \in Invoices,
         SellAs(q, i), q.qty \in Nat, q.released = 0, q.kind \in Imports
  PROVE  Covers'
<1>1. PICK n : n = q.lines * Taken(q.kind, q.qty)
  OBVIOUS
<1>2. n \in Int /\ (q.kind = "imported" \/ n = 0)
  <2>1. q.lines \in Nat /\ q.qty \in Nat
    BY DEF ReqRow
  <2>2. q.kind # "imported" => Taken(q.kind, q.qty) = 0
    BY DEF Taken, Imports
  <2>3. Taken(q.kind, q.qty) \in Nat
    BY <2>1, TakenType DEF ReqRow
  <2>4. n \in Nat
    BY <1>1, <2>1, <2>3, ProductType
  <2> QED
    BY <1>1, <2>1, <2>2, <2>4
<1>3. stock' = [stock EXCEPT ![q.product] = @ - n] /\ consumed' = consumed
      /\ reserved' = [reserved EXCEPT ![q.product] = @ - 0]
  BY <1>1, ReleasedIs DEF SellAs
<1>4. ASSUME NEW p \in Products PROVE Behind(p) <= Behind(p)' /\ reserved'[p] <= reserved[p]
  <2>1. ImportedUnits(p)' =
          ImportedUnits(p) + IF q.product = p /\ q.kind = "imported" THEN n ELSE 0
    BY <1>1, ImportsSold
  <2>2. ImportedUnits(p) \in Nat
    BY ImportsType
  <2>3. /\ stock[p] \in Int /\ consumed[p] \in Int /\ reserved[p] \in Int
        /\ consumed'[p] = consumed[p] /\ reserved'[p] = reserved[p]
        /\ stock'[p] = IF q.product = p THEN stock[p] - n ELSE stock[p]
    BY <1>3 DEF Calm, Inv, TypeOK
  <2> QED
    BY <1>2, <2>1, <2>2, <2>3 DEF Behind
<1> QED
  BY <1>4, CoversStay

\* The void of a standing invoice gives back no less than it counted as imported.
LEMMA CoversVoid ==
  ASSUME Calm, Calm', Covers, NEW r \in Requests, Acts(r), VoidCommit(r), Settled(req[r])
  PROVE  Covers'
<1>1. PICK i \in Invoices : i = req[r].subject
  BY Rows DEF Calm, VoidCommit, At, Subject
<1>2. PICK n : n = invoice[i].lines * Restored(invoice[i].kind, invoice[i].qty)
  OBVIOUS
<1>3. n \in Nat
  <2>1. invoice[i] \in InvoiceRow
    BY Rows DEF Calm
  <2>2. /\ invoice[i].kind \in LineKinds /\ invoice[i].qty \in Nat /\ invoice[i].lines \in Nat
    BY <2>1 DEF InvoiceRow, LineKinds
  <2>3. Restored(invoice[i].kind, invoice[i].qty) \in Nat
    BY <2>2, TakenType
  <2> QED
    BY <1>2, <2>2, <2>3, ProductType
<1>4. /\ stock' = [stock EXCEPT ![invoice[i].product] = @ + n]
      /\ UNCHANGED <<reserved, consumed>> /\ invoice[i].status = "PAID"
  BY <1>1, <1>2 DEF VoidCommit, Settled, At
<1>5. ASSUME NEW p \in Products PROVE Behind(p) <= Behind(p)'
  <2>1. ImportedUnits(p)' = ImportedUnits(p) -
          IF invoice[i].product = p /\ invoice[i].kind = "imported" THEN n ELSE 0
    BY <1>1, <1>2, <1>4, ImportsVoided
  <2>2. ImportedUnits(p) \in Nat
    BY ImportsType
  <2>3. /\ stock[p] \in Int /\ consumed[p] \in Int /\ consumed'[p] = consumed[p]
        /\ stock'[p] = IF invoice[i].product = p THEN stock[p] + n ELSE stock[p]
    BY <1>4 DEF Calm, Inv, TypeOK
  <2> QED
    BY <1>3, <2>1, <2>2, <2>3 DEF Behind
<1>6. \A p \in Products : reserved'[p] <= reserved[p]
  BY <1>4 DEF Calm, Inv, TypeOK
<1> QED
  BY <1>5, <1>6, CoversStay

\* The sale of a request that found its line covered.
LEMMA CoversSale ==
  ASSUME Calm, Calm', Covers, NEW r \in Requests, Acts(r), NEW q \in ReqRow, NEW i \in Invoices,
         SellAs(q, i), q.qty \in Nat,
         \/ q.released = 0
         \/ q.kind = "plain" /\ q.lines = 1 /\ q.released = q.qty,
         LinesCovered(q.product, q.kind, q.qty, q.released), q.kind \notin Imports
  PROVE  Covers'
<1>1. q.kind \in LineKinds /\ q.lines \in Nat /\ q.qty \in Nat
  BY DEF ReqRow
<1>2. PICK t, n, rel : t = Taken(q.kind, q.qty) /\ n = q.lines * t /\ rel = q.released
  OBVIOUS
<1>3. t \in Nat /\ n \in Nat
  <2>1. t \in Nat
    BY <1>1, <1>2, TakenType
  <2> QED
    BY <1>1, <1>2, <2>1, ProductType
<1>4. Released(q) = rel /\ rel \in Int
  BY <1>2, ReleasedIs
<1>5. /\ stock' = [stock EXCEPT ![q.product] = @ - n]
      /\ reserved' = [reserved EXCEPT ![q.product] = @ - rel]
      /\ consumed' = consumed
  BY <1>2, <1>4 DEF SellAs
<1>6. /\ stock \in [Products -> Int] /\ reserved \in [Products -> Int]
      /\ consumed \in [Products -> Nat]
  BY DEF Calm, Inv, TypeOK
<1>7. \A p \in Products : ImportedUnits(p)' = ImportedUnits(p) /\ ImportedUnits(p) \in Nat
  <2>1. ASSUME NEW p \in Products
        PROVE  ImportedUnits(p)' = ImportedUnits(p) /\ ImportedUnits(p) \in Nat
    <3>1. ImportedUnits(p)' =
            ImportedUnits(p) + IF q.product = p /\ q.kind = "imported" THEN n ELSE 0
      BY <1>2, ImportsSold
    <3>2. ImportedUnits(p) \in Nat /\ q.kind # "imported"
      BY ImportsType DEF Imports
    <3> QED
      BY <3>1, <3>2
  <2> QED
    BY <2>1
<1>8. CASE n = 0
  <2>1. rel = 0
    <3>1. CASE q.kind = "plain" /\ q.lines = 1 /\ q.released = q.qty
      <4>1. t = q.qty
        BY <1>2, <3>1 DEF Taken
      <4>2. n = t
        BY <1>2, <1>3, <3>1
      <4> QED
        BY <1>2, <1>8, <3>1, <4>1, <4>2
    <3> QED
      BY <1>2, <3>1
  <2>2. ASSUME NEW p \in Products
        PROVE  reserved'[p] <= reserved[p] /\ Behind(p) <= Behind(p)'
    <3>1. /\ reserved'[p] = reserved[p] /\ stock'[p] = stock[p] /\ consumed'[p] = consumed[p]
          /\ reserved[p] \in Int /\ stock[p] \in Int /\ consumed[p] \in Int
      BY <1>5, <1>6, <1>8, <2>1
    <3> QED
      BY <1>7, <3>1 DEF Behind
  <2> QED
    BY <2>2, CoversStay
<1>9. CASE n > 0 /\ q.lines = 1
  <2>1. n = t
    BY <1>2, <1>3, <1>9
  <2>2. SUFFICES ASSUME NEW p \in Products, ~SoldInTwoLines(p)'
                 PROVE  reserved'[p] <= 0 \/ reserved'[p] <= Behind(p)'
    BY DEF Covers
  <2>3. CASE p # q.product
    <3>1. reserved[p] <= 0 \/ reserved[p] <= Behind(p)
      BY <2>2, TwoLinesStay DEF Covers, Calm
    <3>2. reserved'[p] = reserved[p] /\ stock'[p] = stock[p] /\ consumed'[p] = consumed[p]
      BY <1>5, <1>6, <2>3
    <3> QED
      BY <1>7, <3>1, <3>2 DEF Behind
  <2>4. CASE p = q.product
    <3>1. PICK s, v, c : s = stock[p] /\ v = reserved[p] /\ c = consumed[p]
      OBVIOUS
    <3>2. s \in Int /\ v \in Int /\ c \in Nat
      BY <1>6, <3>1
    <3>3. stock'[p] = s - n /\ reserved'[p] = v - rel /\ consumed'[p] = c
      BY <1>5, <1>6, <2>4, <3>1
    <3>4. PICK m : m = v - rel
      OBVIOUS
    <3>5. PICK k : k = s - Max({0, m})
      OBVIOUS
    <3>6. Max({0, k}) >= n
      BY <1>2, <2>1, <2>4, <3>1, <3>4, <3>5 DEF LinesCovered, AvailableUnits
    <3>7. m \in Int /\ k \in Int
      <4>1. m \in Int
        BY <1>4, <3>2, <3>4
      <4>2. Max({0, m}) \in Int
        BY <4>1, MaxIs
      <4> QED
        BY <3>2, <3>5, <4>1, <4>2
    <3>8. v - rel <= s - n
      <4>1. Max({0, m}) \in Int /\ Max({0, m}) >= m
        BY <3>7, MaxIs
      <4>2. k >= n
        <5>1. CASE k >= 0
          BY <3>6, <3>7, <5>1, MaxIs
        <5>2. CASE ~(k >= 0)
          <6>1. Max({0, k}) = 0
            BY <3>7, <5>2, MaxIs
          <6> QED
            BY <1>3, <1>9, <3>6, <6>1
        <5> QED
          BY <5>1, <5>2
      <4> QED
        BY <1>3, <1>4, <3>2, <3>4, <3>5, <3>7, <4>1, <4>2
    <3> QED
      BY <1>3, <1>4, <1>7, <3>2, <3>3, <3>8 DEF Behind
  <2> QED
    BY <2>3, <2>4
<1>10. CASE n > 0 /\ q.lines # 1
  <2>1. q.lines > 1 /\ q.released = 0
    <3>1. q.lines # 0
      BY <1>2, <1>3, <1>10
    <3> QED
      BY <1>1, <1>10, <3>1
  <2>2. rel = 0
    BY <1>2, <2>1
  <2>3. q.product \in Products => SoldInTwoLines(q.product)'
    <3>1. PICK row : row = [status |-> "PAID", product |-> q.product, kind |-> q.kind,
                            qty |-> q.qty, lines |-> q.lines]
      OBVIOUS
    <3>2. row.status = "PAID" /\ row.product = q.product /\ row.lines = q.lines
          /\ row.kind = q.kind
      BY <3>1
    <3>3. invoice'[i] = row
      BY <3>1 DEF SellAs, Calm, Inv, TypeOK
    <3> QED
      BY <2>1, <3>2, <3>3 DEF SoldInTwoLines, Placed
  <2>4. SUFFICES ASSUME NEW p \in Products, ~SoldInTwoLines(p)'
                 PROVE  reserved'[p] <= 0 \/ reserved'[p] <= Behind(p)'
    BY DEF Covers
  <2>5. p # q.product
    BY <2>3, <2>4
  <2>6. reserved[p] <= 0 \/ reserved[p] <= Behind(p)
    BY <2>4, TwoLinesStay DEF Covers, Calm
  <2>7. reserved'[p] = reserved[p] /\ stock'[p] = stock[p] /\ consumed'[p] = consumed[p]
    BY <1>5, <1>6, <2>5
  <2> QED
    BY <1>7, <2>4, <2>6, <2>7 DEF Behind
<1> QED
  BY <1>1, <1>3, <1>8, <1>9, <1>10

\* Every step of one request at a time keeps the reservations under the stock and what was
\* consumed and imported.
LEMMA CoversNext ==
  ASSUME OneAtATime, Alone, Alone', Stocked, Stocked', Covers, [Next]_vars
  PROVE  Covers'
<1>0. Inv /\ Inv' /\ Calm /\ Calm'
  BY DEF Alone, Stocked, Calm
<1>1. CASE UNCHANGED vars
  <2>1. UNCHANGED <<stock, reserved, invoice, consumed>>
    BY <1>1 DEF vars, inventoryVars
  <2>2. \A p \in Products : ImportedUnits(p)' = ImportedUnits(p)
    BY <1>0, <2>1, ImportsStay
  <2> QED
    BY <2>1, <2>2 DEF Covers, SoldInTwoLines, Placed, Behind
<1>2. ASSUME NEW r \in Requests, Acts(r) PROVE Covers'
  <2>0. PICK q \in ReqRow : q = req[r] /\ Knows(q) /\ Subject(q)
    BY <1>0, Rows DEF Alone
  <2>1. \A p \in Products : /\ stock[p] \in Int /\ reserved[p] \in Int /\ consumed[p] \in Int
                            /\ stock[p] + consumed[p] \in Int
    BY <1>0 DEF Inv, TypeOK
  <2>2. CASE UNCHANGED <<stock, reserved, invoice, consumed>>
    BY <1>0, <1>2, <2>1, <2>2, CoversSteady
  <2>3. CASE FloorNext(r)
    <3>1. ASSUME NEW i \in Invoices, ChargeSale(r, i) PROVE Covers'
      <4>1. /\ q.qty \in Nat /\ q.kind = "plain" /\ q.lines = 1 /\ q.released = q.qty
            /\ LinesCovered(q.product, q.kind, q.qty, q.released)
        BY <2>0, <3>1 DEF ChargeSale, At, Knows, Subject
      <4>2. SellAs(q, i)
        BY <2>0, <3>1 DEF ChargeSale
      <4>3. q.kind \notin Imports
        BY <4>1 DEF Imports
      <4> QED
        BY <1>0, <1>2, <4>1, <4>2, <4>3, CoversSale
    <3>2. CASE ReserveWrite(r)
      <4>1. PICK o \in Orders : o = q.subject
        BY <2>0, <3>2 DEF ReserveWrite, At, Subject, OnOrder
      <4>2. PICK x, n : x = order[o].product /\ n = order[o].qty
        OBVIOUS
      <4>3. /\ reserved' = [reserved EXCEPT ![x] = @ + n] /\ AvailableStock(x) >= n
            /\ UNCHANGED <<stock, invoice, consumed>>
        BY <2>0, <3>2, <4>1, <4>2 DEF ReserveWrite, At, Knows, Fits
      <4>4. n \in Nat
        BY <1>0, <4>2, Rows DEF OrderRow
      <4>5. SUFFICES ASSUME NEW p \in Products, ~SoldInTwoLines(p)'
                     PROVE  reserved'[p] <= 0 \/ reserved'[p] <= Behind(p)'
        BY DEF Covers
      <4>6. reserved[p] <= 0 \/ reserved[p] <= Behind(p)
        BY <1>0, <1>2, <4>5, TwoLinesStay DEF Covers
      <4>7. ImportedUnits(p)' = ImportedUnits(p) /\ ImportedUnits(p) \in Nat
        BY <1>0, <4>3, ImportsStay, ImportsType
      <4>8. CASE x # p
        <5>1. reserved'[p] = reserved[p]
          BY <1>0, <4>3, <4>8 DEF Inv, TypeOK
        <5> QED
          BY <4>3, <4>6, <4>7, <5>1 DEF Behind
      <4>9. CASE x = p
        <5>1. PICK k : k = stock[p] - reserved[p]
          OBVIOUS
        <5>2. k \in Int /\ Max({0, k}) >= n
          BY <2>1, <4>3, <4>9, <5>1 DEF AvailableStock
        <5>3. reserved'[p] = reserved[p] + n /\ consumed[p] >= 0
          BY <1>0, <4>3, <4>9 DEF Inv, TypeOK
        <5>4. CASE k >= 0
          <6>1. k >= n
            BY <5>2, <5>4, MaxIs
          <6>2. reserved'[p] <= stock[p] + consumed[p]
            BY <2>1, <4>4, <5>1, <5>3, <6>1
          <6>3. reserved'[p] \in Int
            BY <1>0 DEF Inv, TypeOK
          <6> QED
            BY <2>1, <4>3, <4>7, <6>2, <6>3 DEF Behind
        <5>5. CASE ~(k >= 0)
          <6>1. Max({0, k}) = 0
            BY <5>2, <5>5, MaxIs
          <6>2. n = 0
            BY <4>4, <5>2, <6>1
          <6>3. reserved'[p] = reserved[p]
            BY <2>1, <5>3, <6>2
          <6> QED
            BY <4>3, <4>6, <4>7, <6>3 DEF Behind
        <5> QED
          BY <5>4, <5>5
      <4> QED
        BY <4>8, <4>9
    <3>3. CASE Cancel(r) /\ reserved' # reserved
      <4>1. PICK o \in Orders : o = q.subject
        BY <2>0, <3>3 DEF Cancel, At, Subject, OnOrder
      <4>2. PICK x, n : x = order[o].product /\ n = order[o].qty
        OBVIOUS
      <4>3. /\ reserved' = [reserved EXCEPT ![x] = Max({0, @ - n})]
            /\ UNCHANGED <<stock, invoice, consumed>>
        BY <2>0, <3>3, <4>1, <4>2 DEF Cancel
      <4>4. n \in Nat
        BY <1>0, <4>2, Rows DEF OrderRow
      <4>5. ASSUME NEW p \in Products PROVE reserved'[p] <= 0 \/ reserved'[p] <= reserved[p]
        <5>1. PICK m : m = reserved[p] - n
          OBVIOUS
        <5>2. m \in Int /\ m <= reserved[p]
          BY <2>1, <4>4, <5>1
        <5>3. reserved'[p] = reserved[p] \/ reserved'[p] = Max({0, m})
          BY <1>0, <4>3, <5>1 DEF Inv, TypeOK
        <5>4. Max({0, m}) = m \/ Max({0, m}) = 0
          BY <5>2, MaxIs
        <5> QED
          BY <2>1, <5>2, <5>3, <5>4
      <4>6. \A p \in Products : stock[p] + consumed[p] <= stock'[p] + consumed'[p]
        BY <2>1, <4>3
      <4> QED
        BY <1>0, <1>2, <4>3, <4>5, <4>6, CoversSteady
    <3>4. CASE ~ReserveWrite(r) /\ ~Cancel(r) /\ \A i \in Invoices : ~ChargeSale(r, i)
      <4>1. UNCHANGED inventoryVars
        BY <2>3, <3>4
           DEF FloorNext, TakeOrder, BeginTable, OpenAccount, InsertOrder, BeginSend, BeginCancel,
               BeginCharge, BeginStatus, SendCreated, Reserve, WriteStatus, ChargeMark,
               BeginClose, BeginPayment, Pay, ClaimAccount, ClaimOrders, Unclaim, BeginTab, ClaimTab, Fail
      <4> QED
        BY <2>2, <4>1 DEF inventoryVars
    <3>5. CASE Cancel(r) /\ reserved' = reserved
      BY <2>2, <3>5 DEF Cancel
    <3> QED
      BY <3>1, <3>2, <3>3, <3>4, <3>5
  <2>4. CASE InventoryNext(r)
    <3>1. ASSUME NEW i \in Invoices, SaleCommit(r, i) PROVE Covers'
      <4>1. /\ q.qty \in Nat /\ q.released = 0
            /\ q.kind \in Imports \/ LinesCovered(q.product, q.kind, q.qty, q.released)
        BY <2>0, <3>1 DEF SaleCommit, At, Knows, Subject
      <4>2. SellAs(q, i)
        BY <2>0, <3>1 DEF SaleCommit
      <4>3. CASE q.kind \in Imports
        BY <1>0, <1>2, <4>1, <4>2, <4>3, CoversImport
      <4>4. CASE q.kind \notin Imports
        BY <1>0, <1>2, <4>1, <4>2, <4>4, CoversSale
      <4> QED
        BY <4>3, <4>4
    <3>2. ASSUME reserved' = reserved, invoice' = invoice,
                 \A p \in Products : stock[p] + consumed[p] <= stock'[p] + consumed'[p]
          PROVE  Covers'
      BY <1>0, <1>2, <2>1, <3>2, CoversSteady
    <3>3. CASE VoidCommit(r)
      BY <1>0, <1>2, <2>0, <3>3, CoversVoid DEF Knows
    <3>4. CASE OutflowCommit(r)
      <4>1. PICK x, n : x = q.product /\ n = q.lines * Taken(q.kind, q.qty)
        OBVIOUS
      <4>2. n \in Nat
        <5>1. q.kind \in LineKinds /\ q.lines \in Nat /\ q.qty \in Nat
          BY <2>0, <3>4 DEF OutflowCommit, At, Subject, ReqRow
        <5>2. Taken(q.kind, q.qty) \in Nat
          BY <5>1, TakenType
        <5> QED
          BY <4>1, <5>1, <5>2, ProductType
      <4>3. /\ stock' = [stock EXCEPT ![x] = @ - n] /\ consumed' = [consumed EXCEPT ![x] = @ + n]
            /\ UNCHANGED <<reserved, invoice>>
        BY <2>0, <3>4, <4>1 DEF OutflowCommit
      <4>4. ASSUME NEW p \in Products PROVE stock[p] + consumed[p] <= stock'[p] + consumed'[p]
        <5>1. \/ stock'[p] = stock[p] /\ consumed'[p] = consumed[p]
              \/ stock'[p] = stock[p] - n /\ consumed'[p] = consumed[p] + n
          BY <1>0, <4>3 DEF Inv, TypeOK
        <5> QED
          BY <2>1, <4>2, <5>1
      <4> QED
        BY <3>2, <4>3, <4>4
    <3>5. CASE AdjustCommit(r)
      <4>1. PICK x, d, e : x = q.product /\ d = q.qty /\ e = 0 - q.qty
        OBVIOUS
      <4>2. PICK m : m = Max({0, e})
        OBVIOUS
      <4>3. q.seen = stock[x]
        BY <2>0, <3>5, <4>1 DEF AdjustCommit, At, Knows, Settled
      <4>4. /\ stock' = [stock EXCEPT ![x] = stock[x] + d]
            /\ consumed' = [consumed EXCEPT ![x] = @ + m]
            /\ UNCHANGED <<reserved, invoice>>
        BY <2>0, <3>5, <4>1, <4>2, <4>3 DEF AdjustCommit, NextStock
      <4>5. d \in Int /\ m \in Int /\ d + m >= 0
        <5>1. d \in Int /\ e \in Int /\ e = 0 - d
          BY <4>1 DEF ReqRow
        <5>2. m \in Int /\ m >= e
          BY <4>2, <5>1, MaxIs
        <5> QED
          BY <5>1, <5>2
      <4>6. ASSUME NEW p \in Products PROVE stock[p] + consumed[p] <= stock'[p] + consumed'[p]
        <5>1. \/ stock'[p] = stock[p] /\ consumed'[p] = consumed[p]
              \/ stock'[p] = stock[p] + d /\ consumed'[p] = consumed[p] + m
          BY <1>0, <4>4 DEF Inv, TypeOK
        <5> QED
          BY <2>1, <4>5, <5>1
      <4> QED
        BY <3>2, <4>4, <4>6
    <3>6. ASSUME NEW x \in Products, NEW level \in Levels, SetLevel(x, level) PROVE Covers'
      <4>1. PICK e : e = stock[x] - level
        OBVIOUS
      <4>2. PICK m : m = Max({0, e})
        OBVIOUS
      <4>3. level \in Int /\ e \in Int /\ m \in Int /\ m >= e
        <5>1. level \in Int /\ e \in Int
          BY <2>1, <4>1, InventoryAssumption
        <5>2. m \in Int /\ m >= e
          BY <4>2, <5>1, MaxIs
        <5> QED
          BY <5>1, <5>2
      <4>4. /\ stock' = [stock EXCEPT ![x] = level] /\ consumed' = [consumed EXCEPT ![x] = @ + m]
            /\ UNCHANGED <<reserved, invoice>>
        BY <3>6, <4>1, <4>2 DEF SetLevel
      <4>5. ASSUME NEW p \in Products PROVE stock[p] + consumed[p] <= stock'[p] + consumed'[p]
        <5>1. \/ stock'[p] = stock[p] /\ consumed'[p] = consumed[p]
              \/ p = x /\ stock'[p] = level /\ consumed'[p] = consumed[p] + m
          BY <1>0, <4>4 DEF Inv, TypeOK
        <5> QED
          BY <2>1, <4>1, <4>3, <5>1
      <4> QED
        BY <3>2, <4>4, <4>5
    <3>7. ASSUME NEW x \in Products, NEW qty \in Quantities, Receive(r, x, qty) PROVE Covers'
      <4>1. qty \in Nat
        BY InventoryAssumption
      <4>2. stock' = [stock EXCEPT ![x] = @ + qty] /\ UNCHANGED <<reserved, invoice, consumed>>
        BY <3>7 DEF Receive
      <4>3. ASSUME NEW p \in Products PROVE stock[p] + consumed[p] <= stock'[p] + consumed'[p]
        <5>1. stock'[p] = stock[p] \/ stock'[p] = stock[p] + qty
          BY <1>0, <4>2 DEF Inv, TypeOK
        <5> QED
          BY <2>1, <4>1, <4>2, <5>1
      <4> QED
        BY <3>2, <4>2, <4>3
    <3>8. \/ UNCHANGED inventoryVars \/ \E i \in Invoices : SaleCommit(r, i)
          \/ VoidCommit(r) \/ AdjustCommit(r) \/ OutflowCommit(r)
          \/ \E x \in Products, level \in Levels : SetLevel(x, level)
          \/ \E x \in Products, qty \in Quantities : Receive(r, x, qty)
      BY <2>4 DEF InventoryNext, BeginSale, BeginVoid, BeginOutflow, BeginConsumptions, BeginImport,
                  BeginAdjust, EditProduct, ImportCatalogue, ImportStock
    <3>9. UNCHANGED inventoryVars => Covers'
      BY <2>2 DEF inventoryVars
    <3> QED
      BY <3>1, <3>3, <3>4, <3>5, <3>6, <3>7, <3>8, <3>9
  <2> QED
    BY <1>2, <2>3, <2>4 DEF Acts
<1> QED
  BY <1>1, <1>2 DEF Next, Acts

\* With one request at a time no sale over the counter or charge leaves the stock short of what
\* other orders reserved, for any number of products, orders and units, and whichever statements
\* die half way: what is missing, consumption, corrections and imports have taken.
THEOREM CounterSparesReservations ==
  ASSUME OneAtATime
  PROVE  Spec => []ReservedCovered
<1>1. Init => Covers
  <2> SUFFICES ASSUME Init, NEW p \in Products PROVE reserved[p] <= 0
    BY DEF Covers
  <2> QED
    BY DEF Init, InitInventory
<1>2. Alone /\ Alone' /\ StockInv /\ StockInv' /\ Covers /\ [Next]_vars => Covers'
  BY CoversNext DEF StockInv
<1>3. Alone /\ StockInv /\ Covers => ReservedCovered
  <2> SUFFICES ASSUME Alone, StockInv, Covers, NEW p \in Products, ~SoldInTwoLines(p)
               PROVE  reserved[p] <= Max({0, Behind(p)})
    BY DEF ReservedCovered, Behind
  <2>1. PICK m : m = Behind(p)
    OBVIOUS
  <2>2. m \in Int /\ reserved[p] \in Int
    BY <2>1, ImportsType DEF StockInv, Stocked, Calm, Inv, TypeOK
  <2>3. Max({0, m}) \in Int /\ Max({0, m}) >= m /\ Max({0, m}) >= 0
    BY <2>2, MaxIs
  <2>4. reserved[p] <= 0 \/ reserved[p] <= m
    BY <2>1 DEF Covers
  <2> QED
    BY <2>1, <2>2, <2>3, <2>4
<1>4. Spec => []Alone
  BY AlwaysAlone
<1>5. Spec => []StockInv
  BY AlwaysStocked DEF Undisturbed
<1> QED
  BY <1>1, <1>2, <1>3, <1>4, <1>5, PTL DEF Spec

-----------------------------------------------------------------------------
(* The operations as single steps of the orders. *)

\* An order as the service sees it, while no charge is about to mark it.
Plain(row) == [status |-> row.status, product |-> row.product, qty |-> row.qty, bill |-> row.charged]
Billed(row, i) == [status |-> "CHARGED", product |-> row.product, qty |-> row.qty, bill |-> i]
Slips == [o \in Orders |-> Slip(o)]

\* Orders are for some units of a product, and so are those about to be inserted.
Asking(p, qty) == p \in Products /\ qty \in Quantities
Portions ==
  /\ \A o \in Orders : Exists(o) => Asking(order[o].product, order[o].qty)
  /\ \A r \in Requests : At(r, "insert") => Asking(req[r].product, req[r].qty)
  /\ \A r \in Requests : At(r, "account") => Asking(req[r].product, req[r].qty)

\* Where no charge is under way, the service sees the orders as they are.
LEMMA PlainSlips ==
  ASSUME OneAtATime, NEW r \in Requests
  PROVE  /\ req[r].pc # "chargeMark" => \A o \in Orders : Slip(o) = Plain(order[o])
         /\ req'[r].pc # "chargeMark" => \A o \in Orders : Slip(o)' = Plain(order'[o])
<1>1. \A q \in Requests : q = r
  BY DEF OneAtATime
<1>2. req[r].pc # "chargeMark" => \A o \in Orders : Marking(o) = {}
  BY <1>1 DEF Marking, At
<1>3. req'[r].pc # "chargeMark" => \A o \in Orders : Marking(o)' = {}
  BY <1>1 DEF Marking, At
<1> QED
  BY <1>2, <1>3 DEF Slip, Plain

\* Where one is, its order is charged, with the invoice of the sale.
LEMMA MarkedSlips ==
  ASSUME OneAtATime, NEW r \in Requests
  PROVE  /\ req[r].pc = "chargeMark" =>
              \A o \in Orders : Slip(o) = IF o = req[r].subject
                THEN Billed(order[o], req[r].sold)
                ELSE Plain(order[o])
         /\ req'[r].pc = "chargeMark" =>
              \A o \in Orders : Slip(o)' = IF o = req'[r].subject
                THEN Billed(order'[o], req'[r].sold)
                ELSE Plain(order'[o])
<1>1. \A q \in Requests : q = r
  BY DEF OneAtATime
<1>2. ASSUME req[r].pc = "chargeMark", NEW o \in Orders
      PROVE  Slip(o) = IF o = req[r].subject
               THEN Billed(order[o], req[r].sold)
               ELSE Plain(order[o])
  <2>1. Marking(o) = IF o = req[r].subject THEN {r} ELSE {}
    BY <1>1, <1>2 DEF Marking, At
  <2>2. (CHOOSE x \in {r} : TRUE) = r
    OBVIOUS
  <2> QED
    BY <2>1, <2>2 DEF Slip, Plain, Billed
<1>3. ASSUME req'[r].pc = "chargeMark", NEW o \in Orders
      PROVE  Slip(o)' = IF o = req'[r].subject
               THEN Billed(order'[o], req'[r].sold)
               ELSE Plain(order'[o])
  <2>1. Marking(o)' = IF o = req'[r].subject THEN {r} ELSE {}
    BY <1>1, <1>3 DEF Marking, At
  <2>2. (CHOOSE x \in {r} : TRUE) = r
    OBVIOUS
  <2> QED
    BY <2>1, <2>2 DEF Slip, Plain, Billed
<1> QED
  BY <1>2, <1>3

\* A row written, of a request that neither has sold nor sells, is a slip written.
LEMMA SlipWritten ==
  ASSUME OneAtATime, Inv, NEW r \in Requests, req[r].pc # "chargeMark", req'[r].pc # "chargeMark",
         NEW o \in Orders, NEW row, order' = [order EXCEPT ![o] = row]
  PROVE  /\ Slips' = [Slips EXCEPT ![o] = Plain(row)]
         /\ \A x \in Orders : Slips[x] = Plain(order[x])
<1>1. \A x \in Orders : Slip(x) = Plain(order[x]) /\ Slip(x)' = Plain(order'[x])
  BY PlainSlips
<1>2. \A x \in Orders : order'[x] = IF x = o THEN row ELSE order[x]
  BY DEF Inv, TypeOK
<1>3. Slips' = [x \in Orders |-> Plain(order'[x])] /\ Slips = [x \in Orders |-> Plain(order[x])]
  BY <1>1 DEF Slips
<1> QED
  BY <1>2, <1>3

\* So is a status.
LEMMA SlipTurned ==
  ASSUME OneAtATime, Inv, NEW r \in Requests, req[r].pc # "chargeMark", req'[r].pc # "chargeMark",
         NEW o \in Orders, NEW status, order' = [order EXCEPT ![o].status = status]
  PROVE  /\ Service!Turn(o, status)
         /\ \A x \in Orders : Slips[x] = Plain(order[x])
<1>1. PICK row : row = [order[o] EXCEPT !.status = status]
  OBVIOUS
<1>2. order' = [order EXCEPT ![o] = row]
  BY <1>1
<1>3. /\ Slips' = [Slips EXCEPT ![o] = Plain(row)]
      /\ \A x \in Orders : Slips[x] = Plain(order[x])
  BY <1>2, SlipWritten
<1>4. Plain(row) = [Plain(order[o]) EXCEPT !.status = status]
  <2>1. order[o] \in OrderRow
    BY Rows
  <2> QED
    BY <1>1, <2>1 DEF Plain, OrderRow
<1>5. Slips' = [Slips EXCEPT ![o].status = status]
  BY <1>3, <1>4 DEF Slips
<1> QED
  BY <1>3, <1>5 DEF Service!Turn, Slips

\* Steps of a request that neither has sold nor sells, and that write no order.
LEMMA SlipsStay ==
  ASSUME OneAtATime, NEW r \in Requests, req[r].pc # "chargeMark", req'[r].pc # "chargeMark",
         order' = order, reserved' = reserved
  PROVE  Service!Elsewhere
<1>1. \A o \in Orders : Slip(o)' = Slip(o)
  BY PlainSlips
<1>2. Slips' = Slips
  BY <1>1 DEF Slips
<1> QED
  BY <1>2 DEF Service!Elsewhere, Slips

\* A send reserves what the shelf still covers.
LEMMA ReserveSends ==
  ASSUME OneAtATime, Alone, Alone', Portions, NEW r \in Requests, ReserveWrite(r)
  PROVE  \E o \in Orders : Service!Send(o)
<1>1. Inv /\ Inv' /\ req[r].pc = "reserveWrite" /\ Knows(req[r]) /\ Subject(req[r])
  BY Rows DEF Alone, ReserveWrite, At
<1>2. req[r].pc # "chargeMark" /\ req'[r].pc # "chargeMark"
  BY <1>1, Becomes, IdleRow DEF ReserveWrite, Finish
<1>3. PICK o \in Orders : o = req[r].subject /\ order[o].status = "DRAFT" /\ Fits(o)
  BY <1>1 DEF Subject, OnOrder, Knows
<1>4. CASE /\ reserved' = [reserved EXCEPT ![order[o].product] = @ + order[o].qty]
           /\ order' = [order EXCEPT ![o].status = "SENT"]
  <2>1. /\ Service!Turn(o, "SENT")
        /\ \A x \in Orders : Slips[x] = Plain(order[x])
    BY <1>1, <1>2, <1>4, SlipTurned
  <2>2. PICK p, qty : p = order[o].product /\ qty = order[o].qty
    OBVIOUS
  <2>3. Slips[o].status = "DRAFT" /\ Slips[o].product = p /\ Slips[o].qty = qty
    <3>1. Slips[o] = Plain(order[o])
      BY <2>1
    <3> QED
      BY <1>3, <2>2, <3>1 DEF Plain
  <2>4. p \in Products /\ qty \in Nat /\ qty > 0
    <3>1. Asking(p, qty)
      BY <1>3, <2>2 DEF Portions, Exists
    <3>2. Quantities \subseteq Nat \ {0}
      BY InventoryAssumption
    <3> QED
      BY <3>1, <3>2 DEF Asking
  <2>5. stock[p] \in Int /\ reserved[p] \in Int
    BY <1>1, <2>4 DEF Inv, TypeOK
  <2>6. stock[p] - reserved[p] >= qty
    <3>1. PICK m : m = stock[p] - reserved[p]
      OBVIOUS
    <3>2. m \in Int /\ Max({0, m}) >= qty
      BY <1>3, <2>2, <2>5, <3>1 DEF Fits, AvailableStock
    <3>3. Max({0, m}) \in {0, m}
      <4>1. \E z \in {0, m} : \A w \in {0, m} : z >= w
        BY <3>2
      <4> QED
        BY <4>1 DEF Max
    <3> QED
      BY <2>4, <3>1, <3>2, <3>3
  <2>7. reserved' = [reserved EXCEPT ![p] = @ + qty] /\ stock' = stock
    BY <1>4, <2>2 DEF ReserveWrite
  <2>8. Service!Hold(o)
    BY <2>3, <2>7 DEF Service!Hold, Slips
  <2>9. Service!Send(o)
    BY <2>1, <2>3, <2>6, <2>7, <2>8 DEF Service!Send, Slips
  <2> QED
    BY <2>9
<1> QED
  BY <1>3, <1>4 DEF ReserveWrite

\* The kitchen moves an order on.
LEMMA StatusPrepares ==
  ASSUME OneAtATime, Alone, NEW r \in Requests, WriteStatus(r)
  PROVE  \E o \in Orders, status \in {"IN_PREP", "READY"} : Service!Prepare(o, status)
<1>1. Inv /\ req[r].pc = "status" /\ Knows(req[r]) /\ Subject(req[r])
  BY Rows DEF Alone, WriteStatus, At
<1>2. req[r].pc # "chargeMark" /\ req'[r].pc # "chargeMark"
  BY <1>1, Becomes, IdleRow DEF WriteStatus, Finish
<1>3. PICK o \in Orders, status \in {"IN_PREP", "READY"} :
        /\ o = req[r].subject /\ status = req[r].was
        /\ order[o].status \in Active /\ order[o].status \in From(status)
  BY <1>1 DEF Subject, OnOrder, Knows
<1>4. order' = [order EXCEPT ![o].status = status] /\ UNCHANGED <<reserved, stock>>
  BY <1>3 DEF WriteStatus, inventoryVars
<1>5. /\ Service!Turn(o, status)
      /\ \A x \in Orders : Slips[x] = Plain(order[x])
  BY <1>1, <1>2, <1>4, SlipTurned
<1>6. /\ Slips[o].status \in Service!Kitchen
      /\ status = "IN_PREP" => Slips[o].status # "READY"
  <2>1. Slips[o] = Plain(order[o])
    BY <1>5
  <2>2. Slips[o].status = order[o].status
    BY <2>1 DEF Plain
  <2> QED
    BY <1>3, <2>2 DEF From, Active, Service!Kitchen
<1>7. Service!Prepare(o, status)
  BY <1>4, <1>5, <1>6 DEF Service!Prepare, Slips
<1> QED
  BY <1>7

\* A cancellation gives back what the order held, whole.
LEMMA CancelCancels ==
  ASSUME OneAtATime, Alone, Kept, NEW r \in Requests, Cancel(r)
  PROVE  \E o \in Orders : Service!Cancel(o)
<1>1. Inv /\ req[r].pc = "cancel" /\ Knows(req[r]) /\ Subject(req[r])
  BY Rows DEF Alone, Cancel, At
<1>2. req[r].pc # "chargeMark" /\ req'[r].pc # "chargeMark"
  BY <1>1, Becomes, IdleRow DEF Cancel, Finish
<1>3. PICK o \in Orders : /\ o = req[r].subject /\ order[o].status = req[r].was
                          /\ order[o].status \in Active \cup {"DRAFT"}
  BY <1>1 DEF Subject, OnOrder, Knows
<1>4. /\ order' = [order EXCEPT ![o].status = "CANCELLED"] /\ stock' = stock
      /\ reserved' = IF order[o].status \in Active
                     THEN [reserved EXCEPT ![order[o].product] = Max({0, @ - order[o].qty})]
                     ELSE reserved
  BY <1>3 DEF Cancel, HeldStock
<1>5. /\ Service!Turn(o, "CANCELLED")
      /\ \A x \in Orders : Slips[x] = Plain(order[x])
  BY <1>1, <1>2, <1>4, SlipTurned
<1>6. PICK p, qty : p = order[o].product /\ qty = order[o].qty
  OBVIOUS
<1>7. Slips[o].status = order[o].status /\ Slips[o].product = p /\ Slips[o].qty = qty
  <2>1. Slips[o] = Plain(order[o])
    BY <1>5
  <2> QED
    BY <1>6, <2>1 DEF Plain
<1>8. CASE order[o].status = "DRAFT"
  <2>1. reserved' = reserved
    BY <1>4, <1>8 DEF Active
  <2>2. Service!Cancel(o)
    BY <1>4, <1>5, <1>7, <1>8, <2>1 DEF Service!Cancel, Slips
  <2> QED
    BY <2>2
<1>9. CASE order[o].status \in Active
  <2>1. reserved' = [reserved EXCEPT ![p] = Max({0, @ - qty})]
    BY <1>4, <1>6, <1>9
  <2>2. reserved' = [reserved EXCEPT ![p] = @ - qty]
    <3>1. CASE p \notin Products
      BY <1>1, <2>1, <3>1 DEF Inv, TypeOK
    <3>2. CASE p \in Products
      <4>1. reserved[p] \in Int /\ qty \in Nat
        BY <1>1, <1>6, <3>2, Rows DEF OrderRow
      <4>2. reserved[p] = Held(order, p)
        <5>1. Due(req[r], p) = 0
          BY <1>2 DEF Due
        <5> QED
          BY <3>2, <4>1, <5>1 DEF Kept
      <4>3. Held(order, p) >= qty
        <5>1. PICK f : f = order
          OBVIOUS
        <5>2. f \in [Orders -> OrderRow] /\ o \in KitchenRows(f, p) /\ IsFiniteSet(KitchenRows(f, p))
          BY <1>1, <1>6, <1>9, <5>1, KitchenFinite DEF KitchenRows, Inv, TypeOK
        <5> QED
          BY <1>6, <5>1, <5>2, HeldCovers
      <4>4. PICK m : m = reserved[p] - qty
        OBVIOUS
      <4>5. m \in Int /\ m >= 0
        BY <4>1, <4>2, <4>3, <4>4
      <4>6. Max({0, m}) = m
        BY <4>5, MaxIs
      <4> QED
        BY <2>1, <4>4, <4>6
    <3> QED
      BY <3>1, <3>2
  <2>3. Slips[o].status \in Service!Kitchen
    BY <1>7, <1>9 DEF Active, Service!Kitchen
  <2>4. Service!Release(o)
    BY <1>7, <2>2 DEF Service!Release, Slips
  <2>5. Service!Cancel(o)
    BY <1>4, <1>5, <2>3, <2>4 DEF Service!Cancel, Slips
  <2> QED
    BY <2>5
<1> QED
  BY <1>3, <1>8, <1>9

\* An order that is inserted is taken.
LEMMA InsertTakes ==
  ASSUME OneAtATime, Alone, NEW r \in Requests, NEW o \in Orders, ~Exists(o),
         req[r].pc # "chargeMark", req'[r].pc # "chargeMark",
         NEW row, order' = [order EXCEPT ![o] = row], UNCHANGED <<reserved, stock>>,
         row.status = "DRAFT", row.charged = None, Asking(row.product, row.qty)
  PROVE  \E p \in Products, qty \in Quantities : Service!Take(o, p, qty)
<1>1. /\ Slips' = [Slips EXCEPT ![o] = Plain(row)]
      /\ \A x \in Orders : Slips[x] = Plain(order[x])
  BY SlipWritten DEF Alone
<1>2. PICK p \in Products, qty \in Quantities : p = row.product /\ qty = row.qty
  BY DEF Asking
<1>3. Plain(row) = [status |-> "DRAFT", product |-> p, qty |-> qty, bill |-> None]
  BY <1>2 DEF Plain
<1>4. Slips[o].status = "none"
  <2>1. Slips[o] = Plain(order[o])
    BY <1>1
  <2> QED
    BY <2>1 DEF Plain, Exists
<1>5. Service!Take(o, p, qty)
  BY <1>1, <1>3, <1>4 DEF Service!Take, Slips
<1> QED
  BY <1>5

\* An order is taken at the counter, or at the account of its table.
LEMMA OrdersTaken ==
  ASSUME OneAtATime, Alone, Alone', Portions, Portions', NEW r \in Requests, NEW o \in Orders,
         NEW now \in BOOLEAN,
         \/ InsertOrder(r, o, now)
         \/ \E mode \in Modes, p \in Products, qty \in Quantities : TakeOrder(r, o, mode, p, qty, now)
  PROVE  \E p \in Products, qty \in Quantities : Service!Take(o, p, qty)
<1>1. Inv /\ Inv' /\ order \in [Orders -> OrderRow] /\ order' \in [Orders -> OrderRow]
  BY DEF Alone, Inv, TypeOK
<1>2. PICK row : /\ order' = [order EXCEPT ![o] = row] /\ row.status = "DRAFT" /\ row.charged = None
  <2>1. CASE InsertOrder(r, o, now)
    <3>1. PICK row : row = [NoOrder EXCEPT !.status = "DRAFT", !.product = req[r].product,
                              !.qty = req[r].qty, !.account = req[r].subject, !.open = TRUE]
      OBVIOUS
    <3>2. row.status = "DRAFT" /\ row.charged = None
      BY <3>1 DEF NoOrder
    <3>3. order' = [order EXCEPT ![o] = row]
      BY <2>1, <3>1 DEF InsertOrder
    <3> QED
      BY <3>2, <3>3
  <2>2. ASSUME NEW mode \in Modes, NEW p \in Products, NEW qty \in Quantities,
               TakeOrder(r, o, mode, p, qty, now)
        PROVE  \E row : /\ order' = [order EXCEPT ![o] = row] /\ row.status = "DRAFT"
                        /\ row.charged = None
    <3>1. PICK row : row = [NoOrder EXCEPT !.status = "DRAFT", !.product = p, !.qty = qty,
                                           !.open = mode = "CUENTA_ABIERTA"]
      OBVIOUS
    <3>2. row.status = "DRAFT" /\ row.charged = None
      BY <3>1 DEF NoOrder
    <3>3. order' = [order EXCEPT ![o] = row]
      BY <2>2, <3>1 DEF TakeOrder
    <3> QED
      BY <3>2, <3>3
  <2> QED
    BY <2>1, <2>2
<1>3. order'[o] = row
  BY <1>1, <1>2
<1>4. Asking(row.product, row.qty)
  <2>1. Exists(o)'
    BY <1>2, <1>3 DEF Exists
  <2> QED
    BY <1>3, <2>1 DEF Portions
<1>5. ~Exists(o) /\ UNCHANGED <<reserved, stock>> /\ req[r].pc \in {"idle", "insert"}
      /\ Created(r, o, now)
  BY DEF InsertOrder, TakeOrder, Arrives, At, inventoryVars
<1>6. req'[r].pc # "chargeMark"
  <2>1. CASE now
    <3>1. PICK t : t = [Idle EXCEPT !.pc = "sendRead", !.subject = o]
      OBVIOUS
    <3>2. t.pc = "sendRead"
      BY <3>1 DEF Idle
    <3> QED
      BY <1>1, <1>5, <2>1, <3>1, <3>2, Becomes DEF Created
  <2>2. CASE ~now
    BY <1>1, <1>5, <2>2, Becomes, IdleRow DEF Created, Finish
  <2> QED
    BY <2>1, <2>2
<1> QED
  BY <1>2, <1>4, <1>5, <1>6, InsertTakes

\* From the sale of its charge on, an order is charged, and billed by an invoice of its own.
LEMMA SaleCharges ==
  ASSUME OneAtATime, Alone, NEW r \in Requests, NEW i \in Invoices, ChargeSale(r, i)
  PROVE  \E o \in Orders : Service!Charge(o, i)
<1>0. Inv
  BY DEF Alone
<1>1. PICK q \in ReqRow : /\ q = req[r] /\ q.pc = "chargeSale" /\ Knows(q) /\ Subject(q)
                          /\ Charging(q)
  BY <1>0, Rows DEF Alone, ChargeSale, At
<1>2. PICK o \in Orders : o = q.subject /\ order[o].status \in Active
  BY <1>1 DEF Subject, OnOrder, Knows
<1>3. PICK p, qty : p = order[o].product /\ qty = order[o].qty
  OBVIOUS
<1>4. /\ q.product = p /\ q.qty = qty /\ qty \in Nat
      /\ q.kind = "plain" /\ q.lines = 1 /\ q.released = qty
  BY <1>0, <1>1, <1>2, <1>3, Rows DEF Charging, Knows, OrderRow
<1>5. Released(q) = qty
  BY <1>4, ReleasedIs
<1>6. q.lines * Taken(q.kind, q.qty) = qty
  <2>1. Taken(q.kind, q.qty) = qty
    BY <1>4 DEF Taken
  <2> QED
    BY <1>4, <2>1
<1>7. /\ stock' = [stock EXCEPT ![p] = @ - qty] /\ reserved' = [reserved EXCEPT ![p] = @ - qty]
      /\ order' = order /\ i \notin Placed
  BY <1>1, <1>4, <1>5, <1>6 DEF ChargeSale, SellAs, floorVars
<1>8. PICK x : x = [q EXCEPT !.pc = "chargeMark", !.sold = i]
  OBVIOUS
<1>9. x.pc = "chargeMark" /\ x.sold = i /\ x.subject = o
  BY <1>2, <1>8 DEF ReqRow
<1>10. req'[r] = x
  BY <1>0, <1>1, <1>8, Becomes DEF ChargeSale
<1>11. \A y \in Orders : Slips[y] = Plain(order[y])
  BY <1>1, PlainSlips DEF Slips
<1>12. \A y \in Orders : Slip(y)' = IF y = o
         THEN Billed(order[y], i) ELSE Plain(order[y])
  BY <1>7, <1>9, <1>10, MarkedSlips
<1>13. Slips[o].status \in Service!Kitchen /\ Slips[o].product = p /\ Slips[o].qty = qty
  <2>1. Slips[o] = Plain(order[o])
    BY <1>11
  <2> QED
    BY <1>2, <1>3, <2>1 DEF Plain, Active, Service!Kitchen
<1>14. Slips' = [Slips EXCEPT ![o] = [status |-> "CHARGED", product |-> Slips[o].product,
                                      qty |-> Slips[o].qty, bill |-> i]]
  BY <1>3, <1>11, <1>12, <1>13 DEF Slips, Billed
<1>15. ASSUME NEW y \in Orders PROVE Slips[y].bill # i
  <2>1. Slips[y] = Plain(order[y])
    BY <1>11
  <2>2. Slips[y].bill = order[y].charged
    BY <2>1 DEF Plain
  <2>3. order[y].charged # i
    BY <1>0, <1>7, InventoryAssumption DEF Inv, ChargedHasItsInvoice
  <2> QED
    BY <2>2, <2>3
<1>16. Service!Release(o)
  BY <1>7, <1>13 DEF Service!Release, Slips
<1>17. Service!Charge(o, i)
  BY <1>7, <1>13, <1>14, <1>15, <1>16 DEF Service!Charge, Slips
<1> QED
  BY <1>17

\* The mark only writes down what the sale has decided.
LEMMA MarkChangesNothing ==
  ASSUME OneAtATime, Alone, NEW r \in Requests, ChargeMark(r)
  PROVE  Service!Elsewhere
<1>0. Inv
  BY DEF Alone
<1>1. PICK q \in ReqRow : q = req[r] /\ q.pc = "chargeMark" /\ Subject(q)
  BY <1>0, Rows DEF ChargeMark, At
<1>2. PICK o \in Orders : o = q.subject
  BY <1>1 DEF Subject, OnOrder
<1>3. req'[r].pc # "chargeMark"
  BY <1>0, Becomes, IdleRow DEF ChargeMark, Finish
<1>4. PICK row : row = [order[o] EXCEPT !.status = "CHARGED", !.charged = q.sold]
  OBVIOUS
<1>5. order' = [order EXCEPT ![o] = row] /\ reserved' = reserved
  BY <1>1, <1>2, <1>4 DEF ChargeMark, inventoryVars
<1>6. \A y \in Orders : order'[y] = IF y = o THEN row ELSE order[y]
  BY <1>0, <1>5 DEF Inv, TypeOK
<1>7. Plain(row) = Billed(order[o], q.sold)
  <2>1. order[o] \in OrderRow
    BY <1>0, Rows
  <2>2. /\ row.status = "CHARGED" /\ row.charged = q.sold
        /\ row.product = order[o].product /\ row.qty = order[o].qty
    BY <1>4, <2>1 DEF OrderRow
  <2> QED
    BY <2>2 DEF Plain, Billed
<1>8. \A y \in Orders : Slip(y) = IF y = o
        THEN Billed(order[y], q.sold) ELSE Plain(order[y])
  BY <1>1, <1>2, MarkedSlips
<1>9. \A y \in Orders : Slip(y)' = Plain(order'[y])
  BY <1>3, PlainSlips
<1>10. \A y \in Orders : Slip(y)' = Slip(y)
  BY <1>6, <1>7, <1>8, <1>9
<1>11. Slips' = Slips
  BY <1>10 DEF Slips
<1> QED
  BY <1>5, <1>11 DEF Service!Elsewhere, Slips

\* Only an order at a table waits to be inserted.
LEMMA OthersInsertNothing ==
  ASSUME Inv, NEW r \in Requests, Acts(r), ~OpenAccount(r),
         \A t \in Tables, p \in Products, qty \in Quantities : ~BeginTable(r, t, p, qty)
  PROVE  req'[r].pc \notin {"insert", "account"}
<1>0. PICK q \in ReqRow : q = req[r]
  BY Rows
<1>1. Finish(r) => req'[r].pc \notin {"insert", "account"}
  BY Becomes, IdleRow DEF Finish
<1>2. ASSUME NEW pc, pc \notin {"insert", "account"}, Goto(r, pc)
      PROVE  req'[r].pc \notin {"insert", "account"}
  <2>1. req'[r] = [q EXCEPT !.pc = pc]
    BY <1>0, <1>2, Becomes DEF Goto
  <2> QED
    BY <1>2, <2>1 DEF ReqRow
<1>3. ASSUME NEW o \in Orders, NEW now \in BOOLEAN, Created(r, o, now)
      PROVE  req'[r].pc \notin {"insert", "account"}
  <2>1. now => req'[r] = [Idle EXCEPT !.pc = "sendRead", !.subject = o]
    BY <1>3, Becomes DEF Created
  <2> QED
    BY <1>1, <1>3, <2>1 DEF Created, Idle
<1>4. ASSUME NEW i \in Invoices, ChargeSale(r, i)
      PROVE  req'[r].pc \notin {"insert", "account"}
  <2>1. req'[r] = [q EXCEPT !.pc = "chargeMark", !.sold = i]
    BY <1>0, <1>4, Becomes DEF ChargeSale
  <2> QED
    BY <2>1 DEF ReqRow
<1>5. ASSUME NEW o, \/ BeginSend(r, o) \/ BeginCancel(r, o) \/ BeginCharge(r, o)
                   \/ \E status : BeginStatus(r, o, status)
      PROVE  req'[r].pc \notin {"insert", "account"}
  <2>1. \/ req'[r] = [Idle EXCEPT !.pc = "reserve", !.subject = o]
        \/ req'[r] = [Idle EXCEPT !.pc = "cancel", !.subject = o, !.was = order[o].status]
        \/ req'[r] = [Idle EXCEPT !.pc = "chargeSale", !.subject = o, !.product = order[o].product,
                                  !.qty = order[o].qty, !.lines = 1, !.released = order[o].qty]
        \/ \E status : req'[r] = [Idle EXCEPT !.pc = "status", !.subject = o, !.was = status]
    BY <1>5, Becomes DEF BeginSend, BeginCancel, BeginCharge, BeginStatus
  <2> QED
    BY <2>1 DEF Idle
<1>6. ASSUME NEW a, BeginClose(r, a) \/ \E amount : BeginPayment(r, a, amount)
      PROVE  req'[r].pc \notin {"insert", "account"}
  <2>1. \/ req'[r] = [Idle EXCEPT !.pc = "claim", !.subject = a]
        \/ \E amount : req'[r] = [Idle EXCEPT !.pc = "pay", !.subject = a, !.qty = amount]
    BY <1>6, Becomes DEF BeginClose, BeginPayment
  <2> QED
    BY <2>1 DEF Idle
<1>7. CASE BeginTab(r)
  <2>1. req'[r] = [Idle EXCEPT !.pc = "claimTab"]
    BY <1>7, Becomes DEF BeginTab
  <2> QED
    BY <2>1 DEF Idle
<1>8. CASE FloorNext(r)
  <2>1. \/ Finish(r) \/ Goto(r, "reserve") \/ Goto(r, "reserveWrite")
        \/ Goto(r, "claimOrders") \/ Goto(r, "unclaim")
        \/ BeginTab(r) \/ \E o \in Orders, now \in BOOLEAN : Created(r, o, now)
        \/ \E i \in Invoices : ChargeSale(r, i)
        \/ \E o \in Orders : \/ BeginSend(r, o) \/ BeginCancel(r, o) \/ BeginCharge(r, o)
                             \/ \E status : BeginStatus(r, o, status)
        \/ \E a \in Accounts : BeginClose(r, a) \/ \E amount : BeginPayment(r, a, amount)
    BY <1>8
       DEF FloorNext, TakeOrder, InsertOrder, SendCreated, Reserve, ReserveWrite, WriteStatus,
           Cancel, ChargeMark, Pay, ClaimAccount, ClaimOrders, Unclaim, ClaimTab, Fail
  <2>2. \A pc \in {"reserve", "reserveWrite", "claimOrders", "unclaim"} : pc \notin {"insert", "account"}
    OBVIOUS
  <2> QED
    BY <1>1, <1>2, <1>3, <1>4, <1>5, <1>6, <1>7, <2>1, <2>2
<1>9. ASSUME NEW p, NEW kind, NEW qty, NEW lines, NEW skip,
             \/ BeginSale(r, p, kind, qty, lines) \/ BeginImport(r, p, kind, qty, lines, skip)
             \/ BeginOutflow(r, p, kind, qty) \/ BeginConsumptions(r, p, qty, lines)
             \/ BeginAdjust(r, p, qty) \/ BeginVoid(r, p)
      PROVE  req'[r].pc \notin {"insert", "account"}
  <2>1. \/ req'[r] = [Idle EXCEPT !.pc = "saleCommit", !.product = p, !.kind = kind,
                                  !.qty = qty, !.lines = lines]
        \/ req'[r] = [Idle EXCEPT !.pc = "outflow", !.product = p, !.kind = kind, !.qty = qty,
                                  !.lines = 1]
        \/ req'[r] = [Idle EXCEPT !.pc = "outflow", !.product = p, !.qty = qty, !.lines = lines]
        \/ req'[r] = [Idle EXCEPT !.pc = "adjust", !.product = p, !.qty = qty, !.seen = stock[p]]
        \/ req'[r] = [Idle EXCEPT !.pc = "void", !.subject = p]
    BY <1>9, Becomes
       DEF BeginSale, BeginVoid, BeginOutflow, BeginConsumptions, BeginImport, BeginAdjust
  <2> QED
    BY <2>1 DEF Idle
<1>10. CASE req' = req /\ At(r, "idle")
  BY <1>10 DEF At
<1>11. CASE InventoryNext(r)
  <2>1. \/ Finish(r) \/ (req' = req /\ At(r, "idle"))
        \/ \E p, kind, qty, lines, skip :
             \/ BeginSale(r, p, kind, qty, lines) \/ BeginImport(r, p, kind, qty, lines, skip)
             \/ BeginOutflow(r, p, kind, qty) \/ BeginConsumptions(r, p, qty, lines)
             \/ BeginAdjust(r, p, qty) \/ BeginVoid(r, p)
    BY <1>11
       DEF InventoryNext, SaleCommit, VoidCommit, OutflowCommit, AdjustCommit, Receive,
           EditProduct, ImportCatalogue, ImportStock, SetLevel, Moving, Arrives
  <2> QED
    BY <1>1, <1>9, <1>10, <2>1
<1> QED
  BY <1>8, <1>11 DEF Acts

\* Requests carry, and orders keep, portions of products there are.
LEMMA PortionsNext ==
  ASSUME OneAtATime, Alone, Portions, [Next]_vars
  PROVE  Portions'
<1>0. Inv
  BY DEF Alone
<1>1. CASE UNCHANGED vars
  BY <1>1 DEF vars, floorVars, Portions, Exists, At
<1>2. ASSUME NEW r \in Requests, order' = order, req'[r].pc \notin {"insert", "account"}
      PROVE  Portions'
  <2>1. \A q \in Requests : q = r
    BY DEF OneAtATime
  <2> QED
    BY <1>2, <2>1 DEF Portions, Exists, At
<1>3. ASSUME NEW r \in Requests, NEW o \in Orders, NEW row, order' = [order EXCEPT ![o] = row],
             req'[r].pc \notin {"insert", "account"}, Asking(row.product, row.qty)
      PROVE  Portions'
  <2>1. \A q \in Requests : q = r
    BY DEF OneAtATime
  <2>2. \A x \in Orders : order'[x] = IF x = o THEN row ELSE order[x]
    BY <1>0, <1>3 DEF Inv, TypeOK
  <2>3. ASSUME NEW x \in Orders, Exists(x)'
        PROVE  Asking(order'[x].product, order'[x].qty)
    <3>1. CASE x = o
      BY <1>3, <2>2, <3>1
    <3>2. CASE x # o
      BY <2>2, <2>3, <3>2 DEF Portions, Exists
    <3> QED
      BY <3>1, <3>2
  <2> QED
    BY <1>3, <2>1, <2>3 DEF Portions, At
<1>4. ASSUME NEW r \in Requests, Acts(r) PROVE Portions'
  <2>1. CASE Finish(r) /\ order' = order
    BY <1>0, <1>2, <2>1, Becomes, IdleRow DEF Finish
  <2>2. ASSUME NEW o \in Orders, NEW status, Exists(o), Finish(r),
               order' = [order EXCEPT ![o].status = status]
        PROVE  Portions'
    <3>1. PICK row : row = [order[o] EXCEPT !.status = status]
      OBVIOUS
    <3>2. row.product = order[o].product /\ row.qty = order[o].qty
      <4>1. order[o] \in OrderRow
        BY <1>0, Rows
      <4> QED
        BY <3>1, <4>1 DEF OrderRow
    <3>3. Asking(row.product, row.qty)
      BY <2>2, <3>2 DEF Portions
    <3>4. req'[r].pc \notin {"insert", "account"}
      BY <1>0, <2>2, Becomes, IdleRow DEF Finish
    <3> QED
      BY <1>3, <2>2, <3>1, <3>3, <3>4
  <2>3. ASSUME NEW o \in Orders, NEW now \in BOOLEAN, InsertOrder(r, o, now) PROVE Portions'
    <3>1. PICK row : row = [NoOrder EXCEPT !.status = "DRAFT", !.product = req[r].product,
                              !.qty = req[r].qty, !.account = req[r].subject, !.open = TRUE]
      OBVIOUS
    <3>2. row.product = req[r].product /\ row.qty = req[r].qty
      BY <3>1 DEF NoOrder
    <3>3. order' = [order EXCEPT ![o] = row] /\ At(r, "insert")
      BY <2>3, <3>1 DEF InsertOrder
    <3>4. Asking(row.product, row.qty)
      BY <3>2, <3>3 DEF Portions
    <3>5. req'[r].pc \notin {"insert", "account"}
      BY <1>0, <1>4, <2>3, OthersInsertNothing DEF InsertOrder, OpenAccount, BeginTable, Arrives, At
    <3> QED
      BY <1>3, <3>3, <3>4, <3>5
  <2>4. ASSUME NEW o \in Orders, NEW mode \in Modes, NEW p \in Products, NEW qty \in Quantities,
               NEW now \in BOOLEAN, TakeOrder(r, o, mode, p, qty, now)
        PROVE  Portions'
    <3>1. PICK row : row = [NoOrder EXCEPT !.status = "DRAFT", !.product = p, !.qty = qty,
                                           !.open = mode = "CUENTA_ABIERTA"]
      OBVIOUS
    <3>2. row.product = p /\ row.qty = qty
      BY <3>1 DEF NoOrder
    <3>3. order' = [order EXCEPT ![o] = row] /\ Created(r, o, now)
      BY <2>4, <3>1 DEF TakeOrder
    <3>4. Asking(row.product, row.qty)
      BY <3>2 DEF Asking
    <3>5. req'[r].pc \notin {"insert", "account"}
      <4>1. now => req'[r] = [Idle EXCEPT !.pc = "sendRead", !.subject = o]
        BY <1>0, <3>3, Becomes DEF Created
      <4>2. ~now => req'[r].pc = "idle"
        BY <1>0, <3>3, Becomes, IdleRow DEF Created, Finish
      <4> QED
        BY <4>1, <4>2 DEF Idle
    <3> QED
      BY <1>3, <3>3, <3>4, <3>5
  <2>5. CASE ReserveWrite(r) \/ WriteStatus(r) \/ Cancel(r)
    <3>1. PICK o : o = req[r].subject
      OBVIOUS
    <3>2. o \in Orders /\ Exists(o) /\ Finish(r)
      BY <1>0, <2>5, <3>1, Rows DEF ReserveWrite, WriteStatus, Cancel, At, Subject, OnOrder
    <3>3. order' = order \/ \E status : order' = [order EXCEPT ![o].status = status]
      BY <2>5, <3>1 DEF ReserveWrite, WriteStatus, Cancel
    <3> QED
      BY <2>1, <2>2, <3>2, <3>3
  <2>6. CASE ChargeMark(r)
    <3>1. PICK o : o = req[r].subject
      OBVIOUS
    <3>2. o \in Orders /\ Exists(o) /\ Finish(r)
      BY <1>0, <2>6, <3>1, Rows DEF ChargeMark, At, Subject, OnOrder
    <3>3. PICK row : row = [order[o] EXCEPT !.status = "CHARGED", !.charged = req[r].sold]
      OBVIOUS
    <3>4. order' = [order EXCEPT ![o] = row]
      BY <2>6, <3>1, <3>3 DEF ChargeMark
    <3>5. row.product = order[o].product /\ row.qty = order[o].qty
      <4>1. order[o] \in OrderRow
        BY <1>0, <3>2, Rows
      <4> QED
        BY <3>3, <4>1 DEF OrderRow
    <3>6. Asking(row.product, row.qty)
      BY <3>2, <3>5 DEF Portions
    <3>7. req'[r].pc \notin {"insert", "account"}
      BY <1>0, <3>2, Becomes, IdleRow DEF Finish
    <3> QED
      BY <1>3, <3>2, <3>4, <3>6, <3>7
  <2>7. ASSUME order' = order, Asking(req'[r].product, req'[r].qty) PROVE Portions'
    <3>1. \A q \in Requests : q = r
      BY DEF OneAtATime
    <3> QED
      BY <2>7, <3>1 DEF Portions, Exists
  <2>8. ASSUME NEW t \in Tables, NEW p \in Products, NEW qty \in Quantities, BeginTable(r, t, p, qty)
        PROVE  Portions'
    <3>1. PICK q : q = [Idle EXCEPT !.product = p, !.qty = qty]
      OBVIOUS
    <3>2. \/ req'[r] = [q EXCEPT !.pc = "account", !.subject = t]
          \/ \E a : req'[r] = [q EXCEPT !.pc = "insert", !.subject = a]
      BY <1>0, <2>8, <3>1, Becomes DEF BeginTable
    <3>3. req'[r].product = p /\ req'[r].qty = qty
      BY <3>1, <3>2 DEF Idle
    <3>4. order' = order
      BY <2>8 DEF BeginTable, floorVars
    <3> QED
      BY <2>7, <3>3, <3>4 DEF Asking
  <2>9. CASE OpenAccount(r)
    <3>1. PICK q \in ReqRow : q = req[r] /\ q.pc = "account"
      BY <1>0, <2>9, Rows DEF OpenAccount, At
    <3>2. order' = order
      BY <2>9 DEF OpenAccount
    <3>3. Finish(r) \/ \E a : req'[r] = [q EXCEPT !.pc = "insert", !.subject = a]
      BY <1>0, <2>9, <3>1, Becomes DEF OpenAccount
    <3>4. ASSUME NEW a, req'[r] = [q EXCEPT !.pc = "insert", !.subject = a] PROVE Portions'
      <4>1. req'[r].product = q.product /\ req'[r].qty = q.qty
        BY <3>4 DEF ReqRow
      <4>2. Asking(q.product, q.qty)
        BY <3>1 DEF Portions, At
      <4> QED
        BY <2>7, <3>2, <4>1, <4>2
    <3> QED
      BY <2>1, <3>2, <3>3, <3>4
  <2>10. CASE ~Reserves(r) /\ ~OpenAccount(r)
              /\ \A t \in Tables, p \in Products, qty \in Quantities : ~BeginTable(r, t, p, qty)
    BY <1>0, <1>2, <1>4, <2>10, OthersReserveNothing, OthersInsertNothing
  <2>11. ASSUME NEW i \in Invoices, ChargeSale(r, i) \/ (SaleCommit(r, i) /\ UNCHANGED floorVars)
         PROVE  Portions'
    <3>1. order' = order
      BY <2>11 DEF ChargeSale, floorVars
    <3>2. req'[r].pc \notin {"insert", "account"}
      BY <1>0, <1>4, <2>11, OthersInsertNothing
         DEF ChargeSale, SaleCommit, OpenAccount, BeginTable, Arrives, At
    <3> QED
      BY <1>2, <3>1, <3>2
  <2> QED
    BY <2>3, <2>4, <2>5, <2>6, <2>8, <2>9, <2>10, <2>11 DEF Reserves
<1> QED
  BY <1>1, <1>4 DEF Next, Acts

\* Every step of one request at a time is a step of the service.
LEMMA ServiceStep ==
  ASSUME OneAtATime, "failure" \notin Operations, Alone, Alone', Kept, Portions, Portions', [Next]_vars
  PROVE  [Service!Next]_(Service!service)
<1>0. Inv /\ Inv'
  BY DEF Alone
<1>1. CASE UNCHANGED vars
  <2>1. UNCHANGED <<order, req, reserved, stock>>
    BY <1>1 DEF vars, inventoryVars, floorVars
  <2>2. Slips' = Slips
    BY <2>1 DEF Slips, Slip, Marking, At
  <2> QED
    BY <2>1, <2>2 DEF Service!service, Slips
<1>2. ASSUME NEW r \in Requests, Acts(r) PROVE Service!Next
  <2>1. CASE ~Reserves(r)
    <3>1. UNCHANGED <<reserved, order>>
      BY <1>2, <2>1, OthersReserveNothing
    <3>2. ~At(r, "chargeMark")
      BY <1>2, <2>1, MarksNext DEF Reserves
    <3>3. req'[r].pc # "chargeMark"
      BY <1>0, <1>2, <2>1, MarkAfterSale DEF Reserves
    <3>4. Service!Elsewhere
      BY <3>1, <3>2, <3>3, SlipsStay DEF At
    <3> QED
      BY <3>4 DEF Service!Next
  <2>2. ASSUME NEW o \in Orders, NEW now \in BOOLEAN,
               \/ InsertOrder(r, o, now)
               \/ \E mode \in Modes, p \in Products, qty \in Quantities : TakeOrder(r, o, mode, p, qty, now)
        PROVE  Service!Next
    <3>1. \E p \in Products, qty \in Quantities : Service!Take(o, p, qty)
      BY <2>2, OrdersTaken
    <3> QED
      BY <3>1 DEF Service!Next
  <2>3. CASE ReserveWrite(r)
    BY <2>3, ReserveSends DEF Service!Next
  <2>4. CASE WriteStatus(r)
    BY <2>4, StatusPrepares DEF Service!Next
  <2>5. CASE Cancel(r)
    BY <2>5, CancelCancels DEF Service!Next
  <2>6. CASE ChargeMark(r)
    BY <2>6, MarkChangesNothing DEF Service!Next
  <2>7. ASSUME NEW i \in Invoices, ChargeSale(r, i) PROVE Service!Next
    BY <2>7, SaleCharges DEF Service!Next
  <2>8. ASSUME NEW i \in Invoices, SaleCommit(r, i), UNCHANGED floorVars PROVE Service!Next
    <3>1. PICK q \in ReqRow : q = req[r] /\ q.pc = "saleCommit" /\ q.released = 0 /\ q.qty \in Nat
      BY <1>0, <2>8, Rows DEF Alone, SaleCommit, At, Knows, Subject
    <3>2. Released(q) = 0
      BY <3>1, ReleasedIs
    <3>3. reserved' = [reserved EXCEPT ![q.product] = @ - 0] /\ order' = order
      BY <2>8, <3>1, <3>2 DEF SaleCommit, SellAs, floorVars
    <3>4. reserved' = reserved
      <4>1. \A p \in Products : reserved[p] \in Int /\ reserved[p] - 0 = reserved[p]
        BY <1>0 DEF Inv, TypeOK
      <4> QED
        BY <1>0, <3>3, <4>1 DEF Inv, TypeOK
    <3>5. req[r].pc # "chargeMark" /\ req'[r].pc # "chargeMark"
      BY <1>0, <2>8, <3>1, Becomes, IdleRow DEF SaleCommit, Finish
    <3>6. Service!Elsewhere
      BY <3>3, <3>4, <3>5, SlipsStay
    <3> QED
      BY <3>6 DEF Service!Next
  <2> QED
    BY <2>1, <2>2, <2>3, <2>4, <2>5, <2>6, <2>7, <2>8 DEF Reserves
<1> QED
  BY <1>1, <1>2 DEF Next, Acts

\* With one request at a time, and a process that stays up, the statements of the operations on
\* orders amount to single steps of the service, for any number of orders, products and writers
\* of the stock: an order holds its units while it is in the kitchen, is charged by an invoice of
\* its own or cancelled, and is then left alone.
THEOREM ServiceRefined ==
  ASSUME OneAtATime, "failure" \notin Operations
  PROVE  Spec => ServiceKept
<1>1. Init => Portions /\ Kept /\ Service!Init
  <2> SUFFICES ASSUME Init PROVE Portions /\ Kept /\ Service!Init
    OBVIOUS
  <2>1. Portions
    BY IdleRow DEF Init, Portions, Exists, NoOrder, At
  <2>2. Kept
    BY InitKept
  <2>3. \A o \in Orders : Marking(o) = {}
    BY IdleRow DEF Init, Marking, At
  <2>4. \A o \in Orders : Slip(o) = Service!Blank
    BY <2>3 DEF Init, Slip, NoOrder, Service!Blank
  <2>5. Slips = [o \in Orders |-> Service!Blank]
    BY <2>4 DEF Slips
  <2> QED
    BY <2>1, <2>2, <2>5 DEF Init, InitInventory, Service!Init, Slips
<1>2. Alone /\ Portions /\ [Next]_vars => Portions'
  BY PortionsNext
<1>3. Alone /\ Alone' /\ Kept /\ [Next]_vars => Kept'
  BY KeptNext
<1>4. Alone /\ Alone' /\ Kept /\ Portions /\ Portions' /\ [Next]_vars => [Service!Next]_(Service!service)
  BY ServiceStep
<1>5. Spec => []Alone
  BY AlwaysAlone
<1> QED
  BY <1>1, <1>2, <1>3, <1>4, <1>5, PTL DEF Spec, ServiceKept, Service!Spec
=============================================================================
