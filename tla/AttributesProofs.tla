-------------------------- MODULE AttributesProofs --------------------------
(***************************************************************************)
(* The index of an attribute table is accepted exactly when every entity   *)
(* has one row, and a projection then adds up the tables, for domains and  *)
(* tables of any size.                                                     *)
(***************************************************************************)
EXTENDS Attributes, FiniteSetTheorems, WellFoundedInduction, TLAPS

Rows == Seq([entity : Int, value : Int])

\* The variables keep their types.
TypeInv ==
  /\ count \in Nat
  /\ tables \in Seq([field : BOOLEAN, rows : Rows])

LEMMA TypesHold == Spec => []TypeInv
<1>1. Init => TypeInv
  BY AttributesAssumption DEF Init, TypeInv
<1>2. ASSUME TypeInv, [Next]_vars
      PROVE  TypeInv'
  <2> DEFINE Row == [entity : Int, value : Int]
             Table == [field : BOOLEAN, rows : Rows]
  <2>1. CASE OpenTable
    <3>1. PICK field \in BOOLEAN : tables' = Append(tables, [field |-> field, rows |-> <<>>])
      BY <2>1 DEF OpenTable
    <3>2. [field |-> field, rows |-> <<>>] \in Table
      BY DEF Rows
    <3> HIDE DEF Table
    <3>3. tables' \in Seq(Table)
      BY <1>2, <3>1, <3>2 DEF TypeInv, Table
    <3> QED
      BY <1>2, <2>1, <3>3 DEF TypeInv, OpenTable, Table
  <2>2. CASE ReadRow
    <3> DEFINE last == Len(tables)
    <3>1. PICK row \in [entity : -1 .. MaxCount, value : Values] :
            tables' = [tables EXCEPT ![last].rows = Append(@, row)]
      BY <2>2 DEF ReadRow
    <3>2. row \in Row
      BY <3>1, AttributesAssumption
    <3>3. tables \in Seq(Table) /\ tables # <<>>
      BY <1>2, <2>2 DEF TypeInv, ReadRow
    <3> HIDE DEF Row, Table
    <3>4. last \in 1 .. Len(tables) /\ tables[last] \in Table
      BY <3>3
    <3>5. [tables[last] EXCEPT !.rows = Append(@, row)] \in Table
      <4>1. tables[last].rows \in Seq(Row)
        BY <3>4 DEF Table, Rows, Row
      <4>2. Append(tables[last].rows, row) \in Seq(Row)
        BY <3>2, <4>1
      <4> QED
        BY <3>4, <4>2 DEF Table, Rows, Row
    <3>6. tables' = [tables EXCEPT ![last] = [tables[last] EXCEPT !.rows = Append(@, row)]]
      BY <3>1
    <3>7. tables' \in Seq(Table)
      BY <3>3, <3>4, <3>5, <3>6
    <3> QED
      BY <1>2, <2>2, <3>7 DEF TypeInv, ReadRow, Table
  <2>3. CASE UNCHANGED vars
    BY <1>2, <2>3 DEF TypeInv, vars
  <2> QED
    BY <1>2, <2>1, <2>2, <2>3 DEF Next
<1> QED
  BY <1>1, <1>2, PTL DEF Spec

-----------------------------------------------------------------------------
\* 0 .. n - 1 has n elements.
LEMMA IntervalSize ==
  ASSUME NEW n \in Nat
  PROVE  IsFiniteSet(0 .. n - 1) /\ Cardinality(0 .. n - 1) = n
<1> DEFINE b == n - 1
<1>1. 0 \in Int /\ b \in Int
  OBVIOUS
<1>2. IsFiniteSet(0 .. b) /\ Cardinality(0 .. b) = IF 0 > b THEN 0 ELSE b - 0 + 1
  <2> HIDE DEF b
  <2> QED
    BY <1>1, FS_Interval
<1> QED
  BY <1>2

\* An index of n rows in which every one of n entities has a row has no others.
LEMMA NoOtherEntities ==
  ASSUME NEW n \in Nat, NEW index \in [1 .. n -> Int], 0 .. n - 1 \subseteq Distinct(index)
  PROVE  Distinct(index) = 0 .. n - 1
<1>1. index \in Surjection(1 .. n, Distinct(index))
  BY DEF Surjection, Distinct
<1>2. IsFiniteSet(1 .. n) /\ Cardinality(1 .. n) = n
  <2>1. IsFiniteSet(1 .. n) /\ Cardinality(1 .. n) = IF 1 > n THEN 0 ELSE n - 1 + 1
    BY FS_Interval
  <2> QED
    BY <2>1
<1>3. IsFiniteSet(Distinct(index)) /\ Cardinality(Distinct(index)) <= n
  BY <1>1, <1>2, FS_Surjection
<1>4. /\ Cardinality(0 .. n - 1) = n /\ Cardinality(Distinct(index)) \in Nat
      /\ Cardinality(0 .. n - 1) <= Cardinality(Distinct(index))
  BY <1>3, IntervalSize, FS_Subset, FS_CardinalityType
<1>5. Cardinality(0 .. n - 1) = Cardinality(Distinct(index))
  BY <1>3, <1>4
<1> QED
  BY <1>3, <1>5, FS_Subset

\* check_attribute_index is exact for one index.
LEMMA CheckIsExact ==
  ASSUME NEW n \in Nat, NEW index, NEW rows \in Nat, index \in [1 .. rows -> Int],
         Len(index) = rows
  PROVE  CheckAttributeIndex(n, index) <=> OneRowEach(n, index)
<1> DEFINE S == Distinct(index)
<1>1. DOMAIN index = 1 .. rows /\ S \subseteq Int
  BY DEF Distinct
<1>2. (\A e \in 0 .. n - 1 : \E i \in DOMAIN index : index[i] = e) <=> 0 .. n - 1 \subseteq S
  BY DEF Distinct
<1>3. ASSUME CheckAttributeIndex(n, index)
      PROVE  OneRowEach(n, index)
  <2>1. CASE n = 0
    BY <1>3, <2>1 DEF CheckAttributeIndex, OneRowEach
  <2>2. CASE n # 0
    <3>1. IsFirst(0, S) /\ IsLast(n - 1, S) /\ Cardinality(S) = n /\ rows = n
      BY <1>3, <2>2 DEF CheckAttributeIndex
    <3>2. S \subseteq 0 .. n - 1
      BY <1>1, <3>1 DEF IsFirst, IsLast
    <3>3. S = 0 .. n - 1
      <4> HIDE DEF S
      <4> QED
        BY <3>1, <3>2, IntervalSize, FS_Subset
    <3> QED
      BY <1>2, <3>1, <3>3 DEF OneRowEach
  <2> QED
    BY <2>1, <2>2
<1>4. ASSUME OneRowEach(n, index)
      PROVE  CheckAttributeIndex(n, index)
  <2>1. rows = n /\ 0 .. n - 1 \subseteq S
    BY <1>2, <1>4 DEF OneRowEach
  <2>2. S = 0 .. n - 1
    BY <2>1, NoOtherEntities
  <2>3. \A i \in DOMAIN index : index[i] >= 0
    BY <2>2 DEF Distinct
  <2>4. CASE n = 0
    BY <2>1, <2>3, <2>4 DEF CheckAttributeIndex
  <2>5. CASE n # 0
    <3>1. IsFirst(0, S) /\ IsLast(n - 1, S)
      BY <2>2, <2>5 DEF IsFirst, IsLast
    <3>2. Cardinality(S) = n
      BY <2>2, IntervalSize
    <3> QED
      BY <2>1, <2>3, <2>5, <3>1, <3>2 DEF CheckAttributeIndex
  <2> QED
    BY <2>4, <2>5
<1> QED
  BY <1>3, <1>4

\* So is that of every table.
LEMMA TablesAreExact ==
  ASSUME TypeInv, NEW k \in DOMAIN tables
  PROVE  CheckAttributeIndex(count, EntityIndex(tables[k]))
           <=> OneRowEach(count, EntityIndex(tables[k]))
<1> DEFINE Row == [entity : Int, value : Int]
           Table == [field : BOOLEAN, rows : Rows]
           rows == tables[k].rows
           index == EntityIndex(tables[k])
<1>1. rows \in Seq(Row)
  <2>1. tables \in Seq(Table)
    BY DEF TypeInv
  <2>2. tables[k] \in Table
    <3> HIDE DEF Table
    <3> QED
      BY <2>1
  <2> QED
    BY <2>2 DEF Rows
<1>2. Len(rows) \in Nat /\ index \in [1 .. Len(rows) -> Int]
  <2>1. Len(rows) \in Nat /\ DOMAIN rows = 1 .. Len(rows) /\ \A i \in 1 .. Len(rows) : rows[i] \in Row
    <3> HIDE DEF Row
    <3> QED
      BY <1>1
  <2>2. \A i \in 1 .. Len(rows) : rows[i].entity \in Int
    BY <2>1
  <2> QED
    BY <2>1, <2>2 DEF EntityIndex
<1>3. Len(index) = Len(rows)
  <2> HIDE DEF index
  <2>1. index \in Seq(Int)
    BY <1>2
  <2> QED
    BY <1>2, <2>1
<1> HIDE DEF index, rows
<1>4. count \in Nat
  BY DEF TypeInv
<1>5. CheckAttributeIndex(count, index) <=> OneRowEach(count, index)
  BY <1>2, <1>3, <1>4, CheckIsExact
<1> QED
  BY <1>5 DEF index

\* check_attribute_index accepts a table exactly when every entity has one row
\* in it: for any number of entities, tables and rows, in any order.
THEOREM DenseIsExact == Spec => []DenseExact
<1>1. TypeInv => DenseExact
  BY TablesAreExact DEF DenseExact
<1> QED
  BY <1>1, TypesHold, PTL

-----------------------------------------------------------------------------
(***************************************************************************)
(* Induction, from a smallest counterexample.                              *)
(***************************************************************************)

\* A set of numbers that has 0 and the successor of each has them all.
LEMMA NumbersFollow ==
  ASSUME NEW P, 0 \in P, \A n \in Nat : n \in P => n + 1 \in P
  PROVE  Nat \subseteq P
<1> DEFINE R == {ss \in Nat \X Nat : ss[1] < ss[2]}
           Missing == Nat \ P
<1>1. IsWellFoundedOn(R, Nat)
  BY NatLessThanWellFounded DEF OpToRel
<1>2. CASE Missing # {}
  <2>1. PICK n \in Missing : \A m \in Missing : ~(<<m, n>> \in R)
    <3> HIDE DEF R
    <3> QED
      BY <1>1, <1>2, WFMin
  <2>2. n \in Nat \ {0} /\ n - 1 \in Nat /\ n - 1 < n /\ (n - 1) + 1 = n
    OBVIOUS
  <2>3. n - 1 \in P
    BY <2>1, <2>2
  <2> QED
    BY <2>2, <2>3
<1> QED
  BY <1>2

\* A family that has {} and every set all of whose elements can be taken away has
\* all the subsets of a finite set.
LEMMA SubsetsFollow ==
  ASSUME NEW D, IsFiniteSet(D), NEW P, {} \in P,
         \A S \in SUBSET D : S # {} /\ (\A x \in S : S \ {x} \in P) => S \in P
  PROVE  SUBSET D \subseteq P
<1> DEFINE Done == {n \in Nat : \A S \in SUBSET D : Cardinality(S) = n => S \in P}
<1>1. \A S \in SUBSET D : IsFiniteSet(S) /\ Cardinality(S) \in Nat
  BY FS_Subset, FS_CardinalityType
<1>2. 0 \in Done
  BY <1>1, FS_EmptySet
<1>3. ASSUME NEW n \in Nat, n \in Done
      PROVE  n + 1 \in Done
  <2> SUFFICES ASSUME NEW S \in SUBSET D, Cardinality(S) = n + 1
               PROVE  S \in P
    OBVIOUS
  <2>1. S # {}
    BY <1>1, FS_EmptySet
  <2>2. ASSUME NEW x \in S
        PROVE  S \ {x} \in P
    <3>1. Cardinality(S \ {x}) = n
      BY <1>1, FS_RemoveElement
    <3> QED
      BY <1>3, <3>1
  <2> QED
    BY <2>1, <2>2
<1>4. Nat \subseteq Done
  <2> HIDE DEF Done
  <2> QED
    BY <1>2, <1>3, NumbersFollow
<1> QED
  BY <1>1, <1>4

-----------------------------------------------------------------------------
(***************************************************************************)
(* Sums over sets.                                                         *)
(***************************************************************************)
Chosen(S) == CHOOSE x \in S : TRUE

\* What a fold over S adds up.
FromChosen(sum, v, S) == IF S = {} THEN 0 ELSE v[Chosen(S)] + sum[S \ {Chosen(S)}]

IsSum(sum, v, D) == sum = [S \in SUBSET D |-> FromChosen(sum, v, S)]

\* There is such a function: of the sets with up to n elements for every n.
LEMMA SumExists ==
  ASSUME NEW D, IsFiniteSet(D), NEW v
  PROVE  \E sum : IsSum(sum, v, D)
<1> DEFINE Small(n) == {S \in SUBSET D : Cardinality(S) <= n}
           Done == {n \in Nat : \E sum : sum = [S \in Small(n) |-> FromChosen(sum, v, S)]}
<1>1. \A S \in SUBSET D : IsFiniteSet(S) /\ Cardinality(S) \in Nat
  BY FS_Subset, FS_CardinalityType
<1>2. 0 \in Done
  <2>1. Small(0) = {{}}
    <3>1. \A S \in SUBSET D : Cardinality(S) <= 0 <=> S = {}
      BY <1>1, FS_EmptySet
    <3> QED
      BY <3>1
  <2> DEFINE sum == [S \in Small(0) |-> 0]
  <2>2. sum = [S \in Small(0) |-> FromChosen(sum, v, S)]
    BY <2>1 DEF FromChosen
  <2> QED
    BY <2>2
<1>3. ASSUME NEW n \in Nat, n \in Done
      PROVE  n + 1 \in Done
  <2>1. PICK f : f = [S \in Small(n) |-> FromChosen(f, v, S)]
    BY <1>3
  <2> DEFINE sum == [S \in Small(n + 1) |-> FromChosen(f, v, S)]
  <2>2. ASSUME NEW S \in Small(n + 1)
        PROVE  FromChosen(f, v, S) = FromChosen(sum, v, S)
    <3>1. CASE S = {}
      BY <3>1 DEF FromChosen
    <3>2. CASE S # {}
      <4> DEFINE T == S \ {Chosen(S)}
      <4>1. Chosen(S) \in S
        BY <3>2 DEF Chosen
      <4>2. T \in Small(n) /\ T \in Small(n + 1)
        <5>1. Cardinality(T) = Cardinality(S) - 1
          BY <1>1, <4>1, FS_RemoveElement
        <5>2. Cardinality(S) \in Nat /\ Cardinality(S) <= n + 1
          BY <1>1
        <5>3. Cardinality(T) <= n /\ Cardinality(T) <= n + 1
          BY <5>1, <5>2
        <5> QED
          BY <5>3
      <4>3. f[T] = FromChosen(f, v, T) /\ sum[T] = FromChosen(f, v, T)
        <5> HIDE DEF Small, T
        <5> QED
          BY <2>1, <4>2
      <4> QED
        BY <3>2, <4>3 DEF FromChosen
    <3> QED
      BY <3>1, <3>2
  <2>3. sum = [S \in Small(n + 1) |-> FromChosen(sum, v, S)]
    <3> HIDE DEF Small
    <3> QED
      BY <2>2
  <2>4. \E g : g = [S \in Small(n + 1) |-> FromChosen(g, v, S)]
    <3> HIDE DEF sum, Small
    <3> QED
      BY <2>3
  <2> QED
    BY <2>4
<1>4. Cardinality(D) \in Done
  <2>1. Nat \subseteq Done
    <3> HIDE DEF Done
    <3> QED
      BY <1>2, <1>3, NumbersFollow
  <2> QED
    BY <1>1, <2>1
<1>5. Small(Cardinality(D)) = SUBSET D
  BY FS_Subset
<1> QED
  BY <1>4, <1>5 DEF IsSum

\* Two of them agree.
LEMMA SumsAgree ==
  ASSUME NEW D, IsFiniteSet(D), NEW v, NEW sum, IsSum(sum, v, D),
         NEW E \in SUBSET D, NEW part, IsSum(part, v, E)
  PROVE  \A S \in SUBSET E : part[S] = sum[S]
<1> DEFINE P == {S \in SUBSET E : part[S] = sum[S]}
<1>1. \A S \in SUBSET E : part[S] = FromChosen(part, v, S) /\ sum[S] = FromChosen(sum, v, S)
  BY DEF IsSum
<1>2. {} \in P
  BY <1>1 DEF FromChosen
<1>3. ASSUME NEW S \in SUBSET E, S # {}, \A x \in S : S \ {x} \in P
      PROVE  S \in P
  <2>1. Chosen(S) \in S
    BY <1>3 DEF Chosen
  <2>2. part[S \ {Chosen(S)}] = sum[S \ {Chosen(S)}]
    BY <1>3, <2>1
  <2> QED
    BY <1>1, <1>3, <2>2 DEF FromChosen
<1>4. IsFiniteSet(E)
  BY FS_Subset
<1>5. SUBSET E \subseteq P
  <2> HIDE DEF P
  <2> QED
    BY <1>2, <1>3, <1>4, SubsetsFollow
<1> QED
  BY <1>5

\* They are numbers.
LEMMA SumIsNumber ==
  ASSUME NEW D, IsFiniteSet(D), NEW v \in [D -> Int], NEW sum, IsSum(sum, v, D)
  PROVE  \A S \in SUBSET D : sum[S] \in Int
<1> DEFINE P == {S \in SUBSET D : sum[S] \in Int}
<1>1. \A S \in SUBSET D : sum[S] = FromChosen(sum, v, S)
  BY DEF IsSum
<1>2. {} \in P
  BY <1>1 DEF FromChosen
<1>3. ASSUME NEW S \in SUBSET D, S # {}, \A x \in S : S \ {x} \in P
      PROVE  S \in P
  <2>1. Chosen(S) \in S
    BY <1>3 DEF Chosen
  <2>2. v[Chosen(S)] \in Int /\ sum[S \ {Chosen(S)}] \in Int
    BY <1>3, <2>1
  <2> QED
    BY <1>1, <1>3, <2>2 DEF FromChosen
<1>4. SUBSET D \subseteq P
  <2> HIDE DEF P
  <2> QED
    BY <1>2, <1>3, SubsetsFollow
<1> QED
  BY <1>4

\* Any element can be taken first.
LEMMA SumTakesAny ==
  ASSUME NEW D, IsFiniteSet(D), NEW v \in [D -> Int], NEW sum, IsSum(sum, v, D),
         NEW whole \in SUBSET D, NEW z \in whole
  PROVE  sum[whole] = v[z] + sum[whole \ {z}]
<1> DEFINE P == {S \in SUBSET D : \A x \in S : sum[S] = v[x] + sum[S \ {x}]}
<1>1. \A S \in SUBSET D : sum[S] = FromChosen(sum, v, S) /\ sum[S] \in Int
  BY SumIsNumber DEF IsSum
<1>2. {} \in P
  OBVIOUS
<1>3. ASSUME NEW S \in SUBSET D, S # {}, \A x \in S : S \ {x} \in P
      PROVE  S \in P
  <2> DEFINE y == Chosen(S)
  <2>1. y \in S
    BY <1>3 DEF Chosen
  <2>2. sum[S] = v[y] + sum[S \ {y}]
    BY <1>1, <1>3 DEF FromChosen
  <2> HIDE DEF y
  <2>3. ASSUME NEW x \in S, x # y
        PROVE  sum[S] = v[x] + sum[S \ {x}]
    <3> DEFINE rest == sum[(S \ {y}) \ {x}]
    <3>1. sum[S \ {y}] = v[x] + rest
      BY <1>3, <2>1, <2>3
    <3>2. sum[S \ {x}] = v[y] + rest
      <4>1. (S \ {y}) \ {x} = (S \ {x}) \ {y} /\ y \in S \ {x}
        BY <2>1, <2>3
      <4> QED
        BY <1>3, <4>1
    <3>3. rest \in Int /\ v[x] \in Int /\ v[y] \in Int
      BY <1>1, <2>1
    <3> HIDE DEF rest
    <3> QED
      BY <2>2, <3>1, <3>2, <3>3
  <2> QED
    BY <2>2, <2>3
<1>4. SUBSET D \subseteq P
  <2> HIDE DEF P
  <2> QED
    BY <1>2, <1>3, SubsetsFollow
<1> QED
  BY <1>4

-----------------------------------------------------------------------------
(***************************************************************************)
(* The rows of one table.                                                  *)
(***************************************************************************)
AfterRow(after, sums, rows, i) ==
  IF i = 0 THEN sums ELSE [after[i - 1] EXCEPT ![rows[i].entity] = @ + rows[i].value]

AreAdded(after, sums, rows, n) == after = [i \in 0 .. n |-> AfterRow(after, sums, rows, i)]

\* The sums after each row exist, for any number of rows.
LEMMA RowsExist ==
  ASSUME NEW sums, NEW rows, NEW n \in Nat
  PROVE  \E after : AreAdded(after, sums, rows, n)
<1> DEFINE Done == {m \in Nat : \E after : after = [i \in 0 .. m |-> AfterRow(after, sums, rows, i)]}
<1>1. 0 \in Done
  <2> DEFINE after == [i \in 0 .. 0 |-> sums]
  <2>1. after = [i \in 0 .. 0 |-> AfterRow(after, sums, rows, i)]
    BY DEF AfterRow
  <2>2. \E a : a = [i \in 0 .. 0 |-> AfterRow(a, sums, rows, i)]
    BY <2>1
  <2> QED
    BY <2>2
<1>2. ASSUME NEW m \in Nat, m \in Done
      PROVE  m + 1 \in Done
  <2>1. PICK f : f = [i \in 0 .. m |-> AfterRow(f, sums, rows, i)]
    BY <1>2
  <2> DEFINE after == [i \in 0 .. m + 1 |-> AfterRow(f, sums, rows, i)]
  <2>2. ASSUME NEW i \in 0 .. m + 1
        PROVE  AfterRow(f, sums, rows, i) = AfterRow(after, sums, rows, i)
    <3>1. CASE i = 0
      BY <3>1 DEF AfterRow
    <3>2. CASE i # 0
      <4>1. i - 1 \in 0 .. m /\ i - 1 \in 0 .. m + 1
        BY <3>2
      <4>2. f[i - 1] = AfterRow(f, sums, rows, i - 1)
        BY <2>1, <4>1
      <4>3. after[i - 1] = f[i - 1]
        BY <4>1, <4>2
      <4> QED
        BY <4>3 DEF AfterRow
    <3> QED
      BY <3>1, <3>2
  <2>3. after = [i \in 0 .. m + 1 |-> AfterRow(after, sums, rows, i)]
    BY <2>2
  <2>4. \E a : a = [i \in 0 .. m + 1 |-> AfterRow(a, sums, rows, i)]
    <3> HIDE DEF after
    <3> QED
      BY <2>3
  <2> QED
    BY <2>4
<1>3. Nat \subseteq Done
  <2> HIDE DEF Done
  <2> QED
    BY <1>1, <1>2, NumbersFollow
<1> QED
  BY <1>3 DEF AreAdded

\* A row of a dense table.
LEMMA RowOfDense ==
  ASSUME NEW n \in Nat, NEW table, table.rows \in Rows, OneRowEach(n, EntityIndex(table))
  PROVE  /\ DOMAIN table.rows = 1 .. n /\ Len(table.rows) = n
         /\ \A i \in 1 .. n :
              /\ table.rows[i].entity \in 0 .. n - 1 /\ table.rows[i].value \in Int
              /\ ValueIn(table, table.rows[i].entity) = table.rows[i].value
              /\ \A j \in 1 .. n : table.rows[i].entity = table.rows[j].entity => i = j
         /\ \A e \in 0 .. n - 1 : \E i \in 1 .. n : table.rows[i].entity = e
<1> DEFINE Row == [entity : Int, value : Int]
           rows == table.rows
           index == EntityIndex(table)
<1>1. Len(rows) \in Nat /\ DOMAIN rows = 1 .. Len(rows) /\ \A i \in 1 .. Len(rows) : rows[i] \in Row
  <2>1. rows \in Seq(Row)
    BY DEF Rows
  <2> HIDE DEF Row, rows
  <2> QED
    BY <2>1
<1>2. index \in [1 .. Len(rows) -> Int] /\ \A i \in 1 .. Len(rows) : index[i] = rows[i].entity
  <2>1. \A i \in 1 .. Len(rows) : rows[i].entity \in Int
    BY <1>1
  <2> QED
    BY <1>1, <2>1 DEF EntityIndex
<1>3. Len(rows) = n
  <2> HIDE DEF index, rows
  <2>1. index \in Seq(Int) /\ Len(index) = Len(rows)
    BY <1>1, <1>2
  <2> QED
    BY <2>1 DEF OneRowEach, index
<1> HIDE DEF index, rows
<1>4. \A e \in 0 .. n - 1 : \E i \in 1 .. n : index[i] = e
  BY <1>2, <1>3 DEF OneRowEach, index
<1>5. Distinct(index) = 0 .. n - 1
  <2>1. 0 .. n - 1 \subseteq Distinct(index)
    BY <1>2, <1>3, <1>4 DEF Distinct
  <2> QED
    BY <1>2, <1>3, <2>1, NoOtherEntities
<1>6. \A i, j \in 1 .. n : index[i] = index[j] => i = j
  <2>1. index \in Surjection(1 .. n, 0 .. n - 1)
    BY <1>2, <1>3, <1>4, <1>5 DEF Surjection, Distinct
  <2>2. IsFiniteSet(1 .. n) /\ Cardinality(1 .. n) = n
    <3>1. IsFiniteSet(1 .. n) /\ Cardinality(1 .. n) = IF 1 > n THEN 0 ELSE n - 1 + 1
      BY FS_Interval
    <3> QED
      BY <3>1
  <2>3. index \in Injection(1 .. n, 0 .. n - 1)
    BY <2>1, <2>2, IntervalSize, FS_Surjection
  <2> QED
    BY <2>3 DEF Injection, IsInjective
<1>7. ASSUME NEW i \in 1 .. n
      PROVE  ValueIn(table, rows[i].entity) = rows[i].value
  <2> DEFINE j == CHOOSE k \in DOMAIN rows : rows[k].entity = rows[i].entity
  <2>1. j \in DOMAIN rows /\ rows[j].entity = rows[i].entity
    BY <1>1, <1>3
  <2>2. j = i
    <3> HIDE DEF j
    <3> QED
      BY <1>1, <1>2, <1>3, <1>6, <2>1
  <2>3. ValueIn(table, rows[i].entity) = rows[j].value
    BY DEF ValueIn, rows
  <2> QED
    BY <2>2, <2>3
<1>8. \A i \in 1 .. n : rows[i].entity \in 0 .. n - 1 /\ rows[i].value \in Int
  BY <1>1, <1>2, <1>3, <1>5 DEF Distinct
<1> QED
  BY <1>1, <1>2, <1>3, <1>4, <1>6, <1>7, <1>8 DEF rows

\* A dense table adds to each entity the value it gives to it.
LEMMA DenseAdds ==
  ASSUME NEW n \in Nat, NEW table, table.rows \in Rows, OneRowEach(n, EntityIndex(table)),
         NEW sums \in [0 .. n - 1 -> Int]
  PROVE  /\ AddRows(sums, table.rows) \in [0 .. n - 1 -> Int]
         /\ \A e \in 0 .. n - 1 :
              /\ ValueIn(table, e) \in Int
              /\ AddRows(sums, table.rows)[e] = sums[e] + ValueIn(table, e)
<1> DEFINE rows == table.rows
           after == CHOOSE a : AreAdded(a, sums, rows, Len(rows))
           Added(i, e) == IF \E j \in 1 .. i : rows[j].entity = e
                          THEN sums[e] + ValueIn(table, e) ELSE sums[e]
           Done == {i \in Nat : i <= n => /\ after[i] \in [0 .. n - 1 -> Int]
                                          /\ \A e \in 0 .. n - 1 : after[i][e] = Added(i, e)}
<1>1. AddRows(sums, rows) = after[Len(rows)]
  BY DEF AddRows, AreAdded, AfterRow
<1>2. Len(rows) = n
  BY RowOfDense
<1>3. AreAdded(after, sums, rows, n)
  BY <1>2, RowsExist
<1> HIDE DEF after, rows
<1>4. after[0] = sums /\ \A i \in 1 .. n : after[i] = AfterRow(after, sums, rows, i)
  <2>1. \A i \in 0 .. n : after[i] = AfterRow(after, sums, rows, i)
    BY <1>3 DEF AreAdded
  <2>2. AfterRow(after, sums, rows, 0) = sums
    BY DEF AfterRow
  <2> QED
    BY <2>1, <2>2
<1>5. \A i \in 1 .. n :
        /\ rows[i].entity \in 0 .. n - 1 /\ rows[i].value \in Int
        /\ ValueIn(table, rows[i].entity) = rows[i].value
        /\ \A j \in 1 .. n : rows[i].entity = rows[j].entity => i = j
  BY RowOfDense DEF rows
<1>6. 0 \in Done
  BY <1>4
<1>7. ASSUME NEW i \in Nat, i \in Done
      PROVE  i + 1 \in Done
  <2> SUFFICES ASSUME i + 1 <= n
               PROVE  /\ after[i + 1] \in [0 .. n - 1 -> Int]
                      /\ \A e \in 0 .. n - 1 : after[i + 1][e] = Added(i + 1, e)
    OBVIOUS
  <2> DEFINE x == rows[i + 1].entity
             value == rows[i + 1].value
  <2>1. i + 1 \in 1 .. n /\ (i + 1) - 1 = i
    OBVIOUS
  <2>2. /\ x \in 0 .. n - 1 /\ value \in Int /\ ValueIn(table, x) = value
        /\ \A j \in 1 .. i : rows[j].entity # x
    BY <1>5, <2>1
  <2>3. after[i] \in [0 .. n - 1 -> Int] /\ \A e \in 0 .. n - 1 : after[i][e] = Added(i, e)
    BY <1>7
  <2>4. after[i + 1] = [after[i] EXCEPT ![x] = @ + value]
    <3>1. after[i + 1] = AfterRow(after, sums, rows, i + 1)
      BY <1>4, <2>1
    <3>2. i + 1 # 0
      OBVIOUS
    <3> QED
      BY <2>1, <3>1, <3>2 DEF AfterRow
  <2>5. after[i + 1] \in [0 .. n - 1 -> Int]
    <3> HIDE DEF x, value, Added
    <3> QED
      BY <2>2, <2>3, <2>4
  <2>6. after[i + 1][x] = Added(i + 1, x)
    <3>1. Added(i, x) = sums[x]
      BY <2>2
    <3>2. Added(i + 1, x) = sums[x] + value
      BY <2>1, <2>2
    <3>3. after[i + 1][x] = after[i][x] + value
      <4> HIDE DEF x, value, Added
      <4> QED
        BY <2>2, <2>3, <2>4
    <3> QED
      BY <2>2, <2>3, <3>1, <3>2, <3>3
  <2>7. ASSUME NEW e \in 0 .. n - 1, e # x
        PROVE  after[i + 1][e] = Added(i + 1, e)
    <3>1. (\E j \in 1 .. i + 1 : rows[j].entity = e) <=> \E j \in 1 .. i : rows[j].entity = e
      BY <2>7
    <3>2. Added(i + 1, e) = Added(i, e)
      BY <3>1
    <3>3. after[i + 1][e] = after[i][e]
      <4> HIDE DEF x, value, Added
      <4> QED
        BY <2>2, <2>3, <2>4, <2>7
    <3> QED
      BY <2>3, <3>2, <3>3
  <2> QED
    BY <2>5, <2>6, <2>7
<1>8. n \in Done
  <2>1. Nat \subseteq Done
    <3> HIDE DEF Done
    <3> QED
      BY <1>6, <1>7, NumbersFollow
  <2> QED
    BY <2>1
<1>9. ASSUME NEW e \in 0 .. n - 1
      PROVE  Added(n, e) = sums[e] + ValueIn(table, e) /\ ValueIn(table, e) \in Int
  <2>1. \E j \in 1 .. n : rows[j].entity = e
    BY RowOfDense DEF rows
  <2> QED
    BY <1>5, <2>1
<1> QED
  BY <1>1, <1>2, <1>8, <1>9 DEF rows

-----------------------------------------------------------------------------
(***************************************************************************)
(* The tables.                                                             *)
(***************************************************************************)
AfterTable(after, k) ==
  IF k = 0 THEN [e \in 0 .. count - 1 |-> 0]
  ELSE IF tables[k].field THEN AddRows(after[k - 1], tables[k].rows) ELSE after[k - 1]

AreSummed(after, n) == after = [k \in 0 .. n |-> AfterTable(after, k)]

\* The sums after each table exist, for any number of tables.
LEMMA TablesExist ==
  ASSUME NEW n \in Nat
  PROVE  \E after : AreSummed(after, n)
<1> DEFINE Done == {m \in Nat : \E after : AreSummed(after, m)}
<1>1. 0 \in Done
  <2> DEFINE after == [k \in 0 .. 0 |-> [e \in 0 .. count - 1 |-> 0]]
  <2>1. AreSummed(after, 0)
    BY DEF AreSummed, AfterTable
  <2> HIDE DEF after
  <2> QED
    BY <2>1
<1>2. ASSUME NEW m \in Nat, m \in Done
      PROVE  m + 1 \in Done
  <2>1. PICK f : AreSummed(f, m)
    BY <1>2
  <2> DEFINE after == [k \in 0 .. m + 1 |-> AfterTable(f, k)]
  <2>2. ASSUME NEW k \in 0 .. m + 1
        PROVE  AfterTable(f, k) = AfterTable(after, k)
    <3>1. CASE k = 0
      BY <3>1 DEF AfterTable
    <3>2. CASE k # 0
      <4>1. k - 1 \in 0 .. m /\ k - 1 \in 0 .. m + 1
        BY <3>2
      <4>2. f[k - 1] = AfterTable(f, k - 1)
        BY <2>1, <4>1 DEF AreSummed
      <4>3. after[k - 1] = f[k - 1]
        BY <4>1, <4>2
      <4> QED
        BY <4>3 DEF AfterTable
    <3> QED
      BY <3>1, <3>2
  <2>3. AreSummed(after, m + 1)
    BY <2>2 DEF AreSummed
  <2> HIDE DEF after
  <2> QED
    BY <2>3
<1>3. Nat \subseteq Done
  <2> HIDE DEF Done
  <2> QED
    BY <1>1, <1>2, NumbersFollow
<1> QED
  BY <1>3

\* A projection that succeeds has read dense tables.
LEMMA TablesAreDense ==
  ASSUME TypeInv, ProjectError = "none", NEW k \in DOMAIN tables
  PROVE  /\ count \in Nat /\ tables[k].rows \in Rows /\ tables[k].field \in BOOLEAN
         /\ OneRowEach(count, EntityIndex(tables[k]))
<1>1. count \in Nat
  BY DEF TypeInv
<1>2. tables[k].rows \in Rows /\ tables[k].field \in BOOLEAN
  <2> DEFINE Table == [field : BOOLEAN, rows : Rows]
  <2>1. tables \in Seq(Table)
    BY DEF TypeInv
  <2>2. tables[k] \in Table
    <3> HIDE DEF Table
    <3> QED
      BY <2>1
  <2> QED
    BY <2>2
<1>3. CheckAttributeIndex(count, EntityIndex(tables[k]))
  BY DEF ProjectError
<1> QED
  BY <1>1, <1>2, <1>3, TablesAreExact

\* What tables give to an entity, and the fold that SumsExact is stated with.
Given(D, e) == [k \in D |-> ValueIn(tables[k], e)]
ValuesIn(S, e) == MapThenSumSet(LAMBDA k : ValueIn(tables[k], e), S)

\* The fold is such a sum.
LEMMA FoldAdds ==
  ASSUME NEW D, IsFiniteSet(D), NEW e, NEW sum, IsSum(sum, Given(D, e), D),
         NEW S \in SUBSET D
  PROVE  ValuesIn(S, e) = sum[S]
<1> DEFINE v == Given(D, e)
           From(g, T) == IF T = {} THEN 0
                         ELSE ValueIn(tables[Chosen(T)], e) + g[T \ {Chosen(T)}]
           Is(g) == g = [T \in SUBSET S |-> From(g, T)]
           iter == CHOOSE g : Is(g)
<1>1. ValuesIn(S, e) = iter[S]
  BY DEF ValuesIn, MapThenSumSet, MapThenFoldSet, Chosen
<1>2. ASSUME NEW g, NEW T \in SUBSET S
      PROVE  From(g, T) = FromChosen(g, v, T)
  <2>1. CASE T = {}
    BY <2>1 DEF FromChosen
  <2>2. CASE T # {}
    <3>1. Chosen(T) \in D
      BY <2>2 DEF Chosen
    <3>2. v[Chosen(T)] = ValueIn(tables[Chosen(T)], e)
      BY <3>1 DEF Given
    <3> QED
      BY <2>2, <3>2 DEF FromChosen
  <2> QED
    BY <2>1, <2>2
<1> HIDE DEF v
<1>3. ASSUME NEW g
      PROVE  Is(g) <=> IsSum(g, v, S)
  BY <1>2 DEF IsSum
<1>4. \E g : Is(g)
  <2> HIDE DEF Is
  <2>1. IsFiniteSet(S)
    BY FS_Subset
  <2>2. \E g : IsSum(g, v, S)
    BY <2>1, SumExists
  <2> QED
    BY <1>3, <2>2
<1>5. IsSum(iter, v, S)
  <2> HIDE DEF Is
  <2> QED
    BY <1>3, <1>4
<1> HIDE DEF iter
<1> QED
  BY <1>1, <1>5, SumsAgree DEF v

\* What is summed of an entity after every table.
LEMMA SumsOfTables ==
  ASSUME TypeInv, ProjectError = "none", NEW e \in 0 .. count - 1
  PROVE  Sums[e] = ValuesIn({k \in DOMAIN tables : tables[k].field}, e)
<1> DEFINE n == Len(tables)
           after == CHOOSE a : AreSummed(a, n)
           With(k) == {j \in 1 .. k : tables[j].field}
           v == Given(DOMAIN tables, e)
           sum == CHOOSE s : IsSum(s, v, DOMAIN tables)
           Done == {k \in Nat : k <= n => /\ after[k] \in [0 .. count - 1 -> Int]
                                          /\ after[k][e] = sum[With(k)]}
<1>1. Sums = after[n]
  BY DEF Sums, AreSummed, AfterTable
<1>2. n \in Nat /\ DOMAIN tables = 1 .. n /\ count \in Nat
  BY DEF TypeInv
<1> HIDE DEF n
<1>3. IsFiniteSet(DOMAIN tables)
  BY <1>2, FS_Interval
<1>4. AreSummed(after, n)
  BY <1>2, TablesExist
<1>5. IsSum(sum, v, DOMAIN tables)
  <2> HIDE DEF v
  <2> QED
    BY <1>3, SumExists
<1> HIDE DEF after, sum
<1>6. \A k \in 1 .. n : /\ tables[k].rows \in Rows /\ tables[k].field \in BOOLEAN
                        /\ OneRowEach(count, EntityIndex(tables[k]))
  BY <1>2, TablesAreDense
<1>7. ASSUME NEW k \in 1 .. n, NEW before \in [0 .. count - 1 -> Int]
      PROVE  /\ AddRows(before, tables[k].rows) \in [0 .. count - 1 -> Int]
             /\ ValueIn(tables[k], e) \in Int
             /\ AddRows(before, tables[k].rows)[e] = before[e] + ValueIn(tables[k], e)
  BY <1>2, <1>6, DenseAdds
<1>8. v \in [DOMAIN tables -> Int]
  <2>1. [x \in 0 .. count - 1 |-> 0] \in [0 .. count - 1 -> Int]
    OBVIOUS
  <2>2. \A k \in 1 .. n : ValueIn(tables[k], e) \in Int
    BY <1>7, <2>1
  <2> QED
    BY <1>2, <2>2 DEF Given
<1>9. \A k \in 0 .. n : after[k] = AfterTable(after, k)
  BY <1>4 DEF AreSummed
<1>10. \A S \in SUBSET DOMAIN tables : \A k \in S : sum[S] = v[k] + sum[S \ {k}]
  <2> DEFINE D == DOMAIN tables
  <2>1. IsFiniteSet(D) /\ IsSum(sum, v, D) /\ v \in [D -> Int]
    BY <1>3, <1>5, <1>8
  <2> HIDE DEF v, D, With, Done
  <2>2. ASSUME NEW S \in SUBSET D, NEW k \in S
        PROVE  sum[S] = v[k] + sum[S \ {k}]
    BY <2>1, SumTakesAny
  <2> QED
    BY <2>2 DEF D
<1>11. 0 \in Done
  <2>1. after[0] = AfterTable(after, 0)
    BY <1>2, <1>9
  <2>2. after[0] = [x \in 0 .. count - 1 |-> 0]
    BY <2>1 DEF AfterTable
  <2>3. With(0) = {} /\ sum[{}] = 0
    BY <1>5 DEF IsSum, FromChosen
  <2>4. after[0] \in [0 .. count - 1 -> Int] /\ after[0][e] = 0
    BY <2>2
  <2> HIDE DEF With
  <2> QED
    BY <2>3, <2>4
<1>12. ASSUME NEW k \in Nat, k \in Done
       PROVE  k + 1 \in Done
  <2> SUFFICES ASSUME k + 1 <= n
               PROVE  after[k + 1] \in [0 .. count - 1 -> Int] /\ after[k + 1][e] = sum[With(k + 1)]
    OBVIOUS
  <2>1. k + 1 \in 1 .. n /\ (k + 1) - 1 = k /\ k + 1 # 0 /\ k <= n
    BY <1>2
  <2>2. after[k] \in [0 .. count - 1 -> Int] /\ after[k][e] = sum[With(k)]
    BY <1>12, <2>1
  <2>3. after[k + 1] = AfterTable(after, k + 1)
    BY <1>9, <2>1
  <2>4. CASE tables[k + 1].field
    <3>1. after[k + 1] = AddRows(after[k], tables[k + 1].rows)
      BY <2>1, <2>3, <2>4 DEF AfterTable
    <3>2. /\ after[k + 1] \in [0 .. count - 1 -> Int]
          /\ after[k + 1][e] = after[k][e] + v[k + 1]
      BY <1>2, <1>7, <2>1, <2>2, <3>1 DEF Given
    <3>3. k + 1 \in With(k + 1) /\ With(k + 1) \ {k + 1} = With(k) /\ With(k + 1) \in SUBSET DOMAIN tables
      BY <1>2, <2>1, <2>4
    <3>4. sum[With(k + 1)] = v[k + 1] + sum[With(k)]
      <4> HIDE DEF v, With
      <4> QED
        BY <1>10, <3>3
    <3>5. v[k + 1] \in Int /\ after[k][e] \in Int
      BY <1>2, <1>8, <2>1, <2>2
    <3> HIDE DEF v, With
    <3> QED
      BY <2>2, <3>2, <3>4, <3>5
  <2>5. CASE ~tables[k + 1].field
    <3>1. after[k + 1] = after[k]
      BY <2>1, <2>3, <2>5 DEF AfterTable
    <3>2. With(k + 1) = With(k)
      BY <2>5
    <3> QED
      BY <2>2, <3>1, <3>2
  <2> QED
    BY <2>4, <2>5
<1>13. n \in Done
  <2>1. Nat \subseteq Done
    <3> HIDE DEF Done
    <3> QED
      BY <1>11, <1>12, NumbersFollow
  <2> QED
    BY <1>2, <2>1
<1>14. Sums[e] = sum[With(n)]
  <2> HIDE DEF With
  <2> QED
    BY <1>1, <1>2, <1>13
<1>15. With(n) = {k \in DOMAIN tables : tables[k].field}
  BY <1>2
<1>16. {k \in DOMAIN tables : tables[k].field} \in SUBSET DOMAIN tables
  OBVIOUS
<1>17. ValuesIn({k \in DOMAIN tables : tables[k].field}, e)
         = sum[{k \in DOMAIN tables : tables[k].field}]
  BY <1>3, <1>5, <1>16, FoldAdds
<1> QED
  BY <1>14, <1>15, <1>17

\* A projection that succeeds gives each entity the sum of the values that the
\* tables with the field give to it: for any number of entities and tables, in any
\* order of the rows.
THEOREM SumsAreExact == Spec => []SumsExact
<1>1. TypeInv => SumsExact
  BY SumsOfTables DEF SumsExact, ValuesIn
<1> QED
  BY <1>1, TypesHold, PTL
=============================================================================
