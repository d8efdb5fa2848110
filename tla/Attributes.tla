----------------------------- MODULE Attributes -----------------------------
(***************************************************************************)
(* One additive field over the entities of a domain: several attribute     *)
(* tables of the domain may carry it, and their values add up entity by    *)
(* entity.  The tables are read row by row; the operators say what the     *)
(* code answers about the rows read so far.                                *)
(***************************************************************************)
EXTENDS Integers, Sequences, FiniteSets, FiniteSetsExt

CONSTANTS
  MaxCount,   \* bound on entity_count
  MaxTables,  \* bound on the attribute tables
  MaxRows,    \* bound on the rows of a table
  Values      \* the values of the field

ASSUME AttributesAssumption ==
  MaxCount \in Nat /\ MaxTables \in Nat /\ MaxRows \in Nat /\ Values \subseteq Int

VARIABLES
  count,   \* the domain's entity_count
  tables   \* each with its rows, and whether the field is one of its columns

vars == <<count, tables>>

-----------------------------------------------------------------------------
EntityIndex(table) == [i \in DOMAIN table.rows |-> table.rows[i].entity]
Distinct(index) == {index[i] : i \in DOMAIN index}

IsFirst(x, S) == x \in S /\ \A y \in S : x <= y
IsLast(x, S)  == x \in S /\ \A y \in S : y <= x

\* Mistake: the number of rows is not compared.
CheckAttributeIndexRepeats(n, index) ==
  LET S == Distinct(index) IN
  IF n = 0 THEN index = <<>>
  ELSE IsFirst(0, S) /\ IsLast(n - 1, S) /\ Cardinality(S) = n

\* check_attribute_index: the sorted distinct indices run from 0 to n - 1,
\* are n, and are as many as the rows.
CheckAttributeIndex(n, index) ==
  LET S == Distinct(index) IN
  /\ IF n = 0 THEN index = <<>>
     ELSE /\ IsFirst(0, S) /\ IsLast(n - 1, S)
          /\ Cardinality(S) = n /\ Cardinality(S) = Len(index)
  /\ \A i \in DOMAIN index : index[i] >= 0

\* Mistake: the last table wins.
AddRowsReplacing(sums, rows) ==
  LET after[i \in 0 .. Len(rows)] ==
        IF i = 0 THEN sums
        ELSE [after[i - 1] EXCEPT ![rows[i].entity] = rows[i].value]
  IN after[Len(rows)]

\* values[entity_index as usize] += value, row after row.
AddRows(sums, rows) ==
  LET after[i \in 0 .. Len(rows)] ==
        IF i = 0 THEN sums
        ELSE [after[i - 1] EXCEPT ![rows[i].entity] = @ + rows[i].value]
  IN after[Len(rows)]

\* The sums that project_additive_field ends with, table after table.
Sums ==
  LET after[k \in 0 .. Len(tables)] ==
        IF k = 0 THEN [e \in 0 .. count - 1 |-> 0]
        ELSE IF tables[k].field THEN AddRows(after[k - 1], tables[k].rows)
        ELSE after[k - 1]
  IN after[Len(tables)]

\* The error of project_additive_field, or "none".
ProjectError ==
  IF \E k \in DOMAIN tables : ~CheckAttributeIndex(count, EntityIndex(tables[k]))
  THEN "NonDenseAttributeIndex"
  ELSE IF ~ \E k \in DOMAIN tables : tables[k].field THEN "MissingAdditiveField"
  ELSE "none"

-----------------------------------------------------------------------------
Init == count \in 0 .. MaxCount /\ tables = <<>>

\* read_domain_attributes of one more artifact.
OpenTable ==
  /\ Len(tables) < MaxTables
  /\ \E field \in BOOLEAN : tables' = Append(tables, [field |-> field, rows |-> <<>>])
  /\ UNCHANGED count

\* One more row of that artifact.
ReadRow ==
  /\ tables # <<>>
  /\ Len(tables[Len(tables)].rows) < MaxRows
  /\ \E row \in [entity : -1 .. MaxCount, value : Values] :
       tables' = [tables EXCEPT ![Len(tables)].rows = Append(@, row)]
  /\ UNCHANGED count

Next == OpenTable \/ ReadRow

Spec == Init /\ [][Next]_vars

-----------------------------------------------------------------------------
\* Every entity has exactly one row.
OneRowEach(n, index) ==
  Len(index) = n /\ \A e \in 0 .. n - 1 : \E i \in DOMAIN index : index[i] = e

\* A table is accepted exactly when every entity has one row in it, whatever
\* the order of the rows.
DenseExact ==
  \A k \in DOMAIN tables :
    CheckAttributeIndex(count, EntityIndex(tables[k]))
      <=> OneRowEach(count, EntityIndex(tables[k]))

\* The value that a dense table gives to an entity.
ValueIn(table, e) ==
  LET i == CHOOSE j \in DOMAIN table.rows : table.rows[j].entity = e
  IN table.rows[i].value

\* A projection that succeeds is the sum, entity by entity, of the tables
\* that carry the field (HMX_SPEC 5.5), whatever the order of their rows.
SumsExact ==
  ProjectError = "none" =>
    \A e \in 0 .. count - 1 :
      Sums[e] = MapThenSumSet(LAMBDA k : ValueIn(tables[k], e),
                              {k \in DOMAIN tables : tables[k].field})
=============================================================================
