------------------------------ MODULE SchemaBuilder ------------------------------
(***************************************************************************)
(* Blueprint, Column and Schema of packages/migrations: the definition of  *)
(* a table that a sequence of builder calls makes, and the statements that *)
(* create it and its indexes one after the other, in no transaction.       *)
(*                                                                         *)
(* A call is a record; type, default and reference are parts of the        *)
(* modifier or type that it names.  A column has a modifier once however   *)
(* often it is asked for.                                                  *)
(***************************************************************************)
EXTENDS Naturals, SequencesExt

CONSTANT None

Blueprint == [columns |-> <<>>, constraints |-> <<>>, indexes |-> <<>>, failed |-> FALSE]
Column(name, type) == [name |-> name, type |-> type, modifiers |-> {}]

Names(b) == {b.columns[i].name : i \in DOMAIN b.columns}
Fail(b) == [b EXCEPT !.failed = TRUE]
RequireColumns(b, columns) == columns # <<>> /\ Range(columns) \subseteq Names(b)

AddColumn(b, call) ==
  IF call.name \in Names(b) THEN Fail(b)
  ELSE [b EXCEPT !.columns = Append(@, Column(call.name, call.type))]

(* A column gains some modifiers and loses others.                         *)
Change(b, name, gained, lost) ==
  [b EXCEPT !.columns = [i \in DOMAIN @ |->
     IF @[i].name = name THEN [@[i] EXCEPT !.modifiers = (@ \cup gained) \ lost]
     ELSE @[i]]]

AddModifier(b, call) ==
  IF ~RequireColumns(b, <<call.name>>) THEN Fail(b)
  ELSE Change(b, call.name, {call.modifier}, {})

Nullable(b, call) == Change(b, call.name, {}, {"NOT NULL"})

Constraint(b, call) ==
  IF ~RequireColumns(b, call.columns) THEN Fail(b)
  ELSE [b EXCEPT !.constraints = Append(@, call.kind)]

Index(b, call) ==
  IF ~RequireColumns(b, call.columns) THEN Fail(b)
  ELSE [b EXCEPT !.indexes =
          Append(@, [columns |-> call.columns, name |-> call.name, unique |-> call.unique])]

(* The first call that throws ends the configuration.                      *)
Apply(b, call) ==
  CASE b.failed -> b
    [] ~b.failed /\ call.op = "column" -> AddColumn(b, call)
    [] ~b.failed /\ call.op = "modifier" -> AddModifier(b, call)
    [] ~b.failed /\ call.op = "nullable" -> Nullable(b, call)
    [] ~b.failed /\ call.op = "constraint" -> Constraint(b, call)
    [] ~b.failed /\ call.op = "index" -> Index(b, call)

Configure(calls) == FoldLeft(Apply, Blueprint, calls)

(* Column.toString(): a postgres key of integers numbers its rows.         *)
Identity(column, dialect) ==
  dialect = "postgres" /\ column.type = "INTEGER" /\ "PRIMARY KEY" \in column.modifiers

-----------------------------------------------------------------------------
(* createTable(): the table, then its indexes.  A catalog maps the names   *)
(* that are taken to what bears them.                                      *)
NameOf(table, index) == IF index.name = None THEN <<table, index.columns>> ELSE <<index.name>>

Statements(table, b) ==
  << [name |-> <<table>>, made |-> <<b.columns, b.constraints>>] >> \o
  [i \in DOMAIN b.indexes |->
     [name |-> NameOf(table, b.indexes[i]),
      made |-> <<table, b.indexes[i].columns, b.indexes[i].unique>>]]

(* A statement whose name is taken fails, or does nothing IF NOT EXISTS.   *)
Execute(run, statement, ifNotExists) ==
  IF run.failed THEN run
  ELSE IF statement.name \notin DOMAIN run.catalog
  THEN [run EXCEPT !.catalog = [n \in DOMAIN @ \cup {statement.name} |->
                                  IF n = statement.name THEN statement.made ELSE @[n]]]
  ELSE [run EXCEPT !.failed = ~ifNotExists]

(* At most n statements: the connection may fail before the others.        *)
CreateTable(catalog, table, b, ifNotExists, n) ==
  LET run == [catalog |-> catalog, failed |-> b.failed \/ b.columns = <<>>]
      all == Statements(table, b)
  IN FoldLeft(LAMBDA r, s : Execute(r, s, ifNotExists), run,
              SubSeq(all, 1, IF n < Len(all) THEN n ELSE Len(all)))
=================================================================================
