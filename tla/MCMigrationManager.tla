--------------------------- MODULE MCMigrationManager ---------------------------
(* The instances of MigrationManager that TLC checks.                      *)
EXTENDS MigrationManager, Sequences, TLC

CONSTANT NumMigrations   \* how many migrations are ever written

MCMigrations == 1..NumMigrations
Symmetry == Permutations(Managers)

-----------------------------------------------------------------------------
(* The builder that migrations use, on all tables of a few calls.          *)
Schema == INSTANCE SchemaBuilder WITH None <- "none"

Calls ==
  {[op |-> "column", name |-> "id", type |-> "INTEGER"],
   [op |-> "modifier", name |-> "id", modifier |-> "NOT NULL"],
   [op |-> "modifier", name |-> "id", modifier |-> "PRIMARY KEY"],
   [op |-> "nullable", name |-> "id"],
   [op |-> "constraint", kind |-> "UNIQUE", columns |-> <<"id">>],
   [op |-> "index", columns |-> <<"id">>, name |-> "none", unique |-> FALSE],
   [op |-> "index", columns |-> <<"id">>, name |-> "named", unique |-> TRUE]}

Tables == {Schema!Configure(calls) : calls \in UNION {[1..n -> Calls] : n \in 0..5}}
Whole == 10   \* more statements than a table has

(* A column may be null exactly if nullable() came after every notNull().  *)
ASSUME LastNullabilityWins ==
  \A calls \in [1..4 -> {c \in Calls : c.op \in {"modifier", "nullable"}}] :
    LET b == Schema!Configure(<<[op |-> "column", name |-> "id", type |-> "INTEGER"]>> \o calls)
        NotNull(i) == calls[i].op = "modifier" /\ calls[i].modifier = "NOT NULL"
    IN "NOT NULL" \in b.columns[1].modifiers <=>
         \E i \in 1..4 : NotNull(i) /\ \A j \in i..4 : calls[j].op # "nullable"

(* createIfNotExists() that stopped after any statement, called again,     *)
(* leaves the tables and indexes of one that did not stop.  Two indexes of *)
(* one name are two indexes only if they are the same.                     *)
ASSUME RerunCompletes ==
  \A b \in Tables, n \in 0..3 :
    LET stopped == Schema!CreateTable(<<>>, "t", b, TRUE, n)
        again == Schema!CreateTable(stopped.catalog, "t", b, TRUE, Whole)
    IN again = Schema!CreateTable(<<>>, "t", b, TRUE, Whole)

(* create() may not be called again once the table is there.               *)
ASSUME CreateIsForOnce ==
  \A b \in Tables, n \in 1..3 :
    Schema!CreateTable(Schema!CreateTable(<<>>, "t", b, FALSE, n).catalog,
                       "t", b, FALSE, Whole).failed
=============================================================================
