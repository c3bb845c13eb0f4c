----------------------------- MODULE Bootstrap -----------------------------
(***************************************************************************)
(* The database at start-up: InitSchema executes schema_mono.sql and adds  *)
(* missing columns, RunMigrations executes the migration files that        *)
(* schema_migrations does not list, one statement after the other without  *)
(* a transaction.  The process may stop between any two statements and is  *)
(* started again.                                                          *)
(*                                                                         *)
(* A database is its set of columns.  The tables come from an earlier      *)
(* version or from the schema file: on a new database without that file    *)
(* no start ever succeeds.                                                 *)
(***************************************************************************)
EXTENDS Naturals, Sequences, SequencesExt

CONSTANTS
    Column,
    NoColumn,
    InSchema,   \* columns that InitSchema can add
    Repaired,   \* the column of ensureMonoEmailColumns
    Embedded,   \* the embedded migration files in the order of their names
    FirstNew,   \* number of the first file that is not backfilled
    MaxFaults

VARIABLES
    columns,   \* of the tables
    recorded,  \* schema_migrations
    executed,  \* history: the recorded files that were executed
    found,     \* the schema file is there
    start,     \* where the start is
    todo,      \* columns InitSchema has yet to look at
    file,      \* the migration it is at
    faulty,    \* history: a statement of this start failed and was skipped
    faults

bootstrap == <<columns, recorded, executed, found, start, todo, file, faulty, faults>>

------------------------------------------------------------------------------
(* FilesForSQLite: neither the files listed as Postgres-only nor those     *)
(* with a twin for SQLite.                                                 *)
FilesForSQLite(files) ==
    LET Twin(f) == \E i \in DOMAIN files : files[i].mono /\ files[i].no = f.no
        Ours(f) == ~f.listed /\ (f.mono \/ ~Twin(f))
    IN SelectSeq(files, Ours)

Files == FilesForSQLite(Embedded)

(* A migration file, by its first statement and what it adds.              *)
File == [no : Nat, mono : BOOLEAN, listed : BOOLEAN, adds : Column \cup {NoColumn},
         syntax : {"plain", "ifnotexists", "postgres"}]

(* The files that are selected are files: the provers know no more of      *)
(* SelectSeq than what is assumed here of its value.                       *)
BootstrapAssumption ==
    /\ InSchema \subseteq Column /\ Repaired \in InSchema /\ NoColumn \notin Column
    /\ Embedded \in Seq(File) /\ Files \in Seq(File)
    /\ MaxFaults \in Nat

(* Columns that only files to be backfilled, or none, would add have come  *)
(* with the tables.                                                        *)
Later == InSchema \cup {Embedded[i].adds : i \in {j \in DOMAIN Embedded : Embedded[j].no >= FirstNew}}

Init ==
    /\ columns \in {Column \ S : S \in SUBSET (Later \ {NoColumn})}
    /\ recorded = {} /\ executed = {}
    /\ found \in BOOLEAN
    /\ start = "down" /\ todo = {} /\ file = 0 /\ faulty = FALSE /\ faults = 0

Start ==
    /\ start = "down"
    /\ start' = IF found THEN "schema" ELSE "backfill"
    /\ todo' = IF found THEN InSchema ELSE {}
    /\ file' = 1 /\ faulty' = FALSE
    /\ UNCHANGED <<columns, recorded, executed, found, faults>>

Fault == faults < MaxFaults /\ faults' = faults + 1

With(c) == columns \cup ({c} \ {NoColumn})

(* The process stops; an error of a migration ends it too.                 *)
Stop ==
    /\ start # "down" /\ Fault /\ start' = "down"
    /\ UNCHANGED <<columns, recorded, executed, found, todo, file, faulty>>

(* InitSchema, addColumnIfMissing: that a column is there is no error, and *)
(* any other error is logged and passed over.                              *)
AddColumn(c) ==
    /\ start = "schema" /\ c \in todo
    /\ todo' = todo \ {c}
    /\ \/ columns' = With(c) /\ UNCHANGED <<faulty, faults>>
       \/ Fault /\ faulty' = TRUE /\ UNCHANGED columns
    /\ UNCHANGED <<recorded, executed, found, start, file>>

(* Mutant: InitSchema returns at the first column that is there already.   *)
SchemaDoneAtFirst ==
    /\ start = "schema" /\ (todo = {} \/ todo \cap columns # {}) /\ start' = "backfill"
    /\ UNCHANGED <<columns, recorded, executed, found, todo, file, faulty, faults>>

SchemaDone ==
    /\ start = "schema" /\ todo = {} /\ start' = "backfill"
    /\ UNCHANGED <<columns, recorded, executed, found, todo, file, faulty, faults>>

(* backfillLegacySQLiteMigrations: with the tables there, the files before *)
(* the first new one are recorded unexecuted.                              *)
Backfill ==
    /\ start = "backfill"
    /\ IF file <= Len(Files) /\ Files[file].no < FirstNew
       THEN /\ recorded' = recorded \cup {Files[file]}
            /\ file' = file + 1 /\ UNCHANGED start
       ELSE /\ file' = 1 /\ start' = "migrate" /\ UNCHANGED recorded
    /\ UNCHANGED <<columns, executed, found, todo, faulty, faults>>

------------------------------------------------------------------------------
(* Mutant: a column that is there ends the migration.                      *)
BenignSyntax(f) == f.syntax = "ifnotexists"

(* isBenignSQLiteMigrationError: the column is there already, or SQLite    *)
(* does not know IF NOT EXISTS.                                            *)
Benign(f) == f.syntax = "ifnotexists" \/ f.adds \in columns

Succeeds(f) == f.syntax = "plain" /\ f.adds \notin columns

Skip ==
    /\ start = "migrate" /\ file <= Len(Files) /\ Files[file] \in recorded
    /\ file' = file + 1
    /\ UNCHANGED <<columns, recorded, executed, found, start, todo, faulty, faults>>

(* Mutant: a file is recorded before it is executed.                       *)
ExecuteRecorded ==
    LET f == Files[file]
    IN /\ start = "migrate" /\ file <= Len(Files) /\ f \notin recorded
       /\ start' = IF Succeeds(f) \/ Benign(f) THEN "record" ELSE "down"
       /\ recorded' = recorded \cup {f} /\ executed' = executed \cup {f}
       /\ \/ columns' = IF Succeeds(f) THEN With(f.adds) ELSE columns
          \/ UNCHANGED columns
       /\ UNCHANGED <<found, todo, file, faulty, faults>>

(* The statements of a file; an error that is not benign ends the process. *)
Execute ==
    LET f == Files[file]
    IN /\ start = "migrate" /\ file <= Len(Files) /\ f \notin recorded
       /\ start' = IF Succeeds(f) \/ Benign(f) THEN "record" ELSE "down"
       /\ columns' = IF Succeeds(f) THEN With(f.adds) ELSE columns
       /\ UNCHANGED <<recorded, executed, found, todo, file, faulty, faults>>

Record ==
    /\ start = "record"
    /\ recorded' = recorded \cup {Files[file]} /\ executed' = executed \cup {Files[file]}
    /\ file' = file + 1 /\ start' = "migrate"
    /\ UNCHANGED <<columns, found, todo, faulty, faults>>

(* ensureMonoEmailColumns, and the server goes on.                         *)
Ready ==
    /\ start = "migrate" /\ file > Len(Files)
    /\ columns' = With(Repaired)
    /\ start' = "ready"
    /\ UNCHANGED <<recorded, executed, found, todo, file, faulty, faults>>

Step ==
    \/ Start \/ SchemaDone \/ Backfill \/ Skip \/ Execute \/ Record \/ Ready
    \/ \E c \in Column : AddColumn(c)

Next == Step \/ Stop

Spec == Init /\ [][Next]_bootstrap

(* The operator starts the server again whenever it has stopped.           *)
FairSpec == Spec /\ WF_bootstrap(Step)

------------------------------------------------------------------------------
(* The state has the declared shape.                                       *)
TypeOK ==
    /\ columns \subseteq Column
    /\ executed \subseteq recorded /\ recorded \subseteq {Files[i] : i \in DOMAIN Files}
    /\ start \in {"down", "schema", "backfill", "migrate", "record", "ready"}
    /\ todo \subseteq InSchema /\ file \in 0 .. Len(Files) + 1
    /\ faults \in 0 .. MaxFaults

(* A file that was executed and recorded has had its effect, although the  *)
(* process may stop between its statements and the record: the next start  *)
(* must not pass over it.  (The files in a syntax SQLite does not know     *)
(* have none.)                                                             *)
RecordedHasEffect ==
    \A f \in executed : f.syntax # "ifnotexists" => f.adds \in columns \cup {NoColumn}

(* A start that had the schema file and no failed statement leaves no      *)
(* column out, whatever the database was before: the columns of files that *)
(* are backfilled or cannot be executed come from InitSchema.              *)
ReadyIsComplete ==
    start = "ready" /\ found /\ ~faulty => columns = Column

(* The server comes up in the end: what a start that was cut off has left  *)
(* behind does not make the next one fail.                                 *)
ComesUp == <>[](start = "ready")

(* Records and columns of the database agree.                              *)
SchemaComplete == RecordedHasEffect /\ ReadyIsComplete

=============================================================================
