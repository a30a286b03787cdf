----------------------------- MODULE Migrations -----------------------------
(***************************************************************************)
(* The schema steps the process runs at start, before anything else        *)
(* (db/index.ts).  Each statement commits by itself, but for the rebuild   *)
(* of clients and the backfill of tokens, which are transactions; the      *)
(* process may die between any two.  A restored bundle brings any earlier  *)
(* shape back.                                                             *)
(***************************************************************************)
EXTENDS Sequences, Integers

CONSTANTS
  Rows,     \* clients there may be
  Capable   \* those a subscription can represent (isSubscriptionCapable)

ASSUME MigrationsAssumption == Capable \subseteq Rows

VARIABLES
  disk,      \* the database as committed
  tx,        \* the database inside the transaction, or NoTx
  fk,        \* is foreign_keys ON on this connection
  at,        \* index in MigrationSteps of the next step
  swallowed, \* the ALTERs of this start that failed though the column was missing
  origin     \* history: what the data was when the process last ran or was given it

migrationVars == <<disk, tx, fk, at, swallowed, origin>>

Keys     == {"app", "alert"}
Columns  == {"late", "hy2_rx", "hy2_password", "sub_token"}
NoToken  == 0
OldToken == 1
NewToken == 2

\* Mutant: tokens come before the rebuild, which drops the column again.
MigrationSteps_TokenFirst ==
  <<"tables", "late", "hy2_rx", "sub_token", "backfill", "begin", "copy", "drop",
    "commit", "seed", "up">>

\* The order of the statements in the file.
MigrationSteps ==
  <<"tables", "late", "hy2_rx", "begin", "copy", "drop", "commit", "sub_token",
    "backfill", "seed", "up">>

StepIs(s) == MigrationSteps[at] = s
GoOn      == at' = at + 1

Databases ==
  [tables : BOOLEAN, wide : BOOLEAN, columns : SUBSET Columns, rows : SUBSET Rows,
   copied : SUBSET Rows, snapshots : SUBSET Rows,
   token : [Rows -> {NoToken, OldToken, NewToken}],
   settings : [Keys -> {"absent", "seeded", "edited"}]]

Nowhere == [r \in Rows |-> NoToken]
NoSettings == [k \in Keys |-> "absent"]
Fresh   == [tables |-> FALSE, wide |-> FALSE, columns |-> {}, rows |-> {}, copied |-> {},
            snapshots |-> {}, token |-> Nowhere, settings |-> NoSettings]
NoTx    == Fresh   \* no transaction copies a database without tables

\* The shapes there have been: nothing yet, before Hysteria 2 with some or all
\* of the columns added since, before tokens, and the present one; the last two
\* of processes that ran with all their columns or without the traffic's.
BeforeHysteria(c, r) ==
  [Fresh EXCEPT !.tables = TRUE, !.columns = c, !.rows = r, !.snapshots = r]
BeforeTokens(c, r) ==
  [BeforeHysteria(c \ {"sub_token"}, r) EXCEPT !.wide = TRUE]
Present(c, r) ==
  [BeforeHysteria(c, r) EXCEPT
     !.wide = TRUE, !.settings = [k \in Keys |-> "edited"],
     !.token = [q \in Rows |-> IF q \in r \cap Capable THEN OldToken ELSE NoToken]]

Shapes ==
  {Fresh}
    \cup {BeforeHysteria(c, r) : c \in {{}, {"late"}, {"late", "hy2_rx"}}, r \in SUBSET Rows}
    \cup {BeforeTokens(c, r) : c \in {Columns, Columns \ {"hy2_rx"}}, r \in SUBSET Rows}
    \cup {Present(c, r) : c \in {Columns, Columns \ {"hy2_rx"}}, r \in SUBSET Rows}

MigrationsTypeOK ==
  /\ disk \in Databases /\ origin \in Databases /\ tx \in Databases /\ fk \in BOOLEAN
  /\ at \in 1..Len(MigrationSteps) /\ swallowed \subseteq Columns

-----------------------------------------------------------------------------

\* CREATE TABLE IF NOT EXISTS, with the old CHECK on the type.
CreateTables ==
  /\ StepIs("tables") /\ GoOn
  /\ disk' = [disk EXCEPT !.tables = TRUE] /\ UNCHANGED <<tx, fk, swallowed, origin>>

\* ALTER TABLE ADD COLUMN.  Every failure is swallowed: that on a column that
\* exists, and that of a busy or full disk, after which the start goes on.
AddColumn(c) ==
  /\ StepIs(c) /\ GoOn
  /\ \/ disk' = [disk EXCEPT !.columns = @ \cup {c}] /\ UNCHANGED swallowed
     \/ c \notin disk.columns /\ swallowed' = swallowed \cup {c} /\ UNCHANGED disk
  /\ UNCHANGED <<tx, fk, origin>>

\* migrateClientsAddHysteria2: nothing to do on a table that lists hysteria2.
SkipRebuild ==
  /\ StepIs("begin") /\ disk.wide
  /\ at' = at + 4 /\ UNCHANGED <<disk, tx, fk, swallowed, origin>>

BeginRebuild ==
  /\ StepIs("begin") /\ ~disk.wide /\ GoOn
  /\ fk' = FALSE /\ tx' = disk /\ UNCHANGED <<disk, swallowed, origin>>

\* CREATE TABLE clients_new and INSERT ... SELECT of the named columns; one that
\* is missing is an error, and the end of this start.
CopyRows ==
  /\ StepIs("copy") /\ "late" \in tx.columns /\ GoOn
  /\ tx' = [tx EXCEPT !.copied = tx.rows] /\ UNCHANGED <<disk, fk, swallowed, origin>>

\* DROP TABLE clients, which cascades where the keys are on, and RENAME.
DropAndRename ==
  /\ StepIs("drop") /\ GoOn
  /\ tx' = [tx EXCEPT !.rows = tx.copied, !.copied = {}, !.wide = TRUE,
                      !.snapshots = IF fk THEN {} ELSE @,
                      !.columns = (@ \ {"sub_token"}) \cup {"hy2_password"},
                      !.token = Nowhere]
  /\ UNCHANGED <<disk, fk, swallowed, origin>>

\* foreign_key_check, COMMIT, and the keys are on again.
CommitRebuild ==
  /\ StepIs("commit") /\ tx.snapshots \subseteq tx.rows /\ GoOn
  /\ disk' = tx /\ tx' = NoTx /\ fk' = TRUE /\ UNCHANGED <<swallowed, origin>>

\* The index on the tokens, an error without their column; then the backfill, in
\* a transaction, of the rows that have none.
Backfill ==
  /\ StepIs("backfill") /\ "sub_token" \in disk.columns /\ GoOn
  /\ disk' = [disk EXCEPT !.token =
       [r \in Rows |-> IF r \in disk.rows \cap Capable /\ @[r] = NoToken
                       THEN NewToken ELSE @[r]]]
  /\ UNCHANGED <<tx, fk, swallowed, origin>>

\* INSERT OR IGNORE of the settings, a statement each.
Seed ==
  /\ StepIs("seed") /\ UNCHANGED <<tx, fk, swallowed, origin>>
  /\ \/ \E k \in Keys :
          /\ disk.settings[k] = "absent"
          /\ disk' = [disk EXCEPT !.settings[k] = "seeded"] /\ UNCHANGED at
     \/ /\ \A k \in Keys : disk.settings[k] # "absent"
        /\ GoOn /\ UNCHANGED disk

\* The process runs: clients come and go, settings are edited.
Serve ==
  /\ StepIs("up")
  /\ \/ \E r \in Rows \ disk.rows :
          disk' = [disk EXCEPT !.rows = @ \cup {r}, !.snapshots = @ \cup {r},
                     !.token[r] = IF r \in Capable THEN NewToken ELSE NoToken]
     \/ \E r \in disk.rows :
          disk' = [disk EXCEPT !.rows = @ \ {r}, !.snapshots = @ \ {r},
                     !.token[r] = NoToken]
     \/ disk' = [disk EXCEPT !.settings = [k \in Keys |-> "edited"]]
  /\ origin' = disk' /\ UNCHANGED <<tx, fk, at, swallowed>>

\* The process dies anywhere, with its transaction, or a statement that is not
\* one of the ALTERs fails; it starts again.
Die ==
  /\ at' = 1 /\ tx' = NoTx /\ fk' = TRUE /\ swallowed' = {} /\ UNCHANGED <<disk, origin>>

\* ... or on a database of an earlier shape, out of a bundle.
DieForRestore ==
  /\ StepIs("up") /\ at' = 1 /\ swallowed' = {}
  /\ disk' \in Shapes /\ origin' = disk' /\ UNCHANGED <<tx, fk>>

MigrationsInit ==
  /\ disk \in Shapes /\ origin = disk
  /\ tx = NoTx /\ fk = TRUE /\ at = 1 /\ swallowed = {}

MigrationsNext ==
  \/ CreateTables \/ \E c \in Columns : AddColumn(c)
  \/ SkipRebuild \/ BeginRebuild \/ CopyRows \/ DropAndRename \/ CommitRebuild
  \/ Backfill \/ Seed \/ Serve \/ Die \/ DieForRestore

MigrationsSpec == MigrationsInit /\ [][MigrationsNext]_migrationVars

-----------------------------------------------------------------------------

\* Whatever shape the database had, wherever earlier starts died and whatever
\* ALTERs failed unnoticed, a process that runs has the rows, snapshots, tokens
\* and edited settings it was given, a token for every row that can have one, and
\* every column but that of the traffic, when its ALTER failed in this very start
\* ("PLACEMENT IS LOAD-BEARING", "so the DROP TABLE below does not
\* cascade-delete").
Upgraded ==
  StepIs("up") =>
    /\ Columns \ disk.columns \subseteq swallowed \cap {"hy2_rx"} /\ disk.wide /\ fk
    /\ disk.rows = origin.rows /\ disk.snapshots = origin.snapshots
    /\ \A r \in disk.rows :
         /\ origin.token[r] # NoToken => disk.token[r] = origin.token[r]
         /\ r \in Capable => disk.token[r] # NoToken
    /\ \A k \in Keys : disk.settings[k] =
         IF origin.settings[k] = "absent" THEN "seeded" ELSE origin.settings[k]
=============================================================================
