------------------------------ MODULE Migrations ------------------------------
(***************************************************************************)
(* The start of photod on a database it finds (cmd/photod/main.go,         *)
(* sqlite/sqlite.go, sqlite/migrations/*.sql): Open runs the files that    *)
(* schema_migrations does not name, then MigrateExistingSlugs gives a slug *)
(* to albums that have none, and only then does the server answer.         *)
(*                                                                         *)
(* No transaction surrounds a file.  Each of its statements commits by     *)
(* itself, the note that the file has been applied is a statement more,    *)
(* and the process may die between any two.  Two files build a table anew  *)
(* and drop the old one, which empties every table that refers to it       *)
(* unless foreign keys are off.                                            *)
(*                                                                         *)
(* The model keeps tables, the columns that a file adds or reads, rows     *)
(* with their references, the slugs of albums, and which photos hold a     *)
(* NULL that the newest table of photos forbids.  Indexes are left out:    *)
(* none of them holds a row, and none is the first statement of its file.  *)
(***************************************************************************)
EXTENDS Naturals, Sequences, FiniteSets, Functions, FiniteSetsExt

CONSTANTS
  Row,         \* the rows there may be
  Home,        \* Home[r]: the table that row r belongs to
  Parent,      \* Parent[r]: the rows that r refers to with ON DELETE CASCADE
  Slug,        \* slugs, the empty one apart
  MaxCrashes   \* bound of the model on the number of crashes

Albums == {r \in Row : Home[r] = "albums"}

(* The tables, with the number of the first release that has each.         *)
FirstRelease ==
  [users |-> 1, sessions |-> 1, photos |-> 1, tags |-> 1, photo_tags |-> 1,
   albums |-> 5, album_photos |-> 5, invites |-> 7]

ASSUME MigrationsAssumption ==
  /\ Home \in [Row -> DOMAIN FirstRelease]
  /\ Parent \in [Row -> SUBSET Row]
  /\ Cardinality(Albums) <= Cardinality(Slug)
  /\ "" \notin Slug
  /\ MaxCrashes \in Nat

-------------------------------------------------------------------------------
(* Statements, and the files made of them.                                 *)

CreateTable(t, cols) == [op |-> "create", table |-> t, cols |-> cols]
AddColumn(t, col) == [op |-> "add", table |-> t, col |-> col]
Copy(from, to, needs) == [op |-> "copy", table |-> to, from |-> from, needs |-> needs]
DropTable(t) == [op |-> "drop", table |-> t]
RenameTable(from, to) == [op |-> "rename", table |-> to, from |-> from]
ForeignKeys(on) == [op |-> "pragma", on |-> on]

InitialSchema ==
  << CreateTable("users", {"email"}), CreateTable("sessions", {}), CreateTable("photos", {}),
     CreateTable("tags", {}), CreateTable("photo_tags", {}) >>

(* Mistake to detect: a column is added to a file that has been released.  *)
PhotoRawFieldsEdited ==
  << AddColumn("photos", "is_raw"), AddColumn("photos", "raw_partner_id"),
     AddColumn("photos", "file_type") >>

PhotoRawFields == << AddColumn("photos", "is_raw"), AddColumn("photos", "raw_partner_id") >>

PhotoFileType == << AddColumn("photos", "file_type") >>

PublishedAndThumb == << AddColumn("photos", "published"), AddColumn("photos", "thumb_path") >>

AlbumTables == << CreateTable("albums", {}), CreateTable("album_photos", {}) >>

AlbumSlugs == << AddColumn("albums", "slug") >>

UsersAdminInvites == << AddColumn("users", "is_admin"), CreateTable("invites", {}) >>

(* Mistake to detect: the table is built anew with foreign keys on.        *)
UserNamesEnforced ==
  << CreateTable("users_new", {"first_name", "last_name", "is_admin"}),
     Copy("users", "users_new", {"is_admin"}),
     DropTable("users"),
     RenameTable("users_new", "users") >>

UserNames ==
  << ForeignKeys(FALSE),
     CreateTable("users_new", {"first_name", "last_name", "is_admin"}),
     Copy("users", "users_new", {"is_admin"}),
     DropTable("users"),
     RenameTable("users_new", "users"),
     ForeignKeys(TRUE) >>

(* The albums_new of this file is the first to declare slug UNIQUE.        *)
VisibilityEnum ==
  << ForeignKeys(FALSE),
     CreateTable("photos_new", {"file_type", "is_raw", "raw_partner_id", "visibility",
                                "share_token", "thumb_path"}),
     Copy("photos", "photos_new", {"file_type", "is_raw", "raw_partner_id", "published",
                                   "thumb_path"}),
     DropTable("photos"),
     RenameTable("photos_new", "photos"),
     CreateTable("albums_new", {"slug", "slug_unique", "visibility", "share_token"}),
     Copy("albums", "albums_new", {"slug"}),
     DropTable("albums"),
     RenameTable("albums_new", "albums"),
     ForeignKeys(TRUE) >>

Files ==
  << InitialSchema, PhotoRawFields, PhotoFileType, PublishedAndThumb, AlbumTables,
     AlbumSlugs, UsersAdminInvites, UserNames, VisibilityEnum >>

-------------------------------------------------------------------------------
VARIABLES
  table,     \* table[t]: columns and rows of the table t, as committed
  slug,      \* slug[a]: the slug in the row of album a
  fk,        \* PRAGMA foreign_keys of the one connection
  applied,   \* the files that schema_migrations names
  phase,     \* "down", "migrating", "slugs", "up", "refused"
  next,      \* the statement of the current file to run next
  crashes,   \* number of crashes so far
  stored,    \* history: every row the database has ever held
  nulls,     \* history: the photos found with a NULL that photos_new forbids
  torn       \* history: a crash came inside a file

vars == <<table, slug, fk, applied, phase, next, crashes, stored, nulls, torn>>
history == <<stored, nulls, torn>>

(* SQLite's rules for a statement s on the tables tb, and what it makes of *)
(* them.                                                                   *)
Exists(tb, t) == t \in DOMAIN tb

(* No two rows with one slug, of which the empty one is the only candidate. *)
SlugsDiffer(rows) == \A a, b \in rows \cap Albums : slug[a] = slug[b] => a = b

Legal(s, tb) ==
  CASE s.op = "create" -> ~Exists(tb, s.table)
    [] s.op = "add" -> Exists(tb, s.table) /\ s.col \notin tb[s.table].cols
    [] s.op = "copy" ->
         /\ Exists(tb, s.from) /\ Exists(tb, s.table)
         /\ s.needs \subseteq tb[s.from].cols
         /\ tb[s.from].rows \cap tb[s.table].rows = {}
         /\ "slug_unique" \in tb[s.table].cols => SlugsDiffer(tb[s.from].rows)
         /\ s.table = "photos_new" => tb[s.from].rows \cap nulls = {}
    [] s.op = "drop" -> Exists(tb, s.table)
    [] s.op = "rename" -> Exists(tb, s.from) /\ ~Exists(tb, s.table)
    [] OTHER -> TRUE

(* The rows that go when those of S do: references are two deep at most.   *)
Referring(S) == {r \in Row : Parent[r] \cap S # {}}
Cascade(S) == S \cup Referring(S) \cup Referring(Referring(S))

WithoutRows(tb, S) == [t \in DOMAIN tb |-> [tb[t] EXCEPT !.rows = @ \ S]]

(* With foreign keys on, DROP TABLE deletes the rows of the table first.   *)
Dropped(t, tb) ==
  Restrict(IF fk THEN WithoutRows(tb, Cascade(tb[t].rows)) ELSE tb, DOMAIN tb \ {t})

With(tb, t, new) == [u \in DOMAIN tb \cup {t} |-> IF u = t THEN new ELSE tb[u]]

Effect(s, tb) ==
  CASE s.op = "create" -> With(tb, s.table, [cols |-> s.cols, rows |-> {}])
    [] s.op = "add" -> [tb EXCEPT ![s.table].cols = @ \cup {s.col}]
    [] s.op = "copy" -> [tb EXCEPT ![s.table].rows = @ \cup tb[s.from].rows]
    [] s.op = "drop" -> Dropped(s.table, tb)
    [] s.op = "rename" -> With(Restrict(tb, DOMAIN tb \ {s.from}), s.table, tb[s.from])
    [] OTHER -> tb

-------------------------------------------------------------------------------
(* What the database of a release has, whatever has become of the files    *)
(* since: release k came with the first k of them.                         *)
Columns ==
  [users |-> [email |-> 1 .. 7, is_admin |-> 7 .. 9, first_name |-> 8 .. 9, last_name |-> 8 .. 9],
   photos |-> [is_raw |-> 2 .. 9, raw_partner_id |-> 2 .. 9, file_type |-> 3 .. 9,
               published |-> 4 .. 8, thumb_path |-> 4 .. 9, visibility |-> 9 .. 9,
               share_token |-> 9 .. 9],
   albums |-> [slug |-> 6 .. 9, slug_unique |-> 9 .. 9, visibility |-> 9 .. 9,
               share_token |-> 9 .. 9]]

Tables(k) == {t \in DOMAIN FirstRelease : FirstRelease[t] <= k}
ColumnsOf(t, k) ==
  IF t \in DOMAIN Columns THEN {c \in DOMAIN Columns[t] : k \in Columns[t][c]} ELSE {}
Released(k) == [t \in Tables(k) |-> ColumnsOf(t, k)]

(* The database as the program finds it: the tables of a release, and rows *)
(* that refer to rows that are there.  An album has no slug yet if it is   *)
(* older than slugs, or if the process that was to give it one died before *)
(* MigrateExistingSlugs.  A photo may hold a NULL in a column such as      *)
(* camera_make, which the first release declared without NOT NULL.         *)
Closed(R) == \A r \in R : Parent[r] \subseteq R

Init ==
  /\ \E k \in 0 .. Len(Files), R \in SUBSET Row :
       LET cols == Released(k)
       IN  /\ Closed(R) /\ \A r \in R : Home[r] \in DOMAIN cols
           /\ table = [t \in DOMAIN cols |->
                         [cols |-> cols[t], rows |-> {r \in R : Home[r] = t}]]
           /\ applied = 1 .. k
           /\ stored = R
           /\ slug \in [Albums -> Slug \cup {""}]
           /\ \A a \in Albums : slug[a] # "" => /\ k >= 6 /\ a \in R
                                             /\ \A b \in Albums \ {a} : slug[b] # slug[a]
           /\ nulls \in SUBSET {r \in R : Home[r] = "photos"}
           /\ k = Len(Files) => SlugsDiffer(R) /\ nulls = {}
  /\ fk = FALSE
  /\ phase = "down"
  /\ next = 1
  /\ crashes = 0
  /\ torn = FALSE

(* Open connects, turns foreign keys on, and begins migrate.               *)
Start ==
  /\ phase \in {"down", "refused"}
  /\ phase' = "migrating"
  /\ fk' = TRUE
  /\ next' = 1
  /\ UNCHANGED <<table, slug, applied, crashes, history>>

Pending == DOMAIN Files \ applied
File == Files[Min(Pending)]

(* One statement of the first file not applied yet.                        *)
RunStatement ==
  /\ phase = "migrating" /\ Pending # {} /\ next <= Len(File)
  /\ LET s == File[next]
     IN  \/ /\ Legal(s, table)
            /\ table' = Effect(s, table)
            /\ fk' = IF s.op = "pragma" THEN s.on ELSE fk
            /\ next' = next + 1
            /\ UNCHANGED phase
         \/ /\ ~Legal(s, table)
            /\ phase' = "refused"
            /\ UNCHANGED <<table, fk, next>>
  /\ UNCHANGED <<slug, applied, crashes, history>>

Record ==
  /\ phase = "migrating" /\ Pending # {} /\ next > Len(File)
  /\ applied' = applied \cup {Min(Pending)}
  /\ next' = 1
  /\ UNCHANGED <<table, slug, fk, phase, crashes, history>>

Migrated ==
  /\ phase = "migrating" /\ Pending = {}
  /\ phase' = "slugs"
  /\ UNCHANGED <<table, slug, fk, applied, next, crashes, history>>

(* Mistake to detect: the server starts without this step.                 *)
ServeAtOnce ==
  /\ phase = "slugs"
  /\ phase' = "up"
  /\ UNCHANGED <<table, slug, fk, applied, next, crashes, history>>

(* One transaction; uniqueSlug finds a slug that no album has.             *)
MigrateExistingSlugs ==
  /\ phase = "slugs"
  /\ LET rows == table["albums"].rows
         slugless == {a \in rows : slug[a] = ""}
     IN  \E new \in Injection(slugless, Slug \ {slug[a] : a \in rows}) :
           slug' = [a \in Albums |-> IF a \in slugless THEN new[a] ELSE slug[a]]
  /\ phase' = "up"
  /\ UNCHANGED <<table, fk, applied, next, crashes, history>>

(* The server at work: a row is added, an album with a slug of its own.    *)
Insert(r) ==
  /\ phase = "up"
  /\ r \notin stored /\ Parent[r] \subseteq stored
  /\ table' = [table EXCEPT ![Home[r]].rows = @ \cup {r}]
  /\ stored' = stored \cup {r}
  /\ IF r \in Albums
     THEN \E s \in Slug \ {slug[a] : a \in stored \cap Albums} : slug' = [slug EXCEPT ![r] = s]
     ELSE UNCHANGED slug
  /\ UNCHANGED <<fk, applied, phase, next, crashes, nulls, torn>>

(* The process is killed, or a statement fails for a reason outside the    *)
(* database and it exits: what has been committed stays.                   *)
Crash ==
  /\ phase \in {"migrating", "slugs", "up"}
  /\ crashes < MaxCrashes
  /\ crashes' = crashes + 1
  /\ phase' = "down"
  /\ fk' = FALSE
  /\ next' = 1
  /\ torn' = (torn \/ (phase = "migrating" /\ next > 1))
  /\ UNCHANGED <<table, slug, applied, stored, nulls>>

Next ==
  \/ Start \/ RunStatement \/ Record \/ Migrated \/ MigrateExistingSlugs \/ Crash
  \/ \E r \in Row : Insert(r)

Spec == Init /\ [][Next]_vars

-------------------------------------------------------------------------------
(* The copies that replace tables, and the tables that hold a row.         *)
CopyOf == [t \in {"users", "photos", "albums"} |->
             CASE t = "users" -> "users_new" [] t = "photos" -> "photos_new"
               [] OTHER -> "albums_new"]

Holding(r) == {t \in DOMAIN table : r \in table[t].rows}

(* Through every start, crash and refused statement, each row that the     *)
(* database was given is in its table or in the copy that is to replace it *)
(* (0008:9, 0009:13: PRAGMA foreign_keys=OFF before DROP TABLE).           *)
RowsNeverLost ==
  \A r \in stored :
    \/ Home[r] \in Holding(r)
    \/ Home[r] \in DOMAIN CopyOf /\ CopyOf[Home[r]] \in Holding(r)

(* A server that answers works on the schema of the newest release, the    *)
(* same whatever release the database comes from and however often a start *)
(* was cut off: all files are applied once, no copy of a table is left     *)
(* over, foreign keys are enforced, every row is in its table, and every   *)
(* album has a slug of its own, and no photo a NULL that its table forbids. *)
UpIsMigrated ==
  phase = "up" =>
    /\ applied = DOMAIN Files
    /\ [t \in DOMAIN table |-> table[t].cols] = Released(Len(Files))
    /\ fk
    /\ \A r \in stored : Holding(r) = {Home[r]}
    /\ \A a \in stored \cap Albums : slug[a] # ""
    /\ SlugsDiffer(stored)
    /\ stored \cap nulls = {}

(* A start is refused only if a crash came inside a file before, or if the *)
(* rows are not fit for the tables of the newest release: two albums have  *)
(* no slug yet, or a photo holds a NULL where photos_new declares NOT NULL *)
(* (0009_visibility.sql:26-37, 76).                                        *)
Unfit == ~SlugsDiffer(stored) \/ stored \cap nulls # {}

RefusedOnlyIf == phase = "refused" => torn \/ Unfit

(* "Existing albums get a slug derived from their name in Go at startup    *)
(* ... The unique index is added after the Go migration populates the      *)
(* column" (0006_album_slugs.sql:3-5): albums that have no slug yet keep   *)
(* no database from coming up.                                             *)
OldDatabasesComeUp == phase = "refused" => torn \/ stored \cap nulls # {}
===============================================================================
