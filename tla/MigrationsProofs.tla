--------------------------- MODULE MigrationsProofs ---------------------------
(***************************************************************************)
(* No row is lost on the way to the newest schema, and a server that       *)
(* answers has that schema.                                                *)
(*                                                                         *)
(* The nine files are read as one script of 31 statements.  Either the     *)
(* database is as so many statements of the script make it out of nothing  *)
(* (Fresh), which is also how each release left it, or a break has left it *)
(* where the file at work fails for ever at a statement that has been run  *)
(* before (Stuck), with every row in its table or in the copy of it.       *)
(***************************************************************************)
EXTENDS Migrations, TLAPS

(* The files are one script of 31 statements.  Before[f] of them are in    *)
(* the files before file f.                                                *)
Size(f) == Len(Files[f])
Before == <<0, 5, 7, 8, 10, 12, 13, 15, 21, 31>>

(* Between which statements each table is there when the script runs       *)
(* without a break, and the columns that it has.                           *)
Lifetime ==
  [users |-> (1 .. 18) \cup (20 .. 31), sessions |-> 2 .. 31,
   photos |-> (3 .. 24) \cup (26 .. 31), tags |-> 4 .. 31, photo_tags |-> 5 .. 31,
   albums |-> (11 .. 28) \cup (30 .. 31), album_photos |-> 12 .. 31, invites |-> 15 .. 31,
   users_new |-> 17 .. 19, photos_new |-> 23 .. 25, albums_new |-> 27 .. 29]

Names(g) == {t \in DOMAIN Lifetime : g \in Lifetime[t]}

NewUsers == {"first_name", "last_name", "is_admin"}
NewPhotos == {"file_type", "is_raw", "raw_partner_id", "visibility", "share_token", "thumb_path"}
NewAlbums == {"slug", "slug_unique", "visibility", "share_token"}

PhotosSince == [is_raw |-> 6, raw_partner_id |-> 7, file_type |-> 8, published |-> 9,
                thumb_path |-> 10]

Cols(t, g) ==
  CASE t = "users" -> IF g < 14 THEN {"email"}
                      ELSE IF g < 19 THEN {"email", "is_admin"} ELSE NewUsers
    [] t = "photos" -> IF g < 25 THEN {c \in DOMAIN PhotosSince : g >= PhotosSince[c]}
                       ELSE NewPhotos
    [] t = "albums" -> IF g < 13 THEN {} ELSE IF g < 29 THEN {"slug"} ELSE NewAlbums
    [] t = "users_new" -> NewUsers
    [] t = "photos_new" -> NewPhotos
    [] t = "albums_new" -> NewAlbums
    [] OTHER -> {}

Own(t) == {r \in stored : Home[r] = t}
RowsAt(t, g) ==
  CASE t = "users_new" -> IF g = 17 THEN {} ELSE Own("users")
    [] t = "photos_new" -> IF g = 23 THEN {} ELSE Own("photos")
    [] t = "albums_new" -> IF g = 27 THEN {} ELSE Own("albums")
    [] OTHER -> Own(t)

(* File 8 runs to its end a second time when a crash came after it.        *)
ColsAt(t, g) ==
  IF t = "users" /\ g \in 15 .. 18 THEN {Cols(t, g), NewUsers} ELSE {Cols(t, g)}

(* The database after g statements.                                        *)
After(g) ==
  /\ DOMAIN table = Names(g)
  /\ \A t \in Names(g) : /\ table[t] = [cols |-> table[t].cols, rows |-> RowsAt(t, g)]
                         /\ table[t].cols \in ColsAt(t, g)

HomesIn(k) == \A r \in stored : Home[r] \in Tables(k)

(* Where foreign keys are off.                                             *)
Unenforced == (16 .. 20) \cup (22 .. 30)

(* What has been copied into the tables of file 9 was fit for them.        *)
Fits(g) == /\ g >= 24 => stored \cap nulls = {}
           /\ g >= 28 => SlugsDiffer(stored)

(* File f is next, and it is on its way without a break: 10 means that all *)
(* files have been applied.                                                *)
Fresh(f) ==
  LET g == Before[f] + next - 1 IN
  /\ After(g)
  /\ next \in 1 .. (IF f = 10 THEN 1 ELSE Size(f) + 1)
  /\ HomesIn(f - 1)
  /\ phase \in {"down", "migrating", "slugs", "up"}
  /\ phase = "down" => next = 1
  /\ phase \in {"slugs", "up"} => f = 10
  /\ phase # "down" => (fk <=> g \notin Unenforced)
  /\ phase = "up" => \A a \in stored \cap Albums : slug[a] # ""
  /\ Fits(g)

(* The break came, and file f fails at a statement that it has run before. *)
Blocked(f) ==
  \/ f <= 7 /\ (phase = "migrating" => next = 1) /\ ~Legal(Files[f][1], table)
  \/ f = 8 /\ (phase = "migrating" => next <= 2) /\ "users_new" \in DOMAIN table
  \/ f = 9 /\ (phase = "migrating" => next <= 2) /\ "photos_new" \in DOMAIN table
  \/ /\ f = 9 /\ (phase = "migrating" => next <= 3)
     /\ "photos" \in DOMAIN table /\ "published" \notin table["photos"].cols

Stuck(f) ==
  /\ f <= 9
  /\ torn \/ Unfit
  /\ phase \in {"down", "migrating", "refused"}
  /\ next \in Nat \ {0}
  /\ RowsNeverLost
  /\ Blocked(f)

Typed ==
  /\ stored \subseteq Row
  /\ slug \in [Albums -> Slug \cup {""}]
  /\ phase = "down" => next = 1
  /\ nulls \subseteq stored /\ \A r \in nulls : Home[r] = "photos"

IInv == Typed /\ \E f \in 1 .. 10 : applied = 1 .. f - 1 /\ (Fresh(f) \/ Stuck(f))

-------------------------------------------------------------------------------
(* The tables that the statement after the g-th changes, apart from those  *)
(* that it makes or drops; all others stay as they are.                    *)
Changes ==
  {<<"photos", 5>>, <<"photos", 6>>, <<"photos", 7>>, <<"photos", 8>>, <<"photos", 9>>,
   <<"albums", 12>>, <<"users", 13>>, <<"users_new", 17>>, <<"photos_new", 23>>,
   <<"albums_new", 27>>}

(* A table that the next statement leaves alone is as it was.               *)
LEMMA Stays ==
  ASSUME NEW g \in 0 .. 30, NEW t \in Names(g) \cap Names(g + 1), <<t, g>> \notin Changes
  PROVE  RowsAt(t, g + 1) = RowsAt(t, g) /\ ColsAt(t, g) \subseteq ColsAt(t, g + 1)
<1> USE DEF RowsAt, ColsAt, Cols, Changes
<1>1. CASE t = "users"
  BY <1>1 DEF Names, Lifetime
<1>2. CASE t = "photos"
  BY <1>2 DEF Names, Lifetime, PhotosSince
<1>3. CASE t = "albums"
  BY <1>3 DEF Names, Lifetime
<1>4. CASE t = "users_new"
  BY <1>4 DEF Names, Lifetime
<1>5. CASE t = "photos_new"
  BY <1>5 DEF Names, Lifetime
<1>6. CASE t = "albums_new"
  BY <1>6 DEF Names, Lifetime
<1>7. CASE t \notin {"users", "photos", "albums", "users_new", "photos_new", "albums_new"}
  BY <1>7
<1>8. QED
  BY <1>1, <1>2, <1>3, <1>4, <1>5, <1>6, <1>7

-------------------------------------------------------------------------------
(* What a statement does to a database as it is after g statements.        *)
Kept(g, h, S) == \A u \in S : RowsAt(u, h) = RowsAt(u, g) /\ ColsAt(u, g) \subseteq ColsAt(u, h)

Leads(s, h) == table' = Effect(s, table) /\ stored' = stored => After(h)'

(* The tables of S stay, and each of the others is as after h statements.   *)
LEMMA Reached ==
  ASSUME NEW g, NEW h, NEW S, After(g), stored' = stored, S \subseteq Names(g),
         Kept(g, h, S), DOMAIN table' = Names(h), \A u \in S : table'[u] = table[u],
         \A t \in Names(h) \ S : /\ table'[t] = [cols |-> table'[t].cols, rows |-> RowsAt(t, h)]
                                 /\ table'[t].cols \in ColsAt(t, h)
  PROVE  After(h)'
<1>1. \A t : RowsAt(t, h)' = RowsAt(t, h)
  BY DEF RowsAt, Own
<1>2. \A t \in S : /\ table'[t] = [cols |-> table'[t].cols, rows |-> RowsAt(t, h)]
                   /\ table'[t].cols \in ColsAt(t, h)
  BY DEF After, Kept
<1>3. QED
  BY <1>1, <1>2 DEF After

(* CREATE TABLE finds no table of that name, and makes it without rows.     *)
LEMMA CreateRuns ==
  ASSUME NEW g \in 0 .. 30, NEW h, h = g + 1, After(g), NEW t, NEW cols,
         t \notin Names(g), Names(h) = Names(g) \cup {t}, RowsAt(t, h) = {},
         cols \in ColsAt(t, h), \A u : <<u, g>> \notin Changes
  PROVE  Legal(CreateTable(t, cols), table) /\ Leads(CreateTable(t, cols), h)
<1>0. Kept(g, h, Names(g))
  BY Stays DEF Kept
<1>1. Legal(CreateTable(t, cols), table)
  BY DEF After, CreateTable, Legal, Exists
<1>2. ASSUME table' = Effect(CreateTable(t, cols), table), stored' = stored
      PROVE  After(h)'
  <2>1. table' = [u \in Names(g) \cup {t} |->
                    IF u = t THEN [cols |-> cols, rows |-> {}] ELSE table[u]]
    BY <1>2 DEF After, CreateTable, Effect, With
  <2>2. /\ DOMAIN table' = Names(h) /\ \A u \in Names(g) : table'[u] = table[u]
        /\ table'[t] = [cols |-> cols, rows |-> RowsAt(t, h)]
    BY <2>1
  <2>3. /\ table'[t] = [cols |-> table'[t].cols, rows |-> RowsAt(t, h)]
        /\ table'[t].cols \in ColsAt(t, h)
    BY <2>2
  <2>4. QED
    BY <1>0, <1>2, <2>2, <2>3, Reached
<1>3. QED
  BY <1>1, <1>2 DEF Leads

(* ADD COLUMN finds the table without the column.                           *)
LEMMA AddRuns ==
  ASSUME NEW g \in 0 .. 30, NEW h, h = g + 1, After(g), NEW t \in Names(g), NEW col,
         Names(h) = Names(g), RowsAt(t, h) = RowsAt(t, g),
         \A c \in ColsAt(t, g) : col \notin c /\ c \cup {col} \in ColsAt(t, h),
         \A u : <<u, g>> \in Changes => u = t
  PROVE  Legal(AddColumn(t, col), table) /\ Leads(AddColumn(t, col), h)
<1>0. Kept(g, h, Names(g) \ {t})
  BY Stays DEF Kept
<1>1. Legal(AddColumn(t, col), table)
  BY DEF After, AddColumn, Legal, Exists
<1>2. ASSUME table' = Effect(AddColumn(t, col), table), stored' = stored
      PROVE  After(h)'
  <2>1. table' = [table EXCEPT ![t].cols = table[t].cols \cup {col}]
    BY <1>2 DEF AddColumn, Effect
  <2>2. DOMAIN table' = Names(h) /\ \A u \in Names(g) \ {t} : table'[u] = table[u]
    BY <2>1 DEF After
  <2>3. /\ table'[t] = [cols |-> table'[t].cols, rows |-> RowsAt(t, h)]
        /\ table'[t].cols \in ColsAt(t, h)
    <3>1. table[t] = [cols |-> table[t].cols, rows |-> RowsAt(t, g)] /\ t \in DOMAIN table
      BY DEF After
    <3>2. PICK c : c = table[t].cols /\ table[t] = [cols |-> c, rows |-> RowsAt(t, g)]
      BY <3>1
    <3>3. table'[t] = [table[t] EXCEPT !.cols = c \cup {col}]
      BY <2>1, <3>1, <3>2
    <3>4. table'[t] = [cols |-> c \cup {col}, rows |-> RowsAt(t, g)]
      <4>1. \A d, R, e : [[cols |-> d, rows |-> R] EXCEPT !.cols = e] = [cols |-> e, rows |-> R]
        OBVIOUS
      <4>2. QED
        BY <3>2, <3>3, <4>1
    <3>5. QED
      BY <3>2, <3>4 DEF After
  <2>4. QED
    BY <1>0, <1>2, <2>2, <2>3, Reached
<1>3. QED
  BY <1>1, <1>2 DEF Leads

(* INSERT ... SELECT fills the copy with the rows of the table; it can fail *)
(* only where slugs are to differ or NULLs are forbidden.                   *)
LEMMA CopyRuns ==
  ASSUME NEW g \in 0 .. 30, NEW h, h = g + 1, After(g), NEW from \in Names(g),
         NEW t \in Names(g), from # t, NEW needs,
         Names(h) = Names(g), RowsAt(t, g) = {}, RowsAt(t, h) = RowsAt(from, g),
         ColsAt(t, g) \subseteq ColsAt(t, h), \A c \in ColsAt(from, g) : needs \subseteq c,
         \A u : <<u, g>> \in Changes => u = t
  PROVE  /\ /\ (\A c \in ColsAt(t, g) : "slug_unique" \notin c) \/ SlugsDiffer(RowsAt(from, g))
            /\ t = "photos_new" => RowsAt(from, g) \cap nulls = {}
            => Legal(Copy(from, t, needs), table)
         /\ Leads(Copy(from, t, needs), h)
<1>0. Kept(g, h, Names(g) \ {t})
  BY Stays DEF Kept
<1>1. ASSUME (\A c \in ColsAt(t, g) : "slug_unique" \notin c) \/ SlugsDiffer(RowsAt(from, g)),
             t = "photos_new" => RowsAt(from, g) \cap nulls = {}
      PROVE  Legal(Copy(from, t, needs), table)
  <2>1. /\ Exists(table, from) /\ Exists(table, t) /\ needs \subseteq table[from].cols
        /\ table[from].rows = RowsAt(from, g) /\ table[t].rows = {}
        /\ table[t].cols \in ColsAt(t, g)
    BY DEF After, Exists
  <2>2. QED
    BY <1>1, <2>1 DEF Copy, Legal
<1>2. ASSUME table' = Effect(Copy(from, t, needs), table), stored' = stored
      PROVE  After(h)'
  <2>1. table' = [table EXCEPT ![t].rows = table[t].rows \cup table[from].rows]
    BY <1>2 DEF Copy, Effect
  <2>2. table[t].rows \cup table[from].rows = RowsAt(t, h)
    BY DEF After
  <2>3. DOMAIN table' = Names(h) /\ \A u \in Names(g) \ {t} : table'[u] = table[u]
    BY <2>1 DEF After
  <2>4. /\ table'[t] = [cols |-> table'[t].cols, rows |-> RowsAt(t, h)]
        /\ table'[t].cols \in ColsAt(t, h)
    <3>1. table[t] = [cols |-> table[t].cols, rows |-> RowsAt(t, g)] /\ t \in DOMAIN table
      BY DEF After
    <3>2. table'[t] = [cols |-> table[t].cols, rows |-> RowsAt(t, h)]
      BY <2>1, <2>2, <3>1
    <3>3. QED
      BY <3>2 DEF After
  <2>5. QED
    BY <1>0, <1>2, <2>3, <2>4, Reached
<1>3. QED
  BY <1>1, <1>2 DEF Leads

(* With foreign keys off no row of another table goes.                     *)
LEMMA DropRuns ==
  ASSUME NEW g \in 0 .. 30, NEW h, h = g + 1, After(g), NEW t \in Names(g), ~fk,
         Names(h) = Names(g) \ {t}, \A u : <<u, g>> \notin Changes
  PROVE  Legal(DropTable(t), table) /\ Leads(DropTable(t), h)
<1>0. Kept(g, h, Names(h))
  BY Stays DEF Kept
<1>1. Legal(DropTable(t), table)
  BY DEF After, DropTable, Legal, Exists
<1>2. ASSUME table' = Effect(DropTable(t), table), stored' = stored
      PROVE  After(h)'
  <2>1. table' = [u \in Names(g) \ {t} |-> table[u]]
    BY <1>2 DEF After, DropTable, Effect, Dropped, Restrict
  <2>2. QED
    BY <1>0, <1>2, <2>1, Reached
<1>3. QED
  BY <1>1, <1>2 DEF Leads

(* RENAME TO finds the old name free.                                       *)
LEMMA RenameRuns ==
  ASSUME NEW g \in 0 .. 30, NEW h, h = g + 1, After(g), NEW from \in Names(g), NEW t,
         t \notin Names(g),
         Names(h) = (Names(g) \ {from}) \cup {t}, RowsAt(t, h) = RowsAt(from, g),
         ColsAt(from, g) \subseteq ColsAt(t, h), \A u : <<u, g>> \notin Changes
  PROVE  Legal(RenameTable(from, t), table) /\ Leads(RenameTable(from, t), h)
<1>0. Kept(g, h, Names(g) \ {from})
  BY Stays DEF Kept
<1>1. Legal(RenameTable(from, t), table)
  BY DEF After, RenameTable, Legal, Exists
<1>2. ASSUME table' = Effect(RenameTable(from, t), table), stored' = stored
      PROVE  After(h)'
  <2>1. table' = [u \in (Names(g) \ {from}) \cup {t} |->
                    IF u = t THEN table[from] ELSE [v \in Names(g) \ {from} |-> table[v]][u]]
    BY <1>2 DEF After, RenameTable, Effect, With, Restrict
  <2>2. /\ DOMAIN table' = Names(h) /\ table'[t] = table[from]
        /\ \A u \in Names(g) \ {from} : table'[u] = table[u]
    BY <2>1
  <2>3. table[from] = [cols |-> table[from].cols, rows |-> RowsAt(t, h)]
        /\ table[from].cols \in ColsAt(t, h)
    BY DEF After
  <2>4. QED
    BY <1>0, <1>2, <2>2, <2>3, Reached
<1>3. QED
  BY <1>1, <1>2 DEF Leads

(* A PRAGMA changes no table.                                               *)
LEMMA PragmaRuns ==
  ASSUME NEW g \in 0 .. 30, NEW h, h = g + 1, After(g), Names(h) = Names(g),
         \A u : <<u, g>> \notin Changes, NEW s, s.op = "pragma"
  PROVE  Legal(s, table) /\ Leads(s, h)
<1>1. Kept(g, h, Names(g))
  BY Stays DEF Kept
<1>2. Legal(s, table) /\ Effect(s, table) = table
  BY DEF Legal, Effect
<1>3. ASSUME table' = table, stored' = stored
      PROVE  After(h)'
  <2>1. DOMAIN table' = Names(h)
    BY <1>3 DEF After
  <2>2. QED
    BY <1>1, <1>3, <2>1, Reached
<1>4. QED
  BY <1>2, <1>3 DEF Leads

-------------------------------------------------------------------------------
(* The statements of each file, one after the other.                       *)
(* A table that a release does not have yet has no rows.                    *)
LEMMA HomesOnly ==
  ASSUME NEW k, HomesIn(k), NEW t, t \notin Tables(k)
  PROVE  Own(t) = {}
  BY DEF HomesIn, Own

LEMMA InitialSchemaRuns ==
  ASSUME NEW n \in 1 .. 5, After(n - 1), HomesIn(0)
  PROVE  Legal(InitialSchema[n], table) /\ Leads(InitialSchema[n], n)
<1>1. \A t \in {"users", "sessions", "photos", "tags", "photo_tags"} : Own(t) = {}
  BY HomesOnly DEF Tables, FirstRelease
<1>2. CASE n = 1
  <2>1. /\ InitialSchema[1] = CreateTable("users", {"email"})
        /\ "users" \notin Names(0) /\ Names(1) = Names(0) \cup {"users"}
        /\ RowsAt("users", 1) = {} /\ {"email"} \in ColsAt("users", 1)
    BY <1>1 DEF InitialSchema, CreateTable, Names, Lifetime, RowsAt, ColsAt, Cols
  <2>2. QED
    BY <1>2, <2>1, CreateRuns DEF Changes
<1>3. CASE n = 2
  <2>1. /\ InitialSchema[2] = CreateTable("sessions", {})
        /\ "sessions" \notin Names(1) /\ Names(2) = Names(1) \cup {"sessions"}
        /\ RowsAt("sessions", 2) = {} /\ {} \in ColsAt("sessions", 2)
    BY <1>1 DEF InitialSchema, CreateTable, Names, Lifetime, RowsAt, ColsAt, Cols
  <2>2. QED
    BY <1>3, <2>1, CreateRuns DEF Changes
<1>4. CASE n = 3
  <2>1. /\ InitialSchema[3] = CreateTable("photos", {})
        /\ "photos" \notin Names(2) /\ Names(3) = Names(2) \cup {"photos"}
        /\ RowsAt("photos", 3) = {} /\ {} \in ColsAt("photos", 3)
    BY <1>1 DEF InitialSchema, CreateTable, Names, Lifetime, RowsAt, ColsAt, Cols, PhotosSince
  <2>2. QED
    BY <1>4, <2>1, CreateRuns DEF Changes
<1>5. CASE n = 4
  <2>1. /\ InitialSchema[4] = CreateTable("tags", {})
        /\ "tags" \notin Names(3) /\ Names(4) = Names(3) \cup {"tags"}
        /\ RowsAt("tags", 4) = {} /\ {} \in ColsAt("tags", 4)
    BY <1>1 DEF InitialSchema, CreateTable, Names, Lifetime, RowsAt, ColsAt, Cols
  <2>2. QED
    BY <1>5, <2>1, CreateRuns DEF Changes
<1>6. CASE n = 5
  <2>1. /\ InitialSchema[5] = CreateTable("photo_tags", {})
        /\ "photo_tags" \notin Names(4) /\ Names(5) = Names(4) \cup {"photo_tags"}
        /\ RowsAt("photo_tags", 5) = {} /\ {} \in ColsAt("photo_tags", 5)
    BY <1>1 DEF InitialSchema, CreateTable, Names, Lifetime, RowsAt, ColsAt, Cols
  <2>2. QED
    BY <1>6, <2>1, CreateRuns DEF Changes
<1>7. QED
  BY <1>2, <1>3, <1>4, <1>5, <1>6

LEMMA PhotoRawFieldsRuns ==
  ASSUME NEW n \in 1 .. 2, After(4 + n)
  PROVE  Legal(PhotoRawFields[n], table) /\ Leads(PhotoRawFields[n], 5 + n)
<1>1. CASE n = 1
  <2>1. /\ PhotoRawFields[1] = AddColumn("photos", "is_raw")
        /\ "photos" \in Names(5) /\ Names(6) = Names(5)
        /\ RowsAt("photos", 6) = RowsAt("photos", 5)
        /\ \A c \in ColsAt("photos", 5) :
             "is_raw" \notin c /\ c \cup {"is_raw"} \in ColsAt("photos", 6)
    BY DEF PhotoRawFields, AddColumn, Names, Lifetime, RowsAt, ColsAt, Cols, PhotosSince
  <2>2. QED
    BY <1>1, <2>1, AddRuns DEF Changes
<1>2. CASE n = 2
  <2>1. /\ PhotoRawFields[2] = AddColumn("photos", "raw_partner_id")
        /\ "photos" \in Names(6) /\ Names(7) = Names(6)
        /\ RowsAt("photos", 7) = RowsAt("photos", 6)
        /\ \A c \in ColsAt("photos", 6) :
             "raw_partner_id" \notin c /\ c \cup {"raw_partner_id"} \in ColsAt("photos", 7)
    BY DEF PhotoRawFields, AddColumn, Names, Lifetime, RowsAt, ColsAt, Cols, PhotosSince
  <2>2. QED
    BY <1>2, <2>1, AddRuns DEF Changes
<1>3. QED
  BY <1>1, <1>2

LEMMA PhotoFileTypeRuns ==
  ASSUME After(7)
  PROVE  Legal(PhotoFileType[1], table) /\ Leads(PhotoFileType[1], 8)
<1>1. /\ PhotoFileType[1] = AddColumn("photos", "file_type")
      /\ "photos" \in Names(7) /\ Names(8) = Names(7) /\ RowsAt("photos", 8) = RowsAt("photos", 7)
      /\ \A c \in ColsAt("photos", 7) :
           "file_type" \notin c /\ c \cup {"file_type"} \in ColsAt("photos", 8)
  BY DEF PhotoFileType, AddColumn, Names, Lifetime, RowsAt, ColsAt, Cols, PhotosSince
<1>2. \A u : <<u, 7>> \in Changes => u = "photos"
  BY DEF Changes
<1>3. 8 = 7 + 1 /\ 7 \in 0 .. 30
  OBVIOUS
<1>4. QED
  BY <1>1, <1>2, <1>3, AddRuns

LEMMA PublishedAndThumbRuns ==
  ASSUME NEW n \in 1 .. 2, After(7 + n)
  PROVE  Legal(PublishedAndThumb[n], table) /\ Leads(PublishedAndThumb[n], 8 + n)
<1>1. CASE n = 1
  <2>1. /\ PublishedAndThumb[1] = AddColumn("photos", "published")
        /\ "photos" \in Names(8) /\ Names(9) = Names(8)
        /\ RowsAt("photos", 9) = RowsAt("photos", 8)
        /\ \A c \in ColsAt("photos", 8) :
             "published" \notin c /\ c \cup {"published"} \in ColsAt("photos", 9)
    BY DEF PublishedAndThumb, AddColumn, Names, Lifetime, RowsAt, ColsAt, Cols, PhotosSince
  <2>2. QED
    BY <1>1, <2>1, AddRuns DEF Changes
<1>2. CASE n = 2
  <2>1. /\ PublishedAndThumb[2] = AddColumn("photos", "thumb_path")
        /\ "photos" \in Names(9) /\ Names(10) = Names(9)
        /\ RowsAt("photos", 10) = RowsAt("photos", 9)
        /\ \A c \in ColsAt("photos", 9) :
             "thumb_path" \notin c /\ c \cup {"thumb_path"} \in ColsAt("photos", 10)
    BY DEF PublishedAndThumb, AddColumn, Names, Lifetime, RowsAt, ColsAt, Cols, PhotosSince
  <2>2. QED
    BY <1>2, <2>1, AddRuns DEF Changes
<1>3. QED
  BY <1>1, <1>2

LEMMA AlbumTablesRuns ==
  ASSUME NEW n \in 1 .. 2, After(9 + n), HomesIn(4)
  PROVE  Legal(AlbumTables[n], table) /\ Leads(AlbumTables[n], 10 + n)
<1>1. \A t \in {"albums", "album_photos"} : Own(t) = {}
  BY HomesOnly DEF Tables, FirstRelease
<1>2. CASE n = 1
  <2>1. /\ AlbumTables[1] = CreateTable("albums", {})
        /\ "albums" \notin Names(10) /\ Names(11) = Names(10) \cup {"albums"}
        /\ RowsAt("albums", 11) = {} /\ {} \in ColsAt("albums", 11)
    BY <1>1 DEF AlbumTables, CreateTable, Names, Lifetime, RowsAt, ColsAt, Cols
  <2>2. QED
    BY <1>2, <2>1, CreateRuns DEF Changes
<1>3. CASE n = 2
  <2>1. /\ AlbumTables[2] = CreateTable("album_photos", {})
        /\ "album_photos" \notin Names(11) /\ Names(12) = Names(11) \cup {"album_photos"}
        /\ RowsAt("album_photos", 12) = {} /\ {} \in ColsAt("album_photos", 12)
    BY <1>1 DEF AlbumTables, CreateTable, Names, Lifetime, RowsAt, ColsAt, Cols
  <2>2. QED
    BY <1>3, <2>1, CreateRuns DEF Changes
<1>4. QED
  BY <1>2, <1>3

LEMMA AlbumSlugsRuns ==
  ASSUME After(12)
  PROVE  Legal(AlbumSlugs[1], table) /\ Leads(AlbumSlugs[1], 13)
<1>1. /\ AlbumSlugs[1] = AddColumn("albums", "slug")
      /\ "albums" \in Names(12) /\ Names(13) = Names(12)
      /\ RowsAt("albums", 13) = RowsAt("albums", 12)
      /\ \A c \in ColsAt("albums", 12) :
           "slug" \notin c /\ c \cup {"slug"} \in ColsAt("albums", 13)
  BY DEF AlbumSlugs, AddColumn, Names, Lifetime, RowsAt, ColsAt, Cols
<1>2. \A u : <<u, 12>> \in Changes => u = "albums"
  BY DEF Changes
<1>3. 13 = 12 + 1 /\ 12 \in 0 .. 30
  OBVIOUS
<1>4. QED
  BY <1>1, <1>2, <1>3, AddRuns

LEMMA UsersAdminInvitesRuns ==
  ASSUME NEW n \in 1 .. 2, After(12 + n), HomesIn(6)
  PROVE  Legal(UsersAdminInvites[n], table) /\ Leads(UsersAdminInvites[n], 13 + n)
<1>1. Own("invites") = {}
  BY HomesOnly DEF Tables, FirstRelease
<1>2. CASE n = 1
  <2>1. /\ UsersAdminInvites[1] = AddColumn("users", "is_admin")
        /\ "users" \in Names(13) /\ Names(14) = Names(13)
        /\ RowsAt("users", 14) = RowsAt("users", 13)
        /\ \A c \in ColsAt("users", 13) :
             "is_admin" \notin c /\ c \cup {"is_admin"} \in ColsAt("users", 14)
    BY DEF UsersAdminInvites, AddColumn, Names, Lifetime, RowsAt, ColsAt, Cols
  <2>2. QED
    BY <1>2, <2>1, AddRuns DEF Changes
<1>3. CASE n = 2
  <2>1. /\ UsersAdminInvites[2] = CreateTable("invites", {})
        /\ "invites" \notin Names(14) /\ Names(15) = Names(14) \cup {"invites"}
        /\ RowsAt("invites", 15) = {} /\ {} \in ColsAt("invites", 15)
    BY <1>1 DEF UsersAdminInvites, CreateTable, Names, Lifetime, RowsAt, ColsAt, Cols
  <2>2. QED
    BY <1>3, <2>1, CreateRuns DEF Changes
<1>4. QED
  BY <1>2, <1>3

LEMMA UserNamesRuns ==
  ASSUME NEW n \in 1 .. 6, After(14 + n), n > 1 => ~fk
  PROVE  Legal(UserNames[n], table) /\ Leads(UserNames[n], 15 + n)
<1>1. CASE n = 1
  <2>1. UserNames[1].op = "pragma" /\ Names(16) = Names(15)
    BY DEF UserNames, ForeignKeys, Names, Lifetime
  <2>2. QED
    BY <1>1, <2>1, PragmaRuns DEF Changes
<1>2. CASE n = 2
  <2>1. /\ UserNames[2] = CreateTable("users_new", NewUsers)
        /\ "users_new" \notin Names(16) /\ Names(17) = Names(16) \cup {"users_new"}
        /\ RowsAt("users_new", 17) = {} /\ NewUsers \in ColsAt("users_new", 17)
    BY DEF UserNames, CreateTable, Names, Lifetime, RowsAt, ColsAt, Cols, NewUsers
  <2>2. QED
    BY <1>2, <2>1, CreateRuns DEF Changes
<1>3. CASE n = 3
  <2>1. /\ UserNames[3] = Copy("users", "users_new", {"is_admin"})
        /\ {"users", "users_new"} \subseteq Names(17) /\ Names(18) = Names(17)
        /\ RowsAt("users_new", 17) = {} /\ RowsAt("users_new", 18) = RowsAt("users", 17)
        /\ ColsAt("users_new", 17) \subseteq ColsAt("users_new", 18)
        /\ \A c \in ColsAt("users", 17) : {"is_admin"} \subseteq c
        /\ \A c \in ColsAt("users_new", 17) : "slug_unique" \notin c
    BY DEF UserNames, Copy, Names, Lifetime, RowsAt, ColsAt, Cols, NewUsers, NewPhotos, NewAlbums
  <2>2. QED
    BY <1>3, <2>1, CopyRuns DEF Changes
<1>4. CASE n = 4
  <2>1. /\ UserNames[4] = DropTable("users")
        /\ "users" \in Names(18) /\ Names(19) = Names(18) \ {"users"}
    BY DEF UserNames, DropTable, Names, Lifetime
  <2>2. QED
    BY <1>4, <2>1, DropRuns DEF Changes
<1>5. CASE n = 5
  <2>1. /\ UserNames[5] = RenameTable("users_new", "users")
        /\ "users_new" \in Names(19) /\ "users" \notin Names(19)
        /\ Names(20) = (Names(19) \ {"users_new"}) \cup {"users"}
        /\ RowsAt("users", 20) = RowsAt("users_new", 19)
        /\ ColsAt("users_new", 19) \subseteq ColsAt("users", 20)
    BY DEF UserNames, RenameTable, Names, Lifetime, RowsAt, ColsAt, Cols
  <2>2. QED
    BY <1>5, <2>1, RenameRuns DEF Changes
<1>6. CASE n = 6
  <2>1. UserNames[6].op = "pragma" /\ Names(21) = Names(20)
    BY DEF UserNames, ForeignKeys, Names, Lifetime
  <2>2. QED
    BY <1>6, <2>1, PragmaRuns DEF Changes
<1>7. QED
  BY <1>1, <1>2, <1>3, <1>4, <1>5, <1>6

LEMMA VisibilityEnumRuns ==
  ASSUME NEW n \in 1 .. 10, After(20 + n), n > 1 => ~fk
  PROVE  /\ /\ n = 3 => Own("photos") \cap nulls = {}
            /\ n = 7 => SlugsDiffer(Own("albums"))
            => Legal(VisibilityEnum[n], table)
         /\ Leads(VisibilityEnum[n], 21 + n)
<1>1. CASE n = 1
  <2>1. VisibilityEnum[1].op = "pragma" /\ Names(22) = Names(21)
    BY DEF VisibilityEnum, ForeignKeys, Names, Lifetime
  <2>2. QED
    BY <1>1, <2>1, PragmaRuns DEF Changes
<1>2. CASE n = 2
  <2>1. /\ VisibilityEnum[2] = CreateTable("photos_new", NewPhotos)
        /\ "photos_new" \notin Names(22) /\ Names(23) = Names(22) \cup {"photos_new"}
        /\ RowsAt("photos_new", 23) = {} /\ NewPhotos \in ColsAt("photos_new", 23)
    BY DEF VisibilityEnum, CreateTable, Names, Lifetime, RowsAt, ColsAt, Cols, NewPhotos
  <2>2. QED
    BY <1>2, <2>1, CreateRuns DEF Changes
<1>3. CASE n = 3
  <2>1. /\ VisibilityEnum[3] =
             Copy("photos", "photos_new", {"file_type", "is_raw", "raw_partner_id",
                                           "published", "thumb_path"})
        /\ {"photos", "photos_new"} \subseteq Names(23) /\ Names(24) = Names(23)
        /\ RowsAt("photos_new", 23) = {} /\ RowsAt("photos_new", 24) = RowsAt("photos", 23)
        /\ RowsAt("photos", 23) = Own("photos")
        /\ ColsAt("photos_new", 23) \subseteq ColsAt("photos_new", 24)
        /\ \A c \in ColsAt("photos", 23) : {"file_type", "is_raw", "raw_partner_id", "published",
                                    "thumb_path"} \subseteq c
        /\ \A c \in ColsAt("photos_new", 23) : "slug_unique" \notin c
    BY DEF VisibilityEnum, Copy, Names, Lifetime, RowsAt, ColsAt, Cols, NewUsers,
           NewPhotos, NewAlbums, PhotosSince
  <2>2. QED
    BY <1>3, <2>1, CopyRuns DEF Changes
<1>4. CASE n = 4
  <2>1. /\ VisibilityEnum[4] = DropTable("photos")
        /\ "photos" \in Names(24) /\ Names(25) = Names(24) \ {"photos"}
    BY DEF VisibilityEnum, DropTable, Names, Lifetime
  <2>2. QED
    BY <1>4, <2>1, DropRuns DEF Changes
<1>5. CASE n = 5
  <2>1. /\ VisibilityEnum[5] = RenameTable("photos_new", "photos")
        /\ "photos_new" \in Names(25) /\ "photos" \notin Names(25)
        /\ Names(26) = (Names(25) \ {"photos_new"}) \cup {"photos"}
        /\ RowsAt("photos", 26) = RowsAt("photos_new", 25)
        /\ ColsAt("photos_new", 25) \subseteq ColsAt("photos", 26)
    BY DEF VisibilityEnum, RenameTable, Names, Lifetime, RowsAt, ColsAt, Cols
  <2>2. QED
    BY <1>5, <2>1, RenameRuns DEF Changes
<1>6. CASE n = 6
  <2>1. /\ VisibilityEnum[6] = CreateTable("albums_new", NewAlbums)
        /\ "albums_new" \notin Names(26) /\ Names(27) = Names(26) \cup {"albums_new"}
        /\ RowsAt("albums_new", 27) = {} /\ NewAlbums \in ColsAt("albums_new", 27)
    BY DEF VisibilityEnum, CreateTable, Names, Lifetime, RowsAt, ColsAt, Cols, NewAlbums
  <2>2. QED
    BY <1>6, <2>1, CreateRuns DEF Changes
<1>7. CASE n = 7
  <2>1. /\ VisibilityEnum[7] = Copy("albums", "albums_new", {"slug"})
        /\ {"albums", "albums_new"} \subseteq Names(27) /\ Names(28) = Names(27)
        /\ RowsAt("albums_new", 27) = {} /\ RowsAt("albums_new", 28) = RowsAt("albums", 27)
        /\ ColsAt("albums_new", 27) \subseteq ColsAt("albums_new", 28)
        /\ \A c \in ColsAt("albums", 27) : {"slug"} \subseteq c
        /\ RowsAt("albums", 27) = Own("albums")
    BY DEF VisibilityEnum, Copy, Names, Lifetime, RowsAt, ColsAt, Cols, NewUsers,
           NewPhotos, NewAlbums
  <2>2. QED
    BY <1>7, <2>1, CopyRuns DEF Changes
<1>8. CASE n = 8
  <2>1. /\ VisibilityEnum[8] = DropTable("albums")
        /\ "albums" \in Names(28) /\ Names(29) = Names(28) \ {"albums"}
    BY DEF VisibilityEnum, DropTable, Names, Lifetime
  <2>2. QED
    BY <1>8, <2>1, DropRuns DEF Changes
<1>9. CASE n = 9
  <2>1. /\ VisibilityEnum[9] = RenameTable("albums_new", "albums")
        /\ "albums_new" \in Names(29) /\ "albums" \notin Names(29)
        /\ Names(30) = (Names(29) \ {"albums_new"}) \cup {"albums"}
        /\ RowsAt("albums", 30) = RowsAt("albums_new", 29)
        /\ ColsAt("albums_new", 29) \subseteq ColsAt("albums", 30)
    BY DEF VisibilityEnum, RenameTable, Names, Lifetime, RowsAt, ColsAt, Cols
  <2>2. QED
    BY <1>9, <2>1, RenameRuns DEF Changes
<1>10. CASE n = 10
  <2>1. VisibilityEnum[10].op = "pragma" /\ Names(31) = Names(30)
    BY DEF VisibilityEnum, ForeignKeys, Names, Lifetime
  <2>2. QED
    BY <1>10, <2>1, PragmaRuns DEF Changes
<1>11. QED
  BY <1>1, <1>2, <1>3, <1>4, <1>5, <1>6, <1>7, <1>8, <1>9, <1>10
-------------------------------------------------------------------------------
(* Which file is at work, and what its statements do.                      *)
LEMMA FilesAre ==
  /\ DOMAIN Files = 1 .. 9 /\ Len(Files) = 9
  /\ Files[1] = InitialSchema /\ Len(Files[1]) = 5
  /\ Files[2] = PhotoRawFields /\ Len(Files[2]) = 2
  /\ Files[3] = PhotoFileType /\ Len(Files[3]) = 1
  /\ Files[4] = PublishedAndThumb /\ Len(Files[4]) = 2
  /\ Files[5] = AlbumTables /\ Len(Files[5]) = 2
  /\ Files[6] = AlbumSlugs /\ Len(Files[6]) = 1
  /\ Files[7] = UsersAdminInvites /\ Len(Files[7]) = 2
  /\ Files[8] = UserNames /\ Len(Files[8]) = 6
  /\ Files[9] = VisibilityEnum /\ Len(Files[9]) = 10
<1>1. /\ Len(InitialSchema) = 5 /\ Len(PhotoRawFields) = 2 /\ Len(PhotoFileType) = 1
      /\ Len(PublishedAndThumb) = 2 /\ Len(AlbumTables) = 2 /\ Len(AlbumSlugs) = 1
      /\ Len(UsersAdminInvites) = 2 /\ Len(UserNames) = 6 /\ Len(VisibilityEnum) = 10
  BY DEF InitialSchema, PhotoRawFields, PhotoFileType, PublishedAndThumb, AlbumTables,
         AlbumSlugs, UsersAdminInvites, UserNames, VisibilityEnum
<1>2. QED
  BY <1>1 DEF Files

LEMMA Sizes ==
  /\ Size(1) = 5 /\ Size(2) = 2 /\ Size(3) = 1 /\ Size(4) = 2 /\ Size(5) = 2 /\ Size(6) = 1
  /\ Size(7) = 2 /\ Size(8) = 6 /\ Size(9) = 10
  BY FilesAre DEF Size

LEMMA BeforeIs ==
  /\ Before[1] = 0 /\ Before[2] = 5 /\ Before[3] = 7 /\ Before[4] = 8 /\ Before[5] = 10
  /\ Before[6] = 12 /\ Before[7] = 13 /\ Before[8] = 15 /\ Before[9] = 21 /\ Before[10] = 31
  BY DEF Before

(* Where a file begins and ends, and that foreign keys are on at both ends. *)
LEMMA Bounds ==
  ASSUME NEW f \in 1 .. 9
  PROVE  /\ Size(f) \in Nat /\ Size(f) >= 1 /\ Before[f] \in Nat /\ Before[f] <= 21
         /\ Before[f + 1] = Before[f] + Size(f) /\ Before[f + 1] \in Nat /\ Before[f + 1] <= 31
         /\ Before[f] \notin Unenforced /\ Before[f + 1] \notin Unenforced
         /\ (f < 9 => Before[f + 1] <= 21) /\ (f < 8 => Before[f] + Size(f) <= 15)
<1>1. CASE f = 1
  <2>1. f + 1 = 2
    BY <1>1
  <2>2. QED
    BY <1>1, <2>1, FilesAre, BeforeIs, Sizes DEF Unenforced
<1>2. CASE f = 2
  <2>1. f + 1 = 3
    BY <1>2
  <2>2. QED
    BY <1>2, <2>1, FilesAre, BeforeIs, Sizes DEF Unenforced
<1>3. CASE f = 3
  <2>1. f + 1 = 4
    BY <1>3
  <2>2. QED
    BY <1>3, <2>1, FilesAre, BeforeIs, Sizes DEF Unenforced
<1>4. CASE f = 4
  <2>1. f + 1 = 5
    BY <1>4
  <2>2. QED
    BY <1>4, <2>1, FilesAre, BeforeIs, Sizes DEF Unenforced
<1>5. CASE f = 5
  <2>1. f + 1 = 6
    BY <1>5
  <2>2. QED
    BY <1>5, <2>1, FilesAre, BeforeIs, Sizes DEF Unenforced
<1>6. CASE f = 6
  <2>1. f + 1 = 7
    BY <1>6
  <2>2. QED
    BY <1>6, <2>1, FilesAre, BeforeIs, Sizes DEF Unenforced
<1>7. CASE f = 7
  <2>1. f + 1 = 8
    BY <1>7
  <2>2. QED
    BY <1>7, <2>1, FilesAre, BeforeIs, Sizes DEF Unenforced
<1>8. CASE f = 8
  <2>1. f + 1 = 9
    BY <1>8
  <2>2. QED
    BY <1>8, <2>1, FilesAre, BeforeIs, Sizes DEF Unenforced
<1>9. CASE f = 9
  <2>1. f + 1 = 10
    BY <1>9
  <2>2. QED
    BY <1>9, <2>1, FilesAre, BeforeIs, Sizes DEF Unenforced
<1>10. QED
  BY <1>1, <1>2, <1>3, <1>4, <1>5, <1>6, <1>7, <1>8, <1>9

(* With the files before f applied, f is the file at work.                  *)
LEMMA AtWork ==
  ASSUME NEW f \in 1 .. 10, applied = 1 .. f - 1
  PROVE  /\ Pending # {} <=> f # 10
         /\ f # 10 => Min(Pending) = f /\ File = Files[f] /\ applied \cup {f} = 1 .. (f + 1) - 1
<1>1. Pending = f .. 9
  BY FilesAre DEF Pending
<1>2. ASSUME f # 10
      PROVE  Min(Pending) = f
  <2>1. /\ f \in Pending /\ \A q \in Pending : f <= q
        /\ \A m \in Pending : (\A q \in Pending : m <= q) => m = f
    BY <1>1, <1>2
  <2>2. QED
    BY <2>1 DEF Min
<1>3. QED
  BY <1>1, <1>2 DEF File

(* On a fresh database each statement is legal if the rows that file 9      *)
(* copies are fit, and leads on.                                            *)
Allowed(g) == /\ g = 23 => Own("photos") \cap nulls = {}
              /\ g = 27 => SlugsDiffer(Own("albums"))

LEMMA StatementRuns ==
  ASSUME NEW f \in 1 .. 9, NEW n \in 1 .. Size(f), NEW g, g = Before[f] + n - 1,
         After(g), HomesIn(f - 1), fk <=> g \notin Unenforced
  PROVE  /\ Allowed(g) => Legal(Files[f][n], table)
         /\ Leads(Files[f][n], g + 1)
<1>1. CASE f = 1
  <2>1. Files[f] = InitialSchema /\ f - 1 = 0 /\ n \in 1 .. 5 /\ g = n - 1 /\ g + 1 = n
    BY <1>1, FilesAre, BeforeIs, Sizes
  <2>2. QED
    BY <1>1, <2>1, InitialSchemaRuns
<1>2. CASE f = 2
  <2>1. Files[f] = PhotoRawFields /\ n \in 1 .. 2 /\ g = 4 + n /\ g + 1 = 5 + n
    BY <1>2, FilesAre, BeforeIs, Sizes
  <2>2. QED
    BY <1>2, <2>1, PhotoRawFieldsRuns
<1>3. CASE f = 3
  <2>1. Files[f] = PhotoFileType /\ n = 1 /\ g = 7
    BY <1>3, FilesAre, BeforeIs, Sizes
  <2>2. QED
    BY <1>3, <2>1, PhotoFileTypeRuns
<1>4. CASE f = 4
  <2>1. Files[f] = PublishedAndThumb /\ n \in 1 .. 2 /\ g = 7 + n /\ g + 1 = 8 + n
    BY <1>4, FilesAre, BeforeIs, Sizes
  <2>2. QED
    BY <1>4, <2>1, PublishedAndThumbRuns
<1>5. CASE f = 5
  <2>1. Files[f] = AlbumTables /\ f - 1 = 4 /\ n \in 1 .. 2 /\ g = 9 + n /\ g + 1 = 10 + n
    BY <1>5, FilesAre, BeforeIs, Sizes
  <2>2. QED
    BY <1>5, <2>1, AlbumTablesRuns
<1>6. CASE f = 6
  <2>1. Files[f] = AlbumSlugs /\ n = 1 /\ g = 12
    BY <1>6, FilesAre, BeforeIs, Sizes
  <2>2. QED
    BY <1>6, <2>1, AlbumSlugsRuns
<1>7. CASE f = 7
  <2>1. Files[f] = UsersAdminInvites /\ f - 1 = 6 /\ n \in 1 .. 2 /\ g = 12 + n /\ g + 1 = 13 + n
    BY <1>7, FilesAre, BeforeIs, Sizes
  <2>2. QED
    BY <1>7, <2>1, UsersAdminInvitesRuns
<1>8. CASE f = 8
  <2>1. /\ Files[f] = UserNames /\ n \in 1 .. 6 /\ g = 14 + n /\ g + 1 = 15 + n
        /\ n > 1 => g \in Unenforced
    BY <1>8, FilesAre, BeforeIs, Sizes DEF Unenforced
  <2>2. QED
    BY <1>8, <2>1, UserNamesRuns
<1>9. CASE f = 9
  <2>1. /\ Files[f] = VisibilityEnum /\ n \in 1 .. 10 /\ g = 20 + n /\ g + 1 = 21 + n
        /\ (n > 1 => g \in Unenforced) /\ (n = 3 <=> g = 23) /\ (n = 7 <=> g = 27)
    BY <1>9, FilesAre, BeforeIs, Sizes DEF Unenforced
  <2>2. QED
    BY <1>9, <2>1, VisibilityEnumRuns DEF Allowed
<1>10. QED
  BY <1>1, <1>2, <1>3, <1>4, <1>5, <1>6, <1>7, <1>8, <1>9

LEMMA Early ==
  ASSUME NEW b \in Nat, NEW l \in Nat, b + l <= 15, NEW n \in 1 .. l, NEW g, g = b + n - 1
  PROVE  g \notin Unenforced /\ g + 1 \notin Unenforced
<1>1. g \in Nat /\ g <= 14
  OBVIOUS
<1>2. QED
  BY <1>1 DEF Unenforced

(* PRAGMA foreign_keys, before and after each statement.                   *)
LEMMA Enforcement ==
  ASSUME NEW f \in 1 .. 9, NEW n \in 1 .. Size(f), NEW g, g = Before[f] + n - 1,
         fk <=> g \notin Unenforced
  PROVE  LET s == Files[f][n]
         IN  (IF s.op = "pragma" THEN s.on ELSE fk) <=> g + 1 \notin Unenforced
<1> DEFINE s == Files[f][n]
<1> SUFFICES (IF s.op = "pragma" THEN s.on ELSE fk) <=> g + 1 \notin Unenforced
  OBVIOUS
<1>1. CASE f < 8
  <2>1. s.op # "pragma"
    <3>1. CASE f = 1
      BY <1>1, <3>1, FilesAre, Sizes DEF InitialSchema, CreateTable, AddColumn
    <3>2. CASE f = 2
      BY <1>1, <3>2, FilesAre, Sizes DEF PhotoRawFields, CreateTable, AddColumn
    <3>3. CASE f = 3
      BY <1>1, <3>3, FilesAre, Sizes DEF PhotoFileType, CreateTable, AddColumn
    <3>4. CASE f = 4
      BY <1>1, <3>4, FilesAre, Sizes DEF PublishedAndThumb, CreateTable, AddColumn
    <3>5. CASE f = 5
      BY <1>1, <3>5, FilesAre, Sizes DEF AlbumTables, CreateTable, AddColumn
    <3>6. CASE f = 6
      BY <1>1, <3>6, FilesAre, Sizes DEF AlbumSlugs, CreateTable, AddColumn
    <3>7. CASE f = 7
      BY <1>1, <3>7, FilesAre, Sizes DEF UsersAdminInvites, CreateTable, AddColumn
    <3>8. QED
      BY <1>1, <3>1, <3>2, <3>3, <3>4, <3>5, <3>6, <3>7
  <2>2. g \notin Unenforced /\ g + 1 \notin Unenforced
    <3>1. Before[f] \in Nat /\ Size(f) \in Nat /\ Before[f] + Size(f) <= 15
      BY <1>1, Bounds
    <3>2. QED
      BY <3>1, Early
  <2>3. QED
    BY <2>1, <2>2
<1>2. CASE f = 8
  <2>1. n \in 1 .. 6 /\ g = 14 + n /\ Files[f] = UserNames
    BY <1>2, FilesAre, BeforeIs, Sizes
  <2>2. CASE n = 1
    <3>1. s = ForeignKeys(FALSE) /\ g + 1 \in Unenforced
      BY <1>2, <2>1, <2>2 DEF UserNames, Unenforced
    <3>2. QED
      BY <3>1 DEF ForeignKeys
  <2>3. CASE n = 6
    <3>1. s = ForeignKeys(TRUE) /\ g + 1 \notin Unenforced
      BY <1>2, <2>1, <2>3 DEF UserNames, Unenforced
    <3>2. QED
      BY <3>1 DEF ForeignKeys
  <2>4. CASE n \in 2 .. 5
    <3>1. s.op # "pragma"
      BY <1>2, <2>1, <2>4 DEF UserNames, CreateTable, Copy, DropTable, RenameTable
    <3>2. g \in Unenforced /\ g + 1 \in Unenforced
      BY <2>1, <2>4 DEF Unenforced
    <3>3. QED
      BY <3>1, <3>2
  <2>5. QED
    BY <2>1, <2>2, <2>3, <2>4
<1>3. CASE f = 9
  <2>1. n \in 1 .. 10 /\ g = 20 + n /\ Files[f] = VisibilityEnum
    BY <1>3, FilesAre, BeforeIs, Sizes
  <2>2. CASE n = 1
    <3>1. s = ForeignKeys(FALSE) /\ g + 1 \in Unenforced
      BY <1>3, <2>1, <2>2 DEF VisibilityEnum, Unenforced
    <3>2. QED
      BY <3>1 DEF ForeignKeys
  <2>3. CASE n = 10
    <3>1. s = ForeignKeys(TRUE) /\ g + 1 \notin Unenforced
      BY <1>3, <2>1, <2>3 DEF VisibilityEnum, Unenforced
    <3>2. QED
      BY <3>1 DEF ForeignKeys
  <2>4. CASE n \in 2 .. 9
    <3>1. s.op # "pragma"
      BY <1>3, <2>1, <2>4 DEF VisibilityEnum, CreateTable, Copy, DropTable, RenameTable
    <3>2. g \in Unenforced /\ g + 1 \in Unenforced
      BY <2>1, <2>4 DEF Unenforced
    <3>3. QED
      BY <3>1, <3>2
  <2>5. QED
    BY <2>1, <2>2, <2>3, <2>4
<1>4. QED
  BY <1>1, <1>2, <1>3

(* At the end of a file the database is that of a release.                 *)
LEMMA Boundaries ==
  ASSUME NEW k \in 0 .. 9
  PROVE  /\ Tables(k) = Names(Before[k + 1])
         /\ \A t \in Tables(k) : /\ ColumnsOf(t, k) \in ColsAt(t, Before[k + 1])
                                 /\ RowsAt(t, Before[k + 1]) = Own(t)
                                 /\ k = 9 => ColsAt(t, 31) = {ColumnsOf(t, k)}
<1>1. Tables(k) = Names(Before[k + 1])
  BY DEF Tables, Names, FirstRelease, Lifetime, Before
<1>2. ASSUME NEW t \in Tables(k)
      PROVE  /\ ColumnsOf(t, k) \in ColsAt(t, Before[k + 1])
             /\ k = 9 => ColsAt(t, 31) = {ColumnsOf(t, k)}
  <2> USE DEF ColumnsOf, Columns, ColsAt, Cols, Before
  <2>1. CASE t = "users"
    BY <2>1 DEF Tables, FirstRelease, NewUsers
  <2>2. CASE t = "photos"
    BY <2>2 DEF Tables, FirstRelease, NewPhotos, PhotosSince
  <2>3. CASE t = "albums"
    BY <2>3 DEF Tables, FirstRelease, NewAlbums
  <2>4. CASE t \notin {"users", "photos", "albums"}
    BY <2>4 DEF Tables, FirstRelease
  <2>5. QED
    BY <2>1, <2>2, <2>3, <2>4
<1>3. ASSUME NEW t \in Tables(k)
      PROVE  RowsAt(t, Before[k + 1]) = Own(t)
  BY DEF Tables, FirstRelease, RowsAt
<1>4. QED
  BY <1>1, <1>2, <1>3

-------------------------------------------------------------------------------
(* While the script runs each row is in its table or in the copy of it.    *)
LEMMA Grows ==
  ASSUME NEW f \in 1 .. 10
  PROVE  /\ Before[f] \in Nat /\ Before[f] <= 31
         /\ f >= 2 => Before[f] >= 5
         /\ f >= 6 => Before[f] >= 12
         /\ f >= 8 => Before[f] >= 15
  BY BeforeIs

(* A fresh database has run between 0 and 31 statements.                    *)
LEMMA Within ==
  ASSUME NEW f \in 1 .. 10, NEW n \in 1 .. (IF f = 10 THEN 1 ELSE Size(f) + 1), NEW g,
         g = Before[f] + n - 1
  PROVE  /\ g \in 0 .. 31 /\ g >= Before[f]
         /\ (f # 10 /\ n <= Size(f)) => g \in 0 .. 30
<1>1. CASE f = 10
  <2>1. n \in 1 .. 1 /\ Before[f] = 31
    BY <1>1, BeforeIs
  <2>2. g = 31
    BY <2>1
  <2>3. QED
    BY <1>1, <2>1, <2>2
<1>2. CASE f # 10
  <2>1. /\ Size(f) \in Nat /\ Before[f] \in Nat /\ n \in 1 .. Size(f) + 1
        /\ Before[f] + Size(f) <= 31
    BY <1>2, Bounds
  <2>2. QED
    BY <2>1
<1>3. QED
  BY <1>1, <1>2

(* A table of a release is there at every later point of the script, except *)
(* between its drop and the renaming of its copy.                           *)
LEMMA TablesStay ==
  ASSUME NEW f \in 1 .. 10, NEW g \in 0 .. 31, g >= Before[f], NEW t \in Tables(f - 1)
  PROVE  \/ t \in Names(g) /\ RowsAt(t, g) = Own(t)
         \/ t = "users" /\ g = 19
         \/ t = "photos" /\ g = 25
         \/ t = "albums" /\ g = 29
<1>1. t \in DOMAIN FirstRelease /\ FirstRelease[t] <= f - 1
  BY DEF Tables
<1>2. CASE t \in {"users", "sessions", "photos", "tags", "photo_tags"}
  <2>1. g >= 5
    BY <1>1, <1>2, Grows DEF FirstRelease
  <2>2. QED
    BY <1>2, <2>1 DEF Names, Lifetime, RowsAt
<1>3. CASE t \in {"albums", "album_photos"}
  <2>1. g >= 12
    BY <1>1, <1>3, Grows DEF FirstRelease
  <2>2. g \in (11 .. 28) \cup (30 .. 31) \/ g = 29
    BY <2>1
  <2>3. CASE t = "albums"
    BY <2>2, <2>3 DEF Names, Lifetime, RowsAt
  <2>4. CASE t = "album_photos"
    BY <2>1, <2>4 DEF Names, Lifetime, RowsAt
  <2>5. QED
    BY <1>3, <2>3, <2>4
<1>4. CASE t = "invites"
  <2>1. g >= 15
    BY <1>1, <1>4, Grows DEF FirstRelease
  <2>2. QED
    BY <1>4, <2>1 DEF Names, Lifetime, RowsAt
<1>5. QED
  BY <1>1, <1>2, <1>3, <1>4 DEF FirstRelease

(* So no row is lost as long as the script runs on.                         *)
LEMMA RowsKept ==
  ASSUME NEW f \in 1 .. 10, NEW g \in 0 .. 31, g >= Before[f], After(g), HomesIn(f - 1)
  PROVE  RowsNeverLost
<1> SUFFICES ASSUME NEW r \in stored
             PROVE  \/ Home[r] \in Holding(r)
                    \/ Home[r] \in DOMAIN CopyOf /\ CopyOf[Home[r]] \in Holding(r)
  BY DEF RowsNeverLost
<1>1. Home[r] \in Tables(f - 1)
  BY DEF HomesIn
<1>2. \A t \in Names(g) : t \in DOMAIN table /\ table[t].rows = RowsAt(t, g)
  <2>1. \A t, c, R : t \in Names(g) /\ table[t] = [cols |-> c, rows |-> R] => table[t].rows = R
    OBVIOUS
  <2>2. QED
    BY <2>1 DEF After
<1>3. r \in Own(Home[r])
  BY DEF Own
<1>4. CASE Home[r] \in Names(g) /\ RowsAt(Home[r], g) = Own(Home[r])
  BY <1>2, <1>3, <1>4 DEF Holding
<1>5. CASE Home[r] = "users" /\ g = 19
  <2>1. "users_new" \in Names(g) /\ RowsAt("users_new", g) = Own("users")
    BY <1>5 DEF Names, Lifetime, RowsAt
  <2>2. QED
    BY <1>2, <1>3, <1>5, <2>1 DEF Holding, CopyOf
<1>6. CASE Home[r] = "photos" /\ g = 25
  <2>1. "photos_new" \in Names(g) /\ RowsAt("photos_new", g) = Own("photos")
    BY <1>6 DEF Names, Lifetime, RowsAt
  <2>2. QED
    BY <1>2, <1>3, <1>6, <2>1 DEF Holding, CopyOf
<1>7. CASE Home[r] = "albums" /\ g = 29
  <2>1. "albums_new" \in Names(g) /\ RowsAt("albums_new", g) = Own("albums")
    BY <1>7 DEF Names, Lifetime, RowsAt
  <2>2. QED
    BY <1>2, <1>3, <1>7, <2>1 DEF Holding, CopyOf
<1>8. QED
  BY <1>1, <1>4, <1>5, <1>6, <1>7, TablesStay

-------------------------------------------------------------------------------
(* A break inside file f: the file runs once more as from the start, or it *)
(* fails at a statement that has been run before.                          *)
LEMMA Again ==
  ASSUME NEW b, NEW g \in 0 .. 31, After(g),
         Names(b) = Names(g),
         \A t \in Names(g) : RowsAt(t, b) = RowsAt(t, g) /\ ColsAt(t, g) \subseteq ColsAt(t, b)
  PROVE  After(b)
  BY DEF After

(* A file of the first seven fails at once when any of it has been run.     *)
LEMMA FirstFails ==
  ASSUME NEW f \in 1 .. 7, NEW n \in 2 .. Size(f) + 1, NEW g, g = Before[f] + n - 1, After(g)
  PROVE  ~Legal(Files[f][1], table)
<1> USE DEF Legal, Exists
<1>1. CASE f = 1
  <2>1. g \in 1 .. 5 /\ Files[f][1] = CreateTable("users", {"email"})
    BY <1>1, FilesAre, BeforeIs, Sizes DEF InitialSchema
  <2>2. "users" \in Names(g)
    BY <2>1 DEF Names, Lifetime
  <2>3. QED
    BY <2>1, <2>2 DEF CreateTable, After
<1>2. CASE f = 2
  <2>1. g \in 6 .. 7 /\ Files[f][1] = AddColumn("photos", "is_raw")
    BY <1>2, FilesAre, BeforeIs, Sizes DEF PhotoRawFields
  <2>2. "photos" \in Names(g) /\ \A c \in ColsAt("photos", g) : "is_raw" \in c
    BY <2>1 DEF Names, Lifetime, ColsAt, Cols, PhotosSince
  <2>3. QED
    BY <2>1, <2>2 DEF AddColumn, After
<1>3. CASE f = 3
  <2>1. g = 8 /\ Files[f][1] = AddColumn("photos", "file_type")
    BY <1>3, FilesAre, BeforeIs, Sizes DEF PhotoFileType
  <2>2. "photos" \in Names(g) /\ \A c \in ColsAt("photos", g) : "file_type" \in c
    BY <2>1 DEF Names, Lifetime, ColsAt, Cols, PhotosSince
  <2>3. QED
    BY <2>1, <2>2 DEF AddColumn, After
<1>4. CASE f = 4
  <2>1. g \in 9 .. 10 /\ Files[f][1] = AddColumn("photos", "published")
    BY <1>4, FilesAre, BeforeIs, Sizes DEF PublishedAndThumb
  <2>2. "photos" \in Names(g) /\ \A c \in ColsAt("photos", g) : "published" \in c
    BY <2>1 DEF Names, Lifetime, ColsAt, Cols, PhotosSince
  <2>3. QED
    BY <2>1, <2>2 DEF AddColumn, After
<1>5. CASE f = 5
  <2>1. g \in 11 .. 12 /\ Files[f][1] = CreateTable("albums", {})
    BY <1>5, FilesAre, BeforeIs, Sizes DEF AlbumTables
  <2>2. "albums" \in Names(g)
    BY <2>1 DEF Names, Lifetime
  <2>3. QED
    BY <2>1, <2>2 DEF CreateTable, After
<1>6. CASE f = 6
  <2>1. g = 13 /\ Files[f][1] = AddColumn("albums", "slug")
    BY <1>6, FilesAre, BeforeIs, Sizes DEF AlbumSlugs
  <2>2. "albums" \in Names(g) /\ \A c \in ColsAt("albums", g) : "slug" \in c
    BY <2>1 DEF Names, Lifetime, ColsAt, Cols
  <2>3. QED
    BY <2>1, <2>2 DEF AddColumn, After
<1>7. CASE f = 7
  <2>1. g \in 14 .. 15 /\ Files[f][1] = AddColumn("users", "is_admin")
    BY <1>7, FilesAre, BeforeIs, Sizes DEF UsersAdminInvites
  <2>2. "users" \in Names(g) /\ \A c \in ColsAt("users", g) : "is_admin" \in c
    BY <2>1 DEF Names, Lifetime, ColsAt, Cols, NewUsers
  <2>3. QED
    BY <2>1, <2>2 DEF AddColumn, After
<1>8. QED
  BY <1>1, <1>2, <1>3, <1>4, <1>5, <1>6, <1>7

(* A crash leaves a database that is as before file f, or blocked.          *)
LEMMA Broken ==
  ASSUME NEW f \in 1 .. 9, NEW n \in 1 .. Size(f) + 1, NEW g, g = Before[f] + n - 1, After(g),
         phase' = "down", table' = table, slug' = slug, nulls' = nulls
  PROVE  After(Before[f]) \/ (Blocked(f)' /\ n > 1)
<1>1. CASE n = 1
  <2>1. g = Before[f]
    BY <1>1, Bounds
  <2>2. QED
    BY <2>1 DEF After
<1>2. CASE f < 8 /\ n > 1
  <2>1. ~Legal(Files[f][1], table)
    BY <1>2, FirstFails, Bounds
  <2>2. ~Legal(Files[f][1], table)'
    BY <2>1 DEF Legal, Exists, SlugsDiffer
  <2>3. QED
    BY <1>2, <2>2 DEF Blocked
<1>3. CASE f = 8 /\ n > 1
  <2>1. g \in 16 .. 21 /\ Before[f] = 15
    BY <1>3, BeforeIs, Sizes
  <2>2. CASE g \in 17 .. 19
    <3>1. "users_new" \in Names(g)
      BY <2>2 DEF Names, Lifetime
    <3>2. QED
      BY <1>3, <3>1 DEF Blocked, After
  <2>3. CASE g \in {16, 20, 21}
    <3>1. /\ Names(15) = Names(g)
          /\ \A t \in Names(g) : /\ RowsAt(t, 15) = RowsAt(t, g)
                                 /\ ColsAt(t, g) \subseteq ColsAt(t, 15)
      BY <2>3 DEF Names, Lifetime, RowsAt, ColsAt, Cols, PhotosSince
    <3>2. g \in 0 .. 31
      BY <2>3
    <3>3. QED
      BY <2>1, <3>1, <3>2, Again
  <2>4. QED
    BY <2>1, <2>2, <2>3
<1>4. CASE f = 9 /\ n > 1
  <2>1. g \in 22 .. 31 /\ Before[f] = 21
    BY <1>4, BeforeIs, Sizes
  <2>2. CASE g = 22
    <3>1. /\ Names(21) = Names(g)
          /\ \A t \in Names(g) : /\ RowsAt(t, 21) = RowsAt(t, g)
                                 /\ ColsAt(t, g) \subseteq ColsAt(t, 21)
      BY <2>2 DEF Names, Lifetime, RowsAt, ColsAt, Cols, PhotosSince
    <3>2. g \in 0 .. 31
      BY <2>2
    <3>3. QED
      BY <2>1, <3>1, <3>2, Again
  <2>3. CASE g \in 23 .. 25
    <3>1. "photos_new" \in Names(g)
      BY <2>3 DEF Names, Lifetime
    <3>2. QED
      BY <1>4, <3>1 DEF Blocked, After
  <2>4. CASE g \in 26 .. 31
    <3>1. "photos" \in Names(g) /\ \A c \in ColsAt("photos", g) : "published" \notin c
      BY <2>4 DEF Names, Lifetime, ColsAt, Cols, NewPhotos
    <3>2. QED
      BY <1>4, <3>1 DEF Blocked, After
  <2>5. QED
    BY <2>1, <2>2, <2>3, <2>4
<1>5. QED
  BY <1>1, <1>2, <1>3, <1>4

-------------------------------------------------------------------------------
(* What stays when no row, table or slug changes.                          *)
LEMMA SameRows ==
  ASSUME table' = table, stored' = stored
  PROVE  /\ RowsNeverLost => RowsNeverLost'
         /\ \A g : After(g) => After(g)'
         /\ \A k : HomesIn(k) => HomesIn(k)'
<1>1. RowsNeverLost => RowsNeverLost'
  BY DEF RowsNeverLost, Holding
<1>2. ASSUME NEW g, After(g)
      PROVE  After(g)'
  BY <1>2 DEF After, RowsAt, Own
<1>3. ASSUME NEW k, HomesIn(k)
      PROVE  HomesIn(k)'
  BY <1>3 DEF HomesIn
<1>4. QED
  BY <1>1, <1>2, <1>3

LEMMA SameFit ==
  ASSUME stored' = stored, slug' = slug, nulls' = nulls
  PROVE  (\A g : Fits(g)' <=> Fits(g)) /\ (Unfit' <=> Unfit)
  BY DEF Fits, Unfit, SlugsDiffer

LEMMA SameLegal ==
  ASSUME NEW s, table' = table, slug' = slug, nulls' = nulls, ~Legal(s, table)
  PROVE  ~Legal(s, table)'
  BY DEF Legal, Exists, SlugsDiffer

LEMMA SameBlocked ==
  ASSUME NEW f \in 1 .. 9, table' = table, slug' = slug, nulls' = nulls,
         phase' = "migrating" => next' = 1, Blocked(f)
  PROVE  Blocked(f)'
<1>1. CASE f <= 7 /\ ~Legal(Files[f][1], table)
  BY <1>1, SameLegal DEF Blocked
<1>2. CASE ~(f <= 7 /\ ~Legal(Files[f][1], table))
  BY <1>2 DEF Blocked
<1>3. QED
  BY <1>1, <1>2

-------------------------------------------------------------------------------
(* The database of release f - 1, with the rows R, before a first start.   *)
Found(f, R) ==
  /\ \A r \in R : Home[r] \in Tables(f - 1)
  /\ table = [t \in Tables(f - 1) |-> [cols |-> ColumnsOf(t, f - 1),
                                       rows |-> {r \in R : Home[r] = t}]]
  /\ applied = 1 .. f - 1
  /\ stored = R
  /\ slug \in [Albums -> Slug \cup {""}]
  /\ nulls \in SUBSET {r \in R : Home[r] = "photos"}
  /\ f = 10 => SlugsDiffer(R) /\ nulls = {}
  /\ phase = "down"
  /\ next = 1

LEMMA FoundIInv ==
  ASSUME NEW f \in 1 .. 10, NEW R \in SUBSET Row, Found(f, R)
  PROVE  IInv
<1>1. After(Before[f])
  <2> DEFINE k == f - 1
  <2>1. k \in 0 .. 9 /\ k + 1 = f
    OBVIOUS
  <2>2. /\ Tables(k) = Names(Before[f])
        /\ \A t \in Tables(k) : /\ ColumnsOf(t, k) \in ColsAt(t, Before[f])
                                /\ RowsAt(t, Before[f]) = Own(t)
    BY <2>1, Boundaries
  <2>3. DOMAIN table = Names(Before[f])
    BY <2>2 DEF Found
  <2>4. ASSUME NEW t \in Tables(k)
        PROVE  /\ table[t] = [cols |-> table[t].cols, rows |-> RowsAt(t, Before[f])]
               /\ table[t].cols \in ColsAt(t, Before[f])
    <3>1. table[t] = [cols |-> ColumnsOf(t, k), rows |-> Own(t)]
      BY DEF Found, Own
    <3>2. table[t] = [cols |-> ColumnsOf(t, k), rows |-> RowsAt(t, Before[f])]
      BY <2>2, <3>1
    <3>3. table[t].cols = ColumnsOf(t, k)
      BY <3>2
    <3>4. QED
      BY <2>2, <3>2, <3>3
  <2>5. QED
    BY <2>2, <2>3, <2>4 DEF After
<1>2. HomesIn(f - 1)
  BY DEF HomesIn, Found
<1>3. f = 10 => SlugsDiffer(stored) /\ stored \cap nulls = {}
  BY DEF Found
<1>4. Typed
  BY DEF Typed, Found
<1>5. Fresh(f)
  <2>1. next = 1 /\ phase = "down"
    BY DEF Found
  <2>2. Before[f] \in Nat /\ Before[f] + 1 - 1 = Before[f] /\ Fits(Before[f])
    <3>1. Before[f] \in Nat /\ (f # 10 => Before[f] <= 21)
      BY Grows, Bounds
    <3>2. Fits(Before[f])
      BY <1>3, <3>1 DEF Fits
    <3>3. QED
      BY <3>1, <3>2
  <2>3. f # 10 => Size(f) \in Nat
    BY Bounds
  <2>4. 1 \in 1 .. (IF f = 10 THEN 1 ELSE Size(f) + 1)
    BY <2>3
  <2>5. QED
    BY <1>1, <1>2, <2>1, <2>2, <2>4 DEF Fresh
<1>6. applied = 1 .. f - 1
  BY DEF Found
<1>7. QED
  BY <1>4, <1>5, <1>6 DEF IInv

(* The database that is found is that of a release.                         *)
LEMMA InitIInv == Init => IInv
<1> SUFFICES ASSUME Init
             PROVE  IInv
  OBVIOUS
<1>1. PICK k \in 0 .. Len(Files), R \in SUBSET Row :
        /\ \A r \in R : Home[r] \in DOMAIN Released(k)
        /\ table = [t \in DOMAIN Released(k) |->
                      [cols |-> Released(k)[t], rows |-> {r \in R : Home[r] = t}]]
        /\ applied = 1 .. k
        /\ stored = R
        /\ slug \in [Albums -> Slug \cup {""}]
        /\ nulls \in SUBSET {r \in R : Home[r] = "photos"}
        /\ k = Len(Files) => SlugsDiffer(R) /\ nulls = {}
  BY DEF Init
<1>2. k \in 0 .. 9 /\ Len(Files) = 9
  <2>1. Len(Files) = 9
    BY FilesAre
  <2>2. QED
    BY <2>1
<1>3. PICK f \in 1 .. 10 : k = f - 1 /\ (f = 10 => k = Len(Files))
  <2>1. k + 1 \in 1 .. 10 /\ k = (k + 1) - 1 /\ (k + 1 = 10 => k = Len(Files))
    BY <1>2
  <2>2. QED
    BY <2>1
<1>4. DOMAIN Released(k) = Tables(k) /\ \A t \in Tables(k) : Released(k)[t] = ColumnsOf(t, k)
  BY DEF Released
<1>5. Found(f, R)
  <2>1. table = [t \in Tables(k) |-> [cols |-> ColumnsOf(t, k), rows |-> {r \in R : Home[r] = t}]]
    BY <1>1, <1>4
  <2>2. QED
    BY <1>1, <1>3, <1>4, <2>1 DEF Found, Init
<1>6. QED
  BY <1>5, FoundIInv

-------------------------------------------------------------------------------
(* One lemma for each action: what it makes of file f at work.             *)
At(f) == applied = 1 .. f - 1 /\ (Fresh(f) \/ Stuck(f))

(* Where a fresh file stands.                                               *)
LEMMA Going ==
  ASSUME NEW f \in 1 .. 10, Fresh(f)
  PROVE  /\ f = 10 => next = 1
         /\ f # 10 => /\ f \in 1 .. 9 /\ Size(f) \in Nat /\ next \in 1 .. Size(f) + 1
                      /\ phase \in {"down", "migrating"}
<1>1. next \in 1 .. (IF f = 10 THEN 1 ELSE Size(f) + 1)
  BY DEF Fresh
<1>2. CASE f = 10
  <2>1. next \in 1 .. 1
    BY <1>1, <1>2
  <2>2. QED
    BY <1>2, <2>1
<1>3. CASE f # 10
  <2>1. f \in 1 .. 9 /\ Size(f) \in Nat
    BY <1>3, Bounds
  <2>2. phase \in {"down", "migrating"}
    BY <1>3 DEF Fresh
  <2>3. QED
    BY <1>1, <1>3, <2>1, <2>2
<1>4. QED
  BY <1>2, <1>3

LEMMA StartStep ==
  ASSUME Typed, NEW f \in 1 .. 10, At(f), Start
  PROVE  Typed' /\ At(f)'
<1> USE DEF Start, history
<1>1. Typed'
  BY DEF Typed
<1>2. CASE Fresh(f)
  <2>1. next = 1 /\ next' = 1
    BY <1>2 DEF Fresh, Typed
  <2>2. Before[f] \in Nat /\ Before[f] \notin Unenforced
    BY Bounds, BeforeIs DEF Unenforced
  <2>3. Before[f] + 1 - 1 = Before[f]
    BY <2>2
  <2>4. After(Before[f])' /\ HomesIn(f - 1)'
    BY <1>2, <2>1, <2>3, SameRows DEF Fresh
  <2>5. Fits(Before[f])'
    BY <1>2, <2>1, <2>3, SameFit DEF Fresh
  <2>6. Fresh(f)'
    BY <1>2, <2>1, <2>2, <2>3, <2>4, <2>5 DEF Fresh
  <2>7. QED
    BY <1>1, <2>6 DEF At
<1>3. CASE Stuck(f)
  <2>1. f \in 1 .. 9 /\ Blocked(f)'
    BY <1>3, SameBlocked DEF Stuck
  <2>2. Stuck(f)'
    BY <1>3, <2>1, SameRows, SameFit DEF Stuck
  <2>3. QED
    BY <1>1, <2>2 DEF At
<1>4. QED
  BY <1>1, <1>2, <1>3 DEF At

LEMMA RecordStep ==
  ASSUME Typed, NEW f \in 1 .. 10, At(f), Record
  PROVE  Typed' /\ \E h \in 1 .. 10 : At(h)'
<1> USE DEF Record, history
<1>1. Typed'
  BY DEF Typed
<1>2. /\ f \in 1 .. 9 /\ f + 1 \in 1 .. 10 /\ next > Size(f) /\ applied' = 1 .. (f + 1) - 1
      /\ (f + 1) - 1 = f
  <2>1. applied = 1 .. f - 1
    BY DEF At
  <2>2. f # 10
    BY <2>1, AtWork
  <2>3. File = Files[f] /\ applied' = 1 .. (f + 1) - 1
    BY <2>1, <2>2, AtWork
  <2>4. QED
    BY <2>2, <2>3 DEF Size
<1>3. CASE Fresh(f)
  <2>1. next \in 1 .. Size(f) + 1 /\ Size(f) \in Nat /\ Before[f] \in Nat
    <3>1. f # 10 /\ f \in 1 .. 9
      BY <1>2
    <3>2. QED
      BY <1>3, <3>1, Bounds, Going
  <2>2. /\ Before[f] + next - 1 = Before[f + 1] /\ Before[f + 1] + next' - 1 = Before[f + 1]
        /\ Before[f + 1] \in Nat /\ Before[f + 1] \notin Unenforced
    <3>1. next = Size(f) + 1
      BY <1>2, <2>1
    <3>2. /\ Before[f + 1] = Before[f] + Size(f) /\ Before[f + 1] \in Nat
          /\ Before[f + 1] \notin Unenforced
      BY <1>2, Bounds
    <3>3. QED
      BY <2>1, <3>1, <3>2
  <2>3. After(Before[f + 1])'
    BY <1>3, <2>2, SameRows DEF Fresh
  <2>4. HomesIn(f)'
    <3>1. Tables(f - 1) \subseteq Tables(f)
      BY <1>2 DEF Tables, FirstRelease
    <3>2. HomesIn(f)
      BY <1>3, <3>1 DEF Fresh, HomesIn
    <3>3. QED
      BY <3>2, SameRows
  <2>5. Fits(Before[f + 1])'
    BY <1>3, <2>2, SameFit DEF Fresh
  <2>6. ASSUME f + 1 # 10
        PROVE  Size(f + 1) \in Nat
    <3>1. f + 1 \in 1 .. 9
      BY <1>2, <2>6
    <3>2. QED
      BY <3>1, Bounds
  <2>7. next' \in 1 .. (IF f + 1 = 10 THEN 1 ELSE Size(f + 1) + 1)
    BY <2>6
  <2>8. fk'
    BY <1>3, <2>2 DEF Fresh
  <2>9. Fresh(f + 1)'
    BY <1>2, <2>2, <2>3, <2>4, <2>5, <2>7, <2>8 DEF Fresh
  <2>10. QED
    BY <1>1, <1>2, <2>9 DEF At
<1>4. CASE Stuck(f)
  <2>1. Size(f) \in Nat /\ Size(f) >= 1 /\ next \in Nat
    BY <1>2, <1>4, Bounds DEF Stuck
  <2>2. Blocked(f) /\ phase = "migrating"
    BY <1>4 DEF Stuck
  <2>3. f >= 8 => next <= 3 /\ Size(f) >= 6
    BY <1>2, <2>1, <2>2, Sizes DEF Blocked
  <2>4. f <= 7 => next = 1
    BY <1>2, <2>2 DEF Blocked
  <2>5. QED
    BY <1>2, <2>1, <2>3, <2>4
<1>5. QED
  BY <1>3, <1>4 DEF At

LEMMA MigratedStep ==
  ASSUME Typed, NEW f \in 1 .. 10, At(f), Migrated
  PROVE  Typed' /\ At(f)'
<1> USE DEF Migrated, history
<1>1. Typed'
  BY DEF Typed
<1>2. f = 10
  BY AtWork DEF At
<1>3. Fresh(f)
  BY <1>2 DEF At, Stuck
<1>4. next = 1 /\ Before[f] = 31
  BY <1>2, <1>3, BeforeIs, Going
<1>5. Before[f] + next - 1 = 31
  BY <1>4
<1>6. After(31)' /\ HomesIn(f - 1)' /\ Fits(31)'
  BY <1>3, <1>5, SameRows, SameFit DEF Fresh
<1>7. Fresh(f)'
  BY <1>2, <1>3, <1>4, <1>5, <1>6 DEF Fresh
<1>8. QED
  BY <1>1, <1>7 DEF At

LEMMA CrashStep ==
  ASSUME Typed, NEW f \in 1 .. 10, At(f), Crash
  PROVE  Typed' /\ At(f)'
<1> USE DEF Crash
<1>1. Typed'
  BY DEF Typed
<1>2. CASE Fresh(f)
  <2> DEFINE g == Before[f] + next - 1
  <2>1. /\ Before[f] \in Nat /\ Before[f] + next' - 1 = Before[f]
        /\ f # 10 => Before[f] <= 21 /\ Size(f) \in Nat
    BY Grows, Bounds
  <2>2. After(g) /\ HomesIn(f - 1) /\ HomesIn(f - 1)'
    BY <1>2, SameRows DEF Fresh
  <2>3. ASSUME After(Before[f])
        PROVE  Fresh(f)'
    <3>1. After(Before[f])'
      BY <2>3, SameRows
    <3>2. Fits(Before[f])'
      <4>1. Before[f] >= 24 => f = 10
        BY <2>1
      <4>2. f = 10 => g = Before[f]
        BY <1>2, <2>1, Going
      <4>3. Fits(g)
        BY <1>2 DEF Fresh
      <4>4. Fits(Before[f])
        BY <2>1, <4>1, <4>2, <4>3 DEF Fits
      <4>5. QED
        BY <4>4, SameFit
    <3>3. next' \in 1 .. (IF f = 10 THEN 1 ELSE Size(f) + 1)
      BY <2>1
    <3>4. QED
      BY <2>1, <2>2, <3>1, <3>2, <3>3 DEF Fresh
  <2>4. CASE f = 10
    <3>1. next = 1
      BY <1>2, <2>4, Going
    <3>2. g = Before[f]
      BY <2>1, <3>1
    <3>3. QED
      BY <1>1, <2>2, <2>3, <3>2 DEF At
  <2>5. CASE f # 10
    <3>1. f \in 1 .. 9 /\ next \in 1 .. Size(f) + 1 /\ phase = "migrating"
      BY <1>2, <2>5, Going
    <3>2. After(Before[f]) \/ (Blocked(f)' /\ next > 1)
      BY <2>2, <3>1, Broken
    <3>3. ASSUME Blocked(f)', next > 1
          PROVE  Stuck(f)'
      <4>1. next \in 1 .. (IF f = 10 THEN 1 ELSE Size(f) + 1)
        BY <1>2 DEF Fresh
      <4>2. g \in 0 .. 31 /\ g >= Before[f]
        BY <4>1, Within
      <4>3. RowsNeverLost
        BY <2>2, <4>2, RowsKept
      <4>4. RowsNeverLost' /\ torn'
        BY <3>1, <3>3, <4>3, SameRows
      <4>5. QED
        BY <3>1, <3>3, <4>4 DEF Stuck
    <3>4. QED
      BY <1>1, <2>3, <3>2, <3>3 DEF At
  <2>6. QED
    BY <1>1, <2>4, <2>5
<1>3. CASE Stuck(f)
  <2>1. f \in 1 .. 9 /\ Blocked(f)'
    BY <1>3, SameBlocked DEF Stuck
  <2>2. torn' \/ Unfit'
    BY <1>3, SameFit DEF Stuck
  <2>3. Stuck(f)'
    BY <1>3, <2>1, <2>2, SameRows DEF Stuck
  <2>4. QED
    BY <1>1, <2>3 DEF At
<1>4. QED
  BY <1>1, <1>2, <1>3 DEF At

(* Only the copy of the albums asks for slugs that differ.                 *)
LEMMA CopyOfAlbums ==
  ASSUME After(27), Legal(VisibilityEnum[7], table)
  PROVE  SlugsDiffer(Own("albums"))
<1>1. VisibilityEnum[7] = Copy("albums", "albums_new", {"slug"})
  BY DEF VisibilityEnum
<1>2. "slug_unique" \in table["albums_new"].cols => SlugsDiffer(table["albums"].rows)
  BY <1>1 DEF Legal, Copy
<1>3. /\ {"albums", "albums_new"} \subseteq Names(27) /\ RowsAt("albums", 27) = Own("albums")
      /\ \A c \in ColsAt("albums_new", 27) : "slug_unique" \in c
  BY DEF Names, Lifetime, RowsAt, ColsAt, Cols, NewAlbums
<1>4. table["albums_new"].cols \in ColsAt("albums_new", 27)
  BY <1>3 DEF After
<1>5. table["albums"].rows = Own("albums")
  <2>1. PICK c : table["albums"] = [cols |-> c, rows |-> Own("albums")]
    BY <1>3 DEF After
  <2>2. QED
    BY <2>1
<1>6. QED
  BY <1>2, <1>3, <1>4, <1>5

(* Only the copy of the photos forbids NULLs.                               *)
LEMMA CopyOfPhotos ==
  ASSUME After(23), Legal(VisibilityEnum[3], table)
  PROVE  Own("photos") \cap nulls = {}
<1>1. VisibilityEnum[3] = Copy("photos", "photos_new", {"file_type", "is_raw", "raw_partner_id",
                                                        "published", "thumb_path"})
  BY DEF VisibilityEnum
<1>2. table["photos"].rows \cap nulls = {}
  BY <1>1 DEF Legal, Copy
<1>3. "photos" \in Names(23) /\ RowsAt("photos", 23) = Own("photos")
  BY DEF Names, Lifetime, RowsAt
<1>4. PICK c : table["photos"] = [cols |-> c, rows |-> Own("photos")]
  BY <1>3 DEF After
<1>5. QED
  BY <1>2, <1>4

LEMMA OwnRows ==
  ASSUME Typed
  PROVE  /\ SlugsDiffer(Own("albums")) <=> SlugsDiffer(stored)
         /\ Own("photos") \cap nulls = {} <=> stored \cap nulls = {}
  BY DEF SlugsDiffer, Own, Albums, Typed

LEMMA Counting ==
  ASSUME NEW f \in 1 .. 9, NEW n \in 1 .. Size(f)
  PROVE  /\ Before[f] + n - 1 \in 0 .. 30 /\ Before[f] + n - 1 >= Before[f]
         /\ Before[f] + (n + 1) - 1 = (Before[f] + n - 1) + 1
         /\ n + 1 \in 1 .. Size(f) + 1
         /\ Before[f] + n - 1 >= 23 => f = 9
         /\ Before[f] + n - 1 = 23 => n = 3
         /\ Before[f] + n - 1 = 27 => n = 7
<1>1. Size(f) \in Nat /\ Before[f] \in Nat /\ Before[f] + Size(f) <= 31
  BY Bounds
<1>2. f < 9 => Before[f] + Size(f) <= 21
  BY Bounds
<1>3. f = 9 => Before[f] = 21
  BY BeforeIs
<1>4. /\ Before[f] + n - 1 \in 0 .. 30 /\ Before[f] + n - 1 >= Before[f]
      /\ Before[f] + (n + 1) - 1 = (Before[f] + n - 1) + 1
  BY <1>1
<1>5. n + 1 \in 1 .. Size(f) + 1
  BY <1>1
<1>6. Before[f] + n - 1 >= 23 => f = 9
  BY <1>1, <1>2
<1>7. (Before[f] + n - 1 = 23 => n = 3) /\ (Before[f] + n - 1 = 27 => n = 7)
  BY <1>1, <1>3, <1>6
<1>8. QED
  BY <1>4, <1>5, <1>6, <1>7

(* A statement of a fresh file: it leads on, unless a NULL stops the copy   *)
(* of the photos, or the slugs of two albums that of the albums.            *)
LEMMA RunFresh ==
  ASSUME Typed, NEW f \in 1 .. 9, applied = 1 .. f - 1, Fresh(f), next <= Size(f),
         phase = "migrating", RunStatement,
         NEW g, g = Before[f] + next - 1, NEW h, h = g + 1
  PROVE  Fresh(f)' \/ Stuck(f)'
<1> DEFINE s == Files[f][next]
<1>1. /\ next \in 1 .. Size(f) /\ Size(f) \in Nat /\ f # 10 /\ Before[f] \in Nat
      /\ Before[f] + Size(f) <= 31 /\ (f < 9 => Before[f] + Size(f) <= 21)
      /\ (f = 9 => Before[f] = 21)
  <2>1. f \in 1 .. 10 /\ f # 10
    OBVIOUS
  <2>2. next \in 1 .. Size(f) + 1 /\ Size(f) \in Nat
    BY <2>1, Going
  <2>3. next \in 1 .. Size(f)
    BY <2>2
  <2>4. /\ Before[f] \in Nat /\ Before[f] + Size(f) <= 31
        /\ (f < 9 => Before[f] + Size(f) <= 21)
    BY Bounds
  <2>5. QED
    BY <2>1, <2>2, <2>3, <2>4, BeforeIs
<1>2. /\ g \in 0 .. 30 /\ g >= Before[f] /\ Before[f] + (next + 1) - 1 = h
      /\ next + 1 \in 1 .. Size(f) + 1 /\ (g >= 23 => f = 9)
      /\ (g = 23 => next = 3) /\ (g = 27 => next = 7)
  <2>1. next \in 1 .. Size(f)
    BY <1>1
  <2>2. QED
    BY <2>1, Counting
<1>3. After(g) /\ HomesIn(f - 1) /\ (fk <=> g \notin Unenforced) /\ Fits(g)
  BY DEF Fresh
<1>4. s = File[next]
  <2>1. f \in 1 .. 10 /\ f # 10
    OBVIOUS
  <2>2. QED
    BY <2>1, AtWork
<1>5. (Allowed(g) => Legal(s, table)) /\ Leads(s, h)
  BY <1>1, <1>3, StatementRuns
<1>6. CASE Legal(s, table)
  <2>1. /\ table' = Effect(s, table) /\ fk' = (IF s.op = "pragma" THEN s.on ELSE fk)
        /\ next' = next + 1 /\ phase' = phase
        /\ slug' = slug /\ stored' = stored /\ nulls' = nulls
    BY <1>4, <1>6 DEF RunStatement, history
  <2>2. After(h)'
    BY <1>5, <2>1 DEF Leads
  <2>3. fk' <=> h \notin Unenforced
    <3>1. (IF s.op = "pragma" THEN s.on ELSE fk) <=> g + 1 \notin Unenforced
      BY <1>1, <1>3, Enforcement
    <3>2. QED
      BY <2>1, <3>1
  <2>4. HomesIn(f - 1)'
    BY <1>3, <2>1 DEF HomesIn
  <2>5. Fits(h)'
    <3>1. CASE g = 23
      <4>1. s = VisibilityEnum[3]
        BY <1>2, <3>1, FilesAre
      <4>2. stored \cap nulls = {}
        BY <1>3, <1>6, <3>1, <4>1, CopyOfPhotos, OwnRows
      <4>3. Fits(h)
        BY <3>1, <4>2 DEF Fits
      <4>4. QED
        BY <2>1, <4>3, SameFit
    <3>2. CASE g = 27
      <4>1. s = VisibilityEnum[7]
        BY <1>2, <3>2, FilesAre
      <4>2. SlugsDiffer(stored) /\ stored \cap nulls = {}
        BY <1>3, <1>6, <3>2, <4>1, CopyOfAlbums, OwnRows DEF Fits
      <4>3. QED
        BY <2>1, <4>2, SameFit DEF Fits
    <3>3. CASE g \notin {23, 27}
      <4>1. (h >= 24 => g >= 24) /\ (h >= 28 => g >= 28)
        BY <1>2, <3>3
      <4>2. Fits(h)
        BY <1>3, <4>1 DEF Fits
      <4>3. QED
        BY <2>1, <4>2, SameFit
    <3>4. QED
      BY <3>1, <3>2, <3>3
  <2>6. /\ Before[f] + next' - 1 = h
        /\ next' \in 1 .. (IF f = 10 THEN 1 ELSE Size(f) + 1)
    BY <1>1, <1>2, <2>1
  <2>7. phase' = "migrating"
    BY <2>1
  <2>8. Fresh(f)'
    BY <2>2, <2>3, <2>4, <2>5, <2>6, <2>7 DEF Fresh
  <2>9. QED
    BY <2>8
<1>7. CASE ~Legal(s, table)
  <2>1. phase' = "refused" /\ UNCHANGED <<table, slug, stored, nulls, torn, next>>
    BY <1>4, <1>7 DEF RunStatement, history
  <2>2. g \in {23, 27} /\ f = 9 /\ Unfit
    <3>1. g \in {23, 27} /\ Unfit
      BY <1>5, <1>7, OwnRows DEF Allowed, Unfit
    <3>2. g >= 23
      BY <3>1
    <3>3. QED
      BY <1>2, <3>1, <3>2
  <2>3. RowsNeverLost
    <3>1. g \in 0 .. 31 /\ g >= Before[f]
      BY <1>2
    <3>2. f \in 1 .. 10
      OBVIOUS
    <3>3. QED
      BY <1>3, <3>1, <3>2, RowsKept
  <2>4. Blocked(f)'
    <3>1. CASE g = 23
      <4>1. "photos_new" \in Names(23)
        BY DEF Names, Lifetime
      <4>2. "photos_new" \in DOMAIN table
        BY <1>3, <3>1, <4>1 DEF After
      <4>3. QED
        BY <2>1, <2>2, <4>2 DEF Blocked
    <3>2. CASE g = 27
      <4>1. "photos" \in Names(27) /\ \A c \in ColsAt("photos", 27) : "published" \notin c
        BY DEF Names, Lifetime, ColsAt, Cols, NewPhotos
      <4>2. "photos" \in DOMAIN table /\ "published" \notin table["photos"].cols
        BY <1>3, <3>2, <4>1 DEF After
      <4>3. QED
        BY <2>1, <2>2, <4>2 DEF Blocked
    <3>3. QED
      BY <2>2, <3>1, <3>2
  <2>5. RowsNeverLost' /\ Unfit'
    BY <2>1, <2>2, <2>3, SameRows, SameFit
  <2>6. Stuck(f)'
    BY <1>1, <2>1, <2>4, <2>5 DEF Stuck
  <2>7. QED
    BY <2>6
<1>8. QED
  BY <1>6, <1>7

(* A file that runs once more turns foreign keys off and then fails to     *)
(* make a table, or fails to copy one.                                     *)
LEMMA RunStuck ==
  ASSUME Typed, NEW f \in 1 .. 9, applied = 1 .. f - 1, Stuck(f), phase = "migrating",
         RunStatement
  PROVE  Stuck(f)'
<1> DEFINE s == Files[f][next]
<1>1. s = File[next]
  <2>1. f \in 1 .. 10 /\ f # 10
    OBVIOUS
  <2>2. QED
    BY <2>1, AtWork
<1>2. /\ UNCHANGED <<slug, stored, nulls, torn>> /\ (torn \/ Unfit)' /\ next \in Nat \ {0}
      /\ RowsNeverLost /\ Blocked(f)
  BY SameFit DEF RunStatement, history, Stuck
<1>3. CASE ~Legal(s, table)
  <2>1. phase' = "refused" /\ UNCHANGED <<table, next>>
    BY <1>1, <1>3 DEF RunStatement
  <2>2. Blocked(f)' /\ RowsNeverLost'
    BY <1>2, <2>1, SameBlocked, SameRows
  <2>3. QED
    BY <1>2, <2>1, <2>2 DEF Stuck
<1>4. CASE Legal(s, table)
  <2>1. table' = Effect(s, table) /\ next' = next + 1 /\ phase' = "migrating"
    BY <1>1, <1>4 DEF RunStatement
  <2>2. f \in 8 .. 9 /\ next \in 1 .. 3
    BY <1>2, <1>4 DEF Blocked
  <2>3. CASE next = 1
    <3>1. s = ForeignKeys(FALSE)
      <4>1. CASE f = 8
        BY <2>3, <4>1, FilesAre DEF UserNames
      <4>2. CASE f = 9
        BY <2>3, <4>2, FilesAre DEF VisibilityEnum
      <4>3. f = 8 \/ f = 9
        BY <2>2
      <4>4. QED
        BY <4>1, <4>2, <4>3
    <3>2. table' = table /\ next' = 2
      BY <2>1, <2>3, <3>1 DEF ForeignKeys, Effect
    <3>3. Blocked(f)'
      BY <1>2, <2>2, <3>2 DEF Blocked
    <3>4. QED
      BY <1>2, <2>1, <3>2, <3>3, SameRows DEF Stuck
  <2>4. CASE next = 2 /\ f = 8
    <3>1. s = CreateTable("users_new", NewUsers)
      BY <2>4, FilesAre DEF UserNames, NewUsers
    <3>2. QED
      BY <1>2, <1>4, <2>4, <3>1 DEF Blocked, CreateTable, Legal, Exists
  <2>5. CASE next = 2 /\ f = 9
    <3>1. s = CreateTable("photos_new", NewPhotos)
      BY <2>5, FilesAre DEF VisibilityEnum, NewPhotos
    <3>2. /\ "photos_new" \notin DOMAIN table
          /\ table' = [u \in DOMAIN table \cup {"photos_new"} |->
                         IF u = "photos_new" THEN [cols |-> NewPhotos, rows |-> {}]
                         ELSE table[u]]
      BY <1>4, <2>1, <3>1 DEF CreateTable, Legal, Exists, Effect, With
    <3>3. "photos" \in DOMAIN table /\ "published" \notin table["photos"].cols
      BY <1>2, <2>5, <3>2 DEF Blocked
    <3>4. Blocked(f)'
      <4>1. "photos" \in DOMAIN table' /\ table'["photos"] = table["photos"]
        BY <3>2, <3>3
      <4>2. QED
        BY <2>1, <2>5, <3>3, <4>1 DEF Blocked
    <3>5. RowsNeverLost'
      <4>1. \A u \in DOMAIN table : u \in DOMAIN table' /\ table'[u] = table[u]
        BY <3>2
      <4>2. ASSUME NEW r
            PROVE  Holding(r) \subseteq Holding(r)'
        BY <4>1 DEF Holding
      <4>3. QED
        BY <1>2, <4>2 DEF RowsNeverLost
    <3>6. QED
      BY <1>2, <2>1, <3>4, <3>5 DEF Stuck
  <2>6. CASE next = 3
    <3>1. f = 9 /\ "photos" \in DOMAIN table /\ "published" \notin table["photos"].cols
      BY <1>2, <2>2, <2>6 DEF Blocked
    <3>2. s = Copy("photos", "photos_new", {"file_type", "is_raw", "raw_partner_id",
                                            "published", "thumb_path"})
      BY <2>6, <3>1, FilesAre DEF VisibilityEnum
    <3>3. {"file_type", "is_raw", "raw_partner_id", "published", "thumb_path"}
            \subseteq table["photos"].cols
      BY <1>4, <3>2 DEF Copy, Legal
    <3>4. QED
      BY <3>1, <3>3
  <2>7. QED
    BY <2>2, <2>3, <2>4, <2>5, <2>6
<1>5. QED
  BY <1>3, <1>4

LEMMA RunStep ==
  ASSUME Typed, NEW f \in 1 .. 10, At(f), RunStatement
  PROVE  Typed' /\ At(f)'
<1>1. /\ applied = 1 .. f - 1 /\ phase = "migrating" /\ Pending # {} /\ next <= Len(File)
      /\ UNCHANGED <<slug, applied, stored, nulls>> /\ phase' # "down"
  BY DEF At, RunStatement, history
<1>2. Typed'
  BY <1>1 DEF Typed
<1>3. f \in 1 .. 9 /\ next <= Size(f)
  <2>1. f # 10
    BY <1>1, AtWork
  <2>2. f \in 1 .. 9
    BY <2>1
  <2>3. File = Files[f]
    BY <1>1, <2>1, AtWork
  <2>4. QED
    BY <1>1, <2>2, <2>3 DEF Size
<1>4. Fresh(f)' \/ Stuck(f)'
  <2>1. PICK g, h : g = Before[f] + next - 1 /\ h = g + 1
    OBVIOUS
  <2>2. CASE Fresh(f)
    BY <1>1, <1>3, <2>1, <2>2, RunFresh
  <2>3. CASE Stuck(f)
    BY <1>1, <1>3, <2>3, RunStuck
  <2>4. QED
    BY <2>2, <2>3 DEF At
<1>5. QED
  BY <1>1, <1>2, <1>4 DEF At

(* All files have been applied.                                            *)
LEMMA FreshAtEnd ==
  ASSUME Fresh(10)
  PROVE  /\ next = 1 /\ Before[10] = 31 /\ Before[10] + next - 1 = 31
         /\ After(31) /\ HomesIn(9) /\ SlugsDiffer(stored) /\ stored \cap nulls = {}
         /\ phase # "down" => (fk <=> 31 \notin Unenforced)
         /\ phase = "up" => \A a \in stored \cap Albums : slug[a] # ""
<1>1. next = 1 /\ Before[10] = 31
  BY BeforeIs, Going
<1>2. Before[10] + next - 1 = 31 /\ 10 - 1 = 9 /\ 31 >= 28
  BY <1>1
<1>3. After(31) /\ HomesIn(9) /\ SlugsDiffer(stored) /\ stored \cap nulls = {}
  <2>1. After(31) /\ HomesIn(9) /\ Fits(31)
    BY <1>2 DEF Fresh
  <2>2. SlugsDiffer(stored) /\ stored \cap nulls = {}
    BY <2>1 DEF Fits
  <2>3. QED
    BY <2>1, <2>2
<1>4. phase # "down" => (fk <=> 31 \notin Unenforced)
  BY <1>2 DEF Fresh
<1>5. phase = "up" => \A a \in stored \cap Albums : slug[a] # ""
  BY DEF Fresh
<1>6. QED
  BY <1>1, <1>2, <1>3, <1>4, <1>5

(* The newest release has no table but those of FirstRelease.             *)
LEMMA NewestTables ==
  /\ Names(31) = DOMAIN FirstRelease /\ Tables(9) = DOMAIN FirstRelease
  /\ \A t \in Names(31) : RowsAt(t, 31) = Own(t)
  BY DEF Names, Lifetime, Tables, FirstRelease, RowsAt

LEMMA SlugsStep ==
  ASSUME Typed, NEW f \in 1 .. 10, At(f), MigrateExistingSlugs
  PROVE  Typed' /\ At(f)'
<1>0. /\ phase = "slugs" /\ phase' = "up"
      /\ UNCHANGED <<table, fk, applied, next, stored, nulls>>
  BY DEF MigrateExistingSlugs, history
<1>1. f = 10
  BY <1>0 DEF At, Fresh, Stuck
<1>2. Fresh(f)
  BY <1>1 DEF At, Stuck
<1>3. next = 1 /\ Before[f] = 31 /\ Before[f] + next - 1 = 31
  BY <1>1, <1>2, FreshAtEnd
<1>4. /\ After(31) /\ After(31)' /\ HomesIn(f - 1)'
      /\ SlugsDiffer(stored) /\ stored \cap nulls = {}
      /\ (fk <=> 31 \notin Unenforced) /\ (fk' <=> 31 \notin Unenforced)
  <2>1. /\ After(31) /\ HomesIn(f - 1) /\ SlugsDiffer(stored) /\ stored \cap nulls = {}
        /\ (fk <=> 31 \notin Unenforced)
    BY <1>0, <1>1, <1>2, FreshAtEnd DEF Fresh
  <2>2. After(31)' /\ HomesIn(f - 1)'
    BY <1>0, <2>1, SameRows
  <2>3. QED
    BY <1>0, <2>1, <2>2
<1>5. table["albums"].rows = Own("albums")
  <2>1. "albums" \in Names(31) /\ RowsAt("albums", 31) = Own("albums")
    BY NewestTables DEF FirstRelease
  <2>2. PICK c : table["albums"] = [cols |-> c, rows |-> Own("albums")]
    BY <1>4, <2>1 DEF After
  <2>3. QED
    BY <2>2
<1> DEFINE rows == Own("albums")
           slugless == {a \in rows : slug[a] = ""}
<1>6. rows = stored \cap Albums
  BY DEF Own, Albums, Typed
<1>7. PICK new \in Injection(slugless, Slug \ {slug[a] : a \in rows}) :
        slug' = [a \in Albums |-> IF a \in slugless THEN new[a] ELSE slug[a]]
  BY <1>5 DEF MigrateExistingSlugs
<1>8. /\ \A a \in slugless : new[a] \in Slug /\ \A b \in rows : new[a] # slug[b]
      /\ \A a, b \in slugless : new[a] = new[b] => a = b
  <2>1. new \in [slugless -> Slug \ {slug[a] : a \in rows}]
    BY <1>7 DEF Injection
  <2>2. \A a, b \in slugless : new[a] = new[b] => a = b
    BY <1>7, <2>1 DEF Injection, IsInjective
  <2>3. \A a \in slugless : new[a] \in Slug \ {slug[b] : b \in rows}
    BY <2>1
  <2>4. QED
    BY <2>2, <2>3
<1>9. slug' \in [Albums -> Slug \cup {""}]
  BY <1>7, <1>8 DEF Typed
<1>10. \A a \in rows : slug'[a] = (IF a \in slugless THEN new[a] ELSE slug[a])
  BY <1>6, <1>7
<1>11. \A a \in stored' \cap Albums : slug'[a] # ""
  BY <1>0, <1>6, <1>8, <1>10, MigrationsAssumption
<1>12. SlugsDiffer(stored)'
  <2>1. \A a, b \in rows : slug[a] = slug[b] => a = b
    BY <1>4, <1>6 DEF SlugsDiffer
  <2>2. \A a, b \in rows : slug'[a] = slug'[b] => a = b
    BY <1>8, <1>10, <2>1
  <2>3. QED
    BY <1>0, <1>6, <2>2 DEF SlugsDiffer
<1>13. Typed'
  BY <1>0, <1>9 DEF Typed
<1>14. Fresh(f)'
  BY <1>0, <1>1, <1>2, <1>3, <1>4, <1>11, <1>12 DEF Fresh, Fits
<1>15. QED
  BY <1>0, <1>13, <1>14 DEF At

LEMMA InsertStep ==
  ASSUME Typed, NEW f \in 1 .. 10, At(f), NEW r \in Row, Insert(r)
  PROVE  Typed' /\ At(f)'
<1> USE DEF Insert
<1>1. f = 10
  BY DEF At, Fresh, Stuck
<1>2. Fresh(f)
  BY <1>1 DEF At, Stuck
<1>3. next = 1 /\ Before[f] = 31 /\ Before[f] + next - 1 = 31 /\ next' = 1 /\ f - 1 = 9
  BY <1>1, <1>2, BeforeIs, Going
<1>4. /\ After(31) /\ HomesIn(9) /\ SlugsDiffer(stored) /\ stored \cap nulls = {}
      /\ (fk <=> 31 \notin Unenforced) /\ (fk' <=> 31 \notin Unenforced)
  <2>1. /\ After(31) /\ HomesIn(9) /\ SlugsDiffer(stored) /\ stored \cap nulls = {}
        /\ (phase # "down" => (fk <=> 31 \notin Unenforced))
    BY <1>1, <1>2, FreshAtEnd
  <2>2. phase # "down" /\ fk' = fk
    OBVIOUS
  <2>3. QED
    BY <2>1, <2>2
<1>5. Home[r] \in Names(31) /\ DOMAIN table = Names(31)
  BY <1>4, NewestTables, MigrationsAssumption DEF After
<1>6. After(31)'
  <2>1. DOMAIN table' = Names(31)
    BY <1>5
  <2>2. ASSUME NEW t \in Names(31)
        PROVE  /\ table'[t] = [cols |-> table'[t].cols, rows |-> RowsAt(t, 31)']
               /\ table'[t].cols \in ColsAt(t, 31)
    <3>1. PICK c \in ColsAt(t, 31) : table[t] = [cols |-> c, rows |-> Own(t)]
      BY <1>4, NewestTables DEF After
    <3>2. RowsAt(t, 31)' = Own(t)'
      BY DEF Names, Lifetime, RowsAt
    <3>3. CASE t = Home[r]
      <4>1. table'[t] = [cols |-> c, rows |-> Own(t) \cup {r}]
        <5>1. table'[t] = [table[t] EXCEPT !.rows = table[t].rows \cup {r}]
          BY <1>5, <3>3
        <5>2. \A d, R, S : [[cols |-> d, rows |-> R] EXCEPT !.rows = S] = [cols |-> d, rows |-> S]
          OBVIOUS
        <5>3. table[t].rows = Own(t)
          BY <3>1
        <5>4. QED
          BY <3>1, <5>1, <5>2, <5>3
      <4>2. Own(t)' = Own(t) \cup {r}
        BY <3>3 DEF Own
      <4>3. QED
        BY <3>1, <3>2, <4>1, <4>2
    <3>4. CASE t # Home[r]
      <4>1. table'[t] = table[t] /\ Own(t)' = Own(t)
        BY <1>5, <3>4 DEF Own
      <4>2. QED
        BY <3>1, <3>2, <4>1
    <3>5. QED
      BY <3>3, <3>4
  <2>3. QED
    BY <2>1, <2>2 DEF After
<1>7. HomesIn(9)'
  BY <1>4, NewestTables, MigrationsAssumption DEF HomesIn
<1>8. /\ slug' \in [Albums -> Slug \cup {""}]
      /\ \A a \in stored' \cap Albums : slug'[a] # ""
      /\ SlugsDiffer(stored)'
  <2>1. /\ slug \in [Albums -> Slug \cup {""}] /\ \A a \in stored \cap Albums : slug[a] # ""
        /\ \A a, b \in stored \cap Albums : slug[a] = slug[b] => a = b
    BY <1>2, <1>4 DEF Typed, Fresh, SlugsDiffer
  <2>2. CASE r \in Albums
    <3>1. PICK s \in Slug \ {slug[a] : a \in stored \cap Albums} : slug' = [slug EXCEPT ![r] = s]
      BY <2>2
    <3>2. slug'[r] = s /\ \A a \in stored \cap Albums : a # r /\ slug'[a] = slug[a] /\ slug[a] # s
      BY <2>1, <2>2, <3>1
    <3>3. stored' \cap Albums = (stored \cap Albums) \cup {r}
      BY <2>2
    <3>4. \A a \in stored' \cap Albums : slug'[a] # ""
      BY <2>1, <3>1, <3>2, <3>3, MigrationsAssumption
    <3>5. SlugsDiffer(stored)'
      BY <2>1, <3>2, <3>3 DEF SlugsDiffer
    <3>6. slug' \in [Albums -> Slug \cup {""}]
      BY <2>1, <2>2, <3>1
    <3>7. QED
      BY <3>4, <3>5, <3>6
  <2>3. CASE r \notin Albums
    <3>1. slug' = slug /\ stored' \cap Albums = stored \cap Albums
      BY <2>3
    <3>2. QED
      BY <2>1, <3>1 DEF SlugsDiffer
  <2>4. QED
    BY <2>2, <2>3
<1>9. Typed'
  BY <1>8 DEF Typed
<1>10. (stored \cap nulls = {})'
  BY <1>4 DEF Typed
<1>11. Fresh(f)'
  BY <1>1, <1>2, <1>3, <1>4, <1>6, <1>7, <1>8, <1>10 DEF Fresh, Fits
<1>12. QED
  BY <1>9, <1>11 DEF At

LEMMA StutterStep ==
  ASSUME Typed, NEW f \in 1 .. 10, At(f), UNCHANGED vars
  PROVE  Typed' /\ At(f)'
<1> USE DEF vars
<1>1. Typed'
  BY DEF Typed
<1>2. CASE Fresh(f)
  <2>1. Fresh(f)'
    BY <1>2, SameRows, SameFit DEF Fresh
  <2>2. QED
    BY <1>1, <2>1 DEF At
<1>3. CASE Stuck(f)
  <2>1. Blocked(f)'
    BY <1>3 DEF Stuck, Blocked, Legal, Exists, SlugsDiffer
  <2>2. Stuck(f)'
    BY <1>3, <2>1, SameRows, SameFit DEF Stuck
  <2>3. QED
    BY <1>1, <2>2 DEF At
<1>4. QED
  BY <1>1, <1>2, <1>3 DEF At

-------------------------------------------------------------------------------
(* Every action keeps the invariant.                                        *)
LEMMA NextIInv == IInv /\ [Next]_vars => IInv'
<1> SUFFICES ASSUME Typed, NEW f \in 1 .. 10, At(f), [Next]_vars
             PROVE  IInv'
  BY DEF IInv, At
<1>1. ASSUME Typed', NEW h \in 1 .. 10, At(h)'
      PROVE  IInv'
  BY <1>1 DEF IInv, At
<1>2. CASE Start
  BY <1>1, <1>2, StartStep
<1>3. CASE RunStatement
  BY <1>1, <1>3, RunStep
<1>4. CASE Record
  BY <1>1, <1>4, RecordStep
<1>5. CASE Migrated
  BY <1>1, <1>5, MigratedStep
<1>6. CASE MigrateExistingSlugs
  BY <1>1, <1>6, SlugsStep
<1>7. CASE Crash
  BY <1>1, <1>7, CrashStep
<1>8. ASSUME NEW r \in Row, Insert(r)
      PROVE  IInv'
  BY <1>1, <1>8, InsertStep
<1>9. CASE UNCHANGED vars
  BY <1>1, <1>9, StutterStep
<1>10. QED
  BY <1>2, <1>3, <1>4, <1>5, <1>6, <1>7, <1>8, <1>9 DEF Next

LEMMA Invariance == Spec => []IInv
  BY InitIInv, NextIInv, PTL DEF Spec

-------------------------------------------------------------------------------
(* Whatever release a database comes from, and wherever starts are cut     *)
(* off or refused, each row is in its table or in the copy that is to      *)
(* replace it: foreign keys are off whenever a table is dropped.           *)
THEOREM NoRowIsLost == Spec => []RowsNeverLost
<1>1. IInv => RowsNeverLost
  <2> SUFFICES ASSUME NEW f \in 1 .. 10, Fresh(f)
               PROVE  RowsNeverLost
    BY DEF IInv, Stuck
  <2> DEFINE g == Before[f] + next - 1
  <2>1. /\ After(g) /\ HomesIn(f - 1)
        /\ next \in 1 .. (IF f = 10 THEN 1 ELSE Size(f) + 1)
    BY DEF Fresh
  <2>2. g \in 0 .. 31 /\ g >= Before[f]
    BY <2>1, Within
  <2>3. QED
    BY <2>1, <2>2, RowsKept
<1>2. QED
  BY <1>1, Invariance, PTL

(* A server that answers has the schema of the newest release, whatever    *)
(* release its database comes from: every file applied once, no copy of a  *)
(* table left over, foreign keys enforced, every row in its table, every   *)
(* album with a slug of its own, and no photo with a NULL where its table  *)
(* declares NOT NULL.                                                      *)
THEOREM ServesNewest == Spec => []UpIsMigrated
<1>1. IInv => UpIsMigrated
  <2> SUFFICES ASSUME NEW f \in 1 .. 10, applied = 1 .. f - 1, Fresh(f), phase = "up", Typed
               PROVE  UpIsMigrated
    BY DEF IInv, Stuck, UpIsMigrated
  <2>1. f = 10 /\ f - 1 = 9
    <3>1. f = 10
      BY DEF Fresh
    <3>2. QED
      BY <3>1
  <2>2. /\ After(31) /\ HomesIn(9) /\ SlugsDiffer(stored) /\ stored \cap nulls = {} /\ fk
        /\ \A a \in stored \cap Albums : slug[a] # ""
    <3>1. /\ After(31) /\ HomesIn(9) /\ SlugsDiffer(stored) /\ stored \cap nulls = {}
          /\ (fk <=> 31 \notin Unenforced) /\ \A a \in stored \cap Albums : slug[a] # ""
      BY <2>1, FreshAtEnd
    <3>2. 31 \notin Unenforced
      BY DEF Unenforced
    <3>3. QED
      BY <3>1, <3>2
  <2>3. applied = DOMAIN Files
    BY <2>1, FilesAre
  <2>4. [t \in DOMAIN table |-> table[t].cols] = Released(Len(Files))
    <3>1. Len(Files) = 9 /\ 9 \in 0 .. 9 /\ Before[9 + 1] = 31
      BY FilesAre, BeforeIs
    <3>2. DOMAIN table = Tables(9)
      BY <2>2, NewestTables DEF After
    <3>3. \A t \in Tables(9) : ColsAt(t, 31) = {ColumnsOf(t, 9)}
      BY <3>1, Boundaries
    <3>4. \A t \in Tables(9) : table[t].cols = ColumnsOf(t, 9)
      BY <2>2, <3>2, <3>3 DEF After
    <3>5. QED
      BY <3>1, <3>2, <3>4 DEF Released
  <2>5. ASSUME NEW r \in stored
        PROVE  Holding(r) = {Home[r]}
    <3>1. Home[r] \in Names(31) /\ DOMAIN table = Names(31)
      BY <2>2, NewestTables DEF HomesIn, After
    <3>2. ASSUME NEW t \in Names(31)
          PROVE  table[t].rows = Own(t)
      <4>1. PICK c : table[t] = [cols |-> c, rows |-> Own(t)]
        BY <2>2, NewestTables DEF After
      <4>2. QED
        BY <4>1
    <3>3. \A t : r \in Own(t) <=> t = Home[r]
      BY DEF Own
    <3>4. QED
      BY <3>1, <3>2, <3>3 DEF Holding
  <2>6. QED
    BY <2>2, <2>3, <2>4, <2>5 DEF UpIsMigrated
<1>2. QED
  BY <1>1, Invariance, PTL

(* A start is refused only after a crash inside a file, or when the rows   *)
(* are not fit for the newest tables: two albums without slugs, or a photo *)
(* with a NULL where photos_new declares NOT NULL.                         *)
THEOREM RefusedOnlyAfterBreak == Spec => []RefusedOnlyIf
<1>1. IInv => RefusedOnlyIf
  BY DEF IInv, Fresh, Stuck, RefusedOnlyIf
<1>2. QED
  BY <1>1, Invariance, PTL
===============================================================================
