-------------------------------- MODULE Albums --------------------------------
(***************************************************************************)
(* Albums as sqlite/album.go keeps them and http/album.go serves them.     *)
(*                                                                         *)
(* The database has one connection (sqlite/sqlite.go:62), so a call of     *)
(* AlbumService is one transaction and one action here.  A handler is two  *)
(* transactions: resolveAlbum reads the album and the handler compares its *)
(* owner with the caller; then the service call runs, by id, on whatever   *)
(* the database has become in between.                                     *)
(***************************************************************************)
EXTENDS Integers, FiniteSets

CONSTANTS
  Album,         \* album ids; kid.New() never returns one of them twice
  Photo,         \* photo ids, likewise never reused
  User,          \* user ids
  Request,       \* concurrent requests of the album API
  UserOf,        \* UserOf[r]: the authenticated user who sent r
  Base,          \* slugs that Slugify returns, standing for the album names
  Suffixed(_, _),\* Suffixed(b, i): the i-th slug uniqueSlug tries for base b
  MaxPosition,   \* bound of the model on positions (a 64-bit integer in SQLite)
  None           \* the NULL of the nullable columns; no id

ASSUME AlbumsAssumption ==
  /\ UserOf \in [Request -> User]
  /\ MaxPosition \in Nat
  /\ None \notin Album \cup Photo \cup User \cup Base
  /\ IsFiniteSet(Album)

(* uniqueSlug never tries more slugs than there can be albums, plus one.   *)
Suffixes == 1 .. (Cardinality(Album) + 1)
Slug == {Suffixed(b, i) : b \in Base, i \in Suffixes}

VARIABLES
  photoState,  \* photoState[p]: "new", a row of photos ("live"), or "deleted"
  albumState,  \* albumState[a]: likewise for a row of albums
  owner,       \* albums.user_id
  name,        \* albums.name, as the base slug it would give
  slug,        \* albums.slug
  cover,       \* albums.cover_photo_id
  member,      \* member[a]: the photos with a row in album_photos for a
  position,    \* album_photos.position of those rows, 0 where there is none
  target       \* target[r]: the album that r has resolved and may act on

rowVars == <<owner, name, slug, cover>>
listVars == <<member, position>>
vars == <<photoState, albumState, owner, name, slug, cover, member, position, target>>

Status == {"new", "live", "deleted"}
photos == {p \in Photo : photoState[p] = "live"}
albums == {a \in Album : albumState[a] = "live"}

Init ==
  /\ photoState = [p \in Photo |-> "new"]
  /\ albumState = [a \in Album |-> "new"]
  /\ owner = [a \in Album |-> None]
  /\ name = [a \in Album |-> None]
  /\ slug = [a \in Album |-> None]
  /\ cover = [a \in Album |-> None]
  /\ member = [a \in Album |-> {}]
  /\ position = [a \in Album |-> [p \in Photo |-> 0]]
  /\ target = [r \in Request |-> None]

-------------------------------------------------------------------------------
(* CreateAlbum: the handler needs no album, only a name.                   *)

SlugTaken(s) == \E a \in albums : slug[a] = s

(* Mistake to detect: the base is taken without a look at other albums.    *)
AlwaysBase(b, i) == i = 1

(* The loop of uniqueSlug stops at the first suffix that no album uses.    *)
FirstFree(b, i) ==
  /\ ~SlugTaken(Suffixed(b, i))
  /\ \A j \in 1 .. (i - 1) : SlugTaken(Suffixed(b, j))

CreateAlbum(r, a, b) ==
  /\ target[r] = None
  /\ albumState[a] = "new"
  /\ \E i \in Suffixes :
       /\ FirstFree(b, i)
       /\ slug' = [slug EXCEPT ![a] = Suffixed(b, i)]
  /\ albumState' = [albumState EXCEPT ![a] = "live"]
  /\ owner' = [owner EXCEPT ![a] = UserOf[r]]
  /\ name' = [name EXCEPT ![a] = b]
  /\ UNCHANGED <<photoState, cover, member, position, target>>

(* Mistake to detect: the owner of the album is not compared.              *)
ResolveForAnyone(r, a) ==
  /\ target[r] = None
  /\ a \in albums
  /\ target' = [target EXCEPT ![r] = a]
  /\ UNCHANGED <<photoState, albumState, rowVars, listVars>>

(* Mistake to detect: the request keeps the slug instead of the id.        *)
ResolveToSlug(r, a) ==
  /\ target[r] = None
  /\ a \in albums
  /\ owner[a] = UserOf[r]
  /\ target' = [target EXCEPT ![r] = slug[a]]
  /\ UNCHANGED <<photoState, albumState, rowVars, listVars>>

(* resolveAlbum, then the comparison of a.UserID with the caller.          *)
Resolve(r, a) ==
  /\ target[r] = None
  /\ a \in albums
  /\ owner[a] = UserOf[r]
  /\ target' = [target EXCEPT ![r] = a]
  /\ UNCHANGED <<photoState, albumState, rowVars, listVars>>

(* The second half of a handler runs and the request ends.                 *)
Finish(r) ==
  /\ target[r] # None
  /\ target' = [target EXCEPT ![r] = None]

(* A request may end after resolveAlbum without effect: a malformed photo  *)
(* id, or a service call that finds no album, photo, row or reference and  *)
(* rolls back.                                                             *)
Reject(r) ==
  /\ Finish(r)
  /\ UNCHANGED <<photoState, albumState, rowVars, listVars>>

-------------------------------------------------------------------------------
(* Mistake to detect: COUNT instead of MAX.                                *)
CountIs(a, m) == m = Cardinality(member[a])

(* COALESCE(MAX(position), 0) over the rows of album a is m.               *)
MaxPositionIs(a, m) ==
  /\ \A p \in member[a] : position[a][p] <= m
  /\ \/ m = 0 /\ member[a] = {}
     \/ \E p \in member[a] : position[a][p] = m

(* INSERT OR IGNORE: a photo that is already a member stays where it is.   *)
AddPhoto(r, p) ==
  LET a == target[r] IN
  /\ Finish(r)
  /\ a \in albums
  /\ p \in photos
  /\ \/ /\ p \in member[a]
        /\ UNCHANGED listVars
     \/ /\ p \notin member[a]
        /\ \E m \in 0 .. (MaxPosition - 1) :
             /\ MaxPositionIs(a, m)
             /\ position' = [position EXCEPT ![a][p] = m + 1]
        /\ member' = [member EXCEPT ![a] = @ \cup {p}]
  /\ UNCHANGED <<photoState, albumState, rowVars>>

(* No check of the album: the DELETE of a row that is not there is the     *)
(* ENOTFOUND of Reject.                                                    *)
RemovePhoto(r, p) ==
  LET a == target[r] IN
  /\ Finish(r)
  /\ p \in member[a]
  /\ member' = [member EXCEPT ![a] = @ \ {p}]
  /\ position' = [position EXCEPT ![a][p] = 0]
  /\ UNCHANGED <<photoState, albumState, rowVars>>

(* Mistake to detect: without a reference the photo goes behind position 1.*)
FrontIsOne(a, after) == IF after = None THEN 1 ELSE position[a][after]

(* The position a moved photo goes behind: 0 without a reference photo.    *)
ReferencePosition(a, after) == IF after = None THEN 0 ELSE position[a][after]

(* Mistake to detect: `position >= ?` moves the reference photo as well.   *)
ShiftedWithReference(a, pos) ==
  [q \in Photo |-> IF q \in member[a] /\ position[a][q] >= pos
                     THEN position[a][q] + 1
                     ELSE position[a][q]]

(* First UPDATE of MovePhoto: every row behind `pos` moves up by one, the  *)
(* row of the moved photo included.                                        *)
Shifted(a, pos) ==
  [q \in Photo |-> IF q \in member[a] /\ position[a][q] > pos
                     THEN position[a][q] + 1
                     ELSE position[a][q]]

(* MovePhoto never asks whether p is in the album: if it is not, the rows  *)
(* are shifted all the same and the second UPDATE matches no row.          *)
MovePhoto(r, p, after) ==
  LET a   == target[r]
      pos == ReferencePosition(a, after)
  IN
  /\ Finish(r)
  /\ after = None \/ after \in member[a]
  /\ \A q \in member[a] : position[a][q] < MaxPosition
  /\ position' = [position EXCEPT
                    ![a] = [q \in Photo |-> IF q = p /\ p \in member[a]
                                              THEN pos + 1
                                              ELSE Shifted(a, pos)[q]]]
  /\ UNCHANGED <<photoState, albumState, rowVars, member>>

-------------------------------------------------------------------------------
(* UpdateAlbum: fields the request does not name keep their value.  The    *)
(* slug is no such field.  A cover must be a row of photos (foreign key),  *)
(* of whichever album or none.                                             *)
UpdateAlbum(r, b, c) ==
  LET a == target[r] IN
  /\ Finish(r)
  /\ a \in albums
  /\ name' = [name EXCEPT ![a] = b]
  /\ c \in photos \cup {None}
  /\ cover' = [cover EXCEPT ![a] = c]
  /\ UNCHANGED <<photoState, albumState, owner, slug, listVars>>

(* The row goes, and ON DELETE CASCADE takes its rows in album_photos.     *)
DeleteAlbum(r) ==
  LET a == target[r] IN
  /\ Finish(r)
  /\ a \in albums
  /\ albumState' = [albumState EXCEPT ![a] = "deleted"]
  /\ owner' = [owner EXCEPT ![a] = None]
  /\ name' = [name EXCEPT ![a] = None]
  /\ slug' = [slug EXCEPT ![a] = None]
  /\ cover' = [cover EXCEPT ![a] = None]
  /\ member' = [member EXCEPT ![a] = {}]
  /\ position' = [position EXCEPT ![a] = [p \in Photo |-> 0]]
  /\ UNCHANGED photoState

-------------------------------------------------------------------------------
(* The photo API changes the same tables (module Library has the rest).    *)

CreatePhoto(p) ==
  /\ photoState[p] = "new"
  /\ photoState' = [photoState EXCEPT ![p] = "live"]
  /\ UNCHANGED <<albumState, rowVars, listVars, target>>

(* ON DELETE CASCADE of album_photos, ON DELETE SET NULL of the covers.    *)
DeletePhoto(p) ==
  /\ p \in photos
  /\ photoState' = [photoState EXCEPT ![p] = "deleted"]
  /\ cover' = [a \in Album |-> IF cover[a] = p THEN None ELSE cover[a]]
  /\ member' = [a \in Album |-> member[a] \ {p}]
  /\ position' = [a \in Album |-> [position[a] EXCEPT ![p] = 0]]
  /\ UNCHANGED <<albumState, owner, name, slug, target>>

-------------------------------------------------------------------------------
AlbumRequest(r) ==
  \/ \E a \in Album, b \in Base : CreateAlbum(r, a, b)
  \/ \E a \in Album : Resolve(r, a)
  \/ Reject(r)
  \/ \E p \in Photo : AddPhoto(r, p)
  \/ \E p \in Photo : RemovePhoto(r, p)
  \/ \E p \in Photo, after \in Photo \cup {None} : MovePhoto(r, p, after)
  \/ \E b \in Base, c \in Photo \cup {None} : UpdateAlbum(r, b, c)
  \/ DeleteAlbum(r)

Next ==
  \/ \E r \in Request : AlbumRequest(r)
  \/ \E p \in Photo : CreatePhoto(p)
  \/ \E p \in Photo : DeletePhoto(p)

Spec == Init /\ [][Next]_vars

-------------------------------------------------------------------------------
(* Every variable has its type.                                            *)
TypeOK ==
  /\ photoState \in [Photo -> Status]
  /\ albumState \in [Album -> Status]
  /\ owner \in [Album -> User \cup {None}]
  /\ name \in [Album -> Base \cup {None}]
  /\ slug \in [Album -> Slug \cup {None}]
  /\ cover \in [Album -> Photo \cup {None}]
  /\ member \in [Album -> SUBSET Photo]
  /\ position \in [Album -> [Photo -> Nat]]
  /\ target \in [Request -> Album \cup {None}]

(* No two photos of an album have one position, and the positions of its   *)
(* rows start at 1 ("position is 1-based", 0005_albums.sql:16): whatever   *)
(* adds, removals, moves and deletions came before, ORDER BY position has  *)
(* one answer (sqlite/album.go:414).                                       *)
PositionsDistinct ==
  \A a \in Album : \A p \in member[a] :
    /\ position[a][p] >= 1
    /\ \A q \in member[a] : p # q => position[a][p] # position[a][q]

(* Foreign keys: an album that is gone has no rows in album_photos, a      *)
(* photo that is gone is in no album and the cover of none, whatever a     *)
(* request that resolved the album before does after.                      *)
NoDanglingReference ==
  \A a \in Album :
    /\ member[a] \subseteq photos
    /\ a \notin albums => member[a] = {} /\ cover[a] = None
    /\ cover[a] # None => cover[a] \in photos

(* An URL names one album: the slugs of live albums differ, also where the *)
(* suffix of one name is the slug of another ("trip" twice and "trip-2").  *)
SlugsUnique ==
  \A a, b \in albums : a # b => slug[a] # slug[b]

(* "Adds immutable URL slug to albums" (0006_album_slugs.sql:2): while an  *)
(* album lives its URL stays, also when the album is renamed.              *)
SlugImmutable ==
  [][\A a \in albums : a \in albums' => slug'[a] = slug[a]]_vars

(* What makes it so: a request holds no album that was not created, and a  *)
(* live one only if it belongs to the user of the request.                 *)
TargetOwned ==
  \A r \in Request :
    target[r] # None =>
      /\ albumState[target[r]] # "new"
      /\ target[r] \in albums => owner[target[r]] = UserOf[r]

(* The list, the name and the cover of an album change only by a request   *)
(* of its owner, or because a photo was deleted, even though the handler   *)
(* compares owners in an earlier transaction than the one that writes.     *)
OnlyOwnerChanges ==
  [][\A a \in albums :
       (\/ member'[a] # member[a] \/ position'[a] # position[a]
        \/ cover'[a] # cover[a] \/ name'[a] # name[a]
        \/ albumState'[a] # albumState[a])
       => \/ photoState' # photoState
          \/ \E r \in Request : UserOf[r] = owner[a] /\ target[r] = a /\ target'[r] = None]_vars

(* A photo is moved behind the photo the request names, or to the          *)
(* beginning (cmd/photo/album.go:86): however the positions have spread,   *)
(* exactly those photos are listed before it that the request wants there. *)
MovesAsAsked ==
  [][\A r \in Request, p \in Photo, after \in Photo \cup {None} :
       MovePhoto(r, p, after) /\ p \in member[target[r]] =>
         \A q \in member[target[r]] \ {p} :
           position'[target[r]][q] < position'[target[r]][p]
             <=> /\ after # None
                 /\ position[target[r]][q] <= position[target[r]][after]]_vars

(* The listing FindAlbumPhotos returns, as the abstract order: ORDER BY    *)
(* position over the rows of the album.                                    *)
ListedBefore ==
  [a \in Album |-> {pq \in member[a] \X member[a] :
                      position[a][pq[1]] < position[a][pq[2]]}]

Order == INSTANCE AlbumOrder WITH shown <- member, before <- ListedBefore

(* The integers of the position column implement the promised order: every *)
(* call adds at the end, removes, or moves exactly one photo, and leaves   *)
(* the order of the others alone, after whatever history of calls.         *)
ImplementsAlbumOrder == Order!Spec
===============================================================================
