----------------------------- MODULE AlbumsProofs -----------------------------
(***************************************************************************)
(* Proofs about Albums, for every set of albums, photos, users, requests   *)
(* and slugs: the type invariant, the uniqueness of positions and slugs,   *)
(* the foreign keys, and the refinement of AlbumOrder.                     *)
(***************************************************************************)
EXTENDS Albums, TLAPS

LEMMA InitTypeOK == Init => TypeOK
  BY AlbumsAssumption DEF Init, TypeOK, Status

(* What ending a request does to the types of `target`.                    *)
LEMMA FinishType ==
  ASSUME NEW r \in Request, TypeOK, Finish(r)
  PROVE  /\ target[r] \in Album
         /\ target' \in [Request -> Album \cup {None}]
  BY DEF Finish, TypeOK

LEMMA NextTypeOK == TypeOK /\ [Next]_vars => TypeOK'
<1> SUFFICES ASSUME TypeOK, [Next]_vars
             PROVE  TypeOK'
  OBVIOUS
<1> USE AlbumsAssumption
<1>1. ASSUME NEW r \in Request, NEW a \in Album, NEW b \in Base, CreateAlbum(r, a, b)
      PROVE  TypeOK'
  BY <1>1 DEF CreateAlbum, TypeOK, Status, Slug
<1>2. ASSUME NEW r \in Request, NEW a \in Album, Resolve(r, a)
      PROVE  TypeOK'
  BY <1>2 DEF Resolve, TypeOK, rowVars, listVars
<1>3. ASSUME NEW r \in Request, Reject(r)
      PROVE  TypeOK'
  BY <1>3, FinishType DEF Reject, TypeOK, rowVars, listVars
<1>4. ASSUME NEW r \in Request, NEW p \in Photo, AddPhoto(r, p)
      PROVE  TypeOK'
  <2>1. target[r] \in Album /\ target' \in [Request -> Album \cup {None}]
    BY <1>4, FinishType DEF AddPhoto
  <2>2. member' \in [Album -> SUBSET Photo]
    BY <1>4, <2>1 DEF AddPhoto, TypeOK, listVars
  <2>3. position' \in [Album -> [Photo -> Nat]]
    <3>1. CASE UNCHANGED listVars
      BY <3>1 DEF TypeOK, listVars
    <3>2. CASE \E m \in 0 .. (MaxPosition - 1) :
                 position' = [position EXCEPT ![target[r]][p] = m + 1]
      <4>1. PICK m \in 0 .. (MaxPosition - 1) :
              position' = [position EXCEPT ![target[r]][p] = m + 1]
        BY <3>2
      <4>2. m + 1 \in Nat
        OBVIOUS
      <4>3. [position[target[r]] EXCEPT ![p] = m + 1] \in [Photo -> Nat]
        BY <2>1, <4>2 DEF TypeOK
      <4>4. QED
        BY <2>1, <4>1, <4>3 DEF TypeOK
    <3>3. QED
      BY <1>4, <3>1, <3>2 DEF AddPhoto
  <2>4. QED
    BY <1>4, <2>1, <2>2, <2>3 DEF AddPhoto, TypeOK, rowVars
<1>5. ASSUME NEW r \in Request, NEW p \in Photo, RemovePhoto(r, p)
      PROVE  TypeOK'
  <2>1. target[r] \in Album /\ target' \in [Request -> Album \cup {None}]
    BY <1>5, FinishType DEF RemovePhoto
  <2>2. QED
    BY <1>5, <2>1 DEF RemovePhoto, TypeOK, rowVars
<1>6. ASSUME NEW r \in Request, NEW p \in Photo, NEW after \in Photo \cup {None},
             MovePhoto(r, p, after)
      PROVE  TypeOK'
  <2>1. target[r] \in Album /\ target' \in [Request -> Album \cup {None}]
    BY <1>6, FinishType DEF MovePhoto
  <2>2. ReferencePosition(target[r], after) \in Nat
    BY <1>6, <2>1 DEF MovePhoto, ReferencePosition, TypeOK
  <2>3. position' \in [Album -> [Photo -> Nat]]
    BY <1>6, <2>1, <2>2 DEF MovePhoto, Shifted, TypeOK
  <2>4. QED
    BY <1>6, <2>1, <2>3 DEF MovePhoto, TypeOK, rowVars
<1>7. ASSUME NEW r \in Request, NEW b \in Base, NEW c \in Photo \cup {None},
             UpdateAlbum(r, b, c)
      PROVE  TypeOK'
  <2>1. target[r] \in Album /\ target' \in [Request -> Album \cup {None}]
    BY <1>7, FinishType DEF UpdateAlbum
  <2>2. QED
    BY <1>7, <2>1 DEF UpdateAlbum, TypeOK, listVars
<1>8. ASSUME NEW r \in Request, DeleteAlbum(r)
      PROVE  TypeOK'
  <2>1. target[r] \in Album /\ target' \in [Request -> Album \cup {None}]
    BY <1>8, FinishType DEF DeleteAlbum
  <2>2. QED
    BY <1>8, <2>1 DEF DeleteAlbum, TypeOK, Status
<1>9. ASSUME NEW p \in Photo, CreatePhoto(p)
      PROVE  TypeOK'
  BY <1>9 DEF CreatePhoto, TypeOK, Status, rowVars, listVars
<1>10. ASSUME NEW p \in Photo, DeletePhoto(p)
       PROVE  TypeOK'
  BY <1>10 DEF DeletePhoto, TypeOK, Status
<1>11. CASE UNCHANGED vars
  BY <1>11 DEF vars, TypeOK
<1>12. QED
  BY <1>1, <1>2, <1>3, <1>4, <1>5, <1>6, <1>7, <1>8, <1>9, <1>10, <1>11
     DEF Next, AlbumRequest

(* Every variable has its type in every reachable state.                   *)
THEOREM TypeCorrect == Spec => []TypeOK
  BY InitTypeOK, NextTypeOK, PTL DEF Spec

-------------------------------------------------------------------------------
(* The positions of one album stay apart under each of the three calls.    *)

LEMMA AppendDistinct ==
  ASSUME TypeOK, PositionsDistinct,
         NEW r \in Request, NEW p \in Photo, AddPhoto(r, p)
  PROVE  PositionsDistinct'
<1> DEFINE a == target[r]
<1>1. a \in Album
  BY FinishType DEF AddPhoto
<1>2. CASE UNCHANGED listVars
  BY <1>2 DEF PositionsDistinct, listVars
<1>3. ASSUME p \notin member[a],
             NEW m \in 0 .. (MaxPosition - 1), MaxPositionIs(a, m),
             position' = [position EXCEPT ![a][p] = m + 1],
             member' = [member EXCEPT ![a] = @ \cup {p}]
      PROVE  PositionsDistinct'
  <2>1. \A q \in Photo : position'[a][q] = IF q = p THEN m + 1 ELSE position[a][q]
    BY <1>1, <1>3 DEF TypeOK
  <2>2. \A b \in Album : b # a => position'[b] = position[b] /\ member'[b] = member[b]
    BY <1>1, <1>3 DEF TypeOK
  <2>3. member'[a] = member[a] \cup {p} /\ member[a] \subseteq Photo
    BY <1>1, <1>3 DEF TypeOK
  <2>4. \A q \in member[a] : position[a][q] <= m /\ position[a][q] \in Nat
    BY <1>1, <1>3, <2>3 DEF MaxPositionIs, TypeOK
  <2>5. ASSUME NEW q1 \in member'[a]
        PROVE  /\ position'[a][q1] >= 1
               /\ \A q2 \in member'[a] : q1 # q2 => position'[a][q1] # position'[a][q2]
    BY <1>1, <1>3, <2>1, <2>3, <2>4 DEF PositionsDistinct
  <2>6. QED
    BY <1>1, <2>2, <2>5 DEF PositionsDistinct
<1>4. QED
  BY <1>2, <1>3 DEF AddPhoto

(* What MovePhoto leaves in the position column: the rows behind the       *)
(* reference one further, the moved photo directly behind the reference.   *)
LEMMA MovedPositions ==
  ASSUME TypeOK,
         NEW r \in Request, NEW p \in Photo, NEW after \in Photo \cup {None},
         MovePhoto(r, p, after)
  PROVE  LET a == target[r]
             pos == ReferencePosition(a, after) IN
         /\ a \in Album
         /\ pos \in Nat
         /\ member[a] \subseteq Photo
         /\ member' = member
         /\ \A b \in Album : b # a => position'[b] = position[b]
         /\ p \in member[a] => position'[a][p] = pos + 1
         /\ \A q \in member[a] :
              /\ position[a][q] \in Nat
              /\ q # p => position'[a][q] = IF position[a][q] > pos
                                             THEN position[a][q] + 1
                                             ELSE position[a][q]
<1> DEFINE a == target[r]
           pos == ReferencePosition(a, after)
<1>1. a \in Album
  BY FinishType DEF MovePhoto
<1>2. pos \in Nat
  BY <1>1, AlbumsAssumption DEF MovePhoto, ReferencePosition, TypeOK
<1>3. member[a] \subseteq Photo /\ member' = member
  BY <1>1 DEF TypeOK, MovePhoto
<1>4. position'[a] = [q \in Photo |-> IF q = p /\ p \in member[a]
                                       THEN pos + 1
                                       ELSE Shifted(a, pos)[q]]
  BY <1>1 DEF TypeOK, MovePhoto
<1>5. \A b \in Album : b # a => position'[b] = position[b]
  BY <1>1 DEF TypeOK, MovePhoto
<1>6. \A q \in member[a] : position[a][q] \in Nat
  BY <1>1, <1>3 DEF TypeOK
<1>7. QED
  BY <1>1, <1>2, <1>3, <1>4, <1>5, <1>6 DEF Shifted

LEMMA MoveDistinct ==
  ASSUME TypeOK, PositionsDistinct,
         NEW r \in Request, NEW p \in Photo, NEW after \in Photo \cup {None},
         MovePhoto(r, p, after)
  PROVE  PositionsDistinct'
<1> DEFINE a == target[r]
           pos == ReferencePosition(a, after)
<1>1. /\ a \in Album
      /\ pos \in Nat
      /\ member' = member
      /\ \A b \in Album : b # a => position'[b] = position[b]
      /\ p \in member[a] => position'[a][p] = pos + 1
      /\ \A q \in member[a] :
           /\ position[a][q] \in Nat
           /\ q # p => position'[a][q] = IF position[a][q] > pos
                                          THEN position[a][q] + 1
                                          ELSE position[a][q]
  BY MovedPositions
<1>2. ASSUME NEW q1 \in member[a]
      PROVE  /\ position'[a][q1] >= 1
             /\ \A q2 \in member[a] : q1 # q2 => position'[a][q1] # position'[a][q2]
  <2>1. position[a][q1] >= 1
    BY <1>1 DEF PositionsDistinct
  <2>2. \A q2 \in member[a] : q1 # q2 => position[a][q1] # position[a][q2]
    BY <1>1 DEF PositionsDistinct
  <2> HIDE DEF a, pos
  <2>3. QED
    BY <1>1, <2>1, <2>2
<1> HIDE DEF a, pos
<1>3. QED
  BY <1>1, <1>2 DEF PositionsDistinct

LEMMA NextPositionsDistinct ==
  TypeOK /\ PositionsDistinct /\ [Next]_vars => PositionsDistinct'
<1> SUFFICES ASSUME TypeOK, PositionsDistinct, [Next]_vars
             PROVE  PositionsDistinct'
  OBVIOUS
<1>1. ASSUME UNCHANGED listVars
      PROVE  PositionsDistinct'
  BY <1>1 DEF PositionsDistinct, listVars
<1>2. ASSUME NEW r \in Request, NEW p \in Photo, RemovePhoto(r, p)
      PROVE  PositionsDistinct'
  <2>1. target[r] \in Album
    BY <1>2, FinishType DEF RemovePhoto
  <2>2. \A b \in Album : member'[b] \subseteq member[b]
    BY <1>2, <2>1 DEF RemovePhoto, TypeOK
  <2>3. \A b \in Album : \A q \in member'[b] : position'[b][q] = position[b][q]
    BY <1>2, <2>1 DEF RemovePhoto, TypeOK
  <2>4. QED
    BY <2>2, <2>3 DEF PositionsDistinct
<1>3. ASSUME NEW r \in Request, DeleteAlbum(r)
      PROVE  PositionsDistinct'
  <2>1. target[r] \in Album
    BY <1>3, FinishType DEF DeleteAlbum
  <2>2. QED
    BY <1>3, <2>1 DEF DeleteAlbum, TypeOK, PositionsDistinct
<1>4. ASSUME NEW p \in Photo, DeletePhoto(p)
      PROVE  PositionsDistinct'
  <2>1. \A b \in Album : member'[b] = member[b] \ {p} /\ member[b] \subseteq Photo
    BY <1>4 DEF DeletePhoto, TypeOK
  <2>2. \A b \in Album : \A q \in member'[b] : position'[b][q] = position[b][q]
    BY <1>4, <2>1 DEF DeletePhoto, TypeOK
  <2>3. QED
    BY <2>1, <2>2 DEF PositionsDistinct
<1>5. QED
  BY <1>1, <1>2, <1>3, <1>4, AppendDistinct, MoveDistinct
     DEF Next, AlbumRequest, vars, listVars, CreateAlbum, Resolve, Reject,
         UpdateAlbum, CreatePhoto

(* No sequence of calls gives two photos of an album one position.         *)
THEOREM PositionsAlwaysDistinct == Spec => []PositionsDistinct
<1>1. Init => PositionsDistinct
  BY DEF Init, PositionsDistinct
<1>2. QED
  BY <1>1, TypeCorrect, NextPositionsDistinct, PTL DEF Spec

-------------------------------------------------------------------------------
(* Foreign keys.                                                           *)

LEMMA NextNoDangling ==
  TypeOK /\ NoDanglingReference /\ [Next]_vars => NoDanglingReference'
<1> SUFFICES ASSUME TypeOK, NoDanglingReference, [Next]_vars
             PROVE  NoDanglingReference'
  OBVIOUS
<1> USE AlbumsAssumption
<1>1. ASSUME UNCHANGED <<photoState, albumState, cover, member>>
      PROVE  NoDanglingReference'
  BY <1>1 DEF NoDanglingReference, photos, albums
<1>2. ASSUME NEW r \in Request, NEW a \in Album, NEW b \in Base, CreateAlbum(r, a, b)
      PROVE  NoDanglingReference'
  BY <1>2 DEF CreateAlbum, NoDanglingReference, photos, albums, TypeOK
<1>3. ASSUME NEW r \in Request, NEW p \in Photo, AddPhoto(r, p)
      PROVE  NoDanglingReference'
  <2>1. target[r] \in Album
    BY <1>3, FinishType DEF AddPhoto
  <2>2. /\ \A b \in Album : b # target[r] => member'[b] = member[b]
        /\ member'[target[r]] \subseteq member[target[r]] \cup {p}
    BY <1>3, <2>1 DEF AddPhoto, TypeOK, listVars
  <2>3. /\ target[r] \in albums /\ p \in photos
        /\ photos' = photos /\ albums' = albums /\ cover' = cover
    BY <1>3 DEF AddPhoto, photos, albums, rowVars
  <2>4. QED
    BY <2>1, <2>2, <2>3 DEF NoDanglingReference
<1>4. ASSUME NEW r \in Request, NEW p \in Photo, RemovePhoto(r, p)
      PROVE  NoDanglingReference'
  <2>1. target[r] \in Album
    BY <1>4, FinishType DEF RemovePhoto
  <2>2. QED
    BY <1>4, <2>1 DEF RemovePhoto, NoDanglingReference, photos, albums, TypeOK, rowVars
<1>5. ASSUME NEW r \in Request, NEW b \in Base, NEW c \in Photo \cup {None},
             UpdateAlbum(r, b, c)
      PROVE  NoDanglingReference'
  <2>1. target[r] \in Album
    BY <1>5, FinishType DEF UpdateAlbum
  <2>2. QED
    BY <1>5, <2>1 DEF UpdateAlbum, NoDanglingReference, photos, albums, TypeOK, listVars
<1>6. ASSUME NEW r \in Request, DeleteAlbum(r)
      PROVE  NoDanglingReference'
  <2>1. target[r] \in Album
    BY <1>6, FinishType DEF DeleteAlbum
  <2>2. QED
    BY <1>6, <2>1 DEF DeleteAlbum, NoDanglingReference, photos, albums, TypeOK
<1>7. ASSUME NEW p \in Photo, CreatePhoto(p)
      PROVE  NoDanglingReference'
  BY <1>7 DEF CreatePhoto, NoDanglingReference, photos, albums, TypeOK, rowVars, listVars
<1>8. ASSUME NEW p \in Photo, DeletePhoto(p)
      PROVE  NoDanglingReference'
  BY <1>8 DEF DeletePhoto, NoDanglingReference, photos, albums, TypeOK
<1>9. QED
  BY <1>1, <1>2, <1>3, <1>4, <1>5, <1>6, <1>7, <1>8
     DEF Next, AlbumRequest, Resolve, Reject, MovePhoto, vars, rowVars, listVars

(* No row of album_photos and no cover ever points at a row that is gone.  *)
THEOREM ReferencesAlwaysLive == Spec => []NoDanglingReference
<1>1. Init => NoDanglingReference
  BY DEF Init, NoDanglingReference
<1>2. QED
  BY <1>1, TypeCorrect, NextNoDangling, PTL DEF Spec

-------------------------------------------------------------------------------
(* Slugs.                                                                  *)

LEMMA NextSlugsUnique == TypeOK /\ SlugsUnique /\ [Next]_vars => SlugsUnique'
<1> SUFFICES ASSUME TypeOK, SlugsUnique, [Next]_vars
             PROVE  SlugsUnique'
  OBVIOUS
<1>1. ASSUME UNCHANGED <<albumState, slug>>
      PROVE  SlugsUnique'
  BY <1>1 DEF SlugsUnique, albums
<1>2. ASSUME NEW r \in Request, NEW a \in Album, NEW b \in Base, CreateAlbum(r, a, b)
      PROVE  SlugsUnique'
  <2>1. PICK i \in Suffixes :
          FirstFree(b, i) /\ slug' = [slug EXCEPT ![a] = Suffixed(b, i)]
    BY <1>2 DEF CreateAlbum
  <2>2. \A c \in albums : slug[c] # Suffixed(b, i)
    BY <2>1 DEF FirstFree, SlugTaken
  <2>3. a \notin albums /\ albums' = albums \cup {a}
    BY <1>2 DEF CreateAlbum, albums, TypeOK
  <2>4. slug'[a] = Suffixed(b, i) /\ \A c \in albums : slug'[c] = slug[c]
    BY <2>1, <2>3 DEF TypeOK, albums
  <2>5. QED
    BY <2>2, <2>3, <2>4 DEF SlugsUnique
<1>3. ASSUME NEW r \in Request, DeleteAlbum(r)
      PROVE  SlugsUnique'
  <2>1. target[r] \in Album
    BY <1>3, FinishType DEF DeleteAlbum
  <2>2. albums' \subseteq albums /\ \A c \in albums' : slug'[c] = slug[c]
    BY <1>3, <2>1 DEF DeleteAlbum, albums, TypeOK
  <2>3. QED
    BY <2>2 DEF SlugsUnique
<1>4. QED
  BY <1>1, <1>2, <1>3
     DEF Next, AlbumRequest, Resolve, Reject, AddPhoto, RemovePhoto, MovePhoto,
         UpdateAlbum, CreatePhoto, DeletePhoto, vars, rowVars, listVars

(* No two live albums ever share a slug, whatever the names are.           *)
THEOREM SlugsAlwaysUnique == Spec => []SlugsUnique
<1>1. Init => SlugsUnique
  BY DEF Init, SlugsUnique, albums
<1>2. QED
  BY <1>1, TypeCorrect, NextSlugsUnique, PTL DEF Spec

LEMMA NextSlugImmutable ==
  TypeOK /\ [Next]_vars =>
    [\A a \in albums : a \in albums' => slug'[a] = slug[a]]_vars
<1> SUFFICES ASSUME TypeOK, Next
             PROVE  \A a \in albums : a \in albums' => slug'[a] = slug[a]
  OBVIOUS
<1>1. ASSUME NEW r \in Request, NEW a \in Album, NEW b \in Base, CreateAlbum(r, a, b)
      PROVE  \A c \in albums : slug'[c] = slug[c]
  BY <1>1 DEF CreateAlbum, albums, TypeOK
<1>2. ASSUME NEW r \in Request, DeleteAlbum(r)
      PROVE  \A c \in albums : c \in albums' => slug'[c] = slug[c]
  <2>1. target[r] \in Album
    BY <1>2, FinishType DEF DeleteAlbum
  <2>2. QED
    BY <1>2, <2>1 DEF DeleteAlbum, albums, TypeOK
<1>3. QED
  BY <1>1, <1>2
     DEF Next, AlbumRequest, Resolve, Reject, AddPhoto, RemovePhoto, MovePhoto,
         UpdateAlbum, CreatePhoto, DeletePhoto, rowVars

(* The URL of an album never changes while the album lives.                *)
THEOREM SlugsNeverChange == Spec => SlugImmutable
  BY TypeCorrect, NextSlugImmutable, PTL DEF Spec, SlugImmutable

(* After a move, the photos with a position up to that of the reference    *)
(* are listed before the moved one, and no other.                          *)
LEMMA NextMovesAsAsked ==
  ASSUME TypeOK, PositionsDistinct,
         NEW r \in Request, NEW p \in Photo, NEW after \in Photo \cup {None},
         MovePhoto(r, p, after), p \in member[target[r]],
         NEW q \in member[target[r]] \ {p}
  PROVE  position'[target[r]][q] < position'[target[r]][p]
           <=> /\ after # None
               /\ position[target[r]][q] <= position[target[r]][after]
<1> DEFINE a == target[r]
           pos == ReferencePosition(a, after)
<1>1. /\ a \in Album
      /\ pos \in Nat
      /\ position'[a][p] = pos + 1
      /\ position[a][q] \in Nat
      /\ position'[a][q] = IF position[a][q] > pos THEN position[a][q] + 1
                                                  ELSE position[a][q]
  BY MovedPositions
<1>2. position[a][q] >= 1
  BY <1>1 DEF PositionsDistinct
<1>3. position'[a][q] < position'[a][p] <=> position[a][q] <= pos
  <2> HIDE DEF a, pos
  <2>1. QED
    BY <1>1
<1>4. CASE after = None
  <2>1. pos = 0
    BY <1>4 DEF ReferencePosition
  <2> HIDE DEF a, pos
  <2>2. ~(position[a][q] <= pos)
    BY <1>1, <1>2, <2>1
  <2>3. QED
    BY <1>3, <1>4, <2>2 DEF a
<1>5. CASE after # None
  <2>1. pos = position[a][after]
    BY <1>5 DEF ReferencePosition
  <2>2. QED
    BY <1>3, <1>5, <2>1
<1>6. QED
  BY <1>4, <1>5

(* A moved photo comes to lie exactly where the request asked.             *)
THEOREM MovesGoWhereAsked == Spec => MovesAsAsked
<1>1. TypeOK /\ PositionsDistinct =>
        [\A r \in Request, p \in Photo, after \in Photo \cup {None} :
           MovePhoto(r, p, after) /\ p \in member[target[r]] =>
             \A q \in member[target[r]] \ {p} :
               position'[target[r]][q] < position'[target[r]][p]
                 <=> /\ after # None
                     /\ position[target[r]][q] <= position[target[r]][after]]_vars
  BY NextMovesAsAsked
<1>2. QED
  BY <1>1, TypeCorrect, PositionsAlwaysDistinct, PTL DEF MovesAsAsked

-------------------------------------------------------------------------------
(* The refinement: ListedBefore is the order AlbumOrder speaks of.         *)

(* Two orders on the photos of an album are one when they agree on every   *)
(* pair.                                                                   *)
LEMMA SamePairs ==
  \A S, R1, R2 :
    /\ R1 \subseteq S \X S
    /\ R2 \subseteq S \X S
    /\ \A x, y \in S : <<x, y>> \in R1 <=> <<x, y>> \in R2
    => R1 = R2
<1> SUFFICES ASSUME NEW S, NEW R1 \in SUBSET (S \X S), NEW R2 \in SUBSET (S \X S),
                    \A x, y \in S : <<x, y>> \in R1 <=> <<x, y>> \in R2
             PROVE  R1 = R2
  BY Zenon
<1>1. QED
  OBVIOUS

LEMMA ListedBeforePair ==
  /\ \A a \in Album : ListedBefore[a] \subseteq (member[a] \X member[a])
  /\ \A a \in Album : \A x, y \in member[a] :
       <<x, y>> \in ListedBefore[a] <=> position[a][x] < position[a][y]
  BY DEF ListedBefore

(* The same for the listing after a step.                                  *)
LEMMA ListedAfterPair ==
  /\ ListedBefore' = [a \in Album |-> ListedBefore'[a]]
  /\ \A a \in Album : ListedBefore'[a] \subseteq (member'[a] \X member'[a])
  /\ \A a \in Album : \A x, y \in member'[a] :
       <<x, y>> \in ListedBefore'[a] <=> position'[a][x] < position'[a][y]
  BY DEF ListedBefore

(* Albums whose rows a step leaves alone list what they listed.            *)
LEMMA ListingKept ==
  ASSUME NEW a \in Album, member'[a] = member[a],
         \A x, y \in member[a] :
           position'[a][x] < position'[a][y] <=> position[a][x] < position[a][y]
  PROVE  ListedBefore'[a] = ListedBefore[a]
<1>1. \A x, y \in member[a] : <<x, y>> \in ListedBefore'[a] <=> <<x, y>> \in ListedBefore[a]
  BY ListedBeforePair, ListedAfterPair
<1>2. ListedBefore[a] \subseteq (member[a] \X member[a])
  BY ListedBeforePair
<1>3. ListedBefore'[a] \subseteq (member[a] \X member[a])
  BY ListedAfterPair
<1>4. QED
  BY <1>1, <1>2, <1>3, SamePairs, Zenon

LEMMA InitRefines == Init => Order!Init
  BY DEF Init, Order!Init, ListedBefore

LEMMA AddPhotoRefines ==
  ASSUME TypeOK, PositionsDistinct,
         NEW r \in Request, NEW p \in Photo, AddPhoto(r, p)
  PROVE  Order!Append(target[r], p) \/ UNCHANGED <<member, ListedBefore>>
<1> DEFINE a == target[r]
<1>1. a \in Album
  BY FinishType DEF AddPhoto
<1>2. CASE UNCHANGED listVars
  BY <1>2 DEF listVars, ListedBefore
<1>3. ASSUME p \notin member[a],
             NEW m \in 0 .. (MaxPosition - 1), MaxPositionIs(a, m),
             position' = [position EXCEPT ![a][p] = m + 1],
             member' = [member EXCEPT ![a] = @ \cup {p}]
      PROVE  Order!Append(a, p)
  <2>1. \A q \in Photo : position'[a][q] = IF q = p THEN m + 1 ELSE position[a][q]
    BY <1>1, <1>3 DEF TypeOK
  <2>2. \A b \in Album : b # a => position'[b] = position[b] /\ member'[b] = member[b]
    BY <1>1, <1>3 DEF TypeOK
  <2>3. member'[a] = member[a] \cup {p} /\ member[a] \subseteq Photo
    BY <1>1, <1>3 DEF TypeOK
  <2>4. \A q \in member[a] : position[a][q] <= m /\ position[a][q] \in Nat
    BY <1>1, <1>3, <2>3 DEF MaxPositionIs, TypeOK
  <2>5. \A b \in Album : b # a => ListedBefore'[b] = ListedBefore[b]
    BY <2>2, ListingKept
  <2>6. ListedBefore'[a] = ListedBefore[a] \cup (member[a] \X {p})
    <3> DEFINE new == ListedBefore[a] \cup (member[a] \X {p})
    <3>1. new \subseteq (member'[a] \X member'[a])
      BY <1>1, <2>3, ListedBeforePair
    <3>2. ListedBefore'[a] \subseteq (member'[a] \X member'[a])
      BY <1>1, ListedAfterPair
    <3>3. ASSUME NEW x \in member'[a], NEW y \in member'[a]
          PROVE  <<x, y>> \in new <=> position'[a][x] < position'[a][y]
      <4>1. CASE x = p
        BY <1>1, <1>3, <2>1, <2>3, <2>4, <4>1, ListedBeforePair
      <4>2. CASE x # p /\ y = p
        BY <1>1, <1>3, <2>1, <2>3, <2>4, <4>2, ListedBeforePair
      <4>3. CASE x # p /\ y # p
        BY <1>1, <1>3, <2>1, <2>3, <2>4, <4>3, ListedBeforePair
      <4>4. QED
        BY <4>1, <4>2, <4>3
    <3>4. \A x, y \in member'[a] : <<x, y>> \in new <=> <<x, y>> \in ListedBefore'[a]
      BY <1>1, <3>3, ListedAfterPair
    <3> HIDE DEF new
    <3>5. new = ListedBefore'[a]
      BY <3>1, <3>2, <3>4, SamePairs, Zenon
    <3>6. QED
      BY <3>5 DEF new
  <2>7. ListedBefore' = [ListedBefore EXCEPT ![a] = @ \cup (member[a] \X {p})]
    BY <1>1, <2>5, <2>6 DEF ListedBefore
  <2>8. QED
    BY <1>3, <2>7 DEF Order!Append
<1>4. QED
  BY <1>2, <1>3 DEF AddPhoto

LEMMA RemovePhotoRefines ==
  ASSUME TypeOK, NEW r \in Request, NEW p \in Photo, RemovePhoto(r, p)
  PROVE  Order!Remove(target[r], p)
<1> DEFINE a == target[r]
<1>1. a \in Album /\ p \in member[a]
  BY FinishType DEF RemovePhoto
<1>2. member' = [member EXCEPT ![a] = @ \ {p}]
  BY DEF RemovePhoto
<1>3. member[a] \subseteq Photo /\ member'[a] = member[a] \ {p}
  BY <1>1, <1>2 DEF TypeOK
<1>4. \A q \in member'[a] : position'[a][q] = position[a][q]
  BY <1>1, <1>3 DEF RemovePhoto, TypeOK
<1>5. \A b \in Album : b # a => position'[b] = position[b] /\ member'[b] = member[b]
  BY <1>1 DEF RemovePhoto, TypeOK
<1>6. \A b \in Album : b # a => ListedBefore'[b] = ListedBefore[b]
  BY <1>5, ListingKept
<1>7. ListedBefore'[a] = Order!Without(ListedBefore[a], p)
  <2> DEFINE new == Order!Without(ListedBefore[a], p)
  <2>1. new \subseteq member'[a] \X member'[a]
    BY <1>1, <1>3, ListedBeforePair DEF Order!Without
  <2>2. ListedBefore'[a] \subseteq member'[a] \X member'[a]
    BY <1>1, ListedAfterPair
  <2>3. \A x, y \in member'[a] : <<x, y>> \in new <=> <<x, y>> \in ListedBefore[a]
    BY <1>1, <1>3 DEF Order!Without
  <2>4. \A x, y \in member'[a] : <<x, y>> \in new <=> <<x, y>> \in ListedBefore'[a]
    BY <1>1, <1>3, <1>4, <2>3, ListedBeforePair, ListedAfterPair
  <2> HIDE DEF new
  <2>5. new = ListedBefore'[a]
    BY <2>1, <2>2, <2>4, SamePairs, Zenon
  <2>6. QED
    BY <2>5 DEF new
<1>8. ListedBefore' = [ListedBefore EXCEPT ![a] = Order!Without(@, p)]
  BY <1>1, <1>6, <1>7 DEF ListedBefore
<1>9. QED
  BY <1>1, <1>2, <1>8 DEF Order!Remove

(* The order after MovePhoto, pair by pair: pairs without the moved photo  *)
(* are what they were, and the moved photo is behind exactly the photos up *)
(* to the reference position.                                              *)
LEMMA MovedPairs ==
  ASSUME TypeOK, PositionsDistinct,
         NEW r \in Request, NEW p \in Photo, NEW after \in Photo \cup {None},
         MovePhoto(r, p, after)
  PROVE  LET a == target[r]
             pos == ReferencePosition(a, after) IN
         /\ \A x, y \in member[a] :
              x # p /\ y # p =>
                (position'[a][x] < position'[a][y] <=> position[a][x] < position[a][y])
         /\ p \in member[a] =>
              \A x \in member[a] : x # p =>
                /\ position'[a][x] < position'[a][p] <=> position[a][x] <= pos
                /\ position'[a][p] < position'[a][x] <=> position[a][x] > pos
<1> DEFINE a == target[r]
           pos == ReferencePosition(a, after)
<1>1. /\ pos \in Nat
      /\ p \in member[a] => position'[a][p] = pos + 1
      /\ \A q \in member[a] :
           /\ position[a][q] \in Nat
           /\ q # p => position'[a][q] = IF position[a][q] > pos
                                          THEN position[a][q] + 1
                                          ELSE position[a][q]
  BY MovedPositions
<1> HIDE DEF a, pos
<1>2. \A x, y \in member[a] :
        x # p /\ y # p =>
          (position'[a][x] < position'[a][y] <=> position[a][x] < position[a][y])
  BY <1>1
<1>3. p \in member[a] =>
        \A x \in member[a] : x # p =>
          /\ position'[a][x] < position'[a][p] <=> position[a][x] <= pos
          /\ position'[a][p] < position'[a][x] <=> position[a][x] > pos
  BY <1>1
<1>4. QED
  BY <1>2, <1>3 DEF a, pos

LEMMA MovePhotoRefines ==
  ASSUME TypeOK, PositionsDistinct,
         NEW r \in Request, NEW p \in Photo, NEW after \in Photo \cup {None},
         MovePhoto(r, p, after)
  PROVE  \/ Order!MoveToFront(target[r], p)
         \/ after \in Photo /\ Order!MoveBehind(target[r], p, after)
         \/ UNCHANGED <<member, ListedBefore>>
<1> DEFINE a == target[r]
           pos == ReferencePosition(a, after)
<1>1. /\ a \in Album
      /\ pos \in Nat
      /\ member[a] \subseteq Photo
      /\ member' = member
      /\ \A b \in Album : b # a => position'[b] = position[b]
      /\ \A q \in member[a] : position[a][q] \in Nat
  BY MovedPositions
<1>2. /\ \A x, y \in member[a] :
           x # p /\ y # p =>
             (position'[a][x] < position'[a][y] <=> position[a][x] < position[a][y])
      /\ p \in member[a] =>
           \A x \in member[a] : x # p =>
             /\ position'[a][x] < position'[a][p] <=> position[a][x] <= pos
             /\ position'[a][p] < position'[a][x] <=> position[a][x] > pos
  BY MovedPairs
<1>3. \A b \in Album : b # a => ListedBefore'[b] = ListedBefore[b]
  BY <1>1, ListingKept
<1>4. /\ \A q \in member[a] : position[a][q] >= 1
      /\ \A x, y \in member[a] : x # y => position[a][x] # position[a][y]
  BY <1>1 DEF PositionsDistinct
<1>5. p \in member[a] => /\ ~(position'[a][p] < position'[a][p])
                        /\ ~(position[a][p] < position[a][p])
  <2>1. position'[a][p] = pos + 1 \/ p \notin member[a]
    BY MovedPositions
  <2> HIDE DEF a, pos
  <2>2. QED
    BY <1>1, <2>1
<1>6. after = None \/ (after \in member[a] /\ pos = position[a][after] /\ after # None)
  BY AlbumsAssumption, <1>1 DEF MovePhoto, ReferencePosition
<1>7. after = None => pos = 0
  BY DEF ReferencePosition
<1>8. ASSUME \A x, y \in member[a] :
               position'[a][x] < position'[a][y] <=> position[a][x] < position[a][y]
      PROVE  UNCHANGED <<member, ListedBefore>>
  <2>1. ListedBefore'[a] = ListedBefore[a]
    BY <1>1, <1>8, ListingKept
  <2>2. QED
    BY <1>1, <1>3, <2>1 DEF ListedBefore
<1>9. CASE p \notin member[a]
  BY <1>2, <1>8, <1>9
<1>10. CASE p \in member[a] /\ after = p
  <2>1. \A x \in member[a] : x # p =>
          /\ position'[a][x] < position'[a][p] <=> position[a][x] < position[a][p]
          /\ position'[a][p] < position'[a][x] <=> position[a][p] < position[a][x]
    <3>1. pos = position[a][p]
      BY <1>6, <1>10, AlbumsAssumption
    <3> HIDE DEF a, pos
    <3>2. QED
      BY <1>1, <1>2, <1>4, <1>10, <3>1
  <2>2. \A x, y \in member[a] :
          position'[a][x] < position'[a][y] <=> position[a][x] < position[a][y]
    <3> HIDE DEF a, pos
    <3>1. QED
      BY <1>2, <1>5, <1>10, <2>1
  <2>3. QED
    BY <1>8, <2>2
<1>11. CASE p \in member[a] /\ after = None
  <2> DEFINE new == Order!Without(ListedBefore[a], p) \cup ({p} \X (member[a] \ {p}))
  <2>1. new \subseteq member'[a] \X member'[a]
    BY <1>1, <1>11, ListedBeforePair DEF Order!Without
  <2>2. ListedBefore'[a] \subseteq member'[a] \X member'[a]
    BY <1>1, ListedAfterPair
  <2>3. ASSUME NEW x \in member[a], NEW y \in member[a]
        PROVE  <<x, y>> \in new <=> position'[a][x] < position'[a][y]
    <3>1. CASE x # p /\ y # p
      BY <1>1, <1>2, <3>1, ListedBeforePair DEF Order!Without
    <3>2. CASE x = p
      <4>1. y # p => position[a][y] > pos
        <5> HIDE DEF a, pos
        <5>1. QED
          BY <1>1, <1>4, <1>7, <1>11
      <4>2. <<x, y>> \in new <=> y # p
        BY <3>2 DEF Order!Without
      <4> HIDE DEF a, pos, new
      <4>3. QED
        BY <1>2, <1>5, <1>11, <3>2, <4>1, <4>2
    <3>3. CASE x # p /\ y = p
      <4>1. ~(position[a][x] <= pos)
        <5> HIDE DEF a, pos
        <5>1. QED
          BY <1>1, <1>4, <1>7, <1>11
      <4>2. <<x, y>> \notin new
        BY <3>3 DEF Order!Without
      <4> HIDE DEF a, pos, new
      <4>3. QED
        BY <1>2, <1>11, <3>3, <4>1, <4>2
    <3>4. QED
      BY <3>1, <3>2, <3>3
  <2>4. \A x, y \in member'[a] : <<x, y>> \in new <=> <<x, y>> \in ListedBefore'[a]
    <3> HIDE DEF new
    <3>1. QED
      BY <1>1, <2>3, ListedAfterPair
  <2>5. ListedBefore'[a] = new
    <3> HIDE DEF new
    <3>1. QED
      BY <2>1, <2>2, <2>4, SamePairs, Zenon
  <2>6. ListedBefore' = [ListedBefore EXCEPT
                           ![a] = Order!Without(@, p) \cup ({p} \X (member[a] \ {p}))]
    BY <1>1, <1>3, <2>5 DEF ListedBefore
  <2>7. QED
    BY <1>1, <1>11, <2>6 DEF Order!MoveToFront
<1>12. CASE p \in member[a] /\ after \in member[a] /\ after # p
  <2> DEFINE rest == Order!Without(ListedBefore[a], p)
             head == {after} \cup {q \in member[a] : <<q, after>> \in rest}
             tail == {q \in member[a] : <<after, q>> \in rest}
             new  == rest \cup (head \X {p}) \cup ({p} \X tail)
  <2>1. pos = position[a][after] /\ after \in Photo
    BY <1>1, <1>6, <1>12, AlbumsAssumption
  <2>2. \A x, y \in member[a] : <<x, y>> \in rest <=>
          x # p /\ y # p /\ position[a][x] < position[a][y]
    BY <1>1, ListedBeforePair DEF Order!Without
  <2>3. \A x \in member[a] : x \in head <=> x # p /\ position[a][x] <= pos
    <3>1. \A x \in member[a] : x \in head <=> x = after \/ <<x, after>> \in rest
      OBVIOUS
    <3> HIDE DEF a, rest, head
    <3>2. \A x \in member[a] : x # after => position[a][x] # position[a][after]
      BY <1>4, <1>12
    <3>3. ASSUME NEW x \in member[a], x # after
          PROVE  position[a][x] < position[a][after] <=> position[a][x] <= position[a][after]
      <4>1. position[a][x] \in Nat /\ position[a][after] \in Nat
        BY <1>1, <1>12
      <4>2. QED
        BY <3>2, <3>3, <4>1
    <3>4. position[a][after] \in Nat /\ position[a][after] <= position[a][after]
      BY <1>1, <1>12
    <3> HIDE DEF pos
    <3>5. QED
      BY <1>12, <2>1, <2>2, <3>1, <3>3, <3>4
  <2>4. \A x \in member[a] : x \in tail <=> x # p /\ position[a][x] > pos
    <3>1. \A x \in member[a] : x \in tail <=> <<after, x>> \in rest
      OBVIOUS
    <3> HIDE DEF a, pos, rest, tail
    <3>2. QED
      BY <1>1, <1>12, <2>1, <2>2, <3>1
  <2>5. /\ rest \subseteq member[a] \X member[a]
        /\ head \subseteq member[a]
        /\ tail \subseteq member[a]
    BY <1>1, <1>12, ListedBeforePair DEF Order!Without
  <2>6. new \subseteq member'[a] \X member'[a]
    <3> HIDE DEF rest, head, tail
    <3>1. QED
      BY <1>1, <1>12, <2>5
  <2>7. ASSUME NEW x \in member[a], NEW y \in member[a]
        PROVE  <<x, y>> \in new <=> position'[a][x] < position'[a][y]
    <3>1. <<x, y>> \in new <=> \/ <<x, y>> \in rest
                               \/ x \in head /\ y = p
                               \/ x = p /\ y \in tail
      <4> HIDE DEF rest, head, tail
      <4>1. QED
        OBVIOUS
    <3> HIDE DEF a, pos, rest, head, tail, new
    <3>2. QED
      BY <1>2, <1>5, <1>12, <2>2, <2>3, <2>4, <3>1
  <2>8. ListedBefore'[a] \subseteq member'[a] \X member'[a]
    BY <1>1, ListedAfterPair
  <2>9. \A x, y \in member'[a] : <<x, y>> \in new <=> <<x, y>> \in ListedBefore'[a]
    <3> HIDE DEF new
    <3>1. QED
      BY <1>1, <2>7, ListedAfterPair
  <2>10. ListedBefore'[a] = new
    <3> HIDE DEF new
    <3>1. QED
      BY <2>6, <2>8, <2>9, SamePairs, Zenon
  <2>11. ListedBefore' = [ListedBefore EXCEPT ![a] = new]
    <3> HIDE DEF new
    <3>1. QED
      BY <1>1, <1>3, <2>10 DEF ListedBefore
  <2>12. QED
    BY <1>1, <1>12, <2>1, <2>11 DEF Order!MoveBehind
<1>13. QED
  BY <1>6, <1>9, <1>10, <1>11, <1>12

LEMMA DeletePhotoRefines ==
  ASSUME TypeOK, NEW p \in Photo, DeletePhoto(p)
  PROVE  Order!DeletePhoto(p)
<1>1. member' = [a \in Album |-> member[a] \ {p}]
  BY DEF DeletePhoto
<1>2. \A a \in Album : \A q \in member'[a] : position'[a][q] = position[a][q]
  BY <1>1 DEF DeletePhoto, TypeOK
<1>3. ASSUME NEW a \in Album
      PROVE  ListedBefore'[a] = Order!Without(ListedBefore[a], p)
  <2> DEFINE new == Order!Without(ListedBefore[a], p)
  <2>1. member'[a] = member[a] \ {p}
    BY <1>1
  <2>2. new \subseteq member'[a] \X member'[a]
    BY <2>1, ListedBeforePair DEF Order!Without
  <2>3. ListedBefore'[a] \subseteq member'[a] \X member'[a]
    BY ListedAfterPair
  <2>4. \A x, y \in member'[a] : <<x, y>> \in new <=> <<x, y>> \in ListedBefore[a]
    BY <2>1 DEF Order!Without
  <2>5. \A x, y \in member'[a] : <<x, y>> \in new <=> <<x, y>> \in ListedBefore'[a]
    BY <1>2, <2>1, <2>4, ListedBeforePair, ListedAfterPair
  <2> HIDE DEF new
  <2>6. new = ListedBefore'[a]
    BY <2>2, <2>3, <2>5, SamePairs, Zenon
  <2>7. QED
    BY <2>6 DEF new
<1>4. ListedBefore' = [a \in Album |-> Order!Without(ListedBefore[a], p)]
  BY <1>3 DEF ListedBefore
<1>5. QED
  BY <1>1, <1>4 DEF Order!DeletePhoto

LEMMA DeleteAlbumRefines ==
  ASSUME TypeOK, NEW r \in Request, DeleteAlbum(r)
  PROVE  Order!DeleteAlbum(target[r])
<1> DEFINE a == target[r]
<1>1. a \in Album
  BY FinishType DEF DeleteAlbum
<1>2. member' = [member EXCEPT ![a] = {}] /\ member'[a] = {}
  BY <1>1 DEF DeleteAlbum, TypeOK
<1>3. \A b \in Album : b # a => position'[b] = position[b] /\ member'[b] = member[b]
  BY <1>1 DEF DeleteAlbum, TypeOK
<1>4. \A b \in Album : b # a => ListedBefore'[b] = ListedBefore[b]
  BY <1>3, ListingKept
<1>5. ListedBefore'[a] = {}
  BY <1>1, <1>2, ListedAfterPair
<1>6. ListedBefore' = [ListedBefore EXCEPT ![a] = {}]
  BY <1>1, <1>4, <1>5 DEF ListedBefore
<1>7. QED
  BY <1>2, <1>6 DEF Order!DeleteAlbum

LEMMA NextRefines ==
  TypeOK /\ PositionsDistinct /\ [Next]_vars => [Order!Next]_<<member, ListedBefore>>
<1> SUFFICES ASSUME TypeOK, PositionsDistinct, [Next]_vars
             PROVE  [Order!Next]_<<member, ListedBefore>>
  OBVIOUS
<1>1. ASSUME UNCHANGED listVars
      PROVE  UNCHANGED <<member, ListedBefore>>
  BY <1>1 DEF listVars, ListedBefore
<1>2. ASSUME NEW r \in Request, NEW p \in Photo, AddPhoto(r, p)
      PROVE  [Order!Next]_<<member, ListedBefore>>
  BY <1>2, AddPhotoRefines, FinishType DEF AddPhoto, Order!Next
<1>3. ASSUME NEW r \in Request, NEW p \in Photo, RemovePhoto(r, p)
      PROVE  Order!Next
  BY <1>3, RemovePhotoRefines, FinishType DEF RemovePhoto, Order!Next
<1>4. ASSUME NEW r \in Request, NEW p \in Photo, NEW after \in Photo \cup {None},
             MovePhoto(r, p, after)
      PROVE  [Order!Next]_<<member, ListedBefore>>
  BY <1>4, MovePhotoRefines, FinishType DEF MovePhoto, Order!Next
<1>5. ASSUME NEW r \in Request, DeleteAlbum(r)
      PROVE  Order!Next
  BY <1>5, DeleteAlbumRefines, FinishType DEF DeleteAlbum, Order!Next
<1>6. ASSUME NEW p \in Photo, DeletePhoto(p)
      PROVE  Order!Next
  BY <1>6, DeletePhotoRefines DEF Order!Next
<1>7. QED
  BY <1>1, <1>2, <1>3, <1>4, <1>5, <1>6
     DEF Next, AlbumRequest, CreateAlbum, Resolve, Reject, UpdateAlbum, CreatePhoto,
         vars, listVars

(* The position column implements the order an album promises, for every   *)
(* number of albums, photos and concurrent requests.                       *)
THEOREM AlbumsImplementOrder == Spec => ImplementsAlbumOrder
  BY InitRefines, NextRefines, TypeCorrect, PositionsAlwaysDistinct, PTL
     DEF Spec, ImplementsAlbumOrder, Order!Spec, Order!orderVars

-------------------------------------------------------------------------------
(* Ownership: the comparison made in one transaction still holds in the    *)
(* one that writes, because ids are never reused and owners never change.  *)

LEMMA NextTargetOwned == TypeOK /\ TargetOwned /\ [Next]_vars => TargetOwned'
<1> SUFFICES ASSUME TypeOK, TargetOwned, [Next]_vars
             PROVE  TargetOwned'
  OBVIOUS
<1> USE AlbumsAssumption
<1>1. ASSUME UNCHANGED <<albumState, owner>>,
             \A s \in Request : target'[s] \in {target[s], None}
      PROVE  TargetOwned'
  BY <1>1 DEF TargetOwned, albums
<1>2. ASSUME NEW r \in Request, Finish(r)
      PROVE  \A s \in Request : target'[s] \in {target[s], None}
  BY <1>2 DEF Finish, TypeOK
<1>3. ASSUME NEW r \in Request, NEW a \in Album, NEW b \in Base, CreateAlbum(r, a, b)
      PROVE  TargetOwned'
  BY <1>3 DEF CreateAlbum, TargetOwned, albums, TypeOK
<1>4. ASSUME NEW r \in Request, NEW a \in Album, Resolve(r, a)
      PROVE  TargetOwned'
  BY <1>4 DEF Resolve, TargetOwned, albums, TypeOK, rowVars
<1>5. ASSUME NEW r \in Request, DeleteAlbum(r)
      PROVE  TargetOwned'
  <2>1. target[r] \in Album
    BY <1>5, FinishType DEF DeleteAlbum
  <2>2. \A s \in Request : target'[s] \in {target[s], None}
    BY <1>2, <1>5 DEF DeleteAlbum
  <2>3. /\ \A a \in Album : a # target[r] => albumState'[a] = albumState[a] /\ owner'[a] = owner[a]
        /\ albumState'[target[r]] = "deleted"
    BY <1>5, <2>1 DEF DeleteAlbum, TypeOK
  <2>4. QED
    BY <2>2, <2>3 DEF TargetOwned, albums, TypeOK
<1>6. QED
  BY <1>1, <1>2, <1>3, <1>4, <1>5
     DEF Next, AlbumRequest, Reject, AddPhoto, RemovePhoto, MovePhoto, UpdateAlbum,
         CreatePhoto, DeletePhoto, vars, rowVars

(* A request that ends has changed at most the album it held, and that     *)
(* album belongs to the user of the request.                               *)
LEMMA NextOnlyOwner ==
  ASSUME TypeOK, TargetOwned, Next, UNCHANGED photoState,
         NEW a \in albums,
         \/ member'[a] # member[a] \/ position'[a] # position[a]
         \/ cover'[a] # cover[a] \/ name'[a] # name[a]
         \/ albumState'[a] # albumState[a]
  PROVE  \E r \in Request : UserOf[r] = owner[a] /\ target[r] = a /\ target'[r] = None
<1> USE AlbumsAssumption
<1>1. a \in Album /\ albumState[a] = "live"
  BY DEF albums
<1>2. ASSUME NEW r \in Request, Finish(r), target[r] = a
      PROVE  UserOf[r] = owner[a] /\ target'[r] = None
  BY <1>1, <1>2 DEF Finish, TargetOwned, albums, TypeOK
<1>3. ASSUME NEW r \in Request, NEW c \in Album, NEW b \in Base, CreateAlbum(r, c, b)
      PROVE  FALSE
  BY <1>1, <1>3 DEF CreateAlbum, TypeOK
<1>4. ASSUME NEW r \in Request, NEW p \in Photo, AddPhoto(r, p)
      PROVE  Finish(r) /\ target[r] = a
  <2>1. target[r] \in Album
    BY <1>4, FinishType DEF AddPhoto
  <2>2. \A c \in Album : c # target[r] => member'[c] = member[c] /\ position'[c] = position[c]
    BY <1>4, <2>1 DEF AddPhoto, listVars, TypeOK
  <2>3. QED
    BY <1>1, <1>4, <2>2 DEF AddPhoto, rowVars
<1>5. ASSUME NEW r \in Request, NEW p \in Photo, RemovePhoto(r, p)
      PROVE  Finish(r) /\ target[r] = a
  <2>1. target[r] \in Album
    BY <1>5, FinishType DEF RemovePhoto
  <2>2. QED
    BY <1>1, <1>5, <2>1 DEF RemovePhoto, rowVars, TypeOK
<1>6. ASSUME NEW r \in Request, NEW p \in Photo, NEW after \in Photo \cup {None},
             MovePhoto(r, p, after)
      PROVE  Finish(r) /\ target[r] = a
  BY <1>1, <1>6, MovedPositions DEF MovePhoto, rowVars
<1>7. ASSUME NEW r \in Request, NEW b \in Base, NEW c \in Photo \cup {None},
             UpdateAlbum(r, b, c)
      PROVE  Finish(r) /\ target[r] = a
  BY <1>1, <1>7 DEF UpdateAlbum, listVars, TypeOK
<1>8. ASSUME NEW r \in Request, DeleteAlbum(r)
      PROVE  Finish(r) /\ target[r] = a
  BY <1>1, <1>8 DEF DeleteAlbum, TypeOK
<1>9. ASSUME NEW p \in Photo, CreatePhoto(p) \/ DeletePhoto(p)
      PROVE  FALSE
  BY <1>9 DEF CreatePhoto, DeletePhoto, photos, TypeOK
<1>10. ASSUME NEW r \in Request, Reject(r) \/ \E c \in Album : Resolve(r, c)
       PROVE  FALSE
  BY <1>1, <1>10 DEF Reject, Resolve, rowVars, listVars
<1>11. QED
  BY <1>2, <1>3, <1>4, <1>5, <1>6, <1>7, <1>8, <1>9, <1>10 DEF Next, AlbumRequest

(* Nobody but its owner changes an album, other than by deleting a photo.  *)
THEOREM OwnersOnly == Spec => OnlyOwnerChanges
<1>1. Init => TargetOwned
  BY DEF Init, TargetOwned
<1>2. TypeOK /\ TargetOwned /\ [Next]_vars =>
        [\A a \in albums :
           (\/ member'[a] # member[a] \/ position'[a] # position[a]
            \/ cover'[a] # cover[a] \/ name'[a] # name[a]
            \/ albumState'[a] # albumState[a])
           => \/ photoState' # photoState
              \/ \E r \in Request : UserOf[r] = owner[a] /\ target[r] = a /\ target'[r] = None]_vars
  BY NextOnlyOwner
<1>3. QED
  BY <1>1, <1>2, TypeCorrect, NextTargetOwned, PTL DEF Spec, OnlyOwnerChanges
===============================================================================
