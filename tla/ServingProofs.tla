----------------------------- MODULE ServingProofs -----------------------------
(***************************************************************************)
(* Proofs about Serving, for any number of requests and share tokens.  The *)
(* inductive invariant says what a request carries from the moment it read *)
(* the row: the permission it was found by, the edit it is about to make.  *)
(***************************************************************************)
EXTENDS Serving, TLAPS

ViewSnap == [visibility : Visibility, thumbPath : BOOLEAN]
EditSnap == [location : Location]

Reading == {"look", "make", "write", "record", "send image", "send thumb",
            "send source", "send instead"}

(* The row says what the owner last asked for.                             *)
AskedIsRow ==
  /\ photo = None <=> asked = None
  /\ photo # None => asked.visibility = photo.visibility /\ asked.token = photo.token

FoundRightly(r) ==
  /\ pc[r] = "find" => req[r] \in View \cup Edit /\ Grants(req[r], asked) \subseteq granted[r]
  /\ pc[r] \in Reading =>
       /\ req[r] \in View
       /\ snap[r] \in ViewSnap
       /\ "see" \in granted[r]
       /\ snap[r].visibility = "published" => "keep" \in granted[r]
  /\ pc[r] \in {"update", "remove"} =>
       /\ req[r] \in Edit
       /\ req[r].by = "owner"
       /\ req[r].act = "missing" => snap[r].location = ""

ThumbMade ==
  /\ photo # None /\ photo.thumbPath => thumb # "absent"
  /\ \A r \in Request : pc[r] \in {"write", "record", "send thumb"} => thumb # "absent"

IInv == TypeOK /\ AskedIsRow /\ ThumbMade /\ \A r \in Request : FoundRightly(r)

-------------------------------------------------------------------------------
(* UpdatePhoto changes the fields it is given, to values of their types.   *)
LEMMA UpdateTyped ==
  ASSUME NEW p \in Photo, NEW upd,
         "visibility" \in DOMAIN upd => upd["visibility"] \in Visibility,
         "token" \in DOMAIN upd => upd["token"] \in Token \cup {None},
         "thumbPath" \in DOMAIN upd => upd["thumbPath"] \in BOOLEAN,
         "location" \in DOMAIN upd => upd["location"] \in Location
  PROVE  UpdatePhoto(p, upd) \in Photo
  BY DEF UpdatePhoto, Given, Photo

(* Recording a thumbnail changes nothing but its path.                     *)
LEMMA RecordKeeps ==
  ASSUME NEW p \in Photo
  PROVE  LET n == UpdatePhoto(p, [thumbPath |-> TRUE])
         IN  /\ n \in Photo
             /\ n.visibility = p.visibility /\ n.token = p.token /\ n.location = p.location
  <1> DEFINE upd == [thumbPath |-> TRUE]
  <1>1. DOMAIN upd = {"thumbPath"} /\ upd["thumbPath"] = TRUE
    OBVIOUS
  <1> HIDE DEF upd
  <1>2. UpdatePhoto(p, upd) \in Photo
    BY <1>1, UpdateTyped
  <1>3. QED
    BY <1>1, <1>2 DEF UpdatePhoto, Given, upd

(* The fields of a change have values of their types; none is the path of  *)
(* the thumbnail.                                                          *)
LEMMA ChangeTyped ==
  ASSUME NEW c \in Change
  PROVE  /\ "visibility" \in DOMAIN c => c["visibility"] \in Visibility
         /\ "token" \in DOMAIN c => c["token"] \in Token \cup {None}
         /\ "thumbPath" \notin DOMAIN c
         /\ "location" \in DOMAIN c => c["location"] \in Location
  <1>1. CASE c \in [visibility : Visibility]
    BY <1>1
  <1>2. CASE c \in [location : {"", "hand"}]
    BY <1>2 DEF Location
  <1>3. CASE c \in [visibility : Visibility, location : {"", "hand"}]
    BY <1>3 DEF Location
  <1>4. CASE c \in [token : {None}]
    BY <1>4
  <1>5. QED
    BY <1>1, <1>2, <1>3, <1>4 DEF Change

(* An edit passes values of their types, and the location only when it     *)
(* names it or the geocoder was asked.                                     *)
LEMMA UpdateOfTyped ==
  ASSUME NEW q \in Edit, q.act # "delete", issued \in Nat, issued < MaxTokens \/ q.act # "share",
         MaxTokens \in Nat
  PROVE  /\ "visibility" \in DOMAIN UpdateOf(q) => UpdateOf(q)["visibility"] \in Visibility
         /\ "token" \in DOMAIN UpdateOf(q) => UpdateOf(q)["token"] \in Token \cup {None}
         /\ "thumbPath" \notin DOMAIN UpdateOf(q)
         /\ "location" \in DOMAIN UpdateOf(q) => UpdateOf(q)["location"] \in Location
         /\ "location" \in DOMAIN UpdateOf(q) =>
              \/ q.act = "change" /\ "location" \in DOMAIN q.change
              \/ q.act \in {"geocode", "missing"}
  <1>1. CASE q.act = "change"
    <2>1. UpdateOf(q) = q.change
      BY <1>1 DEF UpdateOf
    <2>2. q.change \in Change
      BY <1>1 DEF Edit
    <2>3. QED
      BY <1>1, <2>1, <2>2, ChangeTyped
  <1>2. CASE q.act = "share"
    <2>1. UpdateOf(q) = [token |-> issued + 1]
      BY <1>2 DEF UpdateOf, FreshToken
    <2>2. issued + 1 \in Token
      BY <1>2 DEF Token
    <2>3. QED
      BY <1>2, <2>1, <2>2
  <1>3. CASE q.act \in {"geocode", "missing"}
    <2>1. UpdateOf(q) = [location |-> "geo"]
      BY <1>3 DEF UpdateOf
    <2>2. QED
      BY <1>3, <2>1 DEF Location
  <1>4. QED
    BY <1>1, <1>2, <1>3 DEF Edit

-------------------------------------------------------------------------------
(* What an answer does to the variables has their types.                   *)
RequestTypes ==
  /\ pc \in [Request -> {"idle", "find", "look", "make", "write", "record", "send image",
                         "send thumb", "send source", "send instead", "update", "remove"}]
  /\ req \in [Request -> View \cup Edit \cup {None}]
  /\ snap \in [Request -> ViewSnap \cup EditSnap \cup {None}]
  /\ reply \in [Request -> Reply]

(* The bound on tokens is a number, and the tokens made stay within it.    *)
LEMMA TokensBounded == MaxTokens \in Nat
  BY ServingAssumption

LEMMA NoneIssued ==
  ASSUME issued = 0
  PROVE  issued \in 0 .. MaxTokens
  BY TokensBounded

LEMMA IssuedBounded ==
  ASSUME TypeOK
  PROVE  issued \in Nat /\ MaxTokens \in Nat /\ issued <= MaxTokens
  <1>1. issued \in 0 .. MaxTokens
    BY DEF TypeOK
  <1>2. QED
    BY <1>1, TokensBounded

LEMMA TypeSplit ==
  TypeOK <=> /\ source \in Sources
             /\ photo \in Photo \cup {None}
             /\ file \in BOOLEAN
             /\ thumb \in {"absent", "partial", "whole"}
             /\ issued \in 0 .. MaxTokens
             /\ RequestTypes
             /\ asked \in Wish \cup {None}
             /\ granted \in [Request -> SUBSET {"see", "keep"}]
  BY DEF TypeOK, RequestTypes, ViewSnap, EditSnap

LEMMA SendTyped ==
  ASSUME RequestTypes, NEW r \in Request, NEW what, NEW cache,
         [what |-> what, cache |-> cache] \in Reply, Send(r, what, cache)
  PROVE  RequestTypes'
  BY DEF RequestTypes, Send

LEMMA EndTyped ==
  ASSUME RequestTypes, NEW r \in Request, End(r)
  PROVE  RequestTypes'
  BY DEF RequestTypes, End

-------------------------------------------------------------------------------
(* The invariant holds at the start.                                       *)
LEMMA InitIInv == Init => IInv
  <1> SUFFICES ASSUME Init
               PROVE  IInv
    OBVIOUS
  <1> USE DEF Init
  <1>1. photo \in Photo
    BY DEF Photo, Location
  <1>2. TypeOK
    <2>1. asked \in Wish
      BY <1>1 DEF Asked, Wish, Photo
    <2>2. Nothing \in Reply
      BY DEF Nothing, Reply
    <2>3. RequestTypes
      BY <2>2 DEF RequestTypes
    <2>4. issued \in 0 .. MaxTokens
      BY NoneIssued
    <2>6. granted \in [Request -> SUBSET {"see", "keep"}]
      OBVIOUS
    <2>7. QED
      BY <1>1, <2>1, <2>3, <2>4, <2>6, TypeSplit
  <1>3. AskedIsRow
    <2>1. asked \in Wish
      BY <1>1 DEF Asked, Wish, Photo
    <2>2. QED
      BY <1>1, <2>1, ServingAssumption DEF AskedIsRow, Asked
  <1>4. ThumbMade
    BY DEF ThumbMade
  <1>5. ASSUME NEW r \in Request
        PROVE  FoundRightly(r)
    BY DEF FoundRightly, Reading
  <1>6. QED
    BY <1>2, <1>3, <1>4, <1>5 DEF IInv

(* A request comes in.                                                    *)
LEMMA ArriveStep ==
  ASSUME IInv, NEW r \in Request, NEW q \in Asking, Arrive(r, q)
  PROVE  IInv'
  <1> USE DEF IInv, Arrive, Nothing, Reply
  <1>1. TypeOK'
    <2>1. Nothing \in Reply
      BY DEF Nothing, Reply
    <2>2. Grants(q, asked) \subseteq {"see", "keep"}
      BY DEF Grants
    <2>3. q \in View \cup Edit
      BY ServingAssumption
    <2>4. RequestTypes'
      BY <2>1, <2>3, TypeSplit DEF RequestTypes
    <2>5. QED
      BY <2>2, <2>4 DEF TypeOK, RequestTypes, ViewSnap, EditSnap
  <1>2. AskedIsRow'
    BY DEF AskedIsRow
  <1>3. ThumbMade'
    BY DEF ThumbMade, TypeOK
  <1>4. ASSUME NEW s \in Request
        PROVE  FoundRightly(s)'
    <2>1. CASE s = r
      BY <2>1, ServingAssumption DEF TypeOK, FoundRightly, Reading, ViewSnap, EditSnap
    <2>2. CASE s # r
      BY <2>2 DEF TypeOK, FoundRightly, Reading
    <2>3. QED
      BY <2>1, <2>2
  <1>5. QED
    BY <1>1, <1>2, <1>3, <1>4

(* The row is found by a permission that the owner gave.                   *)
LEMMA FindForViewStep ==
  ASSUME IInv, NEW r \in Request, FindForView(r)
  PROVE  IInv'
  <1> USE DEF IInv, FindForView, Refuse, End
  <1>1. TypeOK'
    <2>1. RequestTypes
      BY TypeSplit
    <2>2. CASE Finds(req[r])
      <3>1. [visibility |-> photo.visibility, thumbPath |-> photo.thumbPath] \in ViewSnap
        BY <2>2 DEF TypeOK, Finds, Photo, ViewSnap
      <3>2. RequestTypes'
        BY <2>1, <2>2, <3>1 DEF RequestTypes
      <3>3. QED
        BY <2>2, <3>2 DEF TypeOK, RequestTypes, ViewSnap, EditSnap
    <2>3. CASE ~Finds(req[r])
      BY <2>1, <2>3, EndTyped DEF TypeOK, RequestTypes, ViewSnap, EditSnap
    <2>4. QED
      BY <2>2, <2>3
  <1>2. AskedIsRow'
    BY DEF AskedIsRow
  <1>3. ThumbMade'
    BY DEF ThumbMade, TypeOK
  <1>4. ASSUME NEW s \in Request
        PROVE  FoundRightly(s)'
    <2>1. CASE s = r
      <3>1. CASE Finds(req[r])
        <4> DEFINE p == [visibility |-> photo.visibility, thumbPath |-> photo.thumbPath]
        <4>1. p \in ViewSnap /\ p.visibility = photo.visibility
          BY <3>1 DEF TypeOK, Finds, Photo, ViewSnap
        <4>2. pc'[r] \in {"look", "send image"} /\ snap'[r] = p /\ req'[r] = req[r]
              /\ granted'[r] = granted[r]
          BY <3>1 DEF TypeOK
        <4>3. req[r] \in View
          BY DEF FoundRightly, Edit, IsView
        <4>4. "see" \in Grants(req[r], asked)
          BY <3>1, <4>3 DEF Finds, AskedIsRow, Grants, IsView
        <4>5. photo.visibility = "published" => "keep" \in Grants(req[r], asked)
          BY <3>1, <4>3 DEF Finds, AskedIsRow, Grants, IsView
        <4>6. Grants(req[r], asked) \subseteq granted[r]
          BY DEF FoundRightly
        <4> HIDE DEF p
        <4>7. QED
          BY <2>1, <4>1, <4>2, <4>3, <4>4, <4>5, <4>6 DEF FoundRightly, Reading
      <3>2. CASE ~Finds(req[r])
        BY <2>1, <3>2 DEF TypeOK, FoundRightly, Reading
      <3>3. QED
        BY <3>1, <3>2
    <2>2. CASE s # r
      BY <2>2 DEF TypeOK, FoundRightly, Reading
    <2>3. QED
      BY <2>1, <2>2
  <1>5. QED
    BY <1>1, <1>2, <1>3, <1>4

(* A photo is sent.                                                        *)
LEMMA SendImageStep ==
  ASSUME IInv, NEW r \in Request, SendImage(r)
  PROVE  IInv'
  <1> USE DEF IInv, SendImage, Refuse, End, Send, Scope, Reply
  <1>1. TypeOK'
    <2>1. RequestTypes'
      BY TypeSplit, EndTyped, SendTyped DEF Reply
    <2>2. QED
      BY <2>1 DEF TypeOK, RequestTypes, ViewSnap, EditSnap
  <1>2. AskedIsRow'
    BY DEF AskedIsRow
  <1>3. ThumbMade'
    BY DEF ThumbMade, TypeOK
  <1>4. ASSUME NEW s \in Request
        PROVE  FoundRightly(s)'
    <2>1. CASE s = r
      BY <2>1, ServingAssumption DEF TypeOK, FoundRightly, Reading, ViewSnap, EditSnap
    <2>2. CASE s # r
      BY <2>2 DEF TypeOK, FoundRightly, Reading
    <2>3. QED
      BY <2>1, <2>2
  <1>5. QED
    BY <1>1, <1>2, <1>3, <1>4

(* The thumbnail is looked for.                                            *)
LEMMA LookForThumbStep ==
  ASSUME IInv, NEW r \in Request, LookForThumb(r)
  PROVE  IInv'
  <1> USE DEF IInv, LookForThumb
  <1>1. TypeOK'
    BY ServingAssumption DEF TypeOK
  <1>2. AskedIsRow'
    BY DEF AskedIsRow
  <1>3. ThumbMade'
    BY DEF ThumbMade, TypeOK
  <1>4. ASSUME NEW s \in Request
        PROVE  FoundRightly(s)'
    <2>1. CASE s = r
      BY <2>1, ServingAssumption DEF TypeOK, FoundRightly, Reading, ViewSnap, EditSnap
    <2>2. CASE s # r
      BY <2>2 DEF TypeOK, FoundRightly, Reading
    <2>3. QED
      BY <2>1, <2>2
  <1>5. QED
    BY <1>1, <1>2, <1>3, <1>4

(* Its file is emptied.                                                    *)
LEMMA StartThumbStep ==
  ASSUME IInv, NEW r \in Request, StartThumb(r)
  PROVE  IInv'
  <1> USE DEF IInv, StartThumb
  <1>1. TypeOK'
    BY ServingAssumption DEF TypeOK
  <1>2. AskedIsRow'
    BY DEF AskedIsRow
  <1>3. ThumbMade'
    BY DEF ThumbMade, TypeOK
  <1>4. ASSUME NEW s \in Request
        PROVE  FoundRightly(s)'
    <2>1. CASE s = r
      BY <2>1, ServingAssumption DEF TypeOK, FoundRightly, Reading, ViewSnap, EditSnap
    <2>2. CASE s # r
      BY <2>2 DEF TypeOK, FoundRightly, Reading
    <2>3. QED
      BY <2>1, <2>2
  <1>5. QED
    BY <1>1, <1>2, <1>3, <1>4

(* Its file is written.                                                    *)
LEMMA FinishThumbStep ==
  ASSUME IInv, NEW r \in Request, FinishThumb(r)
  PROVE  IInv'
  <1> USE DEF IInv, FinishThumb
  <1>1. TypeOK'
    BY ServingAssumption DEF TypeOK
  <1>2. AskedIsRow'
    BY DEF AskedIsRow
  <1>3. ThumbMade'
    BY DEF ThumbMade, TypeOK
  <1>4. ASSUME NEW s \in Request
        PROVE  FoundRightly(s)'
    <2>1. CASE s = r
      BY <2>1, ServingAssumption DEF TypeOK, FoundRightly, Reading, ViewSnap, EditSnap
    <2>2. CASE s # r
      BY <2>2 DEF TypeOK, FoundRightly, Reading
    <2>3. QED
      BY <2>1, <2>2
  <1>5. QED
    BY <1>1, <1>2, <1>3, <1>4

(* The row learns of it.                                                   *)
LEMMA RecordThumbStep ==
  ASSUME IInv, NEW r \in Request, RecordThumb(r)
  PROVE  IInv'
  <1> USE DEF IInv, RecordThumb
  <1>1. TypeOK'
    <2>1. photo' \in Photo \cup {None}
      BY RecordKeeps DEF TypeOK
    <2>2. RequestTypes'
      BY TypeSplit DEF RequestTypes
    <2>3. QED
      BY <2>1, <2>2 DEF TypeOK, RequestTypes, ViewSnap, EditSnap
  <1>2. AskedIsRow'
    <2>1. CASE photo # None /\ photo' = UpdatePhoto(photo, [thumbPath |-> TRUE])
      <3>1. photo \in Photo
        BY <2>1 DEF TypeOK
      <3>2. photo' # None /\ photo'.visibility = photo.visibility /\ photo'.token = photo.token
        BY <2>1, <3>1, RecordKeeps, ServingAssumption
      <3>3. QED
        BY <2>1, <3>2 DEF AskedIsRow
    <2>2. CASE UNCHANGED photo
      BY <2>2 DEF AskedIsRow
    <2>3. QED
      BY <2>1, <2>2
  <1>3. ThumbMade'
    BY DEF ThumbMade, TypeOK
  <1>4. ASSUME NEW s \in Request
        PROVE  FoundRightly(s)'
    <2>1. CASE s = r
      BY <2>1, ServingAssumption DEF TypeOK, FoundRightly, Reading, ViewSnap, EditSnap
    <2>2. CASE s # r
      BY <2>2 DEF TypeOK, FoundRightly, Reading
    <2>3. QED
      BY <2>1, <2>2
  <1>5. QED
    BY <1>1, <1>2, <1>3, <1>4

(* It is sent.                                                             *)
LEMMA SendThumbStep ==
  ASSUME IInv, NEW r \in Request, SendThumb(r)
  PROVE  IInv'
  <1> USE DEF IInv, SendThumb, Refuse, End, Send, Scope, Reply
  <1>1. TypeOK'
    <2>1. RequestTypes'
      BY TypeSplit, EndTyped, SendTyped DEF Reply
    <2>2. QED
      BY <2>1 DEF TypeOK, RequestTypes, ViewSnap, EditSnap
  <1>2. AskedIsRow'
    BY DEF AskedIsRow
  <1>3. ThumbMade'
    BY DEF ThumbMade, TypeOK
  <1>4. ASSUME NEW s \in Request
        PROVE  FoundRightly(s)'
    <2>1. CASE s = r
      BY <2>1, ServingAssumption DEF TypeOK, FoundRightly, Reading, ViewSnap, EditSnap
    <2>2. CASE s # r
      BY <2>2 DEF TypeOK, FoundRightly, Reading
    <2>3. QED
      BY <2>1, <2>2
  <1>5. QED
    BY <1>1, <1>2, <1>3, <1>4

(* The row is the user's.                                                  *)
LEMMA FindForEditStep ==
  ASSUME IInv, NEW r \in Request, FindForEdit(r)
  PROVE  IInv'
  <1> USE DEF IInv, FindForEdit, End, IsView
  <1>1. TypeOK'
    <2>1. RequestTypes
      BY TypeSplit
    <2>2. CASE MayEdit(req[r])
      <3>1. [location |-> photo.location] \in EditSnap
        BY <2>2 DEF TypeOK, Photo, EditSnap, MayEdit
      <3>2. RequestTypes'
        BY <2>1, <2>2, <3>1 DEF RequestTypes
      <3>3. QED
        BY <2>2, <3>2 DEF TypeOK, RequestTypes, ViewSnap, EditSnap
    <2>3. CASE ~MayEdit(req[r])
      BY <2>1, <2>3, EndTyped DEF TypeOK, RequestTypes, ViewSnap, EditSnap
    <2>4. QED
      BY <2>2, <2>3
  <1>2. AskedIsRow'
    BY DEF AskedIsRow
  <1>3. ThumbMade'
    BY DEF ThumbMade, TypeOK
  <1>4. ASSUME NEW s \in Request
        PROVE  FoundRightly(s)'
    <2>1. CASE s = r
      <3>1. req[r] \in Edit
        BY DEF FoundRightly, View, IsView
      <3>2. CASE MayEdit(req[r])
        <4>1. pc'[r] = "update" /\ req'[r] = req[r]
              /\ snap'[r] = [location |-> photo.location]
          BY <3>2 DEF TypeOK
        <4> HIDE DEF IInv, FindForEdit
        <4>2. snap'[r].location = photo.location
          BY <4>1
        <4>3. pc'[r] \notin Reading
          BY <4>1 DEF Reading
        <4>4. QED
          BY <2>1, <3>1, <3>2, <4>1, <4>2, <4>3 DEF MayEdit, FoundRightly
      <3>3. CASE ~MayEdit(req[r])
        BY <2>1, <3>3 DEF TypeOK, FoundRightly, Reading
      <3>4. QED
        BY <3>2, <3>3
    <2>2. CASE s # r
      BY <2>2 DEF TypeOK, FoundRightly, Reading
    <2>3. QED
      BY <2>1, <2>2
  <1>5. QED
    BY <1>1, <1>2, <1>3, <1>4

(* An edit is written: row and wishes change alike, and requests that came *)
(* in before gain what the new wishes allow.                               *)
LEMMA UpdateStep ==
  ASSUME IInv, NEW r \in Request, Update(r)
  PROVE  IInv'
  <1> DEFINE upd == UpdateOf(req[r])
  <1>1. req[r] \in Edit /\ req[r].by = "owner" /\ req[r].act # "delete"
    BY DEF IInv, Update, FoundRightly
  <1>2. RequestTypes'
    BY TypeSplit, EndTyped DEF IInv, Update
  <1>3. pc'[r] = "idle" /\ \A s \in Request \ {r} :
          pc'[s] = pc[s] /\ req'[s] = req[s] /\ snap'[s] = snap[s]
    BY DEF IInv, TypeOK, Update, End
  <1>4. CASE photo = None
    <2>1. UNCHANGED <<source, photo, file, thumb, issued, asked, granted>>
      BY <1>4 DEF Update
    <2>2. TypeOK'
      BY <1>2, <2>1 DEF IInv, TypeOK, RequestTypes, ViewSnap, EditSnap
    <2>3. AskedIsRow' /\ ThumbMade'
      BY <1>3, <2>1 DEF IInv, AskedIsRow, ThumbMade
    <2>4. ASSUME NEW s \in Request
          PROVE  FoundRightly(s)'
      BY <1>3, <2>1 DEF IInv, FoundRightly, Reading
    <2>5. QED
      BY <2>2, <2>3, <2>4 DEF IInv
  <1>5. CASE photo # None
    <2>1. photo \in Photo /\ asked # None /\ asked \in Wish
      BY <1>5 DEF IInv, TypeOK, AskedIsRow
    <2>2. /\ req[r].act = "share" => issued < MaxTokens
          /\ photo' = UpdatePhoto(photo, upd)
          /\ asked' = [visibility |-> Given(upd, "visibility", asked.visibility),
                       token |-> Given(upd, "token", asked.token)]
          /\ issued' = IF req[r].act = "share" THEN issued + 1 ELSE issued
          /\ granted' = [s \in Request |-> IF pc[s] = "idle" THEN {}
                           ELSE granted[s] \cup Grants(req[s], asked')]
          /\ UNCHANGED <<source, file, thumb>>
      BY <1>1, <1>5, <2>1 DEF Update, GrantMore
    <2>3. issued \in Nat /\ MaxTokens \in Nat /\ issued <= MaxTokens
      BY IssuedBounded DEF IInv
    <2>4. /\ "visibility" \in DOMAIN upd => upd["visibility"] \in Visibility
          /\ "token" \in DOMAIN upd => upd["token"] \in Token \cup {None}
          /\ "thumbPath" \notin DOMAIN upd
          /\ "location" \in DOMAIN upd => upd["location"] \in Location
      BY <1>1, <2>2, <2>3, UpdateOfTyped
    <2> HIDE DEF upd
    <2>5. photo' \in Photo
      BY <2>1, <2>2, <2>4, UpdateTyped
    <2>6. asked' \in Wish
      BY <2>1, <2>2, <2>4 DEF Given, Wish
    <2>7. AskedIsRow'
      <3>1. photo' # None /\ asked' # None
        BY <2>5, <2>6, ServingAssumption
      <3>2. asked.visibility = photo.visibility /\ asked.token = photo.token
        BY <1>5 DEF IInv, AskedIsRow
      <3>3. asked'.visibility = photo'.visibility /\ asked'.token = photo'.token
        BY <2>2, <3>2 DEF UpdatePhoto, Given
      <3>4. QED
        BY <3>1, <3>3 DEF AskedIsRow
    <2>8. ThumbMade'
      <3>1. photo'.thumbPath = photo.thumbPath
        BY <2>2, <2>4 DEF UpdatePhoto, Given
      <3>2. QED
        BY <1>3, <1>5, <2>2, <3>1 DEF IInv, ThumbMade
    <2>9. TypeOK'
      <3>1. issued' \in 0 .. MaxTokens
        BY <2>2, <2>3
      <3>2. granted' \in [Request -> SUBSET {"see", "keep"}]
        BY <2>2 DEF IInv, TypeOK, Grants
      <3>3. QED
        BY <1>2, <2>2, <2>5, <2>6, <3>1, <3>2
           DEF IInv, TypeOK, RequestTypes, ViewSnap, EditSnap
    <2>10. ASSUME NEW s \in Request
           PROVE  FoundRightly(s)'
      <3>1. CASE s = r
        BY <1>3, <3>1 DEF FoundRightly, Reading
      <3>2. CASE s # r
        <4>1. FoundRightly(s)
          BY DEF IInv
        <4>2. pc[s] # "idle" => /\ granted[s] \subseteq granted'[s]
                                /\ Grants(req[s], asked') \subseteq granted'[s]
          BY <2>2
        <4>3. pc'[s] = pc[s] /\ req'[s] = req[s] /\ snap'[s] = snap[s]
          BY <1>3, <3>2
        <4>4. QED
          BY <4>1, <4>2, <4>3 DEF FoundRightly, Reading
      <3>3. QED
        BY <3>1, <3>2
    <2>11. QED
      BY <2>7, <2>8, <2>9, <2>10 DEF IInv
  <1>6. QED
    BY <1>4, <1>5

(* The row goes.                                                           *)
LEMMA DeleteRowStep ==
  ASSUME IInv, NEW r \in Request, DeleteRow(r)
  PROVE  IInv'
  <1> USE DEF IInv, DeleteRow, End
  <1>1. TypeOK'
    BY ServingAssumption DEF TypeOK
  <1>2. AskedIsRow'
    BY DEF AskedIsRow, FoundRightly
  <1>3. ThumbMade'
    BY DEF ThumbMade, TypeOK
  <1>4. ASSUME NEW s \in Request
        PROVE  FoundRightly(s)'
    <2>1. CASE s = r
      <3>1. CASE photo = None
        BY <2>1, <3>1 DEF TypeOK, FoundRightly, Reading
      <3>2. CASE photo # None
        <4>1. pc'[r] = "remove" /\ req'[r] = req[r] /\ snap'[r] = snap[r]
          BY <3>2 DEF TypeOK
        <4>2. pc'[r] \notin Reading
          BY <4>1 DEF Reading
        <4>3. req[r] \in Edit /\ req[r].by = "owner" /\ req[r].act = "delete"
          BY DEF FoundRightly
        <4> HIDE DEF IInv, DeleteRow
        <4>4. QED
          BY <2>1, <4>1, <4>2, <4>3 DEF FoundRightly
      <3>3. QED
        BY <3>1, <3>2
    <2>2. CASE s # r
      <3>1. /\ pc'[s] = pc[s] /\ req'[s] = req[s] /\ snap'[s] = snap[s]
            /\ granted'[s] = granted[s]
        BY <2>2 DEF TypeOK
      <3>2. asked' = None
        BY DEF FoundRightly
      <3>3. Grants(req[s], asked') = {}
        BY <3>2 DEF Grants
      <3>4. FoundRightly(s)
        OBVIOUS
      <3> HIDE DEF IInv, DeleteRow
      <3>5. QED
        BY <3>1, <3>3, <3>4 DEF FoundRightly
    <2>3. QED
      BY <2>1, <2>2
  <1>5. QED
    BY <1>1, <1>2, <1>3, <1>4

(* The file goes.                                                          *)
LEMMA RemoveFileStep ==
  ASSUME IInv, NEW r \in Request, RemoveFile(r)
  PROVE  IInv'
  <1> USE DEF IInv, RemoveFile, End
  <1>1. TypeOK'
    BY ServingAssumption DEF TypeOK
  <1>2. AskedIsRow'
    BY DEF AskedIsRow
  <1>3. ThumbMade'
    BY DEF ThumbMade, TypeOK
  <1>4. ASSUME NEW s \in Request
        PROVE  FoundRightly(s)'
    <2>1. CASE s = r
      BY <2>1, ServingAssumption DEF TypeOK, FoundRightly, Reading, ViewSnap, EditSnap
    <2>2. CASE s # r
      BY <2>2 DEF TypeOK, FoundRightly, Reading
    <2>3. QED
      BY <2>1, <2>2
  <1>5. QED
    BY <1>1, <1>2, <1>3, <1>4

(* A request fails.                                                        *)
LEMMA FailStep ==
  ASSUME IInv, NEW r \in Request, Fail(r)
  PROVE  IInv'
  <1> USE DEF IInv, Fail, Refuse, End
  <1>1. TypeOK'
    BY ServingAssumption DEF TypeOK
  <1>2. AskedIsRow'
    BY DEF AskedIsRow
  <1>3. ThumbMade'
    BY DEF ThumbMade, TypeOK
  <1>4. ASSUME NEW s \in Request
        PROVE  FoundRightly(s)'
    <2>1. CASE s = r
      BY <2>1, ServingAssumption DEF TypeOK, FoundRightly, Reading, ViewSnap, EditSnap
    <2>2. CASE s # r
      BY <2>2 DEF TypeOK, FoundRightly, Reading
    <2>3. QED
      BY <2>1, <2>2
  <1>5. QED
    BY <1>1, <1>2, <1>3, <1>4

(* The server stops.                                                       *)
LEMMA CrashStep ==
  ASSUME IInv, Crash
  PROVE  IInv'
  <1> USE DEF IInv, Crash
  <1>1. TypeOK'
    BY DEF TypeOK
  <1>2. AskedIsRow' /\ ThumbMade'
    BY DEF AskedIsRow, ThumbMade
  <1>3. ASSUME NEW s \in Request
        PROVE  FoundRightly(s)'
    BY DEF FoundRightly, Reading
  <1>4. QED
    BY <1>1, <1>2, <1>3

(* IInv is inductive.                                                      *)
LEMMA NextIInv == IInv /\ [Next]_vars => IInv'
  <1> SUFFICES ASSUME IInv, [Next]_vars
               PROVE  IInv'
    OBVIOUS
  <1>1. ASSUME NEW r \in Request, NEW q \in Asking, Arrive(r, q)
        PROVE  IInv'
    BY <1>1, ArriveStep
  <1>2. ASSUME NEW r \in Request, Step(r)
        PROVE  IInv'
    BY <1>2, FindForViewStep, SendImageStep, LookForThumbStep, StartThumbStep,
       FinishThumbStep, RecordThumbStep, SendThumbStep, FindForEditStep, UpdateStep,
       DeleteRowStep, RemoveFileStep, FailStep DEF Step
  <1>3. CASE Crash
    BY <1>3, CrashStep
  <1>4. CASE UNCHANGED vars
    <2>1. TypeOK'
      BY <1>4 DEF IInv, TypeOK, vars
    <2>2. AskedIsRow' /\ ThumbMade'
      BY <1>4 DEF IInv, AskedIsRow, ThumbMade, vars
    <2>3. ASSUME NEW s \in Request
          PROVE  FoundRightly(s)'
      BY <1>4 DEF IInv, FoundRightly, vars
    <2>4. QED
      BY <2>1, <2>2, <2>3 DEF IInv
  <1>5. QED
    BY <1>1, <1>2, <1>3, <1>4 DEF Next

(* The invariant holds for ever.                                           *)
LEMMA Inductive == Spec => []IInv
  BY InitIInv, NextIInv, PTL DEF Spec

-------------------------------------------------------------------------------
(* The variables have their types, for any number of requests and tokens.  *)
THEOREM TypeCorrect == Spec => []TypeOK
  BY Inductive, PTL DEF IInv

(* The row names a thumbnail only when its file exists, and a thumbnail is *)
(* sent only when it exists, whatever generateThumb, crashes, failed       *)
(* writes and concurrent requests do.                                      *)
THEOREM ThumbPathsReal == Spec => []ThumbPathReal
  <1>1. IInv => ThumbPathReal
    BY DEF IInv, ThumbMade, ThumbPathReal
  <1>2. QED
    BY <1>1, Inductive, PTL

(* A step that sends a photo has the permission for it.                    *)
LEMMA SendRightly ==
  ASSUME IInv, NEW r \in Request, NEW s \in Request, SendImage(r) \/ SendThumb(r),
         reply'[s] # reply[s], reply'[s].what # "nothing"
  PROVE  /\ "see" \in granted[s]
         /\ reply'[s].cache = "public" =>
              "keep" \in granted[s] \/ reply'[s].what = "preview"
  <1>1. s = r /\ reply'[r] # reply[r]
    BY DEF IInv, TypeOK, SendImage, SendThumb, Send, Refuse, End
  <1>2. pc[r] \in Reading
    BY <1>1 DEF SendImage, SendThumb, Reading
  <1>3. /\ "see" \in granted[r]
        /\ snap[r].visibility = "published" => "keep" \in granted[r]
    BY <1>2 DEF IInv, FoundRightly
  <1>4. reply'[r].cache = "public" =>
          snap[r].visibility = "published" \/ reply'[r].what = "preview"
    <2>1. ASSUME NEW what, NEW cache, Send(r, what, cache)
          PROVE  reply'[r].what = what /\ reply'[r].cache = cache
      BY <2>1 DEF IInv, TypeOK, Send
    <2>2. Scope(r) = "public" => snap[r].visibility = "published"
      BY DEF Scope
    <2>3. ~Refuse(r)
      BY <1>1 DEF Refuse, End
    <2>4. \/ Send(r, "source", "no-store") \/ Send(r, "source", "default")
          \/ Send(r, "source", Scope(r)) \/ Send(r, "thumb", Scope(r))
          \/ Send(r, "partial", Scope(r)) \/ Send(r, "preview", "private")
          \/ Send(r, "preview", "public")
      BY <2>3 DEF SendImage, SendThumb
    <2>5. QED
      BY <2>1, <2>2, <2>4
  <1>5. QED
    BY <1>1, <1>3, <1>4

(* Only such a step puts a photo into an answer.                           *)
LEMMA NextServesRightly ==
  IInv /\ [Next]_vars =>
    \A r \in Request : reply'[r] # reply[r] /\ reply'[r].what # "nothing" =>
      /\ "see" \in granted[r]
      /\ reply'[r].cache = "public" => "keep" \in granted[r] \/ reply'[r].what = "preview"
  <1> SUFFICES ASSUME IInv, [Next]_vars, NEW s \in Request,
                      reply'[s] # reply[s], reply'[s].what # "nothing"
               PROVE  /\ "see" \in granted[s]
                      /\ reply'[s].cache = "public" =>
                           "keep" \in granted[s] \/ reply'[s].what = "preview"
    OBVIOUS
  <1>1. ASSUME NEW r \in Request, NEW q \in Asking, Arrive(r, q)
        PROVE  FALSE
    BY <1>1 DEF IInv, TypeOK, Arrive, Nothing
  <1>2. ASSUME NEW r \in Request, Step(r), ~SendImage(r), ~SendThumb(r)
        PROVE  FALSE
    BY <1>2 DEF Step, FindForView, LookForThumb, StartThumb, FinishThumb, RecordThumb,
       FindForEdit, Update, DeleteRow, RemoveFile, Fail, Refuse, End
  <1>3. QED
    BY <1>1, <1>2, SendRightly DEF Next, Crash, vars

(* Nobody is sent a photo unless the owner's latest requests allowed it at *)
(* some moment since he asked, and shared caches may keep only what was    *)
(* published then, for any number of requests, tokens and edits.           *)
THEOREM AlwaysServedRightly == Spec => ServedRightly
  BY Inductive, NextServesRightly, PTL DEF Spec, ServedRightly

(* Only an edit that names the location, or asks the geocoder, changes it. *)
LEMMA NextKeepsNames ==
  IInv /\ [Next]_vars =>
    (photo # None /\ photo' # None /\ photo'.location # photo.location =>
       \E r \in Request :
         /\ pc[r] = "update" /\ pc'[r] = "idle"
         /\ req[r].by = "owner"
         /\ \/ req[r].act = "change" /\ "location" \in DOMAIN req[r].change
            \/ req[r].act = "geocode"
            \/ req[r].act = "missing" /\ snap[r].location = "")
  <1> SUFFICES ASSUME IInv, [Next]_vars, photo # None, photo' # None,
                      photo'.location # photo.location
               PROVE  \E r \in Request :
                        /\ pc[r] = "update" /\ pc'[r] = "idle"
                        /\ req[r].by = "owner"
                        /\ \/ req[r].act = "change" /\ "location" \in DOMAIN req[r].change
                           \/ req[r].act = "geocode"
                           \/ req[r].act = "missing" /\ snap[r].location = ""
    OBVIOUS
  <1>1. PICK r \in Request : RecordThumb(r) \/ Update(r)
    BY DEF Next, vars, Arrive, Step, Crash, FindForView, SendImage, LookForThumb,
       StartThumb, FinishThumb, SendThumb, FindForEdit, DeleteRow, RemoveFile, Fail
  <1>2. photo \in Photo
    BY DEF IInv, TypeOK
  <1>3. Update(r)
    BY <1>1, <1>2, RecordKeeps DEF RecordThumb
  <1>4. /\ pc[r] = "update" /\ pc'[r] = "idle"
        /\ req[r] \in Edit /\ req[r].by = "owner" /\ req[r].act # "delete"
        /\ req[r].act = "missing" => snap[r].location = ""
        /\ req[r].act = "share" => issued < MaxTokens
        /\ photo' = UpdatePhoto(photo, UpdateOf(req[r]))
    BY <1>3 DEF IInv, TypeOK, FoundRightly, Update, End
  <1>5. "location" \in DOMAIN UpdateOf(req[r])
    BY <1>4 DEF UpdatePhoto, Given
  <1>6. issued \in Nat /\ MaxTokens \in Nat
    BY IssuedBounded DEF IInv
  <1>7. \/ req[r].act = "change" /\ "location" \in DOMAIN req[r].change
        \/ req[r].act \in {"geocode", "missing"}
    BY <1>4, <1>5, <1>6, UpdateOfTyped
  <1>8. QED
    BY <1>4, <1>7

(* The location changes only by a request of the owner for it, and a loop  *)
(* over all unnamed photos keeps a name that was there when it began.      *)
THEOREM NamesAlwaysKept == Spec => NamesKept
  BY Inductive, NextKeepsNames, PTL DEF Spec, NamesKept

===============================================================================
