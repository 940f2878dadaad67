-------------------------------- MODULE Serving --------------------------------
(***************************************************************************)
(* http/html/public.go with the handlers that edit a photo: one photo, its *)
(* row, its file and the thumbnail that is made when somebody asks for it. *)
(* Visitors come by /p/{id} or a share link /s/{token}, signed-in users    *)
(* by /photo/{id}.  A handler reads the row once, at its start, and goes   *)
(* on with what it read; every UpdatePhoto is one transaction.             *)
(***************************************************************************)
EXTENDS Naturals

CONSTANTS
  Request,    \* requests in progress; one that was answered serves as another
  Sources,    \* the kinds of file in an instance
  Asking,     \* what they ask in an instance: members of View and Edit below
  MaxTokens,  \* bound of the model on the share tokens made
  None

Visibility == {"private", "household", "published"}
Token == 1 .. MaxTokens
Location == {"", "hand", "geo"}

(* The fields that UpdatePhoto writes; thumb_path names a fixed file.      *)
Photo == [visibility : Visibility, token : Token \cup {None},
          thumbPath : BOOLEAN, location : Location]

(* What GET requests ask for, and by whom; "own" is a signed-in user.      *)
View ==
  [way : {"published"}, by : {"visitor"}, token : {None}, view : {"image", "thumb"}]
    \cup [way : {"shared"}, by : {"visitor"}, token : Token, view : {"image", "thumb"}]
    \cup [way : {"own"}, by : {"owner", "other"}, token : {None},
          view : {"image", "thumb", "download"}]

(* The updates that requests ask for in so many words.                     *)
Change ==
  [visibility : Visibility] \cup [location : {"", "hand"}]
    \cup [visibility : Visibility, location : {"", "hand"}] \cup [token : {None}]

Edit ==
  [way : {"edit"}, act : {"change"}, by : {"owner", "other"}, change : Change]
    \cup [way : {"edit"}, act : {"share", "geocode", "missing", "delete"},
          by : {"owner", "other"}]

(* raw is IsRaw; readable: the file decodes, or exiftool finds a preview.  *)
Source == [raw : BOOLEAN, readable : BOOLEAN]

(* Who may see the photo, by the owner's latest requests.                  *)
Wish == [visibility : Visibility, token : Token \cup {None}]

ASSUME ServingAssumption ==
  /\ MaxTokens \in Nat
  /\ None \notin Token \cup Photo \cup Wish
  /\ Asking \subseteq View \cup Edit
  /\ Sources \subseteq Source

IsView(q) == q.way # "edit"

VARIABLES
  source,   \* what kind of file it is
  photo,    \* the row, or None after DeletePhoto
  file,     \* the photo's file exists
  thumb,    \* .photo/thumbs/<id>.jpg: "absent", "partial" or "whole"
  issued,   \* share tokens made so far
  pc,       \* pc[r]: what r does next, "idle" when it was answered
  req,      \* req[r]: what r asks, or None
  snap,     \* snap[r]: what r read of the row and goes on with, or None
  reply,    \* reply[r]: what r was sent
  asked,    \* history: visibility and token as the owner last asked, or None
  granted   \* history: what the owner allowed at some moment since r came in

vars == <<source, photo, file, thumb, issued, pc, req, snap, reply, asked, granted>>

Nothing == [what |-> "nothing", cache |-> "default"]

Reply == [what : {"nothing", "source", "preview", "thumb", "partial"},
          cache : {"public", "private", "no-store", "default"}]

Asked(p) == [visibility |-> p.visibility, token |-> p.token]

(* The rows are those a user has: a photo is uploaded, captioned with a    *)
(* location when the geocoder knew it, and not yet shared.                 *)
Init ==
  /\ source \in Sources
  /\ photo \in [visibility : Visibility, token : {None}, thumbPath : {FALSE},
                location : {"", "geo"}]
  /\ file = TRUE
  /\ thumb = "absent"
  /\ issued = 0
  /\ pc = [r \in Request |-> "idle"]
  /\ req = [r \in Request |-> None]
  /\ snap = [r \in Request |-> None]
  /\ reply = [r \in Request |-> Nothing]
  /\ asked = Asked(photo)
  /\ granted = [r \in Request |-> {}]

-------------------------------------------------------------------------------
(* What the owner's wishes a allow to request q.                           *)
Grants(q, a) ==
  IF a = None \/ ~IsView(q) THEN {}
  ELSE {g \in {"see", "keep"} :
          \/ g = "see" /\ q.way = "published" /\ a.visibility = "published"
          \/ g = "see" /\ q.way = "shared" /\ a.token = q.token
          \/ g = "see" /\ q.way = "own" /\ q.by = "owner"
          \/ g = "keep" /\ a.visibility = "published"}

GrantMore(a) ==
  granted' = [r \in Request |->
    IF pc[r] = "idle" THEN {} ELSE granted[r] \cup Grants(req[r], a)]

(* A share link is known to somebody once it was made.                     *)
Arrive(r, q) ==
  /\ pc[r] = "idle"
  /\ IsView(q) => q.token \in {None} \cup 1 .. issued
  /\ pc' = [pc EXCEPT ![r] = "find"]
  /\ req' = [req EXCEPT ![r] = q]
  /\ snap' = [snap EXCEPT ![r] = None]
  /\ reply' = [reply EXCEPT ![r] = Nothing]
  /\ granted' = [granted EXCEPT ![r] = Grants(q, asked)]
  /\ UNCHANGED <<source, photo, file, thumb, issued, asked>>

Send(r, what, cache) ==
  /\ pc' = [pc EXCEPT ![r] = "idle"]
  /\ snap' = [snap EXCEPT ![r] = None]
  /\ reply' = [reply EXCEPT ![r] = [what |-> what, cache |-> cache]]
  /\ granted' = [granted EXCEPT ![r] = {}]
  /\ UNCHANGED req

(* Any answer without a photo in it; what was asked no longer matters.     *)
End(r) ==
  /\ pc' = [pc EXCEPT ![r] = "idle"]
  /\ req' = [req EXCEPT ![r] = None]
  /\ snap' = [snap EXCEPT ![r] = None]
  /\ UNCHANGED reply

Refuse(r) == End(r) /\ granted' = [granted EXCEPT ![r] = {}]

-------------------------------------------------------------------------------
(* resolvePublicPhoto, FindPhotoByShareToken, or FindPhotoByID and the     *)
(* comparison with the owner that every handler of /photo/{id} makes.      *)
Finds(q) ==
  /\ photo # None
  /\ \/ q.way = "published" /\ photo.visibility = "published"
     \/ q.way = "shared" /\ photo.token = q.token
     \/ q.way = "own" /\ q.by = "owner"

FindForView(r) ==
  /\ pc[r] = "find"
  /\ IsView(req[r])
  /\ IF Finds(req[r])
       THEN /\ pc' = [pc EXCEPT ![r] = IF req[r].view = "thumb" THEN "look" ELSE "send image"]
            /\ snap' = [snap EXCEPT ![r] = [visibility |-> photo.visibility,
                                              thumbPath |-> photo.thumbPath]]
            /\ UNCHANGED <<req, reply, granted>>
       ELSE Refuse(r)
  /\ UNCHANGED <<source, photo, file, thumb, issued, asked>>

(* cacheImmutable: browsers keep the answer for a year, and shared caches  *)
(* too when the photo was published as r read it.                          *)
Scope(r) ==
  IF req[r].way # "own" /\ snap[r].visibility = "published" THEN "public" ELSE "private"

(* handlePrivatePhotoFile, handlePrivatePreview and servePhotoFile; the    *)
(* last calls the preview of a raw file public whatever its visibility.    *)
SendImage(r) ==
  /\ pc[r] = "send image"
  /\ \/ ~file /\ Refuse(r)
     \/ /\ file /\ (req[r].view = "download" \/ (source.raw /\ ~source.readable))
        /\ Send(r, "source", "no-store")
     \/ /\ file /\ req[r].view = "image" /\ ~source.raw
        /\ Send(r, "source", Scope(r))
     \/ /\ file /\ req[r].view = "image" /\ source.raw /\ source.readable
        /\ Send(r, "preview", IF req[r].way = "own" THEN "private" ELSE "public")
  /\ UNCHANGED <<source, photo, file, thumb, issued, asked>>

-------------------------------------------------------------------------------
(* servePhotoThumb and handlePrivateThumb: a file that is there is served; *)
(* a row that does not know of it is told first.                           *)
LookForThumb(r) ==
  /\ pc[r] = "look"
  /\ pc' = [pc EXCEPT ![r] = CASE thumb = "absent" -> "make"
                               [] thumb # "absent" /\ snap[r].thumbPath -> "send thumb"
                               [] thumb # "absent" /\ ~snap[r].thumbPath -> "record"]
  /\ UNCHANGED <<source, photo, file, thumb, issued, req, snap, reply, asked, granted>>

(* Mistake to detect: a thumbnail that was not made is recorded.           *)
StartThumbAnyway(r) ==
  /\ pc[r] = "make"
  /\ \/ /\ file /\ source.readable
        /\ thumb' = "partial"
        /\ pc' = [pc EXCEPT ![r] = "write"]
     \/ /\ file /\ ~source.readable
        /\ pc' = [pc EXCEPT ![r] = "record"]
        /\ UNCHANGED thumb
  /\ UNCHANGED <<source, photo, file, issued, req, snap, reply, asked, granted>>

(* generateThumb: os.WriteFile empties the file before it writes.  What    *)
(* cannot be decoded is served whole, or by the caller after an error.     *)
StartThumb(r) ==
  /\ pc[r] = "make"
  /\ \/ /\ file /\ source.readable
        /\ thumb' = "partial"
        /\ pc' = [pc EXCEPT ![r] = "write"]
     \/ /\ file /\ ~source.readable /\ ~source.raw
        /\ pc' = [pc EXCEPT ![r] = "send source"]
        /\ UNCHANGED thumb
     \/ /\ pc' = [pc EXCEPT ![r] = "send instead"]
        /\ UNCHANGED thumb
  /\ UNCHANGED <<source, photo, file, issued, req, snap, reply, asked, granted>>

(* Two writers write the same bytes; a full disk ends the writing early.   *)
FinishThumb(r) ==
  /\ pc[r] = "write"
  /\ \/ /\ thumb' = "whole"
        /\ pc' = [pc EXCEPT ![r] = "record"]
     \/ /\ pc' = [pc EXCEPT ![r] = "send instead"]
        /\ UNCHANGED thumb
  /\ UNCHANGED <<source, photo, file, issued, req, snap, reply, asked, granted>>

(* UpdatePhoto reads the row again, changes the fields it was given and    *)
(* writes the row back, all in one transaction.                            *)
Given(upd, field, old) == IF field \in DOMAIN upd THEN upd[field] ELSE old

UpdatePhoto(p, upd) ==
  [visibility |-> Given(upd, "visibility", p.visibility),
   token |-> Given(upd, "token", p.token),
   thumbPath |-> Given(upd, "thumbPath", p.thumbPath),
   location |-> Given(upd, "location", p.location)]

(* Mistake to detect: what was read at the start is written back.          *)
RecordStale(r) ==
  /\ pc[r] = "record"
  /\ LET upd == [visibility |-> snap[r].visibility, thumbPath |-> TRUE] IN
       photo' = IF photo = None THEN None ELSE UpdatePhoto(photo, upd)
  /\ pc' = [pc EXCEPT ![r] = "send thumb"]
  /\ UNCHANGED <<source, file, thumb, issued, req, snap, reply, asked, granted>>

(* The row learns of the thumbnail.  The update fails when the photo was   *)
(* deleted, the client has gone or the database is in trouble; it is only  *)
(* logged.                                                                 *)
RecordThumb(r) ==
  /\ pc[r] = "record"
  /\ \/ /\ photo # None
        /\ photo' = UpdatePhoto(photo, [thumbPath |-> TRUE])
     \/ UNCHANGED photo
  /\ pc' = [pc EXCEPT ![r] = "send thumb"]
  /\ UNCHANGED <<source, file, thumb, issued, req, snap, reply, asked, granted>>

SendThumb(r) ==
  /\ \/ /\ pc[r] = "send thumb"
        /\ Send(r, IF thumb = "whole" THEN "thumb" ELSE "partial", Scope(r))
     \/ /\ pc[r] = "send source" /\ file
        /\ Send(r, "source", Scope(r))
     \/ /\ pc[r] = "send instead" /\ file
        /\ Send(r, "source", "default")
     \/ /\ pc[r] \in {"send source", "send instead"} /\ ~file
        /\ Refuse(r)
  /\ UNCHANGED <<source, photo, file, thumb, issued, asked>>

-------------------------------------------------------------------------------
(* Mistake to detect: the list is not restricted to photos without a name. *)
MayEditAny(q) == photo # None /\ q.by = "owner"

(* The handlers that edit: the row must exist and be the user's, or, for   *)
(* the loop of handleRegeocodeMissing, be the user's and have no location. *)
MayEdit(q) ==
  /\ photo # None
  /\ q.by = "owner"
  /\ q.act = "missing" => photo.location = ""

FindForEdit(r) ==
  /\ pc[r] = "find"
  /\ ~IsView(req[r])
  /\ IF MayEdit(req[r])
       THEN /\ pc' = [pc EXCEPT ![r] = "update"]
            /\ snap' = [snap EXCEPT ![r] = [location |-> photo.location]]
            /\ UNCHANGED <<req, reply>>
       ELSE End(r)
  /\ UNCHANGED <<source, photo, file, thumb, issued, asked, granted>>

(* Mistake to detect: no token is made.                                    *)
EmptyToken == 0

(* GenerateShareToken: a token nobody has seen; it replaces an older one.  *)
FreshToken == issued + 1

(* What an edit passes to UpdatePhoto: the values it was given, a token or *)
(* the place that the geocoder found.                                      *)
UpdateOf(q) ==
  CASE q.act = "change" -> q.change
    [] q.act = "share" -> [token |-> FreshToken]
    [] q.act \in {"geocode", "missing"} -> [location |-> "geo"]

(* A photo that was deleted meanwhile is not found.  Bound of the model:   *)
(* no more than MaxTokens tokens are made.                                 *)
Update(r) ==
  /\ pc[r] = "update"
  /\ req[r].act # "delete"
  /\ \/ photo = None /\ UNCHANGED <<photo, issued, asked, granted>>
     \/ /\ photo # None
        /\ req[r].act = "share" => issued < MaxTokens
        /\ LET upd == UpdateOf(req[r]) IN
             /\ photo' = UpdatePhoto(photo, upd)
             /\ asked' = IF req[r].by = "owner" /\ asked # None
                           THEN [visibility |-> Given(upd, "visibility", asked.visibility),
                                 token |-> Given(upd, "token", asked.token)]
                           ELSE asked
        /\ issued' = IF req[r].act = "share" THEN issued + 1 ELSE issued
        /\ GrantMore(asked')
  /\ End(r)
  /\ UNCHANGED <<source, file, thumb>>

(* handleDeletePhoto: first the row, then the file; the thumbnail stays.   *)
DeleteRow(r) ==
  /\ pc[r] = "update"
  /\ req[r].act = "delete"
  /\ IF photo = None
       THEN End(r)
       ELSE pc' = [pc EXCEPT ![r] = "remove"] /\ UNCHANGED <<req, snap, reply>>
  /\ photo' = None
  /\ asked' = IF req[r].by = "owner" THEN None ELSE asked
  /\ UNCHANGED <<source, file, thumb, issued, granted>>

RemoveFile(r) ==
  /\ pc[r] = "remove"
  /\ file' = FALSE
  /\ End(r)
  /\ UNCHANGED <<source, photo, thumb, issued, asked, granted>>

(* A query or an update fails: the client has gone, or the geocoder has no *)
(* answer.                                                                 *)
Fail(r) ==
  /\ pc[r] \in {"find", "update"}
  /\ Refuse(r)
  /\ UNCHANGED <<source, photo, file, thumb, issued, asked>>

(* The server is killed and started again.                                 *)
Crash ==
  /\ \E r \in Request : pc[r] # "idle"
  /\ pc' = [r \in Request |-> "idle"]
  /\ req' = [r \in Request |-> IF pc[r] = "idle" THEN req[r] ELSE None]
  /\ granted' = [r \in Request |-> {}]
  /\ snap' = [r \in Request |-> None]
  /\ UNCHANGED <<source, photo, file, thumb, issued, reply, asked>>

Step(r) ==
  \/ FindForView(r) \/ SendImage(r)
  \/ LookForThumb(r) \/ StartThumb(r) \/ FinishThumb(r) \/ RecordThumb(r) \/ SendThumb(r)
  \/ FindForEdit(r) \/ Update(r) \/ DeleteRow(r) \/ RemoveFile(r) \/ Fail(r)

Next ==
  \/ \E r \in Request : (\E q \in Asking : Arrive(r, q)) \/ Step(r)
  \/ Crash

Spec == Init /\ [][Next]_vars

-------------------------------------------------------------------------------
(* The variables have their types.                                         *)
TypeOK ==
  /\ source \in Sources
  /\ photo \in Photo \cup {None}
  /\ file \in BOOLEAN
  /\ thumb \in {"absent", "partial", "whole"}
  /\ issued \in 0 .. MaxTokens
  /\ pc \in [Request -> {"idle", "find", "look", "make", "write", "record", "send image",
                         "send thumb", "send source", "send instead", "update", "remove"}]
  /\ req \in [Request -> View \cup Edit \cup {None}]
  /\ snap \in [Request -> [visibility : Visibility, thumbPath : BOOLEAN]
                         \cup [location : Location] \cup {None}]
  /\ reply \in [Request -> Reply]
  /\ asked \in Wish \cup {None}
  /\ granted \in [Request -> SUBSET {"see", "keep"}]

(* A visitor who is sent a photo was allowed to see it by the owner's      *)
(* latest requests at some moment since he asked: after the owner made it  *)
(* private, revoked or replaced the link or deleted the photo, no request  *)
(* that comes in is served, whatever thumbnails are recorded and whatever  *)
(* other edits are finished meanwhile.  A shared cache may keep only what  *)
(* was published at such a moment; the preview of a raw file is excepted,  *)
(* which is public for share links as well.                                *)
ServedRightly ==
  [][\A r \in Request : reply'[r] # reply[r] /\ reply'[r].what # "nothing" =>
       /\ "see" \in granted[r]
       /\ reply'[r].cache = "public" =>
            "keep" \in granted[r] \/ reply'[r].what = "preview"]_vars

(* The row names a thumbnail only when there is a file, and a request that *)
(* goes to send it finds one.                                              *)
ThumbPathReal ==
  /\ photo # None /\ photo.thumbPath => thumb # "absent"
  /\ \A r \in Request : pc[r] = "send thumb" => thumb # "absent"

(* The location changes only by a request of the owner that names it, and  *)
(* a name given by hand gives way to the geocoder's only when the owner    *)
(* asked for this photo, or regeocoding of all had listed it as unnamed.   *)
NamesKept ==
  [][photo # None /\ photo' # None /\ photo'.location # photo.location =>
       \E r \in Request :
         /\ pc[r] = "update" /\ pc'[r] = "idle"
         /\ req[r].by = "owner"
         /\ \/ req[r].act = "change" /\ "location" \in DOMAIN req[r].change
            \/ req[r].act = "geocode"
            \/ req[r].act = "missing" /\ snap[r].location = ""]_vars

(* cacheImmutable: "content that never changes at this URL": two answers   *)
(* to the same request that caches may keep have the same content.  The    *)
(* code does not keep it.                                                  *)
ImmutableNeverChanges ==
  \A r, q \in Request :
    /\ req[r] = req[q]
    /\ {reply[r].cache, reply[q].cache} \subseteq {"public", "private"}
    /\ "nothing" \notin {reply[r].what, reply[q].what}
    => reply[r].what = reply[q].what
===============================================================================
