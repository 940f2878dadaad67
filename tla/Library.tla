-------------------------------- MODULE Library --------------------------------
(***************************************************************************)
(* The photo library: rows of the table photos in the database, files      *)
(* under LibraryRoot, and the handlers that must keep the two together     *)
(* without a transaction over both.                                        *)
(*                                                                         *)
(* An upload (http/photo.go, http/html/photo.go, importer/importer.go)     *)
(* writes a file of its own, then inserts the row, and takes the file back *)
(* if the row is refused.  A deletion removes the row, then the file.  Any *)
(* number of them run at once, and the process may die between two steps.  *)
(*                                                                         *)
(* A photo here is one upload: its file lies under a path made of a fresh  *)
(* kid, and its row, if it gets one, has a fresh kid of its own.           *)
(***************************************************************************)
EXTENDS Naturals

CONSTANTS
  Photo,        \* uploads, and the photos they may become
  Content,      \* what a file holds, identified by its SHA-256
  RawContent,   \* the contents EXIF extraction reports as RAW
  User,         \* user ids
  Visibility,   \* private, household, published
  Private,      \* VisibilityPrivate
  Deletion,     \* concurrent requests to delete a photo
  UserOf,       \* UserOf[d]: the authenticated user who sent d
  MaxCrashes,   \* bound of the model on the number of crashes
  None          \* nothing yet

ASSUME LibraryAssumption ==
  /\ RawContent \subseteq Content
  /\ Private \in Visibility
  /\ UserOf \in [Deletion -> User]
  /\ MaxCrashes \in Nat
  /\ None \notin Photo \cup Content \cup User \cup Visibility

VARIABLES
  pc,           \* pc[p]: where the handler of upload p is
  content,      \* content[p]: what was uploaded
  uploader,     \* uploader[p]: the user who uploads, photos.user_id
  wanted,       \* wanted[p]: opts.Visibility
  file,         \* file[p]: what lies under the path of p
  row,          \* row[p]: "none" yet, "live", or "deleted"
  visibility,   \* visibility[p]: photos.visibility of a live row
  chosen,       \* chosen[p]: the owner has set the visibility since
  reply,        \* reply[p]: what the uploader was told
  victim,       \* victim[d]: the photo that deletion d read and may delete
  rowGone,      \* rowGone[d]: d has deleted the row, not yet the file
  lost,         \* photos whose handler died in a crash
  stuck,        \* photos whose file could not be removed, or not closed
  crashes       \* number of crashes so far

uploadVars == <<pc, content, uploader, wanted, reply>>
rowVars == <<row, visibility, chosen>>
deletionVars == <<victim, rowGone>>
faultVars == <<lost, stuck, crashes>>
vars == <<pc, content, uploader, wanted, file, row, visibility, chosen, reply,
          victim, rowGone, lost, stuck, crashes>>

Working == {"read", "copying", "copied", "undoDuplicate", "undoError", "created"}

Init ==
  /\ pc = [p \in Photo |-> "idle"]
  /\ content = [p \in Photo |-> None]
  /\ uploader = [p \in Photo |-> None]
  /\ wanted = [p \in Photo |-> None]
  /\ file = [p \in Photo |-> "absent"]
  /\ row = [p \in Photo |-> "none"]
  /\ visibility = [p \in Photo |-> None]
  /\ chosen = [p \in Photo |-> FALSE]
  /\ reply = [p \in Photo |-> "none"]
  /\ victim = [d \in Deletion |-> None]
  /\ rowGone = [d \in Deletion |-> FALSE]
  /\ lost = {}
  /\ stuck = {}
  /\ crashes = 0

Goto(p, from, to) == pc[p] = from /\ pc' = [pc EXCEPT ![p] = to]
Answer(p, what) == reply' = [reply EXCEPT ![p] = what]

(* os.Remove; all that call it ignore its failure, or only log it.         *)
Remove(p) ==
  \/ file' = [file EXCEPT ![p] = "absent"] /\ UNCHANGED stuck
  \/ stuck' = stuck \cup {p} /\ UNCHANGED file

-------------------------------------------------------------------------------
(* Upload.                                                                 *)

(* Mistake to detect: the visibility parameter is taken without IsValid.   *)
StartUploadUnchecked(p, u, c, v) ==
  /\ Goto(p, "idle", "read")
  /\ content' = [content EXCEPT ![p] = c]
  /\ uploader' = [uploader EXCEPT ![p] = u]
  /\ wanted' = [wanted EXCEPT ![p] = "friends"]
  /\ UNCHANGED <<file, rowVars, reply, deletionVars, faultVars>>

(* The body is read and hashed, the wanted visibility settled.             *)
StartUpload(p, u, c, v) ==
  /\ Goto(p, "idle", "read")
  /\ content' = [content EXCEPT ![p] = c]
  /\ uploader' = [uploader EXCEPT ![p] = u]
  /\ wanted' = [wanted EXCEPT ![p] = v]
  /\ UNCHANGED <<file, rowVars, reply, deletionVars, faultVars>>

(* EXIF extraction fails, geocoding fails, or the destination cannot be    *)
(* created.  A file that is skipped, being no image, is a conflict too.    *)
GiveUp(p) ==
  /\ Goto(p, "read", "done")
  /\ Answer(p, "error") \/ Answer(p, "conflict")
  /\ UNCHANGED <<content, uploader, wanted, file, rowVars, deletionVars, faultVars>>

(* OpenFile with O_EXCL, under a path no other upload has.                 *)
BeginCopy(p) ==
  /\ Goto(p, "read", "copying")
  /\ file' = [file EXCEPT ![p] = "partial"]
  /\ UNCHANGED <<content, uploader, wanted, reply, rowVars, deletionVars, faultVars>>

FinishCopy(p) ==
  /\ Goto(p, "copying", "copied")
  /\ file' = [file EXCEPT ![p] = "whole"]
  /\ UNCHANGED <<content, uploader, wanted, reply, rowVars, deletionVars, faultVars>>

(* Mistake to detect: the partial file of a failed write is not removed.   *)
CopyFailsUntidily(p) ==
  /\ Goto(p, "copying", "done")
  /\ Answer(p, "error")
  /\ UNCHANGED <<content, uploader, wanted, file, rowVars, deletionVars, faultVars>>

(* The write fails and the partial file is removed; or the close fails,    *)
(* and the file stays as it is, complete or not.                           *)
CopyFails(p) ==
  /\ Goto(p, "copying", "done")
  /\ \/ Remove(p)
     \/ /\ file' \in {[file EXCEPT ![p] = state] : state \in {"partial", "whole"}}
        /\ stuck' = stuck \cup {p}
  /\ Answer(p, "error")
  /\ UNCHANGED <<content, uploader, wanted, rowVars, deletionVars, lost, crashes>>

(* The UNIQUE constraint of photos.sha256, over the rows of all users.     *)
Duplicate(p) == \E q \in Photo : row[q] = "live" /\ content[q] = content[p]

(* CreatePhoto commits.                                                    *)
CreateRow(p) ==
  /\ Goto(p, "copied", "created")
  /\ ~Duplicate(p)
  /\ row' = [row EXCEPT ![p] = "live"]
  /\ visibility' = [visibility EXCEPT ![p] = wanted[p]]
  /\ UNCHANGED <<content, uploader, wanted, reply, file, chosen, deletionVars, faultVars>>

(* CreatePhoto returns ECONFLICT, or fails for another reason.             *)
CreateRefused(p) ==
  /\ \/ Duplicate(p) /\ Goto(p, "copied", "undoDuplicate")
     \/ Goto(p, "copied", "undoError")
  /\ UNCHANGED <<content, uploader, wanted, reply, file, rowVars, deletionVars, faultVars>>

(* Mistakes to detect: the copy is taken back for errors but not for       *)
(* duplicates; the handler forgets the case of an error.                   *)
UndoErrorsOnly(p) ==
  /\ \/ /\ Goto(p, "undoDuplicate", "done") /\ Answer(p, "conflict")
        /\ UNCHANGED <<file, stuck>>
     \/ /\ Goto(p, "undoError", "done") /\ Answer(p, "error")
        /\ Remove(p)
  /\ UNCHANGED <<content, uploader, wanted, rowVars, deletionVars, lost, crashes>>

UndoDuplicatesOnly(p) ==
  /\ Goto(p, "undoDuplicate", "done") /\ Answer(p, "conflict")
  /\ Remove(p)
  /\ UNCHANGED <<content, uploader, wanted, rowVars, deletionVars, lost, crashes>>

(* "Roll back the copied file regardless of error type."                   *)
Undo(p) ==
  /\ \/ Goto(p, "undoDuplicate", "done") /\ Answer(p, "conflict")
     \/ Goto(p, "undoError", "done") /\ Answer(p, "error")
  /\ Remove(p)
  /\ UNCHANGED <<content, uploader, wanted, rowVars, deletionVars, lost, crashes>>

(* Mistake to detect: every upload that is not private is corrected.        *)
NeedsCorrectionAlways(p) == wanted[p] # Private

NeedsCorrection(p) == content[p] \in RawContent /\ wanted[p] # Private

(* The second transaction of an upload: a RAW photo is made private.  The  *)
(* update may fail (or find the row deleted already); that is only logged. *)
CorrectRaw(p) ==
  /\ NeedsCorrection(p)
  /\ Goto(p, "created", "done")
  /\ Answer(p, "created")
  /\ \/ /\ row[p] = "live"
        /\ visibility' = [visibility EXCEPT ![p] = Private]
     \/ UNCHANGED visibility
  /\ UNCHANGED <<content, uploader, wanted, file, row, chosen, deletionVars, faultVars>>

Respond(p) ==
  /\ ~NeedsCorrection(p)
  /\ Goto(p, "created", "done")
  /\ Answer(p, "created")
  /\ UNCHANGED <<content, uploader, wanted, file, rowVars, deletionVars, faultVars>>

UploadStep(p) ==
  \/ GiveUp(p) \/ BeginCopy(p) \/ FinishCopy(p) \/ CopyFails(p)
  \/ CreateRow(p) \/ CreateRefused(p) \/ Undo(p) \/ CorrectRaw(p) \/ Respond(p)

-------------------------------------------------------------------------------
(* The owner changes the visibility; UpdatePhoto reads and writes the row  *)
(* in one transaction, and owners never change.                            *)
SetVisibility(p, v) ==
  /\ row[p] = "live"
  /\ visibility' = [visibility EXCEPT ![p] = v]
  /\ chosen' = [chosen EXCEPT ![p] = TRUE]
  /\ UNCHANGED <<uploadVars, file, row, deletionVars, faultVars>>

(* Mistake to detect: the owner of the photo is not compared.              *)
CheckDeletionByAnyone(d, p) ==
  /\ victim[d] = None
  /\ row[p] = "live"
  /\ victim' = [victim EXCEPT ![d] = p]
  /\ UNCHANGED <<uploadVars, file, rowVars, rowGone, faultVars>>

(* handleDeletePhoto: FindPhotoByID, and the comparison of the owner.      *)
CheckDeletion(d, p) ==
  /\ victim[d] = None
  /\ row[p] = "live"
  /\ uploader[p] = UserOf[d]
  /\ victim' = [victim EXCEPT ![d] = p]
  /\ UNCHANGED <<uploadVars, file, rowVars, rowGone, faultVars>>

(* DeletePhoto; ENOTFOUND if another deletion was faster.                  *)
DeleteRow(d) ==
  /\ victim[d] # None /\ ~rowGone[d]
  /\ \/ /\ row[victim[d]] = "live"
        /\ row' = [row EXCEPT ![victim[d]] = "deleted"]
        /\ rowGone' = [rowGone EXCEPT ![d] = TRUE]
        /\ UNCHANGED victim
     \/ /\ row[victim[d]] # "live"
        /\ victim' = [victim EXCEPT ![d] = None]
        /\ UNCHANGED <<row, rowGone>>
  /\ UNCHANGED <<uploadVars, file, visibility, chosen, faultVars>>

(* Mistake to detect: the file goes before the row.                        *)
RemoveFileFirst(d) ==
  /\ victim[d] # None
  /\ file' = [file EXCEPT ![victim[d]] = "absent"]
  /\ victim' = IF rowGone[d] THEN [victim EXCEPT ![d] = None] ELSE victim
  /\ rowGone' = [rowGone EXCEPT ![d] = FALSE]
  /\ UNCHANGED <<uploadVars, rowVars, faultVars>>

(* "Remove the file from disk after the DB record is gone."                *)
RemoveFile(d) ==
  /\ victim[d] # None /\ rowGone[d]
  /\ Remove(victim[d])
  /\ victim' = [victim EXCEPT ![d] = None]
  /\ rowGone' = [rowGone EXCEPT ![d] = FALSE]
  /\ UNCHANGED <<uploadVars, rowVars, lost, crashes>>

(* The process dies and is started again: files and committed rows stay,   *)
(* every handler is gone.                                                  *)
Crash ==
  /\ crashes < MaxCrashes
  /\ crashes' = crashes + 1
  /\ lost' = lost \cup {p \in Photo : pc[p] \in Working}
                  \cup {victim[d] : d \in {e \in Deletion : rowGone[e]}}
  /\ pc' = [p \in Photo |-> IF pc[p] \in Working THEN "lost" ELSE pc[p]]
  /\ victim' = [d \in Deletion |-> None]
  /\ rowGone' = [d \in Deletion |-> FALSE]
  /\ UNCHANGED <<content, uploader, wanted, reply, file, stuck, rowVars>>

Next ==
  \/ \E p \in Photo, u \in User, c \in Content, v \in Visibility : StartUpload(p, u, c, v)
  \/ \E p \in Photo : UploadStep(p)
  \/ \E p \in Photo, v \in Visibility : SetVisibility(p, v)
  \/ \E d \in Deletion, p \in Photo : CheckDeletion(d, p)
  \/ \E d \in Deletion : DeleteRow(d) \/ RemoveFile(d)
  \/ Crash

Spec == Init /\ [][Next]_vars

(* net/http runs a handler to its end once it has begun.                   *)
Fairness ==
  /\ \A p \in Photo : WF_vars(UploadStep(p))
  /\ \A d \in Deletion : WF_vars(DeleteRow(d) \/ RemoveFile(d))

FairSpec == Spec /\ Fairness

-------------------------------------------------------------------------------
(* Every variable has its type.                                            *)
TypeOK ==
  /\ pc \in [Photo -> Working \cup {"idle", "done", "lost"}]
  /\ content \in [Photo -> Content \cup {None}]
  /\ uploader \in [Photo -> User \cup {None}]
  /\ wanted \in [Photo -> Visibility \cup {None}]
  /\ file \in [Photo -> {"absent", "partial", "whole"}]
  /\ row \in [Photo -> {"none", "live", "deleted"}]
  /\ visibility \in [Photo -> Visibility \cup {None}]
  /\ chosen \in [Photo -> BOOLEAN]
  /\ reply \in [Photo -> {"none", "created", "conflict", "error"}]
  /\ victim \in [Deletion -> Photo \cup {None}]
  /\ rowGone \in [Deletion -> BOOLEAN]
  /\ lost \subseteq Photo
  /\ stuck \subseteq Photo
  /\ crashes \in 0 .. MaxCrashes

(* Every row of the library has its whole file on disk, through concurrent *)
(* uploads and deletions, failed copies, duplicates and crashes.           *)
RowHasFile == \A p \in Photo : row[p] = "live" => file[p] = "whole"

(* A file without a row is the unfinished work of a running upload or      *)
(* deletion, or of one that a crash cut off, or the operating system       *)
(* failed to close or to remove it; nothing else leaves files behind, not  *)
(* a refused duplicate and not a failed write.                             *)
NoUnexplainedFile ==
  \A p \in Photo :
    file[p] # "absent" =>
      \/ row[p] = "live"
      \/ pc[p] \in Working
      \/ \E d \in Deletion : victim[d] = p /\ rowGone[d]
      \/ p \in lost \cup stuck

(* What the uploader is told is what happened: "created" only for a photo  *)
(* that got its row, and a refusal leaves no row, nor a file if that could *)
(* be removed.                                                             *)
ReplyIsTrue ==
  \A p \in Photo :
    /\ reply[p] = "created" => row[p] # "none"
    /\ reply[p] \in {"conflict", "error"} =>
         row[p] = "none" /\ (file[p] = "absent" \/ p \in stuck)

(* A photo leaves the library only by a deletion of its owner, and its     *)
(* file is touched only after its row is gone.                             *)
OnlyOwnerDeletes ==
  [][\A p \in Photo :
       /\ row[p] = "live" /\ row'[p] # "live" =>
            \E d \in Deletion : victim[d] = p /\ UserOf[d] = uploader[p]
       /\ row[p] = "live" => file'[p] = file[p]]_vars

(* "RAW files are always private regardless of requested visibility."      *)
(* (http/photo.go:163): once the upload has ended, and unless the owner    *)
(* chose otherwise, the row of a RAW photo says private.                   *)
RawPrivate ==
  \A p \in Photo :
    row[p] = "live" /\ content[p] \in RawContent /\ pc[p] \in {"done", "lost"} /\ ~chosen[p]
      => visibility[p] = Private

(* What the library promises (LibraryContract), without files and steps:    *)
(* each upload becomes a photo at one moment or leaves none, and nothing   *)
(* but its owner, a RAW correction or a deletion touches it afterwards.    *)
Progress == [s \in Working \cup {"idle", "done", "lost"} |->
               CASE s = "created" -> "made"
                 [] s \in Working \ {"created"} -> "pending"
                 [] OTHER -> s]

Contract == INSTANCE LibraryContract WITH upload <- [p \in Photo |-> Progress[pc[p]]]

ImplementsContract == Contract!Spec

(* Every upload ends with an answer or in a crash, and the file of a       *)
(* deleted photo goes away unless a crash came in between or it could not  *)
(* be removed.                                                             *)
HandlersFinish ==
  \A p \in Photo :
    /\ pc[p] \in Working ~> pc[p] \in {"done", "lost"}
    /\ row[p] = "deleted" ~> file[p] = "absent" \/ p \in lost \cup stuck
===============================================================================
