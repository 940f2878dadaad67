---------------------------- MODULE LibraryContract ----------------------------
(***************************************************************************)
(* What the photo library promises to those who use it, whatever happens   *)
(* to files meanwhile: an upload becomes a photo at one moment, or is      *)
(* refused and leaves no photo; no two photos have the same content; only  *)
(* the owner or the end of the upload of a RAW file changes a visibility;  *)
(* a photo that is gone does not come back.  The process may die, and an   *)
(* upload under way then never gets an answer.                             *)
(*                                                                         *)
(* Module Library implements it, with files, several transactions for one  *)
(* upload, and deletions in steps.  Module Publish builds on it.           *)
(***************************************************************************)

CONSTANTS
  Photo,        \* uploads, and the photos they may become
  Content,      \* what a file holds, identified by its SHA-256
  RawContent,   \* the contents EXIF extraction reports as RAW
  User,         \* user ids
  Visibility,   \* private, household, published
  Private,      \* VisibilityPrivate
  None          \* nothing yet

VARIABLES
  upload,       \* upload[p]: how far the upload p has come
  content,      \* content[p]: what was uploaded
  uploader,     \* uploader[p]: the user who uploads
  wanted,       \* wanted[p]: the visibility asked for
  row,          \* row[p]: "none" yet, "live", or "deleted"
  visibility,   \* visibility[p]: who may see a live photo
  chosen,       \* chosen[p]: the owner has set the visibility since
  reply         \* reply[p]: what the uploader was told

contractVars == <<upload, content, uploader, wanted, row, visibility, chosen, reply>>

Init ==
  /\ upload = [p \in Photo |-> "idle"]
  /\ content = [p \in Photo |-> None]
  /\ uploader = [p \in Photo |-> None]
  /\ wanted = [p \in Photo |-> None]
  /\ row = [p \in Photo |-> "none"]
  /\ visibility = [p \in Photo |-> None]
  /\ chosen = [p \in Photo |-> FALSE]
  /\ reply = [p \in Photo |-> "none"]

Advance(p, from, to) == upload[p] = from /\ upload' = [upload EXCEPT ![p] = to]

Begin(p, u, c, v) ==
  /\ Advance(p, "idle", "pending")
  /\ content' = [content EXCEPT ![p] = c]
  /\ uploader' = [uploader EXCEPT ![p] = u]
  /\ wanted' = [wanted EXCEPT ![p] = v]
  /\ UNCHANGED <<row, visibility, chosen, reply>>

(* The upload becomes a photo: one no other live photo is the same as.     *)
Make(p) ==
  /\ Advance(p, "pending", "made")
  /\ \A q \in Photo : row[q] = "live" => content[q] # content[p]
  /\ row' = [row EXCEPT ![p] = "live"]
  /\ visibility' = [visibility EXCEPT ![p] = wanted[p]]
  /\ UNCHANGED <<content, uploader, wanted, chosen, reply>>

Refuse(p, why) ==
  /\ Advance(p, "pending", "done")
  /\ reply' = [reply EXCEPT ![p] = why]
  /\ UNCHANGED <<content, uploader, wanted, row, visibility, chosen>>

(* Before it answers, the upload of a RAW photo may have made it private.  *)
Confirm(p) ==
  /\ Advance(p, "made", "done")
  /\ reply' = [reply EXCEPT ![p] = "created"]
  /\ \/ /\ row[p] = "live" /\ content[p] \in RawContent
        /\ visibility' = [visibility EXCEPT ![p] = Private]
     \/ UNCHANGED visibility
  /\ UNCHANGED <<content, uploader, wanted, row, chosen>>

Change(p, v) ==
  /\ row[p] = "live"
  /\ visibility' = [visibility EXCEPT ![p] = v]
  /\ chosen' = [chosen EXCEPT ![p] = TRUE]
  /\ UNCHANGED <<upload, content, uploader, wanted, row, reply>>

Delete(p) ==
  /\ row[p] = "live"
  /\ row' = [row EXCEPT ![p] = "deleted"]
  /\ UNCHANGED <<upload, content, uploader, wanted, visibility, chosen, reply>>

(* The process dies.                                                       *)
CutOff ==
  /\ upload' = [p \in Photo |-> IF upload[p] \in {"pending", "made"} THEN "lost" ELSE upload[p]]
  /\ UNCHANGED <<content, uploader, wanted, row, visibility, chosen, reply>>

UploadStep(p) == Make(p) \/ Confirm(p) \/ \E why \in {"conflict", "error"} : Refuse(p, why)

Next ==
  \/ \E p \in Photo :
       \/ \E u \in User, c \in Content, v \in Visibility : Begin(p, u, c, v)
       \/ UploadStep(p)
       \/ \E v \in Visibility : Change(p, v)
       \/ Delete(p)
  \/ CutOff

Spec == Init /\ [][Next]_contractVars
===============================================================================
