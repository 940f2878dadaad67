-------------------------------- MODULE Publish --------------------------------
(***************************************************************************)
(* The command `photo publish <dir>` (cmd/photo/publish.go, client.go) at  *)
(* work on the library, together with the tags it attaches (http/photo.go, *)
(* sqlite/tag.go).  The client asks for every file whether the library has *)
(* it, uploads it if not, and then attaches a tag for each directory above *)
(* the file.  It is run again later, its requests may fail or their        *)
(* answers get lost while the server goes on, other clients upload and     *)
(* delete meanwhile, and the server may die.  The user's script removes    *)
(* the local files when the command has exited with zero.                  *)
(*                                                                         *)
(* The module composes the client and the tags with LibraryContract, what  *)
(* module Library is shown to implement: each step is one of the contract  *)
(* or leaves its variables alone.                                          *)
(***************************************************************************)
EXTENDS Naturals, LibraryContract

CONSTANTS
  File,       \* files under the directory
  ContentOf,  \* ContentOf[f]: what the file holds
  Dirs,       \* Dirs[f]: names of the directories between the root and f
  Dates,      \* names of directories that look like a date or a year
  Tag,        \* names of tags, normalized
  Normal,     \* Normal[n]: the tag a directory name is normalized to
  Publisher,  \* the user whose token the client sends
  Published,  \* VisibilityPublished
  MaxRuns     \* bound of the model on the runs of the command

ASSUME PublishAssumption ==
  /\ ContentOf \in [File -> Content]
  /\ \A f \in File : Dirs[f] \subseteq DOMAIN Normal
  /\ \A n \in DOMAIN Normal : Normal[n] \in Tag
  /\ Publisher \in User
  /\ {Published, Private} \subseteq Visibility
  /\ MaxRuns \in Nat
  /\ None \notin Photo \cup Content \cup User \cup Visibility \cup File

VARIABLES
  step,      \* where the client is
  todo,      \* files the loop of this run has not come to
  at,        \* the file it is at, or None
  sent,      \* the upload it makes for that file, or None
  want,      \* tags it has yet to attach to the uploaded photo
  failed,    \* errored > 0
  exit,      \* how the last run ended
  runs,      \* number of runs begun
  tagging,   \* tagging[<<p, t>>]: where the request to attach t to p is
  tags,      \* the rows of tags
  attached,  \* the rows of photo_tags
  sentFor,   \* history: sentFor[p], the file that the client sent as p
  during,    \* history: photos that were live at a moment of this run
  detached,  \* history: tags the owner has taken off
  clean      \* history: no run has reported a failure or warned of a tag

clientVars == <<step, todo, at, sent, want, failed, exit, runs, sentFor, clean>>
tagVars == <<tagging, tags, attached, detached>>
publishVars == <<contractVars, clientVars, tagVars, during>>

UnderWay == {"asked", "found", "made"}

Live == {p \in Photo : row[p] = "live"}

(* tagsFromPath, and NormalizeTagName on the server.                       *)
TagsFromPath(f) == {Normal[n] : n \in Dirs[f] \ Dates}

PublishInit ==
  /\ Init
  /\ step = "idle"
  /\ todo = {}
  /\ at = None
  /\ sent = None
  /\ want = {}
  /\ failed = FALSE
  /\ exit = "none"
  /\ runs = 0
  /\ tagging = [pt \in Photo \X Tag |-> "none"]
  /\ tags = {}
  /\ attached = {}
  /\ sentFor = [p \in Photo |-> None]
  /\ during = {}
  /\ detached = {}
  /\ clean = TRUE

-------------------------------------------------------------------------------
(* The client.                                                             *)

StartRun ==
  /\ step = "idle" /\ runs < MaxRuns
  /\ step' = "next"
  /\ runs' = runs + 1
  /\ todo' = File
  /\ failed' = FALSE
  /\ exit' = "none"
  /\ during' = Live
  /\ UNCHANGED <<at, sent, want, sentFor, clean, contractVars, tagVars>>

Take(f) ==
  /\ step = "next" /\ f \in todo
  /\ step' = "check"
  /\ at' = f
  /\ todo' = todo \ {f}
  /\ UNCHANGED <<sent, want, failed, exit, runs, sentFor, clean, during, contractVars, tagVars>>

(* The loop goes on; what it knew of the file is gone.                     *)
NextFile == step' = "next" /\ at' = None /\ sent' = None

(* What handlePhotoExists finds: a photo of the caller with that hash.     *)
Exists == \E p \in Photo : /\ row[p] = "live" /\ uploader[p] = Publisher
                           /\ content[p] = ContentOf[at]

(* checkExists: the file is skipped, or it will be sent.                   *)
CheckExists ==
  /\ step = "check"
  /\ \/ Exists /\ NextFile
     \/ ~Exists /\ step' = "send" /\ UNCHANGED <<at, sent>>
  /\ UNCHANGED <<todo, want, failed, exit, runs, sentFor, clean, during, contractVars, tagVars>>

(* An error of uploadPhotoOpts: the file cannot be read, a request or its  *)
(* answer is lost or times out, the session has ended, the upload is       *)
(* refused.  The loop counts it and goes on.                               *)
RequestFails ==
  /\ step \in {"check", "send", "wait"}
  /\ NextFile
  /\ failed' = TRUE
  /\ clean' = FALSE
  /\ UNCHANGED <<todo, want, exit, runs, sentFor, during, contractVars, tagVars>>

(* The upload reaches the server.                                          *)
Send(p) ==
  /\ step = "send"
  /\ Begin(p, Publisher, ContentOf[at], Published)
  /\ step' = "wait"
  /\ sent' = p
  /\ sentFor' = [sentFor EXCEPT ![p] = at]
  /\ UNCHANGED <<todo, at, want, failed, exit, runs, clean, during, tagVars>>

(* Mistake to detect: a refused duplicate counts as skipped.               *)
HearSkipDuplicate ==
  /\ step = "wait"
  /\ \/ /\ reply[sent] = "created"
        /\ step' = "tag"
        /\ want' = TagsFromPath(at)
        /\ UNCHANGED <<at, sent>>
     \/ /\ reply[sent] = "conflict"
        /\ NextFile
        /\ UNCHANGED want
  /\ UNCHANGED <<todo, failed, exit, runs, sentFor, clean, during, contractVars, tagVars>>

(* Only 201 leads to the tags; RequestFails covers the other answers.      *)
Hear ==
  /\ step = "wait"
  /\ reply[sent] = "created"
  /\ step' = "tag"
  /\ want' = TagsFromPath(at)
  /\ UNCHANGED <<todo, at, sent, failed, exit, runs, sentFor, clean, during, contractVars, tagVars>>

AskTag(t) ==
  /\ step = "tag" /\ t \in want
  /\ \A other \in want : tagging[<<sent, other>>] = "none"
  /\ tagging' = [tagging EXCEPT ![<<sent, t>>] = "asked"]
  /\ UNCHANGED <<clientVars, tags, attached, detached, during, contractVars>>

(* Mistake to detect: no answer is as good as a good one.                  *)
HearTagAnyway(t) ==
  /\ step = "tag" /\ t \in want
  /\ tagging[<<sent, t>>] # "none"
  /\ want' = want \ {t}
  /\ UNCHANGED <<step, todo, at, sent, failed, exit, runs, sentFor, clean, during, contractVars, tagVars>>

(* "Non-fatal: log but don't fail the upload": the client is told that the *)
(* tag is attached, or it warns, for whatever reason.                      *)
HearTag(t) ==
  /\ step = "tag" /\ t \in want
  /\ tagging[<<sent, t>>] # "none"
  /\ want' = want \ {t}
  /\ \/ tagging[<<sent, t>>] = "ok" /\ UNCHANGED clean
     \/ clean' = FALSE
  /\ UNCHANGED <<step, todo, at, sent, failed, exit, runs, sentFor, during, contractVars, tagVars>>

Tagged ==
  /\ step = "tag" /\ want = {}
  /\ NextFile
  /\ UNCHANGED <<todo, want, failed, exit, runs, sentFor, clean, during, contractVars, tagVars>>

(* The exit code says whether a file was counted as errored.               *)
EndRun ==
  /\ step = "next" /\ todo = {}
  /\ step' = "idle"
  /\ exit' = IF failed THEN "nonzero" ELSE "zero"
  /\ UNCHANGED <<todo, at, sent, want, failed, runs, sentFor, clean, during, contractVars, tagVars>>

(* Main cancels the context at a signal; the command dies or fails.        *)
Interrupt ==
  /\ step # "idle"
  /\ step' = "idle"
  /\ exit' = "nonzero"
  /\ clean' = FALSE
  /\ todo' = {} /\ at' = None /\ sent' = None /\ want' = {}
  /\ UNCHANGED <<failed, runs, sentFor, during, contractVars, tagVars>>

Client ==
  \/ StartRun \/ CheckExists \/ RequestFails \/ Hear \/ Tagged \/ EndRun \/ Interrupt
  \/ \E f \in File : Take(f)
  \/ \E p \in Photo : Send(p)
  \/ \E t \in Tag : AskTag(t) \/ HearTag(t)

-------------------------------------------------------------------------------
(* The server: requests for tags, and the library.                         *)

Proceed(p, t, from, to) ==
  tagging[<<p, t>>] = from /\ tagging' = [tagging EXCEPT ![<<p, t>>] = to]

(* handleAttachTag finds the photo and compares the owner.                 *)
FindForTag(p, t) ==
  /\ row[p] = "live" /\ uploader[p] = Publisher
  /\ Proceed(p, t, "asked", "found")
  /\ UNCHANGED <<contractVars, during, clientVars, tags, attached, detached>>

FindOrCreateTag(p, t) ==
  /\ Proceed(p, t, "found", "made")
  /\ tags' = tags \cup {t}
  /\ UNCHANGED <<contractVars, during, clientVars, attached, detached>>

(* Mistake to detect: without foreign keys the photo may be gone.          *)
AttachTagUnchecked(p, t) ==
  /\ Proceed(p, t, "made", "ok")
  /\ attached' = attached \cup {<<p, t>>}
  /\ UNCHANGED <<contractVars, during, clientVars, tags, detached>>

(* The foreign key refuses the row of a photo that is gone by now.         *)
AttachTag(p, t) ==
  /\ row[p] = "live"
  /\ Proceed(p, t, "made", "ok")
  /\ attached' = attached \cup {<<p, t>>}
  /\ UNCHANGED <<contractVars, during, clientVars, tags, detached>>

(* One of the three finds no photo, or fails.                              *)
TagFails(p, t) ==
  /\ \E from \in UnderWay : Proceed(p, t, from, "error")
  /\ UNCHANGED <<contractVars, during, clientVars, tags, attached, detached>>

(* handleDetachTag: what it reads before it deletes never changes.         *)
DetachTag(p, t) ==
  /\ <<p, t>> \in attached
  /\ attached' = attached \ {<<p, t>>}
  /\ detached' = detached \cup {<<p, t>>}
  /\ UNCHANGED <<contractVars, during, clientVars, tagging, tags>>

(* photo_tags goes with the photo, ON DELETE CASCADE.                      *)
DeleteTagged(p) ==
  /\ Delete(p)
  /\ attached' = {pt \in attached : pt[1] # p}
  /\ UNCHANGED <<clientVars, tagging, tags, detached, during>>

(* The process dies, and with it every request under way.                  *)
CutOffTagging ==
  /\ CutOff
  /\ tagging' = [pt \in Photo \X Tag |->
                   IF tagging[pt] \in UnderWay THEN "lost" ELSE tagging[pt]]
  /\ UNCHANGED <<clientVars, tags, attached, detached, during>>

(* All that the library does besides, for pages and other clients too.     *)
(* Changes of a visibility are left out: no client and no tag reads one.   *)
LibraryStep ==
  /\ \/ \E p \in Photo, u \in User, c \in Content, v \in Visibility : Begin(p, u, c, v)
     \/ \E p \in Photo : UploadStep(p)
  /\ during' = during \cup {p \in Photo : row'[p] = "live"}
  /\ UNCHANGED <<clientVars, tagVars>>

Server ==
  \/ \E p \in Photo, t \in Tag :
       FindForTag(p, t) \/ FindOrCreateTag(p, t) \/ AttachTag(p, t) \/ TagFails(p, t)
       \/ DetachTag(p, t)
  \/ \E p \in Photo : DeleteTagged(p)
  \/ CutOffTagging
  \/ LibraryStep

PublishNext == Client \/ Server

PublishSpec == PublishInit /\ [][PublishNext]_publishVars

-------------------------------------------------------------------------------
(* Every variable has its type; tags are attached to live photos only.     *)
PublishTypeOK ==
  /\ step \in {"idle", "next", "check", "send", "wait", "tag"}
  /\ todo \subseteq File
  /\ at \in File \cup {None}
  /\ sent \in Photo \cup {None}
  /\ want \subseteq Tag
  /\ failed \in BOOLEAN
  /\ exit \in {"none", "zero", "nonzero"}
  /\ runs \in 0 .. MaxRuns
  /\ tagging \in [Photo \X Tag -> UnderWay \cup {"none", "ok", "error", "lost"}]
  /\ tags \subseteq Tag
  /\ attached \subseteq Live \X tags
  /\ sentFor \in [Photo -> File \cup {None}]
  /\ during \subseteq Photo
  /\ detached \subseteq Photo \X Tag
  /\ clean \in BOOLEAN

(* "Use the exit code in a script to decide whether to remove them after a *)
(* successful run" (publish.go:90): when the command has exited with zero, *)
(* a photo of the publisher has held the content of each file while the    *)
(* run went on.  That it is gone again can only be a deletion, and that    *)
(* its file is whole is Library's RowHasFile.                              *)
NothingLost ==
  exit = "zero" =>
    \A f \in File : \E p \in during : uploader[p] = Publisher /\ content[p] = ContentOf[f]

(* As long as no run has failed, warned or been interrupted, each photo    *)
(* that the client has made has the tags of its directories, unless the    *)
(* owner has taken them off since.                                         *)
CleanRunsTagged ==
  step = "idle" /\ clean =>
    \A p \in Live :
      sentFor[p] # None =>
        \A t \in TagsFromPath(sentFor[p]) : <<p, t>> \in attached \cup detached

(* "the command exits non-zero on any failure" (publish.go:86), and "Tags  *)
(* are derived automatically": after exit code zero, a live photo of one   *)
(* of the files that the client made has the tags of the file.             *)
ExitZeroTagged ==
  exit = "zero" =>
    \A p \in Live :
      sentFor[p] # None =>
        \A t \in TagsFromPath(sentFor[p]) : <<p, t>> \in attached \cup detached
===============================================================================
