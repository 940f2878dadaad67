---------------------------- MODULE LibraryProofs ----------------------------
(***************************************************************************)
(* Proofs about Library, for every set of uploads, contents, users and     *)
(* deletions and any number of crashes.  None of the invariants the runs   *)
(* check is inductive: each needs to know what the disk and the database   *)
(* hold while an upload is in a given step.  That is Stages below.         *)
(***************************************************************************)
EXTENDS Library, TLAPS

(* What the steps of an upload and of a deletion have done so far.         *)
UploadStage(p) ==
  /\ pc[p] \in {"idle", "read"} =>
       row[p] = "none" /\ file[p] = "absent" /\ reply[p] = "none"
  /\ pc[p] = "copying" =>
       row[p] = "none" /\ file[p] = "partial" /\ reply[p] = "none"
  /\ pc[p] \in {"copied", "undoDuplicate", "undoError"} =>
       row[p] = "none" /\ file[p] = "whole" /\ reply[p] = "none"
  /\ pc[p] = "created" => row[p] # "none" /\ reply[p] = "none"
  /\ pc[p] = "lost" => reply[p] = "none" /\ p \in lost
  /\ pc[p] = "done" =>
       \/ reply[p] = "created" /\ row[p] # "none"
       \/ /\ reply[p] \in {"conflict", "error"} /\ row[p] = "none"
          /\ file[p] = "absent" \/ p \in stuck

DeletionStage(d) ==
  /\ rowGone[d] => victim[d] # None /\ row[victim[d]] = "deleted"
  /\ victim[d] # None => row[victim[d]] # "none" /\ UserOf[d] = uploader[victim[d]]

(* The file of a deleted photo is about to be removed, or a crash left it,  *)
(* or the operating system did.                                            *)
DeletedFileExplained ==
  \A p \in Photo :
    row[p] = "deleted" /\ file[p] # "absent" =>
      (\E d \in Deletion : victim[d] = p /\ rowGone[d]) \/ p \in lost \cup stuck

Stages ==
  /\ \A p \in Photo : UploadStage(p)
  /\ \A d \in Deletion : DeletionStage(d)

IInv == TypeOK /\ Stages /\ RowHasFile /\ DeletedFileExplained

-------------------------------------------------------------------------------
LEMMA InitTypeOK == Init => TypeOK
  BY LibraryAssumption DEF Init, TypeOK, Working

LEMMA NextTypeOK == TypeOK /\ Stages /\ [Next]_vars => TypeOK'
<1> SUFFICES ASSUME TypeOK, Stages, [Next]_vars
             PROVE  TypeOK'
  OBVIOUS
<1> USE LibraryAssumption DEF TypeOK, Goto, Answer, Remove, uploadVars, rowVars, deletionVars, faultVars
<1> DEFINE Pc == Working \cup {"idle", "done", "lost"}
<1>0. /\ {"read", "copying", "copied", "undoDuplicate", "undoError", "created",
           "done", "lost"} \subseteq Pc
      /\ pc \in [Photo -> Pc]
  BY DEF Working
<1> HIDE DEF Pc
<1>1. ASSUME NEW p \in Photo, NEW u \in User, NEW c \in Content, NEW v \in Visibility,
             StartUpload(p, u, c, v)
      PROVE  TypeOK'
  BY <1>0, <1>1 DEF StartUpload, Pc
<1>2. ASSUME NEW p \in Photo, GiveUp(p)
      PROVE  TypeOK'
  BY <1>0, <1>2 DEF GiveUp, Pc
<1>3. ASSUME NEW p \in Photo, BeginCopy(p)
      PROVE  TypeOK'
  BY <1>0, <1>3 DEF BeginCopy, Pc
<1>4. ASSUME NEW p \in Photo, FinishCopy(p)
      PROVE  TypeOK'
  BY <1>0, <1>4 DEF FinishCopy, Pc
<1>5. ASSUME NEW p \in Photo, CopyFails(p)
      PROVE  TypeOK'
  BY <1>0, <1>5 DEF CopyFails, Pc
<1>6. ASSUME NEW p \in Photo, CreateRow(p)
      PROVE  TypeOK'
  BY <1>0, <1>6 DEF CreateRow, Pc
<1>7. ASSUME NEW p \in Photo, CreateRefused(p)
      PROVE  TypeOK'
  BY <1>0, <1>7 DEF CreateRefused, Pc
<1>8. ASSUME NEW p \in Photo, Undo(p)
      PROVE  TypeOK'
  BY <1>0, <1>8 DEF Undo, Pc
<1>9. ASSUME NEW p \in Photo, CorrectRaw(p)
      PROVE  TypeOK'
  BY <1>0, <1>9 DEF CorrectRaw, Pc
<1>10. ASSUME NEW p \in Photo, Respond(p)
      PROVE  TypeOK'
  BY <1>0, <1>10 DEF Respond, Pc
<1>11. ASSUME NEW p \in Photo, NEW v \in Visibility, SetVisibility(p, v)
      PROVE  TypeOK'
  BY <1>0, <1>11 DEF SetVisibility, Pc
<1>12. ASSUME NEW d \in Deletion, NEW p \in Photo, CheckDeletion(d, p)
      PROVE  TypeOK'
  BY <1>0, <1>12 DEF CheckDeletion, Pc
<1>13. ASSUME NEW d \in Deletion, DeleteRow(d)
      PROVE  TypeOK'
  <2>1. row' \in [Photo -> {"none", "live", "deleted"}]
    BY <1>13 DEF DeleteRow
  <2>2. victim' \in [Deletion -> Photo \cup {None}] /\ rowGone' \in [Deletion -> BOOLEAN]
    BY <1>13 DEF DeleteRow
  <2>3. QED
    BY <1>13, <2>1, <2>2 DEF DeleteRow
<1>14. ASSUME NEW d \in Deletion, RemoveFile(d)
      PROVE  TypeOK'
  BY <1>0, <1>14 DEF RemoveFile, Pc
<1>15. ASSUME Crash
      PROVE  TypeOK'
  <2>1. \A d \in Deletion : rowGone[d] => victim[d] \in Photo
    BY DEF Stages, DeletionStage
  <2>2. lost' \subseteq Photo
    BY <1>15, <2>1 DEF Crash
  <2>3. pc' \in [Photo -> Pc]
    BY <1>0, <1>15 DEF Crash
  <2>4. QED
    BY <1>15, <2>2, <2>3 DEF Crash, Pc
<1>16. CASE UNCHANGED vars
  BY <1>16 DEF vars
<1>17. QED
  BY <1>1, <1>2, <1>3, <1>4, <1>5, <1>6, <1>7, <1>8, <1>9, <1>10, <1>11, <1>12, <1>13, <1>14, <1>15, <1>16 DEF Next, UploadStep

-------------------------------------------------------------------------------
LEMMA InitIInv == Init => IInv
<1> SUFFICES ASSUME Init
             PROVE  IInv
  OBVIOUS
<1>1. TypeOK
  BY InitTypeOK
<1>2. Stages /\ RowHasFile /\ DeletedFileExplained
  BY DEF Init, Stages, UploadStage, DeletionStage, RowHasFile, DeletedFileExplained
<1>3. QED
  BY <1>1, <1>2 DEF IInv

LEMMA NextIInv == IInv /\ [Next]_vars => IInv'
<1> SUFFICES ASSUME IInv, [Next]_vars
             PROVE  IInv'
  OBVIOUS
<1> DEFINE Whole == Stages /\ RowHasFile /\ DeletedFileExplained
<1>0. TypeOK /\ Stages /\ RowHasFile /\ DeletedFileExplained /\ TypeOK'
  BY NextTypeOK DEF IInv
<1> USE <1>0, LibraryAssumption DEF TypeOK, Goto, Answer, Remove, uploadVars, rowVars, deletionVars, faultVars
<1>1. ASSUME NEW p \in Photo, NEW u \in User, NEW c \in Content, NEW v \in Visibility,
             StartUpload(p, u, c, v)
      PROVE  Whole'
  <2>1. \A q \in Photo : UploadStage(q)'
    BY <1>1 DEF StartUpload, Stages, UploadStage, Working
  <2>2. \A e \in Deletion : DeletionStage(e)'
    BY <1>1 DEF StartUpload, Stages, UploadStage, DeletionStage
  <2>3. RowHasFile'
    BY <1>1 DEF StartUpload, Stages, UploadStage, DeletionStage, RowHasFile
  <2>4. DeletedFileExplained'
    BY <1>1 DEF StartUpload, Stages, UploadStage, DeletionStage, DeletedFileExplained, Working
  <2>6. QED
    BY <2>1, <2>2, <2>3, <2>4 DEF Stages
<1>2. ASSUME NEW p \in Photo, GiveUp(p)
      PROVE  Whole'
  <2>1. \A q \in Photo : UploadStage(q)'
    BY <1>2 DEF GiveUp, Stages, UploadStage, Working
  <2>2. \A e \in Deletion : DeletionStage(e)'
    BY <1>2 DEF GiveUp, Stages, UploadStage, DeletionStage
  <2>3. RowHasFile'
    BY <1>2 DEF GiveUp, Stages, UploadStage, DeletionStage, RowHasFile
  <2>4. DeletedFileExplained'
    BY <1>2 DEF GiveUp, Stages, UploadStage, DeletionStage, DeletedFileExplained, Working
  <2>6. QED
    BY <2>1, <2>2, <2>3, <2>4 DEF Stages
<1>3. ASSUME NEW p \in Photo, BeginCopy(p)
      PROVE  Whole'
  <2>1. \A q \in Photo : UploadStage(q)'
    BY <1>3 DEF BeginCopy, Stages, UploadStage, Working
  <2>2. \A e \in Deletion : DeletionStage(e)'
    BY <1>3 DEF BeginCopy, Stages, UploadStage, DeletionStage
  <2>3. RowHasFile'
    BY <1>3 DEF BeginCopy, Stages, UploadStage, DeletionStage, RowHasFile
  <2>4. DeletedFileExplained'
    BY <1>3 DEF BeginCopy, Stages, UploadStage, DeletionStage, DeletedFileExplained, Working
  <2>6. QED
    BY <2>1, <2>2, <2>3, <2>4 DEF Stages
<1>4. ASSUME NEW p \in Photo, FinishCopy(p)
      PROVE  Whole'
  <2>1. \A q \in Photo : UploadStage(q)'
    BY <1>4 DEF FinishCopy, Stages, UploadStage, Working
  <2>2. \A e \in Deletion : DeletionStage(e)'
    BY <1>4 DEF FinishCopy, Stages, UploadStage, DeletionStage
  <2>3. RowHasFile'
    BY <1>4 DEF FinishCopy, Stages, UploadStage, DeletionStage, RowHasFile
  <2>4. DeletedFileExplained'
    BY <1>4 DEF FinishCopy, Stages, UploadStage, DeletionStage, DeletedFileExplained, Working
  <2>6. QED
    BY <2>1, <2>2, <2>3, <2>4 DEF Stages
<1>5. ASSUME NEW p \in Photo, CopyFails(p)
      PROVE  Whole'
  <2>1. \A q \in Photo : UploadStage(q)'
    BY <1>5 DEF CopyFails, Stages, UploadStage, Working
  <2>2. \A e \in Deletion : DeletionStage(e)'
    BY <1>5 DEF CopyFails, Stages, UploadStage, DeletionStage
  <2>3. RowHasFile'
    BY <1>5 DEF CopyFails, Stages, UploadStage, DeletionStage, RowHasFile
  <2>4. DeletedFileExplained'
    BY <1>5 DEF CopyFails, Stages, UploadStage, DeletionStage, DeletedFileExplained, Working
  <2>6. QED
    BY <2>1, <2>2, <2>3, <2>4 DEF Stages
<1>6. ASSUME NEW p \in Photo, CreateRow(p)
      PROVE  Whole'
  <2>1. \A q \in Photo : UploadStage(q)'
    BY <1>6 DEF CreateRow, Stages, UploadStage, Working
  <2>2. \A e \in Deletion : DeletionStage(e)'
    BY <1>6 DEF CreateRow, Stages, UploadStage, DeletionStage
  <2>3. RowHasFile'
    BY <1>6 DEF CreateRow, Stages, UploadStage, DeletionStage, RowHasFile
  <2>4. DeletedFileExplained'
    BY <1>6 DEF CreateRow, Stages, UploadStage, DeletionStage, DeletedFileExplained, Working
  <2>6. QED
    BY <2>1, <2>2, <2>3, <2>4 DEF Stages
<1>7. ASSUME NEW p \in Photo, CreateRefused(p)
      PROVE  Whole'
  <2>1. \A q \in Photo : UploadStage(q)'
    BY <1>7 DEF CreateRefused, Stages, UploadStage, Working
  <2>2. \A e \in Deletion : DeletionStage(e)'
    BY <1>7 DEF CreateRefused, Stages, UploadStage, DeletionStage
  <2>3. RowHasFile'
    BY <1>7 DEF CreateRefused, Stages, UploadStage, DeletionStage, RowHasFile
  <2>4. DeletedFileExplained'
    BY <1>7 DEF CreateRefused, Stages, UploadStage, DeletionStage, DeletedFileExplained, Working
  <2>6. QED
    BY <2>1, <2>2, <2>3, <2>4 DEF Stages
<1>8. ASSUME NEW p \in Photo, Undo(p)
      PROVE  Whole'
  <2>1. \A q \in Photo : UploadStage(q)'
    BY <1>8 DEF Undo, Stages, UploadStage, Working
  <2>2. \A e \in Deletion : DeletionStage(e)'
    BY <1>8 DEF Undo, Stages, UploadStage, DeletionStage
  <2>3. RowHasFile'
    BY <1>8 DEF Undo, Stages, UploadStage, DeletionStage, RowHasFile
  <2>4. DeletedFileExplained'
    BY <1>8 DEF Undo, Stages, UploadStage, DeletionStage, DeletedFileExplained, Working
  <2>6. QED
    BY <2>1, <2>2, <2>3, <2>4 DEF Stages
<1>9. ASSUME NEW p \in Photo, CorrectRaw(p)
      PROVE  Whole'
  <2>1. \A q \in Photo : UploadStage(q)'
    BY <1>9 DEF CorrectRaw, Stages, UploadStage, Working
  <2>2. \A e \in Deletion : DeletionStage(e)'
    BY <1>9 DEF CorrectRaw, Stages, UploadStage, DeletionStage
  <2>3. RowHasFile'
    BY <1>9 DEF CorrectRaw, Stages, UploadStage, DeletionStage, RowHasFile
  <2>4. DeletedFileExplained'
    BY <1>9 DEF CorrectRaw, Stages, UploadStage, DeletionStage, DeletedFileExplained, Working
  <2>6. QED
    BY <2>1, <2>2, <2>3, <2>4 DEF Stages
<1>10. ASSUME NEW p \in Photo, Respond(p)
      PROVE  Whole'
  <2>1. \A q \in Photo : UploadStage(q)'
    BY <1>10 DEF Respond, Stages, UploadStage, Working
  <2>2. \A e \in Deletion : DeletionStage(e)'
    BY <1>10 DEF Respond, Stages, UploadStage, DeletionStage
  <2>3. RowHasFile'
    BY <1>10 DEF Respond, Stages, UploadStage, DeletionStage, RowHasFile
  <2>4. DeletedFileExplained'
    BY <1>10 DEF Respond, Stages, UploadStage, DeletionStage, DeletedFileExplained, Working
  <2>6. QED
    BY <2>1, <2>2, <2>3, <2>4 DEF Stages
<1>11. ASSUME NEW p \in Photo, NEW v \in Visibility, SetVisibility(p, v)
      PROVE  Whole'
  <2>1. \A q \in Photo : UploadStage(q)'
    BY <1>11 DEF SetVisibility, Stages, UploadStage, Working
  <2>2. \A e \in Deletion : DeletionStage(e)'
    BY <1>11 DEF SetVisibility, Stages, UploadStage, DeletionStage
  <2>3. RowHasFile'
    BY <1>11 DEF SetVisibility, Stages, UploadStage, DeletionStage, RowHasFile
  <2>4. DeletedFileExplained'
    BY <1>11 DEF SetVisibility, Stages, UploadStage, DeletionStage, DeletedFileExplained, Working
  <2>6. QED
    BY <2>1, <2>2, <2>3, <2>4 DEF Stages
<1>12. ASSUME NEW d \in Deletion, NEW p \in Photo, CheckDeletion(d, p)
      PROVE  Whole'
  <2>1. \A q \in Photo : UploadStage(q)'
    BY <1>12 DEF CheckDeletion, Stages, UploadStage, Working
  <2>2. \A e \in Deletion : DeletionStage(e)'
    BY <1>12 DEF CheckDeletion, Stages, UploadStage, DeletionStage
  <2>3. RowHasFile'
    BY <1>12 DEF CheckDeletion, Stages, UploadStage, DeletionStage, RowHasFile
  <2>4. DeletedFileExplained'
    BY <1>12 DEF CheckDeletion, Stages, UploadStage, DeletionStage, DeletedFileExplained, Working
  <2>6. QED
    BY <2>1, <2>2, <2>3, <2>4 DEF Stages
<1>13. ASSUME NEW d \in Deletion, DeleteRow(d)
      PROVE  Whole'
  <2>1. \A q \in Photo : UploadStage(q)'
    BY <1>13 DEF DeleteRow, Stages, UploadStage, DeletionStage, Working
  <2>2. \A e \in Deletion : DeletionStage(e)'
    BY <1>13 DEF DeleteRow, Stages, UploadStage, DeletionStage
  <2>3. RowHasFile'
    BY <1>13 DEF DeleteRow, Stages, UploadStage, DeletionStage, RowHasFile
  <2>4. DeletedFileExplained'
    BY <1>13 DEF DeleteRow, Stages, UploadStage, DeletionStage, DeletedFileExplained, Working
  <2>6. QED
    BY <2>1, <2>2, <2>3, <2>4 DEF Stages
<1>14. ASSUME NEW d \in Deletion, RemoveFile(d)
      PROVE  Whole'
  <2>1. \A q \in Photo : UploadStage(q)'
    BY <1>14 DEF RemoveFile, Stages, UploadStage, DeletionStage, Working
  <2>2. \A e \in Deletion : DeletionStage(e)'
    BY <1>14 DEF RemoveFile, Stages, UploadStage, DeletionStage
  <2>3. RowHasFile'
    BY <1>14 DEF RemoveFile, Stages, UploadStage, DeletionStage, RowHasFile
  <2>4. DeletedFileExplained'
    BY <1>14 DEF RemoveFile, Stages, UploadStage, DeletionStage, DeletedFileExplained, Working
  <2>6. QED
    BY <2>1, <2>2, <2>3, <2>4 DEF Stages
<1>15. ASSUME Crash
      PROVE  Whole'
  <2>1. \A q \in Photo : UploadStage(q)'
    BY <1>15 DEF Crash, Stages, UploadStage, Working
  <2>2. \A e \in Deletion : DeletionStage(e)'
    BY <1>15 DEF Crash, Stages, UploadStage, DeletionStage
  <2>3. RowHasFile'
    BY <1>15 DEF Crash, Stages, UploadStage, DeletionStage, RowHasFile
  <2>4. DeletedFileExplained'
    BY <1>15 DEF Crash, Stages, UploadStage, DeletionStage, DeletedFileExplained, Working
  <2>6. QED
    BY <2>1, <2>2, <2>3, <2>4 DEF Stages
<1>16. ASSUME UNCHANGED vars
       PROVE  Whole'
  <2>1. Stages'
    BY <1>16 DEF vars, Stages, UploadStage, DeletionStage
  <2>2. RowHasFile' /\ DeletedFileExplained'
    BY <1>16 DEF vars, RowHasFile, DeletedFileExplained
  <2>3. QED
    BY <2>1, <2>2
<1>17. Whole'
  BY <1>1, <1>2, <1>3, <1>4, <1>5, <1>6, <1>7, <1>8, <1>9, <1>10, <1>11, <1>12, <1>13,
     <1>14, <1>15, <1>16 DEF Next, UploadStep
<1>18. QED
  BY <1>0, <1>17 DEF IInv
-------------------------------------------------------------------------------
LEMMA Inductive == Spec => []IInv
<1>1. Init => IInv
  BY InitIInv
<1>2. IInv /\ [Next]_vars => IInv'
  BY NextIInv
<1>3. QED
  BY <1>1, <1>2, PTL DEF Spec

(* Type correctness of the library.                                        *)
THEOREM TypeCorrect == Spec => []TypeOK
<1>1. IInv => TypeOK
  BY DEF IInv
<1>2. QED
  BY Inductive, <1>1, PTL

(* Every row has its whole file, in every run with any number of uploads,  *)
(* deletions and crashes (importer/importer.go:226-249, http/photo.go:     *)
(* 421-430).                                                               *)
THEOREM RowsHaveFiles == Spec => []RowHasFile
<1>1. IInv => RowHasFile
  BY DEF IInv
<1>2. QED
  BY Inductive, <1>1, PTL

(* Only a crash, or a failed close or removal of just this file, leaves a  *)
(* file that no row and no handler accounts for (importer/importer.go:245, *)
(* 381-387, http/photo.go:427).                                            *)
THEOREM FilesAreExplained == Spec => []NoUnexplainedFile
<1>1. IInv => NoUnexplainedFile
  <2> SUFFICES ASSUME IInv, NEW p \in Photo, file[p] # "absent"
               PROVE  \/ row[p] = "live"
                      \/ pc[p] \in Working
                      \/ \E d \in Deletion : victim[d] = p /\ rowGone[d]
                      \/ p \in lost \cup stuck
    BY DEF NoUnexplainedFile
  <2>1. UploadStage(p)
    BY DEF IInv, Stages
  <2>2. CASE row[p] = "deleted"
    BY <2>2 DEF IInv, DeletedFileExplained
  <2>3. CASE row[p] = "none"
    BY <2>1, <2>3 DEF IInv, TypeOK, UploadStage, Working
  <2>4. QED
    BY <2>2, <2>3 DEF IInv, TypeOK
<1>2. QED
  BY Inductive, <1>1, PTL

(* What an uploader was told stays true of the row, and of the file unless *)
(* it could not be removed.                                                *)
THEOREM RepliesAreTrue == Spec => []ReplyIsTrue
<1>1. IInv => ReplyIsTrue
  <2> SUFFICES ASSUME IInv, NEW p \in Photo
               PROVE  /\ reply[p] = "created" => row[p] # "none"
                      /\ reply[p] \in {"conflict", "error"} =>
                           row[p] = "none" /\ (file[p] = "absent" \/ p \in stuck)
    BY DEF ReplyIsTrue
  <2>1. UploadStage(p)
    BY DEF IInv, Stages
  <2>2. QED
    BY <2>1 DEF IInv, TypeOK, UploadStage, Working
<1>2. QED
  BY Inductive, <1>1, PTL

LEMMA NextOnlyOwnerDeletes == IInv /\ [Next]_vars =>
        [\A p \in Photo :
           /\ row[p] = "live" /\ row'[p] # "live" =>
                \E d \in Deletion : victim[d] = p /\ UserOf[d] = uploader[p]
           /\ row[p] = "live" => file'[p] = file[p]]_vars
<1> DEFINE Deletes(q) == \E d \in Deletion : victim[d] = q /\ UserOf[d] = uploader[q]
           Kept(q) == row'[q] = "live" \/ Deletes(q)
<1>1. ASSUME IInv, [Next]_vars, NEW q \in Photo, row[q] = "live"
      PROVE  Kept(q) /\ file'[q] = file[q]
  <2> USE <1>1 DEF IInv, TypeOK, Goto, Answer, Remove, uploadVars, rowVars, deletionVars, faultVars
  <2>1. UploadStage(q) /\ \A d \in Deletion : DeletionStage(d)
    BY DEF Stages
  <2>2. ASSUME NEW p \in Photo, NEW u \in User, NEW c \in Content, NEW v \in Visibility,
               StartUpload(p, u, c, v)
        PROVE  Kept(q) /\ file'[q] = file[q]
    BY <2>2 DEF StartUpload
  <2>3. ASSUME NEW p \in Photo, UploadStep(p)
        PROVE  Kept(q) /\ file'[q] = file[q]
    <3>1. row'[q] = "live"
      BY <2>3 DEF UploadStep, GiveUp, BeginCopy, FinishCopy, CopyFails, CreateRow,
         CreateRefused, Undo, CorrectRaw, Respond
    <3>2. pc[p] \in {"read", "copying", "undoDuplicate", "undoError"} => p # q
      BY <2>1 DEF UploadStage
    <3>3. file'[q] = file[q]
      BY <2>3, <3>2 DEF UploadStep, GiveUp, BeginCopy, FinishCopy, CopyFails, CreateRow,
         CreateRefused, Undo, CorrectRaw, Respond
    <3>4. QED
      BY <3>1, <3>3
  <2>4. ASSUME NEW p \in Photo, NEW v \in Visibility, SetVisibility(p, v)
        PROVE  Kept(q) /\ file'[q] = file[q]
    BY <2>4 DEF SetVisibility
  <2>5. ASSUME NEW d \in Deletion, NEW p \in Photo, CheckDeletion(d, p)
        PROVE  Kept(q) /\ file'[q] = file[q]
    BY <2>5 DEF CheckDeletion
  <2>6. ASSUME NEW d \in Deletion, DeleteRow(d)
        PROVE  Kept(q) /\ file'[q] = file[q]
    BY <2>1, <2>6 DEF DeleteRow, DeletionStage
  <2>7. ASSUME NEW d \in Deletion, RemoveFile(d)
        PROVE  Kept(q) /\ file'[q] = file[q]
    BY <2>1, <2>7 DEF RemoveFile, DeletionStage
  <2>8. ASSUME Crash \/ UNCHANGED vars
        PROVE  Kept(q) /\ file'[q] = file[q]
    BY <2>8 DEF Crash, vars
  <2>9. QED
    BY <2>2, <2>3, <2>4, <2>5, <2>6, <2>7, <2>8 DEF Next
<1>2. QED
  BY <1>1

(* Only a deletion by its owner takes a photo out of the library, and no   *)
(* handler touches the file of a photo that has its row.                   *)
THEOREM OwnersOnlyDelete == Spec => OnlyOwnerDeletes
  BY Inductive, NextOnlyOwnerDeletes, PTL DEF Spec, OnlyOwnerDeletes

-------------------------------------------------------------------------------
(* The library keeps the contract.  An upload has the progress that its pc *)
(* tells; each action is one of the contract, or a step on files, which    *)
(* the contract does not see.                                              *)
Mapped == [p \in Photo |-> Progress[pc[p]]]

(* Progress, pc by pc.                                                     *)
LEMMA ProgressIs ==
  /\ Progress["idle"] = "idle" /\ Progress["created"] = "made"
  /\ Progress["done"] = "done" /\ Progress["lost"] = "lost"
  /\ \A s \in Working \ {"created"} : Progress[s] = "pending"
  BY DEF Progress, Working

(* A handler that goes on moves the upload in the contract.                *)
LEMMA MappedGoes ==
  ASSUME TypeOK, NEW p \in Photo, NEW from \in Working \cup {"idle"}, NEW to, Goto(p, from, to)
  PROVE  /\ Mapped[p] = Progress[from]
         /\ Mapped' = [Mapped EXCEPT ![p] = Progress[to]]
  BY DEF TypeOK, Goto, Mapped

(* A step within "pending" is none for the contract.                       *)
LEMMA MappedStays ==
  ASSUME TypeOK, NEW p \in Photo, NEW from \in Working \ {"created"},
         NEW to \in Working \ {"created"}, Goto(p, from, to)
  PROVE  Mapped' = Mapped
<1>1. Mapped[p] = "pending" /\ Mapped' = [Mapped EXCEPT ![p] = "pending"]
  BY MappedGoes, ProgressIs
<1>2. QED
  BY <1>1 DEF Mapped

LEMMA UploadKeepsContract ==
  ASSUME IInv, NEW p \in Photo, UploadStep(p)
  PROVE  Contract!UploadStep(p) \/ UNCHANGED <<Mapped, content, uploader, wanted, row, visibility, chosen, reply>>
<1>0. TypeOK
  BY DEF IInv
<1>a. /\ {"read", "copying", "copied", "undoDuplicate", "undoError"} \subseteq Working \ {"created"}
      /\ "created" \in Working
  BY DEF Working
<1> USE <1>0, <1>a, ProgressIs DEF uploadVars, rowVars, deletionVars, faultVars
<1>1. CASE BeginCopy(p) \/ FinishCopy(p) \/ CreateRefused(p)
  <2>1. Mapped' = Mapped
    BY <1>1, MappedStays DEF BeginCopy, FinishCopy, CreateRefused
  <2>2. QED
    BY <1>1, <2>1 DEF BeginCopy, FinishCopy, CreateRefused
<1>2. CASE GiveUp(p) \/ CopyFails(p) \/ Undo(p)
  <2>1. Mapped[p] = "pending" /\ Mapped' = [Mapped EXCEPT ![p] = "done"]
    BY <1>2, MappedGoes DEF GiveUp, CopyFails, Undo
  <2>2. PICK why \in {"conflict", "error"} : reply' = [reply EXCEPT ![p] = why]
    BY <1>2 DEF GiveUp, CopyFails, Undo, Answer
  <2>3. UNCHANGED <<content, uploader, wanted, row, visibility, chosen>>
    BY <1>2 DEF GiveUp, CopyFails, Undo
  <2>4. Contract!Refuse(p, why)
    BY <2>1, <2>2, <2>3 DEF Contract!Refuse, Contract!Advance, Mapped
  <2>5. QED
    BY <2>4 DEF Contract!UploadStep
<1>3. CASE CreateRow(p)
  <2>1. Mapped[p] = "pending" /\ Mapped' = [Mapped EXCEPT ![p] = "made"]
    BY <1>3, MappedGoes DEF CreateRow
  <2>2. Contract!Make(p)
    BY <1>3, <2>1 DEF CreateRow, Duplicate, Contract!Make, Contract!Advance, Mapped
  <2>3. QED
    BY <2>2 DEF Contract!UploadStep
<1>4. CASE CorrectRaw(p) \/ Respond(p)
  <2>1. Mapped[p] = "made" /\ Mapped' = [Mapped EXCEPT ![p] = "done"]
    BY <1>4, MappedGoes DEF CorrectRaw, Respond
  <2>2. Contract!Confirm(p)
    BY <1>4, <2>1 DEF CorrectRaw, Respond, NeedsCorrection, Answer, Contract!Confirm,
       Contract!Advance, Mapped
  <2>3. QED
    BY <2>2 DEF Contract!UploadStep
<1>5. QED
  BY <1>1, <1>2, <1>3, <1>4 DEF UploadStep

LEMMA NextKeepsContract == IInv /\ [Next]_vars => [Contract!Next]_(Contract!contractVars)
<1> SUFFICES ASSUME IInv, [Next]_vars
             PROVE  Contract!Next \/ UNCHANGED Contract!contractVars
  OBVIOUS
<1> DEFINE Same == UNCHANGED <<Mapped, content, uploader, wanted, row, visibility, chosen, reply>>
<1>0. TypeOK /\ Stages
  BY DEF IInv
<1>s. Same => UNCHANGED Contract!contractVars
  BY DEF Contract!contractVars, Mapped
<1> HIDE DEF Same
<1>1. ASSUME NEW p \in Photo, NEW u \in User, NEW c \in Content, NEW v \in Visibility,
             StartUpload(p, u, c, v)
      PROVE  Contract!Next
  <2>1. Mapped[p] = "idle" /\ Mapped' = [Mapped EXCEPT ![p] = "pending"]
    <3>1. "read" \in Working \ {"created"}
      BY DEF Working
    <3>2. QED
      BY <1>0, <1>1, <3>1, MappedGoes, ProgressIs DEF StartUpload
  <2>2. Contract!Begin(p, u, c, v)
    BY <1>1, <2>1 DEF StartUpload, rowVars, Contract!Begin, Contract!Advance, Mapped
  <2>3. QED
    BY <2>2 DEF Contract!Next
<1>2. ASSUME NEW p \in Photo, UploadStep(p)
      PROVE  Contract!Next \/ Same
  <2>1. Contract!UploadStep(p) \/ Same
    BY <1>2, UploadKeepsContract DEF Same
  <2>2. QED
    BY <2>1 DEF Contract!Next
<1>3. ASSUME NEW p \in Photo, NEW v \in Visibility, SetVisibility(p, v)
      PROVE  Contract!Next
  <2>1. Contract!Change(p, v)
    BY <1>3 DEF SetVisibility, uploadVars, Contract!Change
  <2>2. QED
    BY <2>1 DEF Contract!Next
<1>4. ASSUME NEW d \in Deletion, NEW p \in Photo, CheckDeletion(d, p)
      PROVE  Same
  BY <1>4 DEF CheckDeletion, uploadVars, rowVars, Same, Mapped
<1>5. ASSUME NEW d \in Deletion, DeleteRow(d)
      PROVE  Contract!Next \/ Same
  <2>1. CASE row[victim[d]] = "live"
    <3>1. victim[d] \in Photo
      BY <1>0, <1>5 DEF DeleteRow, TypeOK
    <3>2. Contract!Delete(victim[d])
      BY <1>5, <2>1 DEF DeleteRow, uploadVars, Contract!Delete
    <3>3. QED
      BY <3>1, <3>2 DEF Contract!Next
  <2>2. CASE row[victim[d]] # "live"
    BY <1>5, <2>2 DEF DeleteRow, uploadVars, Same, Mapped
  <2>3. QED
    BY <2>1, <2>2
<1>6. ASSUME NEW d \in Deletion, RemoveFile(d)
      PROVE  Same
  BY <1>6 DEF RemoveFile, uploadVars, rowVars, Same, Mapped
<1>7. ASSUME Crash
      PROVE  Contract!Next
  <2>1. ASSUME NEW p \in Photo
        PROVE  Mapped'[p] = IF Mapped[p] \in {"pending", "made"} THEN "lost" ELSE Mapped[p]
    <3>1. pc[p] \in Working => Mapped[p] \in {"pending", "made"}
      BY ProgressIs DEF Mapped
    <3>2. pc[p] \notin Working => Mapped[p] \in {"idle", "done", "lost"}
      BY <1>0, ProgressIs DEF TypeOK, Mapped
    <3>3. Mapped'[p] = IF pc[p] \in Working THEN "lost" ELSE Mapped[p]
      BY <1>7, ProgressIs DEF Crash, Mapped
    <3>4. QED
      BY <3>1, <3>2, <3>3
  <2>2. Contract!CutOff
    BY <1>7, <2>1 DEF Crash, rowVars, Contract!CutOff, Mapped
  <2>3. QED
    BY <2>2 DEF Contract!Next
<1>8. CASE UNCHANGED vars
  BY <1>8, <1>s DEF vars, Same, Mapped
<1>9. QED
  BY <1>s, <1>1, <1>2, <1>3, <1>4, <1>5, <1>6, <1>7, <1>8 DEF Next

LEMMA InitKeepsContract == Init => Contract!Init
  BY ProgressIs DEF Init, Contract!Init

(* Library implements LibraryContract, for any number of uploads,          *)
(* deletions and crashes: what Publish is built on holds of the handlers.  *)
THEOREM LibraryImplementsContract == Spec => ImplementsContract
<1>1. Spec => Contract!Init /\ [][Contract!Next]_(Contract!contractVars)
  BY Inductive, InitKeepsContract, NextKeepsContract, PTL DEF Spec
<1>2. QED
  BY <1>1 DEF ImplementsContract, Contract!Spec
===============================================================================
