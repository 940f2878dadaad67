----------------------------- MODULE PublishProofs -----------------------------
(***************************************************************************)
(* Proofs about Publish, for every directory, any number of runs of the    *)
(* client, of other uploads, of deletions, failures and crashes.  The      *)
(* argument has three layers: the library keeps its contract in each step  *)
(* (ContractOK, Grows); the client knows what it waits for (ClientStage);  *)
(* and what the client has passed is in the library and tagged (Covering,  *)
(* PassedMarked).                                                          *)
(***************************************************************************)
EXTENDS Publish, TLAPS

(* Of the contract: rows and answers agree with the progress of uploads.   *)
ContractTypeOK ==
  /\ upload \in [Photo -> {"idle", "pending", "made", "done", "lost"}]
  /\ content \in [Photo -> Content \cup {None}]
  /\ uploader \in [Photo -> User \cup {None}]
  /\ row \in [Photo -> {"none", "live", "deleted"}]
  /\ reply \in [Photo -> {"none", "created", "conflict", "error"}]

ContractStage ==
  \A p \in Photo :
    /\ upload[p] \in {"idle", "pending"} => row[p] = "none"
    /\ upload[p] = "made" => row[p] # "none"
    /\ reply[p] = "created" => row[p] # "none"

ContractOK == ContractTypeOK /\ ContractStage

(* A step leaves an upload that has begun what it is, and a row that was   *)
(* made is never unmade.                                                   *)
Grows ==
  \A p \in Photo :
    /\ upload[p] # "idle" =>
         /\ upload'[p] # "idle"
         /\ content'[p] = content[p]
         /\ uploader'[p] = uploader[p]
    /\ row[p] # "none" => row'[p] # "none" /\ (row'[p] = "live" => row[p] = "live")
    /\ row[p] = "none" => row'[p] \in {"none", "live"}

(* What the client knows at each of its steps.                             *)
ClientStage ==
  /\ step \in {"idle", "next"} => at = None /\ sent = None
  /\ step \in {"check", "send"} => at \in File /\ sent = None
  /\ step \in {"wait", "tag"} =>
       /\ at \in File /\ sent \in Photo
       /\ upload[sent] # "idle"
       /\ uploader[sent] = Publisher
       /\ content[sent] = ContentOf[at]
       /\ sentFor[sent] = at
  /\ step = "tag" => row[sent] # "none"

(* The photos of a run, and those among them that hold what a file holds.  *)
Noticed ==
  /\ Live \subseteq during
  /\ \A p \in during : row[p] # "none"
  /\ step \in {"wait", "tag"} /\ row[sent] # "none" => sent \in during

Covered(f) == \E p \in during : uploader[p] = Publisher /\ content[p] = ContentOf[f]

Covering ==
  step # "idle" /\ ~failed => \A f \in File : f \notin todo /\ f # at => Covered(f)

(* Tags: an answered request has left its mark, and so has every tag that  *)
(* a client without warnings has passed.                                   *)
Marked(p, t) == <<p, t>> \in attached \cup detached

AnswersMarked ==
  \A p \in Photo, t \in Tag :
    tagging[<<p, t>>] = "ok" => row[p] # "none" /\ (row[p] = "live" => Marked(p, t))

PassedMarked ==
  clean =>
    \A p \in Photo :
      sentFor[p] # None /\ p # sent =>
        row[p] # "none" /\ (row[p] = "live" => \A t \in TagsFromPath(sentFor[p]) : Marked(p, t))

SentMarked ==
  clean /\ step = "tag" /\ row[sent] = "live" =>
    \A t \in TagsFromPath(at) : t \notin want => Marked(sent, t)

(* The row of a tag is there before a photo is tied to it.                 *)
TagsMade == \A p \in Photo, t \in Tag : tagging[<<p, t>>] \in {"made", "ok"} => t \in tags

Fresh == \A p \in Photo : upload[p] = "idle" => sentFor[p] = None

(* PublishTypeOK in four parts.                                            *)
ClientTypes ==
  /\ step \in {"idle", "next", "check", "send", "wait", "tag"}
  /\ todo \subseteq File
  /\ at \in File \cup {None}
  /\ sent \in Photo \cup {None}
  /\ want \subseteq Tag
  /\ exit \in {"none", "zero", "nonzero"}
  /\ sentFor \in [Photo -> File \cup {None}]
  /\ during \subseteq Photo

RunsBounded == runs \in 0 .. MaxRuns

Flags == failed \in BOOLEAN /\ clean \in BOOLEAN

TagTypes ==
  /\ tagging \in [Photo \X Tag -> UnderWay \cup {"none", "ok", "error", "lost"}]
  /\ tags \subseteq Tag
  /\ attached \subseteq Live \X tags
  /\ detached \subseteq Photo \X Tag

ServerInv == ContractOK /\ TagTypes /\ TagsMade /\ AnswersMarked

ClientInv ==
  /\ ClientTypes /\ RunsBounded /\ Flags /\ ClientStage
  /\ Noticed /\ Covering /\ NothingLost
  /\ Fresh /\ PassedMarked /\ SentMarked

IInv == ServerInv /\ ClientInv

-------------------------------------------------------------------------------
(* The library under the client.                                           *)
LEMMA ContractGoesOn ==
  ASSUME ContractOK, [Next]_contractVars
  PROVE  ContractOK' /\ Grows
<1> USE DEF ContractOK, ContractTypeOK, ContractStage, Grows, Advance
<1>1. ASSUME NEW p \in Photo, NEW u \in User, NEW c \in Content, NEW v \in Visibility,
             Begin(p, u, c, v)
      PROVE  ContractOK' /\ Grows
  BY <1>1 DEF Begin
<1>2. ASSUME NEW p \in Photo, Make(p)
      PROVE  ContractOK' /\ Grows
  BY <1>2 DEF Make
<1>3. ASSUME NEW p \in Photo, NEW why \in {"conflict", "error"}, Refuse(p, why)
      PROVE  ContractOK' /\ Grows
  BY <1>3 DEF Refuse
<1>4. ASSUME NEW p \in Photo, Confirm(p)
      PROVE  ContractOK' /\ Grows
  BY <1>4 DEF Confirm
<1>5. ASSUME NEW p \in Photo, NEW v \in Visibility, Change(p, v)
      PROVE  ContractOK' /\ Grows
  BY <1>5 DEF Change
<1>6. ASSUME NEW p \in Photo, Delete(p)
      PROVE  ContractOK' /\ Grows
  BY <1>6 DEF Delete
<1>7. ASSUME CutOff
      PROVE  ContractOK' /\ Grows
  BY <1>7 DEF CutOff
<1>8. ASSUME UNCHANGED contractVars
      PROVE  ContractOK' /\ Grows
  BY <1>8 DEF contractVars
<1>9. QED
  BY <1>1, <1>2, <1>3, <1>4, <1>5, <1>6, <1>7, <1>8 DEF Next, UploadStep

(* Every step of Publish is one of the contract, or none for it.           *)
LEMMA StepOfContract == ClientStage /\ [PublishNext]_publishVars => [Next]_contractVars
<1> SUFFICES ASSUME ClientStage, [PublishNext]_publishVars
             PROVE  [Next]_contractVars
  OBVIOUS
<1> USE PublishAssumption
<1>1. CASE Client
  <2>1. ASSUME NEW p \in Photo, Send(p)
        PROVE  [Next]_contractVars
    <3>1. step = "send" /\ Begin(p, Publisher, ContentOf[at], Published)
      BY <2>1 DEF Send
    <3>2. at \in File
      BY <3>1 DEF ClientStage
    <3>3. QED
      BY <3>1, <3>2 DEF Next
  <2>2. QED
    BY <1>1, <2>1 DEF Client, StartRun, Take, CheckExists, RequestFails, Hear, AskTag, HearTag,
       Tagged, EndRun, Interrupt
<1>2. CASE Server
  BY <1>2 DEF Server, FindForTag, FindOrCreateTag, AttachTag, TagFails, DetachTag, DeleteTagged,
     CutOffTagging, LibraryStep, Next
<1>3. CASE UNCHANGED publishVars
  BY <1>3 DEF publishVars
<1>4. QED
  BY <1>1, <1>2, <1>3 DEF PublishNext

-------------------------------------------------------------------------------
(* The steps of the client.                                                *)
LEMMA InitIInv == PublishInit => IInv
<1> SUFFICES ASSUME PublishInit PROVE IInv
  OBVIOUS
<1> USE PublishAssumption DEF PublishInit, Init
<1>1. ContractOK /\ TagsMade /\ AnswersMarked
  BY DEF ContractOK, ContractTypeOK, ContractStage, TagsMade, AnswersMarked
<1>2. TagTypes
  BY DEF TagTypes
<1>3. ClientTypes /\ ClientStage
  BY DEF ClientTypes, ClientStage
<1>4. RunsBounded /\ Flags
  <2>1. MaxRuns \in Nat /\ runs = 0
    OBVIOUS
  <2>2. RunsBounded
    BY <2>1 DEF RunsBounded
  <2>3. Flags
    BY Zenon DEF Flags
  <2>4. QED
    BY <2>2, <2>3
<1>5. Noticed /\ Covering /\ NothingLost /\ Fresh /\ PassedMarked /\ SentMarked
  BY DEF Noticed, Covering, NothingLost, Fresh, PassedMarked, SentMarked, Live
<1>6. QED
  BY <1>1, <1>2, <1>3, <1>4, <1>5 DEF IInv, ServerInv, ClientInv

(* A step of the client leaves what the server keeps, except for requests. *)
LEMMA ServerStays ==
  ASSUME ServerInv, UNCHANGED <<contractVars, tagVars>>
  PROVE  ServerInv' /\ Live' = Live
<1> USE DEF contractVars, tagVars
<1>1. Live' = Live
  BY DEF Live
<1>2. ContractOK'
  BY DEF ServerInv, ContractOK, ContractTypeOK, ContractStage
<1>3. TagTypes'
  BY <1>1 DEF ServerInv, TagTypes
<1>4. (TagsMade /\ AnswersMarked)'
  BY DEF ServerInv, TagsMade, AnswersMarked, Marked
<1>5. QED
  BY <1>1, <1>2, <1>3, <1>4 DEF ServerInv

LEMMA StartRunKeeps == IInv /\ StartRun => IInv'
<1> SUFFICES ASSUME IInv, StartRun PROVE IInv'
  OBVIOUS
<1> USE PublishAssumption DEF StartRun
<1>1. ServerInv /\ ClientInv
  BY DEF IInv
<1>2. ServerInv' /\ Live' = Live
  BY <1>1, ServerStays
<1>3. ClientTypes' /\ RunsBounded' /\ Flags'
  <2>1. ClientTypes'
    BY <1>1 DEF ClientInv, ClientTypes, Live
  <2>2. MaxRuns \in Nat /\ runs \in 0 .. MaxRuns /\ runs < MaxRuns /\ runs' = runs + 1
    BY <1>1 DEF ClientInv, RunsBounded
  <2>3. RunsBounded'
    BY <2>2 DEF RunsBounded
  <2>4. Flags'
    BY <1>1, Zenon DEF ClientInv, Flags
  <2>5. QED
    BY <2>1, <2>3, <2>4
<1>4. ClientStage' /\ Covering' /\ NothingLost'
  BY <1>1 DEF ClientInv, ClientStage, Covering, NothingLost
<1>5. Noticed' /\ Fresh'
  BY <1>1, <1>2 DEF ClientInv, Noticed, Fresh, Live, contractVars
<1>6. PassedMarked' /\ SentMarked'
  BY <1>1 DEF ClientInv, PassedMarked, SentMarked, Marked, TagsFromPath, contractVars, tagVars
<1>7. QED
  BY <1>2, <1>3, <1>4, <1>5, <1>6 DEF IInv, ClientInv

LEMMA TakeKeeps == IInv /\ (\E f \in File : Take(f)) => IInv'
<1> SUFFICES ASSUME IInv, NEW f \in File, Take(f) PROVE IInv'
  OBVIOUS
<1> USE PublishAssumption DEF Take
<1>1. ServerInv /\ ClientInv
  BY DEF IInv
<1>2. ServerInv' /\ Live' = Live
  BY <1>1, ServerStays
<1>3. ClientTypes' /\ RunsBounded' /\ Flags' /\ ClientStage'
  BY <1>1 DEF ClientInv, ClientTypes, RunsBounded, Flags, ClientStage
<1>4. Covering' /\ NothingLost'
  BY <1>1 DEF ClientInv, ClientStage, Covering, Covered, NothingLost, contractVars
<1>5. Noticed' /\ Fresh'
  BY <1>1, <1>2 DEF ClientInv, Noticed, Fresh, contractVars
<1>6. PassedMarked' /\ SentMarked'
  BY <1>1 DEF ClientInv, PassedMarked, SentMarked, Marked, TagsFromPath, contractVars, tagVars
<1>7. QED
  BY <1>2, <1>3, <1>4, <1>5, <1>6 DEF IInv, ClientInv

LEMMA CheckExistsKeeps == IInv /\ CheckExists => IInv'
<1> SUFFICES ASSUME IInv, CheckExists PROVE IInv'
  OBVIOUS
<1> USE PublishAssumption DEF CheckExists, NextFile, Exists
<1>1. ServerInv /\ ClientInv
  BY DEF IInv
<1>2. ServerInv' /\ Live' = Live
  BY <1>1, ServerStays
<1>3. ClientTypes' /\ RunsBounded' /\ ClientStage'
  BY <1>1 DEF ClientInv, ClientTypes, RunsBounded, ClientStage, contractVars
<1>4. Flags'
  BY <1>1, Zenon DEF ClientInv, Flags
<1>5. Covering' /\ NothingLost'
  <2>1. CASE Exists /\ NextFile
    <3>1. PICK p \in Photo : row[p] = "live" /\ uploader[p] = Publisher /\ content[p] = ContentOf[at]
      BY <2>1 DEF Exists
    <3>2. p \in during
      BY <1>1, <3>1 DEF ClientInv, Noticed, Live
    <3>3. Covered(at)
      BY <3>1, <3>2 DEF Covered
    <3>4. QED
      BY <1>1, <2>1, <3>3 DEF ClientInv, Covering, Covered, NothingLost, NextFile, contractVars
  <2>2. CASE ~Exists
    BY <1>1, <2>2 DEF ClientInv, Covering, Covered, NothingLost, contractVars
  <2>3. QED
    BY <2>1, <2>2
<1>6. Noticed' /\ Fresh'
  BY <1>1, <1>2 DEF ClientInv, ClientStage, Noticed, Fresh, contractVars
<1>7. PassedMarked' /\ SentMarked'
  BY <1>1 DEF ClientInv, ClientStage, PassedMarked, SentMarked, Marked, TagsFromPath, contractVars, tagVars
<1>8. QED
  BY <1>2, <1>3, <1>4, <1>5, <1>6, <1>7 DEF IInv, ClientInv

LEMMA RequestFailsKeeps == IInv /\ RequestFails => IInv'
<1> SUFFICES ASSUME IInv, RequestFails PROVE IInv'
  OBVIOUS
<1> USE PublishAssumption DEF RequestFails, NextFile
<1>1. ServerInv /\ ClientInv
  BY DEF IInv
<1>2. ServerInv' /\ Live' = Live
  BY <1>1, ServerStays
<1>3. ClientTypes' /\ RunsBounded' /\ ClientStage'
  BY <1>1 DEF ClientInv, ClientTypes, RunsBounded, ClientStage, contractVars
<1>4. Flags'
  BY <1>1, Zenon DEF ClientInv, Flags
<1>5. Covering' /\ NothingLost'
  BY <1>1 DEF ClientInv, ClientStage, Covering, Covered, NothingLost, contractVars
<1>6. Noticed' /\ Fresh'
  BY <1>1, <1>2 DEF ClientInv, ClientStage, Noticed, Fresh, contractVars
<1>7. PassedMarked' /\ SentMarked'
  BY <1>1 DEF ClientInv, ClientStage, PassedMarked, SentMarked, Marked, TagsFromPath, contractVars, tagVars
<1>8. QED
  BY <1>2, <1>3, <1>4, <1>5, <1>6, <1>7 DEF IInv, ClientInv

LEMMA HearKeeps == IInv /\ Hear => IInv'
<1> SUFFICES ASSUME IInv, Hear PROVE IInv'
  OBVIOUS
<1> USE PublishAssumption DEF Hear
<1>1. ServerInv /\ ClientInv
  BY DEF IInv
<1>2. ServerInv' /\ Live' = Live
  BY <1>1, ServerStays
<1>3. ClientTypes' /\ RunsBounded' /\ ClientStage'
  <2>1. at \in File /\ sent \in Photo
    BY <1>1 DEF ClientInv, ClientStage
  <2>2. TagsFromPath(at) \subseteq Tag
    BY <2>1 DEF TagsFromPath
  <2>3. row[sent] # "none"
    BY <1>1, <2>1 DEF ServerInv, ContractOK, ContractStage
  <2>4. QED
    BY <1>1, <2>2, <2>3 DEF ClientInv, ClientTypes, RunsBounded, ClientStage, contractVars
<1>4. Flags'
  BY <1>1, Zenon DEF ClientInv, Flags
<1>5. Covering' /\ NothingLost'
  BY <1>1 DEF ClientInv, ClientStage, Covering, Covered, NothingLost, contractVars
<1>6. Noticed' /\ Fresh'
  BY <1>1, <1>2 DEF ClientInv, ClientStage, Noticed, Fresh, contractVars
<1>7. PassedMarked' /\ SentMarked'
  BY <1>1 DEF ClientInv, ClientStage, PassedMarked, SentMarked, Marked, TagsFromPath, contractVars, tagVars
<1>8. QED
  BY <1>2, <1>3, <1>4, <1>5, <1>6, <1>7 DEF IInv, ClientInv

LEMMA TaggedKeeps == IInv /\ Tagged => IInv'
<1> SUFFICES ASSUME IInv, Tagged PROVE IInv'
  OBVIOUS
<1> USE PublishAssumption DEF Tagged, NextFile
<1>1. ServerInv /\ ClientInv
  BY DEF IInv
<1>2. ServerInv' /\ Live' = Live
  BY <1>1, ServerStays
<1>3. ClientTypes' /\ RunsBounded' /\ ClientStage'
  BY <1>1 DEF ClientInv, ClientTypes, RunsBounded, ClientStage, contractVars
<1>4. Flags'
  BY <1>1, Zenon DEF ClientInv, Flags
<1>5. Covering' /\ NothingLost'
  <2>1. sent \in during /\ uploader[sent] = Publisher /\ content[sent] = ContentOf[at]
    BY <1>1 DEF ClientInv, ClientStage, Noticed
  <2>2. Covered(at)
    BY <2>1 DEF Covered
  <2>3. QED
    BY <1>1, <2>2 DEF ClientInv, Covering, Covered, NothingLost, contractVars
<1>6. Noticed' /\ Fresh'
  BY <1>1, <1>2 DEF ClientInv, ClientStage, Noticed, Fresh, contractVars
<1>7. PassedMarked' /\ SentMarked'
  BY <1>1 DEF ClientInv, ClientStage, PassedMarked, SentMarked, Marked, TagsFromPath, contractVars, tagVars
<1>8. QED
  BY <1>2, <1>3, <1>4, <1>5, <1>6, <1>7 DEF IInv, ClientInv

LEMMA EndRunKeeps == IInv /\ EndRun => IInv'
<1> SUFFICES ASSUME IInv, EndRun PROVE IInv'
  OBVIOUS
<1> USE PublishAssumption DEF EndRun
<1>1. ServerInv /\ ClientInv
  BY DEF IInv
<1>2. ServerInv' /\ Live' = Live
  BY <1>1, ServerStays
<1>3. ClientTypes' /\ RunsBounded' /\ ClientStage'
  BY <1>1 DEF ClientInv, ClientTypes, RunsBounded, ClientStage, contractVars
<1>4. Flags'
  BY <1>1, Zenon DEF ClientInv, Flags
<1>5. Covering' /\ NothingLost'
  BY <1>1 DEF ClientInv, ClientStage, Covering, Covered, NothingLost, contractVars
<1>6. Noticed' /\ Fresh'
  BY <1>1, <1>2 DEF ClientInv, ClientStage, Noticed, Fresh, contractVars
<1>7. PassedMarked' /\ SentMarked'
  BY <1>1 DEF ClientInv, ClientStage, PassedMarked, SentMarked, Marked, TagsFromPath, contractVars, tagVars
<1>8. QED
  BY <1>2, <1>3, <1>4, <1>5, <1>6, <1>7 DEF IInv, ClientInv

LEMMA InterruptKeeps == IInv /\ Interrupt => IInv'
<1> SUFFICES ASSUME IInv, Interrupt PROVE IInv'
  OBVIOUS
<1> USE PublishAssumption DEF Interrupt
<1>1. ServerInv /\ ClientInv
  BY DEF IInv
<1>2. ServerInv' /\ Live' = Live
  BY <1>1, ServerStays
<1>3. ClientTypes' /\ RunsBounded' /\ ClientStage'
  BY <1>1 DEF ClientInv, ClientTypes, RunsBounded, ClientStage, contractVars
<1>4. Flags'
  BY <1>1, Zenon DEF ClientInv, Flags
<1>5. Covering' /\ NothingLost'
  BY <1>1 DEF ClientInv, ClientStage, Covering, Covered, NothingLost, contractVars
<1>6. Noticed' /\ Fresh'
  BY <1>1, <1>2 DEF ClientInv, ClientStage, Noticed, Fresh, contractVars
<1>7. PassedMarked' /\ SentMarked'
  BY <1>1 DEF ClientInv, ClientStage, PassedMarked, SentMarked, Marked, TagsFromPath, contractVars, tagVars
<1>8. QED
  BY <1>2, <1>3, <1>4, <1>5, <1>6, <1>7 DEF IInv, ClientInv

(* The upload reaches the server: the contract takes a step.               *)
LEMMA SendKeeps == IInv /\ (\E p \in Photo : Send(p)) => IInv'
<1> SUFFICES ASSUME IInv, NEW p \in Photo, Send(p) PROVE IInv'
  OBVIOUS
<1> USE PublishAssumption DEF Send, tagVars
<1>1. ServerInv /\ ClientInv
  BY DEF IInv
<1>2. at \in File /\ upload[p] = "idle" /\ row[p] = "none" /\ row' = row
  BY <1>1 DEF ClientInv, ClientStage, Begin, Advance, ServerInv, ContractOK, ContractTypeOK,
     ContractStage
<1>3. ContractOK' /\ Grows
  <2>1. [Next]_contractVars
    BY <1>2 DEF Next
  <2>2. QED
    BY <1>1, <2>1, ContractGoesOn DEF ServerInv
<1>4. ServerInv'
  BY <1>1, <1>2, <1>3 DEF ServerInv, TagTypes, TagsMade, AnswersMarked, Marked, Live
<1>5. ClientTypes' /\ RunsBounded' /\ ClientStage'
  BY <1>1, <1>2 DEF ClientInv, ClientTypes, RunsBounded, ClientStage, Begin, Advance, ServerInv,
     ContractOK, ContractTypeOK
<1>6. Flags'
  BY <1>1, Zenon DEF ClientInv, Flags
<1>7. Covering' /\ NothingLost'
  <2>1. \A f \in File : Covered(f) => Covered(f)'
    BY <1>1, <1>3 DEF ClientInv, ClientTypes, Noticed, Covered, Grows, ServerInv, ContractOK,
       ContractTypeOK, ContractStage
  <2>2. Covering'
    BY <1>1, <2>1 DEF ClientInv, Covering
  <2>3. NothingLost <=> (exit = "zero" => \A f \in File : Covered(f))
    BY DEF NothingLost, Covered
  <2>4. NothingLost' <=> (exit' = "zero" => \A f \in File : Covered(f)')
    BY DEF NothingLost, Covered
  <2>5. QED
    BY <1>1, <2>1, <2>2, <2>3, <2>4 DEF ClientInv
<1>8. Noticed' /\ Fresh'
  BY <1>1, <1>2, <1>3 DEF ClientInv, ClientTypes, Noticed, Fresh, Grows, Live, Begin, Advance,
     ServerInv, ContractOK, ContractTypeOK
<1>9. PassedMarked' /\ SentMarked'
  BY <1>1, <1>2 DEF ClientInv, ClientTypes, ClientStage, PassedMarked, SentMarked, Marked,
     TagsFromPath
<1>10. QED
  BY <1>4, <1>5, <1>6, <1>7, <1>8, <1>9 DEF IInv, ClientInv

(* A request for a tag does not disturb what the client has passed.        *)
LEMMA AskTagKeeps == IInv /\ (\E t \in Tag : AskTag(t)) => IInv'
<1> SUFFICES ASSUME IInv, NEW t \in Tag, AskTag(t) PROVE IInv'
  OBVIOUS
<1> USE PublishAssumption DEF AskTag, clientVars, contractVars
<1>1. ServerInv /\ ClientInv
  BY DEF IInv
<1>2. sent \in Photo /\ Live' = Live
  BY <1>1 DEF ClientInv, ClientStage, Live
<1>3. ContractOK'
  BY <1>1 DEF ServerInv, ContractOK, ContractTypeOK, ContractStage
<1>4. TagTypes' /\ TagsMade' /\ AnswersMarked'
  BY <1>1, <1>2 DEF ServerInv, TagTypes, TagsMade, AnswersMarked, Marked, UnderWay
<1>5. ClientTypes' /\ RunsBounded' /\ ClientStage' /\ Noticed' /\ Fresh'
  BY <1>1, <1>2 DEF ClientInv, ClientTypes, RunsBounded, ClientStage, Noticed, Fresh
<1>6. Flags'
  BY <1>1, Zenon DEF ClientInv, Flags
<1>7. Covering' /\ NothingLost'
  BY <1>1 DEF ClientInv, Covering, Covered, NothingLost
<1>8. PassedMarked' /\ SentMarked'
  BY <1>1 DEF ClientInv, PassedMarked, SentMarked, Marked, TagsFromPath
<1>9. QED
  BY <1>3, <1>4, <1>5, <1>6, <1>7, <1>8 DEF IInv, ServerInv, ClientInv

(* Without a warning, the answer was good and the tag is there.            *)
LEMMA HearTagKeeps == IInv /\ (\E t \in Tag : HearTag(t)) => IInv'
<1> SUFFICES ASSUME IInv, NEW t \in Tag, HearTag(t) PROVE IInv'
  OBVIOUS
<1> USE PublishAssumption DEF HearTag
<1>1. ServerInv /\ ClientInv
  BY DEF IInv
<1>2. ServerInv' /\ Live' = Live
  BY <1>1, ServerStays
<1>3. ClientTypes' /\ RunsBounded' /\ ClientStage' /\ Noticed' /\ Fresh'
  BY <1>1, <1>2 DEF ClientInv, ClientTypes, RunsBounded, ClientStage, Noticed, Fresh, contractVars
<1>4. Flags'
  BY <1>1, Zenon DEF ClientInv, Flags
<1>5. Covering' /\ NothingLost'
  BY <1>1 DEF ClientInv, Covering, Covered, NothingLost, contractVars
<1>6. PassedMarked' /\ SentMarked'
  <2>1. CASE clean' = FALSE
    BY <2>1 DEF PassedMarked, SentMarked
  <2>2. CASE tagging[<<sent, t>>] = "ok" /\ UNCHANGED clean
    <3>1. sent \in Photo /\ at \in File
      BY <1>1 DEF ClientInv, ClientStage
    <3>2. row[sent] = "live" => Marked(sent, t)
      BY <1>1, <2>2, <3>1 DEF ServerInv, AnswersMarked
    <3>3. PassedMarked'
      BY <1>1, <2>2 DEF ClientInv, PassedMarked, Marked, TagsFromPath, contractVars, tagVars
    <3>4. SentMarked'
      BY <1>1, <2>2, <3>2 DEF ClientInv, SentMarked, Marked, TagsFromPath, contractVars, tagVars
    <3>5. QED
      BY <3>3, <3>4
  <2>3. QED
    BY <2>1, <2>2
<1>7. QED
  BY <1>2, <1>3, <1>4, <1>5, <1>6 DEF IInv, ClientInv

LEMMA ClientKeeps == IInv /\ Client => IInv'
  BY StartRunKeeps, TakeKeeps, CheckExistsKeeps, RequestFailsKeeps, SendKeeps, HearKeeps,
     AskTagKeeps, HearTagKeeps, TaggedKeeps, EndRunKeeps, InterruptKeeps DEF Client

-------------------------------------------------------------------------------
(* The steps of the server.  Those for a tag leave photos and client alone *)
(* and keep every mark.                                                    *)
LEMMA TagStep ==
  ASSUME IInv, UNCHANGED <<contractVars, clientVars, during>>,
         TagTypes', TagsMade', AnswersMarked',
         \A p \in Photo, t \in Tag : Marked(p, t) => Marked(p, t)'
  PROVE  IInv'
<1> USE PublishAssumption DEF contractVars, clientVars
<1>1. ServerInv /\ ClientInv
  BY DEF IInv
<1>2. ContractOK' /\ Live' = Live
  BY <1>1 DEF ServerInv, ContractOK, ContractTypeOK, ContractStage, Live
<1>3. ClientTypes' /\ RunsBounded' /\ ClientStage' /\ Noticed' /\ Fresh'
  BY <1>1, <1>2 DEF ClientInv, ClientTypes, RunsBounded, ClientStage, Noticed, Fresh
<1>4. Flags'
  BY <1>1, Zenon DEF ClientInv, Flags
<1>5. Covering' /\ NothingLost'
  BY <1>1 DEF ClientInv, Covering, Covered, NothingLost
<1>6. \A f \in File : TagsFromPath(f) \subseteq Tag
  BY DEF TagsFromPath
<1>7. PassedMarked' /\ SentMarked'
  BY <1>1, <1>6 DEF ClientInv, ClientTypes, ClientStage, PassedMarked, SentMarked, TagsFromPath
<1>8. QED
  BY <1>1, <1>2, <1>3, <1>4, <1>5, <1>7 DEF IInv, ServerInv, ClientInv

LEMMA TagRequestsKeep ==
  ASSUME IInv, NEW p \in Photo, NEW t \in Tag,
         FindForTag(p, t) \/ FindOrCreateTag(p, t) \/ AttachTag(p, t) \/ TagFails(p, t)
         \/ DetachTag(p, t)
  PROVE  IInv'
<1>1. ServerInv
  BY DEF IInv
<1>2. tagging' \in [Photo \X Tag -> UnderWay \cup {"none", "ok", "error", "lost"}]
  BY <1>1 DEF ServerInv, TagTypes, FindForTag, FindOrCreateTag, AttachTag, TagFails, DetachTag,
     Proceed, UnderWay
<1>3. tags \subseteq tags' /\ tags' \subseteq Tag
  BY <1>1 DEF ServerInv, TagTypes, FindForTag, FindOrCreateTag, AttachTag, TagFails, DetachTag
<1>4. UNCHANGED <<contractVars, clientVars, during>>
  BY DEF FindForTag, FindOrCreateTag, AttachTag, TagFails, DetachTag
<1>5. TagsMade'
  <2>1. CASE FindOrCreateTag(p, t)
    BY <1>1, <2>1 DEF ServerInv, TagTypes, TagsMade, FindOrCreateTag, Proceed
  <2>2. CASE FindForTag(p, t) \/ AttachTag(p, t) \/ TagFails(p, t)
    BY <1>1, <1>3, <2>2 DEF ServerInv, TagTypes, TagsMade, FindForTag, AttachTag, TagFails,
       Proceed, UnderWay
  <2>3. CASE DetachTag(p, t)
    BY <1>1, <1>3, <2>3 DEF ServerInv, TagsMade, DetachTag
  <2>4. QED
    BY <2>1, <2>2, <2>3
<1>6. attached' \subseteq Live' \X tags' /\ detached' \subseteq Photo \X Tag
  <2>1. Live' = Live
    BY <1>4 DEF Live, contractVars
  <2>2. CASE AttachTag(p, t)
    <3>1. p \in Live /\ t \in tags
      BY <1>1, <2>2 DEF AttachTag, Proceed, ServerInv, TagsMade, Live
    <3>2. QED
      BY <1>1, <1>3, <2>1, <2>2, <3>1 DEF AttachTag, ServerInv, TagTypes
  <2>3. CASE DetachTag(p, t)
    BY <1>1, <1>3, <2>1, <2>3 DEF DetachTag, ServerInv, TagTypes
  <2>4. CASE FindForTag(p, t) \/ FindOrCreateTag(p, t) \/ TagFails(p, t)
    BY <1>1, <1>3, <2>1, <2>4 DEF FindForTag, FindOrCreateTag, TagFails, ServerInv, TagTypes
  <2>5. QED
    BY <2>2, <2>3, <2>4
<1>7. \A q \in Photo, s \in Tag : Marked(q, s) => Marked(q, s)'
  BY DEF Marked, FindForTag, FindOrCreateTag, AttachTag, TagFails, DetachTag
<1>8. AnswersMarked'
  <2>1. row' = row
    BY <1>4 DEF contractVars
  <2>2. CASE AttachTag(p, t)
    BY <1>1, <1>7, <2>1, <2>2 DEF AnswersMarked, AttachTag, Proceed, Marked, ServerInv, TagTypes
  <2>3. CASE FindForTag(p, t) \/ FindOrCreateTag(p, t) \/ TagFails(p, t)
    BY <1>1, <1>7, <2>1, <2>3 DEF AnswersMarked, FindForTag, FindOrCreateTag, TagFails, Proceed,
       ServerInv, TagTypes
  <2>4. CASE DetachTag(p, t)
    BY <1>1, <1>7, <2>1, <2>4 DEF AnswersMarked, DetachTag, ServerInv
  <2>5. QED
    BY <2>2, <2>3, <2>4
<1>9. TagTypes'
  BY <1>2, <1>3, <1>6 DEF TagTypes
<1>10. QED
  BY <1>4, <1>5, <1>7, <1>8, <1>9, TagStep

(* The library moves under the client: marks of live photos stay.          *)
LEMMA LibraryMoves ==
  ASSUME IInv, ContractOK', Grows, UNCHANGED clientVars,
         during \subseteq during', Live' \subseteq during', during' \subseteq during \cup Live',
         TagTypes', TagsMade', AnswersMarked',
         \A p \in Photo, t \in Tag : row'[p] = "live" /\ Marked(p, t) => Marked(p, t)'
  PROVE  IInv'
<1> USE PublishAssumption DEF clientVars
<1>1. ServerInv /\ ClientInv
  BY DEF IInv
<1>2. ClientTypes' /\ RunsBounded' /\ ClientStage'
  BY <1>1 DEF ClientInv, ClientTypes, RunsBounded, ClientStage, Grows, Live
<1>3. Flags'
  BY <1>1, Zenon DEF ClientInv, Flags
<1>4. Noticed' /\ Fresh'
  <2>1. \A p \in during' : row'[p] # "none"
    BY <1>1, <1>2 DEF ClientInv, ClientTypes, Noticed, Grows, Live
  <2>2. step' \in {"wait", "tag"} /\ row'[sent'] # "none" => sent' \in during'
    BY <1>1 DEF ClientInv, ClientStage, Noticed, Grows, Live, ContractOK, ContractTypeOK
  <2>3. Fresh'
    BY <1>1 DEF ClientInv, Fresh, Grows
  <2>4. QED
    BY <2>1, <2>2, <2>3 DEF Noticed
<1>5. Covering' /\ NothingLost'
  <2>1. \A f \in File : Covered(f) => Covered(f)'
    BY <1>1 DEF ClientInv, ClientTypes, Noticed, Covered, Grows, ServerInv, ContractOK,
       ContractTypeOK, ContractStage
  <2>2. Covering'
    BY <1>1, <2>1 DEF ClientInv, Covering
  <2>3. NothingLost <=> (exit = "zero" => \A f \in File : Covered(f))
    BY DEF NothingLost, Covered
  <2>4. NothingLost' <=> (exit' = "zero" => \A f \in File : Covered(f)')
    BY DEF NothingLost, Covered
  <2>5. QED
    BY <1>1, <2>1, <2>2, <2>3, <2>4 DEF ClientInv
<1>6. \A f \in File : TagsFromPath(f) \subseteq Tag
  BY DEF TagsFromPath
<1>7. PassedMarked' /\ SentMarked'
  BY <1>1, <1>6 DEF ClientInv, ClientTypes, ClientStage, PassedMarked, SentMarked, TagsFromPath,
     Grows
<1>8. QED
  BY <1>1, <1>2, <1>3, <1>4, <1>5, <1>7 DEF IInv, ServerInv, ClientInv

LEMMA DeleteTaggedKeeps == IInv /\ (\E p \in Photo : DeleteTagged(p)) => IInv'
<1> SUFFICES ASSUME IInv, NEW p \in Photo, DeleteTagged(p) PROVE IInv'
  OBVIOUS
<1> USE DEF DeleteTagged
<1>1. ServerInv /\ ClientInv
  BY DEF IInv
<1>2. ContractOK' /\ Grows
  BY <1>1, ContractGoesOn DEF ServerInv, Next
<1>3. Live' = Live \ {p} /\ row' = [row EXCEPT ![p] = "deleted"] /\ row \in [Photo -> {"none", "live", "deleted"}]
  BY <1>1 DEF Delete, Live, ServerInv, ContractOK, ContractTypeOK
<1>4. TagTypes' /\ TagsMade'
  BY <1>1, <1>3 DEF ServerInv, TagTypes, TagsMade
<1>5. \A q \in Photo, t \in Tag : row'[q] = "live" /\ Marked(q, t) => Marked(q, t)'
  BY <1>3 DEF Marked
<1>6. AnswersMarked'
  BY <1>1, <1>2, <1>5 DEF ServerInv, AnswersMarked, Grows
<1>7. UNCHANGED clientVars /\ during' = during /\ Live \subseteq during
  BY <1>1 DEF ClientInv, Noticed
<1>8. QED
  BY <1>2, <1>3, <1>4, <1>5, <1>6, <1>7, LibraryMoves

LEMMA CutOffTaggingKeeps == IInv /\ CutOffTagging => IInv'
<1> SUFFICES ASSUME IInv, CutOffTagging PROVE IInv'
  OBVIOUS
<1> USE DEF CutOffTagging
<1>1. ServerInv /\ ClientInv
  BY DEF IInv
<1>2. ContractOK' /\ Grows
  BY <1>1, ContractGoesOn DEF ServerInv, Next
<1>3. row' = row /\ Live' = Live
  BY DEF CutOff, Live
<1>4. TagTypes' /\ TagsMade'
  BY <1>1, <1>3 DEF ServerInv, TagTypes, TagsMade, UnderWay
<1>5. \A q \in Photo, t \in Tag : Marked(q, t) => Marked(q, t)'
  BY DEF Marked
<1>6. AnswersMarked'
  BY <1>1, <1>3, <1>5 DEF ServerInv, AnswersMarked
<1>7. UNCHANGED clientVars /\ during' = during /\ Live \subseteq during
  BY <1>1 DEF ClientInv, Noticed
<1>8. QED
  BY <1>2, <1>3, <1>4, <1>5, <1>6, <1>7, LibraryMoves

LEMMA LibraryStepKeeps == IInv /\ LibraryStep => IInv'
<1> SUFFICES ASSUME IInv, LibraryStep PROVE IInv'
  OBVIOUS
<1>1. ServerInv /\ ClientInv
  BY DEF IInv
<1>2. ContractOK' /\ Grows
  BY <1>1, ContractGoesOn DEF ServerInv, LibraryStep, Next
<1>3. UNCHANGED clientVars /\ UNCHANGED tagVars
  BY DEF LibraryStep
<1>4. Live \subseteq Live'
  <2>1. \A p \in Photo : row[p] = "live" => row'[p] = "live"
    BY <1>1 DEF LibraryStep, Begin, UploadStep, Make, Confirm, Refuse, Advance, ServerInv,
       ContractOK, ContractTypeOK
  <2>2. QED
    BY <2>1 DEF Live
<1>5. TagTypes' /\ TagsMade'
  BY <1>1, <1>3, <1>4 DEF ServerInv, TagTypes, TagsMade, tagVars
<1>6. \A q \in Photo, t \in Tag : Marked(q, t) => Marked(q, t)'
  BY <1>3 DEF Marked, tagVars
<1>7. AnswersMarked'
  BY <1>1, <1>2, <1>3, <1>6 DEF ServerInv, AnswersMarked, Grows, tagVars
<1>8. during' = during \cup Live'
  BY DEF LibraryStep, Live
<1>9. QED
  BY <1>2, <1>3, <1>5, <1>6, <1>7, <1>8, LibraryMoves

LEMMA NextIInv == IInv /\ [PublishNext]_publishVars => IInv'
<1> SUFFICES ASSUME IInv, [PublishNext]_publishVars PROVE IInv'
  OBVIOUS
<1>1. CASE Client
  BY <1>1, ClientKeeps
<1>2. CASE Server
  BY <1>2, TagRequestsKeep, DeleteTaggedKeeps, CutOffTaggingKeeps, LibraryStepKeeps DEF Server
<1>3. CASE UNCHANGED publishVars
  <2>1. UNCHANGED <<contractVars, clientVars, during>> /\ UNCHANGED tagVars
    BY <1>3 DEF publishVars
  <2>2. ServerInv' /\ ServerInv
    BY <2>1, ServerStays DEF IInv
  <2>3. \A p \in Photo, t \in Tag : Marked(p, t) => Marked(p, t)'
    BY <2>1 DEF Marked, tagVars
  <2>4. QED
    BY <2>1, <2>2, <2>3, TagStep DEF ServerInv
<1>4. QED
  BY <1>1, <1>2, <1>3 DEF PublishNext

-------------------------------------------------------------------------------
(* The theorems.                                                           *)
THEOREM PublishInvariant == PublishSpec => []IInv
  BY InitIInv, NextIInv, PTL DEF PublishSpec

(* Every variable has its type, tags are on live photos only (the foreign  *)
(* keys of photo_tags).                                                    *)
THEOREM PublishTypes == PublishSpec => []PublishTypeOK
<1>1. IInv => PublishTypeOK
  <2> SUFFICES ASSUME IInv PROVE PublishTypeOK
    OBVIOUS
  <2>1. ClientTypes /\ RunsBounded /\ Flags /\ TagTypes
    BY DEF IInv, ClientInv, ServerInv
  <2>2. QED
    BY <2>1, Zenon DEF PublishTypeOK, ClientTypes, RunsBounded, Flags, TagTypes
<1>2. QED
  BY <1>1, PublishInvariant, PTL

(* What `photo publish` says of its exit code (publish.go:90): when it is  *)
(* zero, the library has held every file of the directory while it ran.    *)
THEOREM PublishLosesNothing == PublishSpec => []NothingLost
<1>1. IInv => NothingLost
  BY DEF IInv, ClientInv
<1>2. QED
  BY <1>1, PublishInvariant, PTL

(* Without a failure, a warning or an interruption every photo that the    *)
(* client made gets the tags of its path (attachTagToPhoto).               *)
THEOREM PublishTags == PublishSpec => []CleanRunsTagged
<1>1. IInv => CleanRunsTagged
  <2> SUFFICES ASSUME IInv, step = "idle", clean, NEW p \in Live, sentFor[p] # None,
                      NEW t \in TagsFromPath(sentFor[p])
               PROVE  <<p, t>> \in attached \cup detached
    BY DEF CleanRunsTagged
  <2>1. p \in Photo /\ row[p] = "live" /\ p # sent
    BY PublishAssumption DEF Live, IInv, ClientInv, ClientStage
  <2>2. QED
    BY <2>1 DEF IInv, ClientInv, PassedMarked, Marked
<1>2. QED
  BY <1>1, PublishInvariant, PTL

(* The composition keeps to the contract of the library, that Library      *)
(* implements (LibraryImplementsContract).                                 *)
THEOREM PublishUsesContract == PublishSpec => Spec
<1>1. PublishInit => Init
  BY DEF PublishInit
<1>2. IInv => ClientStage
  BY DEF IInv, ClientInv
<1>3. QED
  BY <1>1, <1>2, StepOfContract, PublishInvariant, PTL DEF PublishSpec, Spec
===============================================================================
