------------------------------- MODULE MCServing -------------------------------
EXTENDS Serving, TLC

Jpeg == [raw |-> FALSE, readable |-> TRUE]
Heic == [raw |-> FALSE, readable |-> FALSE]
Raw == [raw |-> TRUE, readable |-> TRUE]

AllSources == {Jpeg, Heic, Raw}

(* Every way to look at the photo, and the edits without the household,    *)
(* which serving does not tell from private, and without clearing a name.  *)
AskAll ==
  View \cup {q \in Edit :
    IF q.act = "change"
      THEN q.change \in [visibility : {"private", "published"}]
                          \cup [visibility : {"published"}, location : {"hand"}]
                          \cup [token : {None}]
      ELSE q.by = "owner"}

Requests == Permutations(Request)
===============================================================================
