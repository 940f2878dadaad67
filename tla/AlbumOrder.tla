------------------------------ MODULE AlbumOrder ------------------------------
(***************************************************************************)
(* What an album promises its readers: "a named, ordered collection of     *)
(* photos ... each album maintains its own ordering" (album.go:13-14).     *)
(* The promise says nothing of position numbers: an album shows a set of   *)
(* photos, and a strict total order on them.  Module Albums keeps that     *)
(* order in a column of integers and implements this specification.        *)
(***************************************************************************)

CONSTANTS
  Album,   \* every album id there will ever be
  Photo    \* every photo id there will ever be

VARIABLES
  shown,   \* shown[a]: the photos album a lists
  before   \* before[a]: the pairs <<p, q>> such that a lists p before q

orderVars == <<shown, before>>

(* The order R with every pair that mentions photo p taken out.            *)
Without(R, p) == {pq \in R : pq[1] # p /\ pq[2] # p}

Init ==
  /\ shown = [a \in Album |-> {}]
  /\ before = [a \in Album |-> {}]

(* AddPhoto puts a photo the album does not list yet behind all others.    *)
Append(a, p) ==
  /\ p \notin shown[a]
  /\ shown' = [shown EXCEPT ![a] = @ \cup {p}]
  /\ before' = [before EXCEPT ![a] = @ \cup (shown[a] \X {p})]

(* RemovePhoto takes a photo out; the others keep their order.             *)
Remove(a, p) ==
  /\ p \in shown[a]
  /\ shown' = [shown EXCEPT ![a] = @ \ {p}]
  /\ before' = [before EXCEPT ![a] = Without(@, p)]

(* MovePhoto without a reference photo: p becomes the first photo.         *)
MoveToFront(a, p) ==
  /\ p \in shown[a]
  /\ before' = [before EXCEPT
                  ![a] = Without(@, p) \cup ({p} \X (shown[a] \ {p}))]
  /\ UNCHANGED shown

(* MovePhoto with a reference photo: p comes directly behind it, and the   *)
(* order of the other photos is what it was.                               *)
MoveBehind(a, p, ref) ==
  /\ {p, ref} \subseteq shown[a]
  /\ p # ref
  /\ before' = [before EXCEPT
                  ![a] = LET rest == Without(@, p)
                             head == {ref} \cup {q \in shown[a] : <<q, ref>> \in rest}
                             tail == {q \in shown[a] : <<ref, q>> \in rest}
                         IN  rest \cup (head \X {p}) \cup ({p} \X tail)]
  /\ UNCHANGED shown

(* A photo that is deleted leaves every album.                             *)
DeletePhoto(p) ==
  /\ shown' = [a \in Album |-> shown[a] \ {p}]
  /\ before' = [a \in Album |-> Without(before[a], p)]

(* A deleted album lists nothing.                                          *)
DeleteAlbum(a) ==
  /\ shown' = [shown EXCEPT ![a] = {}]
  /\ before' = [before EXCEPT ![a] = {}]

Next ==
  \/ \E a \in Album, p \in Photo :
       \/ Append(a, p)
       \/ Remove(a, p)
       \/ MoveToFront(a, p)
       \/ \E ref \in Photo : MoveBehind(a, p, ref)
  \/ \E p \in Photo : DeletePhoto(p)
  \/ \E a \in Album : DeleteAlbum(a)

Spec == Init /\ [][Next]_orderVars

(* The listing of every album is a strict total order on the photos it     *)
(* shows: no two photos compete for one place (album.go:13-14).            *)
StrictTotalOrder ==
  \A a \in Album :
    /\ before[a] \subseteq shown[a] \X shown[a]
    /\ \A p \in shown[a] : <<p, p>> \notin before[a]
    /\ \A p, q \in shown[a] :
         p # q => (<<p, q>> \in before[a] <=> <<q, p>> \notin before[a])
    /\ \A p, q, r \in shown[a] :
         <<p, q>> \in before[a] /\ <<q, r>> \in before[a] => <<p, r>> \in before[a]
===============================================================================
