------------------------------- MODULE Browsing -------------------------------
(***************************************************************************)
(* What a visitor of the web pages is shown and where its links lead:      *)
(* handleGrid, handlePhotoDetail with adjacentInGrid and adjacentInAlbum   *)
(* (http/html/photo.go), handleAlbumDetail (http/html/album.go).           *)
(*                                                                         *)
(* A listing is cut into pages by LIMIT and OFFSET, and an URL says in     *)
(* which context, grid or album, and on which page a photo was found.  The *)
(* page of a photo is made in up to four transactions; uploads, deletions  *)
(* and changes of visibility come between them.                            *)
(***************************************************************************)
EXTENDS Integers, FiniteSets, FiniteSetsExt

CONSTANTS
  Photo,       \* photos, numbered in the order the listings have them
  PageSize,    \* pageSize
  MaxOffset,   \* bound of the model on offsets
  MaxChanges,  \* bound of the model on changes of the library in one request
  None         \* no link

ASSUME BrowsingAssumption ==
  /\ Photo \subseteq Nat /\ IsFiniteSet(Photo)
  /\ PageSize \in Nat \ {0}
  /\ MaxOffset \in Nat
  /\ MaxChanges \in Nat
  /\ None \notin Photo \cup [photo : Photo \cup {None}, offset : Nat]

VARIABLES
  visible,   \* the photos the visitor may see; without a session, the published
  member,    \* the photos of the album, whoever may see them
  pc,        \* "idle", "found", "located", "adjacent" or "done"
  request,   \* [page, context, photo, offset, authed] of the request served
  page,      \* the photos of the page that the request read
  total,     \* the number of photos in the listing, as it read them
  prev,      \* the link backward, or None
  next,      \* the link forward, or None
  arrived,   \* history, since the request came: photos that joined a listing,
  departed,  \* photos that left one,
  failed     \* and whether a lookup failed

libraryVars == <<visible, member>>
changeVars == <<arrived, departed>>
vars == <<visible, member, pc, request, page, total, prev, next, arrived, departed,
          failed>>

Context == {"grid", "album"}

(* Links go to page boundaries only.                                       *)
Offset == {o \in 0 .. MaxOffset : o % PageSize = 0}

Link == [photo : Photo \cup {None}, offset : Nat]
Request == [page : {"list", "photo"}, context : Context, photo : Photo \cup {None},
            offset : Offset, authed : BOOLEAN]

NoRequest == [page |-> "list", context |-> "grid", photo |-> None, offset |-> 0,
              authed |-> FALSE]

Init ==
  /\ visible \in SUBSET Photo
  /\ member \in SUBSET Photo
  /\ pc = "idle"
  /\ request = NoRequest
  /\ page = {}
  /\ total = 0
  /\ prev = None
  /\ next = None
  /\ arrived = 0
  /\ departed = 0
  /\ failed = FALSE

-------------------------------------------------------------------------------
(* FindPhotos lists what the viewer may see, FindAlbumPhotos all members.  *)
Listing(c) == IF c = "grid" THEN visible ELSE member

Rank(S, p) == Cardinality({q \in S : q < p})

(* ORDER BY ... LIMIT n OFFSET o.                                          *)
Rows(S, o, n) == {p \in S : Rank(S, p) \in o .. (o + n - 1)}

(* An album page for a visitor without a session is filtered after the     *)
(* rows were cut, and its total is what is left.                           *)
Filtered(c, authed) == c = "album" /\ ~authed

PageOf(c, o, authed) ==
  LET rows == Rows(Listing(c), o, PageSize) IN
  IF Filtered(c, authed) THEN rows \cap visible ELSE rows

(* Mistake to detect: the total is that of the page.                       *)
TotalOfPage(c, o, authed) == Cardinality(PageOf(c, o, authed))

TotalOf(c, o, authed) ==
  Cardinality(IF Filtered(c, authed) THEN PageOf(c, o, authed) ELSE Listing(c))

(* Mistake to detect: the offset has been moved back already.              *)
PreviousOffsetTwice(o) == o - 2 * PageSize

PreviousOffset(o) == IF o < PageSize THEN 0 ELSE o - PageSize
To(p, o) == [photo |-> p, offset |-> o]

Respond == pc' = "done"

(* handleGrid and handleAlbumDetail: one transaction, then the links to    *)
(* the pages before and after.  A filtered page with nothing left is a 404 *)
(* without links.                                                          *)
OpenList(c, o, authed) ==
  /\ pc = "idle"
  /\ request' = [page |-> "list", context |-> c, photo |-> None, offset |-> o,
                 authed |-> authed]
  /\ page' = PageOf(c, o, authed)
  /\ total' = TotalOf(c, o, authed)
  /\ LET missing == Filtered(c, authed) /\ total' = 0 IN
     /\ prev' = IF o > 0 /\ ~missing THEN To(None, PreviousOffset(o)) ELSE None
     /\ next' = IF o + PageSize < total' /\ ~missing THEN To(None, o + PageSize) ELSE None
  /\ Respond
  /\ UNCHANGED <<libraryVars, changeVars, failed>>

-------------------------------------------------------------------------------
(* handlePhotoDetail: FindPhotoByID and IsVisibleTo; 404 otherwise.        *)
OpenPhoto(c, p, o, authed) ==
  /\ pc = "idle"
  /\ request' = [page |-> "photo", context |-> c, photo |-> p, offset |-> o,
                 authed |-> authed]
  /\ pc' = IF p \in visible THEN "found" ELSE "done"
  /\ UNCHANGED <<libraryVars, page, total, prev, next, changeVars, failed>>

Before == {q \in page : q < request.photo}
After == {q \in page : q > request.photo}

(* The transaction that reads the page the URL names.  A photo that is not *)
(* there, or not any more, gets no links.                                  *)
Locate ==
  /\ pc = "found"
  /\ page' = PageOf(request.context, request.offset, request.authed)
  /\ total' = TotalOf(request.context, request.offset, request.authed)
  /\ pc' = IF request.photo \in page' THEN "located" ELSE "done"
  /\ UNCHANGED <<libraryVars, request, prev, next, changeVars, failed>>

(* Mistake to detect: LIMIT 1 as for the page after.                       *)
FirstOfPrevious ==
  LET o == PreviousOffset(request.offset)
      rows == Rows(Listing(request.context), o, 1)
  IN IF rows = {} THEN None ELSE To(Max(rows), o)

(* The last photo of the page before, in a transaction of its own and      *)
(* without a filter.                                                       *)
LastOfPrevious ==
  LET o == PreviousOffset(request.offset)
      rows == Rows(Listing(request.context), o, PageSize)
  IN IF rows = {} THEN None ELSE To(Max(rows), o)

LinkPrevious ==
  /\ pc = "located"
  /\ prev' = IF Before # {} THEN To(Max(Before), request.offset)
             ELSE IF request.offset > 0 THEN LastOfPrevious
             ELSE None
  /\ pc' = "adjacent"
  /\ UNCHANGED <<libraryVars, request, page, total, next, changeVars, failed>>

(* Mistake to detect: the offset of the page after is one row short.       *)
RowBeforeNext ==
  LET o == request.offset + PageSize - 1
      rows == Rows(Listing(request.context), o, 1)
  IN IF rows = {} THEN None ELSE To(Min(rows), o)

(* The first photo of the page after, again in a transaction of its own.   *)
FirstOfNext ==
  LET o == request.offset + PageSize
      rows == Rows(Listing(request.context), o, 1)
  IN IF rows = {} THEN None ELSE To(Min(rows), o)

LinkNext ==
  /\ pc = "adjacent"
  /\ next' = IF After # {} THEN To(Min(After), request.offset)
             ELSE IF request.offset + PageSize < total THEN FirstOfNext
             ELSE None
  /\ Respond
  /\ UNCHANGED <<libraryVars, request, page, total, prev, changeVars, failed>>

(* A lookup for the links fails, or the album is gone: the page is shown   *)
(* without the links that were to come of it.                              *)
LookupFails ==
  /\ \/ pc = "found" /\ Respond
     \/ pc = "located" /\ Before = {} /\ request.offset > 0 /\ pc' = "adjacent"
     \/ pc = "adjacent" /\ After = {} /\ request.offset + PageSize < total /\ Respond
  /\ failed' = TRUE
  /\ UNCHANGED <<libraryVars, request, page, total, prev, next, changeVars>>

(* The visitor has the response; the next request may come.                *)
Close ==
  /\ pc = "done"
  /\ pc' = "idle"
  /\ request' = NoRequest
  /\ page' = {} /\ total' = 0 /\ prev' = None /\ next' = None
  /\ arrived' = 0 /\ departed' = 0 /\ failed' = FALSE
  /\ UNCHANGED libraryVars

-------------------------------------------------------------------------------
(* The library changes while a request is served; between requests it is   *)
(* any library, as Init says.  An upload or a new visibility shows a photo, *)
(* the owner puts one into the album; a deletion takes it from both.       *)
InFlight == pc \in {"found", "located", "adjacent"} /\ arrived + departed < MaxChanges

Arrive(p) ==
  /\ InFlight
  /\ \/ p \notin visible /\ visible' = visible \cup {p} /\ UNCHANGED member
     \/ p \notin member /\ member' = member \cup {p} /\ UNCHANGED visible
  /\ arrived' = arrived + 1
  /\ UNCHANGED <<pc, request, page, total, prev, next, departed, failed>>

Depart(p) ==
  /\ InFlight
  /\ \/ p \in visible /\ visible' = visible \ {p} /\ UNCHANGED member
     \/ p \in member /\ member' = member \ {p} /\ UNCHANGED visible
     \/ p \in visible \cap member /\ visible' = visible \ {p} /\ member' = member \ {p}
  /\ departed' = departed + 1
  /\ UNCHANGED <<pc, request, page, total, prev, next, arrived, failed>>

Next ==
  \/ \E c \in Context, o \in Offset, authed \in BOOLEAN : OpenList(c, o, authed)
  \/ \E c \in Context, p \in Photo, o \in Offset, authed \in BOOLEAN : OpenPhoto(c, p, o, authed)
  \/ Locate
  \/ LinkPrevious
  \/ LinkNext
  \/ LookupFails
  \/ Close
  \/ \E p \in Photo : Arrive(p) \/ Depart(p)

Spec == Init /\ [][Next]_vars

-------------------------------------------------------------------------------
(* Every variable has its type.                                            *)
TypeOK ==
  /\ visible \in SUBSET Photo
  /\ member \in SUBSET Photo
  /\ pc \in {"idle", "found", "located", "adjacent", "done"}
  /\ request \in Request
  /\ page \in SUBSET Photo
  /\ total \in Nat
  /\ prev \in Link \cup {None}
  /\ next \in Link \cup {None}
  /\ arrived \in 0 .. MaxChanges
  /\ departed \in 0 .. MaxChanges
  /\ failed \in BOOLEAN

Served(kind) == pc = "done" /\ request.page = kind
Quiet == arrived = 0 /\ departed = 0 /\ ~failed
Whole == ~Filtered(request.context, request.authed)

(* Where the listing is not filtered, the library does not change and no   *)
(* lookup fails, the links of a photo lead through the listing photo by    *)
(* photo, in its order and both ways across the edges of pages: the link   *)
(* forward goes to the photo next in the listing, on the page that has it, *)
(* and there is none only at the end; likewise backward.                   *)
WalkFollowsListing ==
  LET list == Listing(request.context)
      shown == request.photo \in visible /\ request.photo \in page
      later == {q \in list : q > request.photo}
      earlier == {q \in list : q < request.photo}
      On(link) == link.photo \in Rows(list, link.offset, PageSize)
  IN
  Served("photo") /\ Whole /\ Quiet /\ shown =>
    /\ next = None <=> later = {}
    /\ next # None => next.photo = Min(later) /\ On(next)
    /\ prev = None <=> earlier = {}
    /\ prev # None => prev.photo = Max(earlier) /\ On(prev)

(* A visitor who keeps going one way gets on, in the grid and in albums,   *)
(* filtered or not, while the library changes under the request: unless a  *)
(* photo arrives in the very moment, the link forward never leads to the   *)
(* photo itself or back before it; unless one goes away, the link backward *)
(* never leads to it or behind it.                                         *)
LinksKeepDirection ==
  Served("photo") =>
    /\ arrived = 0 /\ next # None => next.photo > request.photo
    /\ departed = 0 /\ prev # None => prev.photo < request.photo

(* The pages of a listing that is not filtered show each photo once: the   *)
(* link to the page after is there exactly when photos are left, and that  *)
(* page starts with the first of them.                                     *)
PagesPartition ==
  Served("list") /\ Whole /\ page # {} =>
    LET rest == {q \in Listing(request.context) : \A p \in page : q > p} IN
    /\ next = None <=> rest = {}
    /\ next # None => /\ PageOf(request.context, next.offset, request.authed) \subseteq rest
                      /\ Min(rest) \in PageOf(request.context, next.offset, request.authed)

(* handleAlbumList offers a visitor without a session the albums "that     *)
(* have at least one published photo", with a count of "only published     *)
(* photos" (album.go:31-32, 48-49): such an album opens, and its first     *)
(* page shows them all or leads on.  The code does not keep it.            *)
ListedAlbumOpens ==
  Served("list") /\ request.context = "album" /\ ~request.authed /\ request.offset = 0
  /\ member \cap visible # {}
  => page # {} /\ (page = member \cap visible \/ next # None)
===============================================================================
