----------------------------- MODULE CommentList -----------------------------
(***************************************************************************)
(* The comments of one paragraph in websupport.js: the popup that show and *)
(* hide open and close, the request for the comments, the form that posts  *)
(* one, deletion by a moderator and the sort options.                      *)
(*                                                                         *)
(* The handlers find elements by id, and a popup that slides up is in the  *)
(* document until its animation ends, so there may be two with one id: a   *)
(* lookup finds the first in the document, and show puts the new one       *)
(* first.  The animations of an element are queued.  Requests are answered *)
(* in any order or fail.                                                   *)
(***************************************************************************)
EXTENDS Integers, SequencesExt

CONSTANTS
  Comments,   \* the comments there can be
  Stored,     \* the comments the server has when the page is loaded
  Keys,       \* for each sort option what comp subtracts: a function on comments
  NoComments, \* the list item "No comments yet."
  MaxShows,   \* bound: how often the popup is opened
  MaxWire     \* bound: the requests and answers under way

VARIABLES
  popups,     \* the popups in the document, in its order
  aoShown,    \* whether the link that opens the popup is shown
  shows,      \* how often it was opened, which numbers the popups
  by,         \* the sort option
  storedComments, \* the comments on the server
  fresh,      \* the comments nobody has written yet
  wire,       \* the requests and answers under way
  disturbed   \* history: whether something happened that the handlers do not provide for

commentVars == <<popups, aoShown, shows, by, storedComments, fresh, wire, disturbed>>

CommentListInit ==
  /\ popups = <<>>
  /\ aoShown = TRUE
  /\ shows = 0
  /\ by \in DOMAIN Keys
  /\ storedComments = Stored
  /\ fresh = Comments \ Stored
  /\ wire = {}
  /\ disturbed = FALSE

(* comp(a, b), for the option the comments are sorted by *)
comp(option, a, b) == Keys[option][a] - Keys[option][b]

(* The option handleReSort cuts from the last class of the link.  That of  *)
(* the option in use is "sel", which gives "l"; no comment has a member of *)
(* that name, so that every comparison is NaN.                             *)
optionOf(link) == IF link = by THEN "l" ELSE link

SendRequest(message) ==
  /\ Cardinality(wire) < MaxWire
  /\ wire' = wire \cup {message}
  /\ disturbed' = (disturbed \/ wire # {})

(* An item of a list: its comment, and whether it slides up to be removed. *)
Item(c) == [id |-> c, going |-> FALSE]

(* sortComments: a NaN counts as 0, which leaves the order as it is. *)
sortComments(option, cs) ==
  LET before(i, j) == comp(option, cs[i], cs[j]) < 0 \/ (comp(option, cs[i], cs[j]) = 0 /\ i < j)
      order == SortSeq([i \in DOMAIN cs |-> i], before)
  IN IF option = "l" THEN cs ELSE [i \in DOMAIN cs |-> cs[order[i]]]

appendComments(cs, ul) == ul \o [i \in DOMAIN cs |-> Item(cs[i])]

getChildren(ul) == SelectSeq([i \in DOMAIN ul |-> ul[i].id], LAMBDA c : c # NoComments)

(* insertComment: before the first sibling that does not come earlier.     *)
(* (NaN <= 0 is false.)                                                    *)
insertComment(c, ul) ==
  LET later == {i \in DOMAIN ul : ul[i].id # NoComments /\ by # "l" /\ comp(by, c, ul[i].id) <= 0}
  IN IF later = {} THEN Append(ul, Item(c)) ELSE InsertAt(ul, Min(later), Item(c))

(***************************************************************************)
(* The popup                                                               *)
(***************************************************************************)

show ==
  /\ aoShown /\ shows < MaxShows
  /\ aoShown' = FALSE
  /\ shows' = shows + 1
  /\ popups' = <<[no |-> shows + 1, opening |-> TRUE, closing |-> FALSE, ul |-> <<>>, empty |-> FALSE,
                  answered |-> FALSE, form |-> "enabled"]>> \o popups
  /\ UNCHANGED <<by, fresh, storedComments, wire, disturbed>>

(* slideDown has ended and calls getComments. *)
PopupOpens ==
  \E i \in DOMAIN popups :
    /\ popups[i].opening
    /\ popups' = [popups EXCEPT ![i].opening = FALSE]
    /\ SendRequest([type |-> "get", no |-> popups[i].no])
    /\ UNCHANGED <<aoShown, shows, by, fresh, storedComments>>

hide ==
  /\ ~aoShown
  /\ aoShown' = TRUE
  /\ popups' = [popups EXCEPT ![1].closing = TRUE]
  /\ UNCHANGED <<shows, by, fresh, storedComments, wire, disturbed>>

(* slideUp, which waited for slideDown, has ended; the popup is removed. *)
PopupCloses ==
  \E i \in DOMAIN popups :
    /\ popups[i].closing /\ ~popups[i].opening
    /\ popups' = RemoveAt(popups, i)
    /\ UNCHANGED <<aoShown, shows, by, fresh, storedComments, wire, disturbed>>

(***************************************************************************)
(* Comments                                                                *)
(***************************************************************************)

(* What the answer does to the list that is found. *)
getCommentsSuccess(popup, comments) ==
  IF comments = {}
  THEN [popup EXCEPT !.ul = <<Item(NoComments)>>, !.empty = TRUE, !.answered = TRUE]
  ELSE [popup EXCEPT !.ul = appendComments(sortComments(by, SetToSeq(comments)), @), !.empty = FALSE, !.answered = TRUE]

(* Variant: the form is not disabled. *)
addCommentAgain ==
  \E i \in DOMAIN popups, c \in fresh :
    /\ popups[i].form = "enabled"
    /\ fresh' = fresh \ {c}
    /\ SendRequest([type |-> "post", no |-> popups[i].no, c |-> c])
    /\ UNCHANGED <<popups, aoShown, shows, by, storedComments>>

(* addComment: a text was entered in a form that is not disabled. *)
addComment ==
  \E i \in DOMAIN popups, c \in fresh :
    /\ popups[i].form = "enabled"
    /\ fresh' = fresh \ {c}
    /\ popups' = [popups EXCEPT ![i].form = "disabled"]
    /\ SendRequest([type |-> "post", no |-> popups[i].no, c |-> c])
    /\ UNCHANGED <<aoShown, shows, by, storedComments>>

Form(ps, no, state) == [i \in DOMAIN ps |-> IF ps[i].no = no THEN [ps[i] EXCEPT !.form = state] ELSE ps[i]]

(* The form is enabled, the comment inserted, the form of a root comment   *)
(* slides up ("the user can get it back by reopening the comment popup").  *)
addCommentSuccess(ps, no, c) ==
  LET reset == Form(ps, no, "enabled")
      first == ps[1]
  IN IF ps = <<>> THEN ps
     ELSE [reset EXCEPT ![1] = [@ EXCEPT !.ul = insertComment(c, IF first.empty THEN <<>> ELSE first.ul),
                                         !.empty = FALSE, !.form = "removed"]]

(* deleteComment: a click on an item's link. *)
deleteComment ==
  \E i \in DOMAIN popups : \E k \in DOMAIN popups[i].ul :
    LET c == popups[i].ul[k].id
    IN /\ c # NoComments
       /\ SendRequest([type |-> "delete", c |-> c])
       /\ UNCHANGED <<popups, aoShown, shows, by, fresh, storedComments>>

(* The first item with the comment's id slides up. *)
deleteCommentSuccess(ps, c) ==
  LET at == {i \in DOMAIN ps : \E k \in DOMAIN ps[i].ul : ps[i].ul[k].id = c}
  IN IF at = {} THEN ps
     ELSE LET i == Min(at)
              k == Min({j \in DOMAIN ps[i].ul : ps[i].ul[j].id = c})
          IN [ps EXCEPT ![i].ul[k].going = TRUE]

ItemGone ==
  \E i \in DOMAIN popups : \E k \in DOMAIN popups[i].ul :
    /\ popups[i].ul[k].going
    /\ popups' = [popups EXCEPT ![i].ul = RemoveAt(@, k)]
    /\ UNCHANGED <<aoShown, shows, by, fresh, storedComments, wire, disturbed>>

(* handleReSort: every list is emptied and filled again in the new order. *)
handleReSort ==
  \E link \in DOMAIN Keys :
    /\ popups # <<>>
    /\ by' = optionOf(link)
    /\ popups' = [i \in DOMAIN popups |->
                    [popups[i] EXCEPT !.ul = appendComments(sortComments(by', getChildren(@)), <<>>)]]
    /\ disturbed' = (disturbed \/ \E i \in DOMAIN popups : \E k \in DOMAIN popups[i].ul : popups[i].ul[k].going)
    /\ UNCHANGED <<aoShown, shows, storedComments, wire, fresh>>

(***************************************************************************)
(* The server and the network                                              *)
(***************************************************************************)

ServerLists(m) ==
  /\ m.type = "get"
  /\ wire' = (wire \ {m}) \cup {[type |-> "comments", no |-> m.no, comments |-> storedComments]}
  /\ UNCHANGED <<popups, aoShown, shows, by, fresh, storedComments, disturbed>>

ServerStores(m) ==
  /\ m.type = "post"
  /\ storedComments' = storedComments \cup {m.c}
  /\ wire' = (wire \ {m}) \cup {[type |-> "added", no |-> m.no, c |-> m.c]}
  /\ UNCHANGED <<popups, aoShown, shows, by, fresh, disturbed>>

ServerDeletes(m) ==
  /\ m.type = "delete"
  /\ storedComments' = storedComments \ {m.c}
  /\ wire' = (wire \ {m}) \cup {[type |-> "deleted", c |-> m.c]}
  /\ UNCHANGED <<popups, aoShown, shows, by, fresh, disturbed>>

CommentsArrive(m) ==
  /\ m.type = "comments"
  /\ wire' = wire \ {m}
  /\ popups' = IF popups = <<>> THEN popups ELSE [popups EXCEPT ![1] = getCommentsSuccess(@, m.comments)]
  /\ disturbed' = (disturbed \/ (popups # <<>> /\ popups[1].no # m.no))
  /\ UNCHANGED <<aoShown, shows, by, fresh, storedComments>>

CommentAdded(m) ==
  /\ m.type = "added"
  /\ wire' = wire \ {m}
  /\ popups' = addCommentSuccess(popups, m.no, m.c)
  /\ disturbed' = (disturbed \/ (popups # <<>> /\ ~popups[1].answered))
  /\ UNCHANGED <<aoShown, shows, by, fresh, storedComments>>

CommentDeleted(m) ==
  /\ m.type = "deleted"
  /\ wire' = wire \ {m}
  /\ popups' = deleteCommentSuccess(popups, m.c)
  /\ UNCHANGED <<aoShown, shows, by, fresh, storedComments, disturbed>>

(* A request or its answer is lost: the error handlers show a message, and *)
(* that of addComment enables the form.                                    *)
RequestFails(m) ==
  /\ wire' = wire \ {m}
  /\ popups' = IF m.type \in {"post", "added"} THEN Form(popups, m.no, "enabled") ELSE popups
  /\ disturbed' = (disturbed \/ m.type \in {"added", "deleted"})
  /\ UNCHANGED <<aoShown, shows, by, fresh, storedComments>>

CommentListNext ==
  \/ show \/ PopupOpens \/ hide \/ PopupCloses
  \/ addComment \/ deleteComment \/ ItemGone \/ handleReSort
  \/ \E m \in wire : \/ ServerLists(m) \/ ServerStores(m) \/ ServerDeletes(m)
                     \/ CommentsArrive(m) \/ CommentAdded(m) \/ CommentDeleted(m) \/ RequestFails(m)

CommentListSpec == CommentListInit /\ [][CommentListNext]_commentVars

(***************************************************************************)
(* Properties                                                              *)
(***************************************************************************)

(* The popups, their lists and the messages are of their types. *)
CommentListTypeOK ==
  /\ \A i \in DOMAIN popups :
       /\ popups[i].no \in 1 .. shows
       /\ popups[i].form \in {"enabled", "disabled", "removed"}
       /\ \A k \in DOMAIN popups[i].ul : popups[i].ul[k].id \in Comments \cup {NoComments}
  /\ by \in DOMAIN Keys \cup {"l"} /\ storedComments \subseteq Comments
  /\ \A m \in wire : m.type \in {"get", "comments", "post", "added", "delete", "deleted"}

(* When nothing disturbed the thread (no two requests under way together,  *)
(* no answer for a popup that was closed and opened again, no comment      *)
(* added to a list that was not loaded yet, no re-sort while a deleted     *)
(* comment slid up, no answer lost), the list of an open popup shows each  *)
(* comment of the server once, in the order of the sort option (a click on *)
(* the option in use leaves none).  The handlers do nothing against the    *)
(* disturbances: they append to whatever they find.                        *)
UndisturbedListIsServers ==
  ~disturbed /\ wire = {} /\ ~aoShown /\ popups[1].answered =>
    LET cs == getChildren(SelectSeq(popups[1].ul, LAMBDA item : ~item.going))
    IN /\ IsInjective(cs) /\ ToSet(cs) = storedComments
       /\ by # "l" => \A i \in 1 .. Len(cs) - 1 : comp(by, cs[i], cs[i + 1]) <= 0

(* A form has at most one comment under way: it is disabled from submit to *)
(* the answer, and the answer that enables it is its own.                  *)
OnePostPerForm ==
  \A no \in 1 .. shows : Cardinality({m \in wire : m.type \in {"post", "added"} /\ m.no = no}) <= 1

(* The link that opens the popup is hidden exactly while there is a popup  *)
(* that does not close, which is then the first in the document.           *)
LinkMatchesPopup ==
  /\ ~aoShown <=> \E i \in DOMAIN popups : ~popups[i].closing
  /\ \A i \in DOMAIN popups : i > 1 => popups[i].closing

(* A disabled form waits for an answer: its comment is under way, so that  *)
(* the answer or the error enables the form again, whatever else is        *)
(* answered, opened and closed meanwhile.                                  *)
DisabledFormWaits ==
  \A i \in DOMAIN popups : popups[i].form = "disabled" =>
    \E m \in wire : m.type \in {"post", "added"} /\ m.no = popups[i].no

(* The popup, its form and its list stay consistent with one another and,  *)
(* while nothing disturbs them, with the server, in whatever order answers *)
(* come and the popup is opened, closed and sorted again.                  *)
ThreadConsistent ==
  /\ CommentListTypeOK
  /\ UndisturbedListIsServers
  /\ OnePostPerForm
  /\ LinkMatchesPopup
  /\ DisabledFormWaits
=============================================================================
