--------------------------- MODULE CommentWidgets ---------------------------
(***************************************************************************)
(* The controls of one comment in websupport.js: the arrows that vote, the *)
(* reply form, the proposal, and the links of its author and of a          *)
(* moderator; and the sort option that a cookie keeps.  What is shown of   *)
(* the controls follows clicks, answers and animations; a re-sort makes    *)
(* the comment's elements anew from the data kept with them.               *)
(*                                                                         *)
(* Of the arrows uv and dv vote, uu and du (pressed) take the vote back.   *)
(***************************************************************************)
EXTENDS Integers, SequencesExt

CONSTANTS
  SortOptions,   \* rating, ascage and age
  Rating,        \* the comment's rating without the user's vote
  MaxVotes,      \* bound: the number of clicks on arrows
  MaxReplies     \* bound: how often the reply form is opened

ASSUME WidgetsAssumption == Rating \in Int

VARIABLES
  moderator,   \* opts.moderator
  comment,     \* the comment's data: vote, rating, displayed, deleted
  arrows,      \* the arrows that are shown
  links,       \* the links that are shown
  replies,     \* the reply forms in the document: whether each closes
  opened,      \* how often the reply form was opened
  votes,       \* how often an arrow was clicked
  sent,        \* the votes under way, in the order of the clicks
  serverData,  \* what the server has of the comment: vote, displayed, deleted
  disordered,  \* history: whether a vote was lost or overtaken
  asked,       \* the requests under way: accept, delete
  cookies,     \* the names in document.cookie, in order
  sortByValue, \* the value of the cookie sortBy
  sortBy       \* the variable by

widgetVars == <<moderator, comment, arrows, links, replies, opened, votes, sent, serverData, disordered, asked,
                cookies, sortByValue, sortBy>>

(* The arrows of a comment that carries a vote. *)
voteArrows(vote) == {IF vote = 1 THEN "uu" ELSE "uv", IF vote = -1 THEN "du" ELSE "dv"}

(* The links createCommentDiv shows, for a comment of the user with a      *)
(* proposal.                                                               *)
createCommentLinks(c) ==
  IF moderator \/ ~c.deleted THEN {"rl", "sp", "dc"} \cup (IF moderator /\ ~c.displayed THEN {"cm"} ELSE {})
  ELSE {}

CommentWidgetsInit ==
  /\ moderator \in BOOLEAN
  /\ \E vote \in {-1, 0, 1} : comment = [vote |-> vote, rating |-> Rating + vote, displayed |-> ~moderator, deleted |-> FALSE]
  /\ arrows = voteArrows(comment.vote)
  /\ links = createCommentLinks(comment)
  /\ replies = <<>>
  /\ opened = 0
  /\ votes = 0
  /\ sent = <<>>
  /\ serverData = [vote |-> comment.vote, displayed |-> comment.displayed, deleted |-> FALSE]
  /\ disordered = FALSE
  /\ asked = {}
  /\ cookies = <<>>
  /\ sortByValue = "rating"
  /\ sortBy = "rating"

(* The arrows after a click: the link and its counterpart are swapped, and *)
(* the other arrow is unpressed when its vote is replaced.                 *)
press(shown, link, value, vote) ==
  LET swap == CASE link = "uv" -> "uu" [] link = "uu" -> "uv" [] link = "dv" -> "du" [] OTHER -> "dv"
      swapped == (shown \ {link}) \cup {swap}
  IN CASE value = 1 /\ vote = -1 -> (swapped \ {"du"}) \cup {"dv"}
       [] value = -1 /\ vote = 1 -> (swapped \ {"uu"}) \cup {"uv"}
       [] OTHER -> swapped

rate(c, value) ==
  [c EXCEPT !.rating = @ + (IF c.vote = 0 THEN value ELSE value - c.vote), !.vote = value]

voteValue(link) == IF link \in {"uu", "du"} THEN 0 ELSE IF link = "uv" THEN 1 ELSE -1

(* Variant: taking a vote back sends it again. *)
handleVoteSendsArrow ==
  \E link \in arrows :
    /\ votes < MaxVotes
    /\ votes' = votes + 1
    /\ arrows' = press(arrows, link, voteValue(link), comment.vote)
    /\ comment' = rate(comment, voteValue(link))
    /\ sent' = Append(sent, IF link \in {"uv", "uu"} THEN 1 ELSE -1)
    /\ UNCHANGED <<moderator, links, replies, opened, serverData, disordered, asked, cookies, sortByValue, sortBy>>

handleVote ==
  \E link \in arrows :
    /\ votes < MaxVotes
    /\ votes' = votes + 1
    /\ arrows' = press(arrows, link, voteValue(link), comment.vote)
    /\ comment' = rate(comment, voteValue(link))
    /\ sent' = Append(sent, voteValue(link))
    /\ UNCHANGED <<moderator, links, replies, opened, serverData, disordered, asked, cookies, sortByValue, sortBy>>

(* The server processes a vote.  The requests may overtake one another. *)
VoteProcessed ==
  \E n \in DOMAIN sent :
    /\ sent' = RemoveAt(sent, n)
    /\ serverData' = [serverData EXCEPT !.vote = sent[n]]
    /\ disordered' = (disordered \/ n > 1)
    /\ UNCHANGED <<moderator, comment, arrows, links, replies, opened, votes, asked, cookies, sortByValue, sortBy>>

(* A vote is lost: an error is shown, rating and arrows stay. *)
VoteFails ==
  \E n \in DOMAIN sent :
    /\ sent' = RemoveAt(sent, n)
    /\ disordered' = TRUE
    /\ UNCHANGED <<moderator, comment, arrows, links, replies, opened, votes, serverData, asked,
                   cookies, sortByValue, sortBy>>

openReply ==
  /\ "rl" \in links /\ opened < MaxReplies
  /\ links' = (links \ {"rl"}) \cup {"cr"}
  /\ replies' = <<FALSE>> \o replies
  /\ opened' = opened + 1
  /\ UNCHANGED <<moderator, comment, arrows, votes, sent, serverData, disordered, asked, cookies, sortByValue, sortBy>>

(* closeReply, by the link or by a button of any form in the document, or  *)
(* after a reply is submitted: the first form slides up.  A link that a    *)
(* deletion has removed is not shown again.                                *)
closeReply ==
  /\ "cr" \in links \/ replies # <<>>
  /\ replies' = IF replies = <<>> THEN replies ELSE [replies EXCEPT ![1] = TRUE]
  /\ links' = IF comment.deleted THEN links ELSE (links \ {"cr"}) \cup {"rl"}
  /\ UNCHANGED <<moderator, comment, arrows, opened, votes, sent, serverData, disordered, asked, cookies, sortByValue, sortBy>>

ReplyRemoved ==
  \E i \in DOMAIN replies :
    /\ replies[i]
    /\ replies' = RemoveAt(replies, i)
    /\ UNCHANGED <<moderator, comment, arrows, links, opened, votes, sent, serverData, disordered, asked, cookies, sortByValue, sortBy>>

showProposal ==
  /\ "sp" \in links
  /\ links' = (links \ {"sp"}) \cup {"hp"}
  /\ UNCHANGED <<moderator, comment, arrows, replies, opened, votes, sent, serverData, disordered, asked,
                 cookies, sortByValue, sortBy>>

hideProposal ==
  /\ "hp" \in links
  /\ links' = (links \ {"hp"}) \cup {"sp"}
  /\ UNCHANGED <<moderator, comment, arrows, replies, opened, votes, sent, serverData, disordered, asked,
                 cookies, sortByValue, sortBy>>

(* acceptComment and, for the author, deleteComment send a request.  (What *)
(* a moderator deletes is gone: see CommentList.)                          *)
acceptComment ==
  /\ "cm" \in links
  /\ asked' = asked \cup {"accept"}
  /\ UNCHANGED <<moderator, comment, arrows, links, replies, opened, votes, sent, serverData, disordered,
                 cookies, sortByValue, sortBy>>

deleteOwnComment ==
  /\ "dc" \in links /\ ~moderator
  /\ asked' = asked \cup {"delete"}
  /\ UNCHANGED <<moderator, comment, arrows, links, replies, opened, votes, sent, serverData, disordered,
                 cookies, sortByValue, sortBy>>

(* What the server does with a request. *)
processed(request) ==
  IF request = "accept" THEN [serverData EXCEPT !.displayed = TRUE] ELSE [serverData EXCEPT !.deleted = TRUE]

(* The links of moderation fade out; the comment's data stay as they are. *)
CommentAccepted ==
  /\ "accept" \in asked
  /\ asked' = asked \ {"accept"}
  /\ serverData' = processed("accept")
  /\ links' = links \ {"cm"}
  /\ UNCHANGED <<moderator, comment, arrows, replies, opened, votes, sent, disordered,
                 cookies, sortByValue, sortBy>>

(* The answer to a user who is not a moderator: the text is replaced, the  *)
(* links are removed, and the data tell.                                   *)
CommentMarkedDeleted ==
  /\ "delete" \in asked /\ ~moderator
  /\ asked' = asked \ {"delete"}
  /\ serverData' = processed("delete")
  /\ links' = {}
  /\ comment' = [comment EXCEPT !.deleted = TRUE]
  /\ UNCHANGED <<moderator, arrows, replies, opened, votes, sent, disordered,
                 cookies, sortByValue, sortBy>>

(* A request is lost, or the answer to it: an error is shown. *)
RequestFailed ==
  \E request \in asked :
    /\ asked' = asked \ {request}
    /\ serverData' \in {serverData, processed(request)}
    /\ UNCHANGED <<moderator, comment, arrows, links, replies, opened, votes, sent, disordered,
                   cookies, sortByValue, sortBy>>

(* handleReSort: the option is kept in the cookie, and every comment's     *)
(* elements are made anew; the reply forms go with the old ones.  The      *)
(* option is cut from the last class of the link, which for the link of    *)
(* the option in use is "sel": clicking it sets the option "l".            *)
ReSort ==
  \E link \in SortOptions :
    /\ sortBy' = IF link = sortBy THEN "l" ELSE link
    /\ sortByValue' = sortBy'
    /\ cookies' = IF "sortBy" \in ToSet(cookies) THEN cookies ELSE Append(cookies, "sortBy")
    /\ arrows' = voteArrows(comment.vote)
    /\ links' = createCommentLinks(comment)
    /\ replies' = <<>>
    /\ UNCHANGED <<moderator, comment, opened, votes, sent, serverData, disordered, asked>>

(* Another script of the site sets a cookie. *)
OtherCookie ==
  /\ "other" \notin ToSet(cookies)
  /\ cookies' = Append(cookies, "other")
  /\ UNCHANGED <<moderator, comment, arrows, links, replies, opened, votes, sent, serverData, disordered, asked,
                 sortByValue, sortBy>>

(* initComparator: the assignment of by is inside "if (end == -1)". *)
initComparator(names, value) == IF names # <<>> /\ Last(names) = "sortBy" THEN value ELSE "rating"

(* The page is loaded again; the comment's data come from the server. *)
Reload ==
  /\ sent = <<>> /\ asked = {}
  /\ sortBy' = initComparator(cookies, sortByValue)
  /\ comment' = [vote |-> serverData.vote, rating |-> Rating + serverData.vote,
                 displayed |-> serverData.displayed, deleted |-> serverData.deleted]
  /\ arrows' = voteArrows(serverData.vote)
  /\ links' = createCommentLinks(comment')
  /\ replies' = <<>>
  /\ disordered' = FALSE
  /\ UNCHANGED <<moderator, opened, votes, sent, serverData, asked, cookies, sortByValue>>

CommentWidgetsNext ==
  \/ handleVote \/ VoteProcessed \/ VoteFails
  \/ openReply \/ closeReply \/ ReplyRemoved \/ showProposal \/ hideProposal
  \/ acceptComment \/ deleteOwnComment \/ CommentAccepted \/ CommentMarkedDeleted \/ RequestFailed
  \/ ReSort \/ OtherCookie \/ Reload

CommentWidgetsSpec == CommentWidgetsInit /\ [][CommentWidgetsNext]_widgetVars

(***************************************************************************)
(* Properties                                                              *)
(***************************************************************************)

(* The arrows show the user's vote and the rating counts it once, through  *)
(* any sequence of votes, re-sorts and reloads.                            *)
ArrowsMatchVote ==
  /\ arrows = voteArrows(comment.vote)
  /\ comment.rating = Rating + comment.vote

(* Once all votes are processed the server has the vote that is shown,     *)
(* unless one was lost or overtaken: nothing takes the display back then.  *)
VoteReachesServer ==
  sent = <<>> /\ ~disordered => serverData.vote = comment.vote

(* The link that closes the reply form is shown exactly while a form is    *)
(* open, unless the comment was deleted; at most the first form is open,   *)
(* the others close, although the handlers look them up by one id.         *)
OneOpenReply ==
  /\ \A i \in DOMAIN replies : i > 1 => replies[i]
  /\ ~comment.deleted => ("cr" \in links <=> replies # <<>> /\ ~replies[1])
  /\ ~({"cr", "rl"} \subseteq links)

(* A comment its author has deleted has no link left, also after a re-sort *)
(* and a reload.                                                           *)
DeletedHasNoLinks == comment.deleted => links = {}

(***************************************************************************)
(* The comment on initComparator: "If the user has preferences stored in   *)
(* the sortBy cookie, use those, otherwise use the default."  It does not  *)
(* hold: after a reload rating is used whenever another cookie follows     *)
(* sortBy.                                                                 *)
(***************************************************************************)
PreferenceUsed == "sortBy" \in ToSet(cookies) => sortBy = sortByValue

(* What is shown of a comment fits together: the arrows with the vote and  *)
(* the server's, the links with the reply form and the deletion.           *)
CommentConsistent ==
  /\ ArrowsMatchVote
  /\ VoteReachesServer
  /\ OneOpenReply
  /\ DeletedHasNoLinks
=============================================================================
