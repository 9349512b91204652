---------------------------- MODULE CommentProofs ----------------------------
(***************************************************************************)
(* Proofs about CommentWidgets: through any number of votes, replies,      *)
(* re-sorts, reloads and answers in any order, what is shown of a comment  *)
(* fits together.                                                          *)
(***************************************************************************)
EXTENDS CommentWidgets, SequenceTheorems, TLAPS

(* The prover of the leaves that name none. *)
USE Zenon

Votes == {-1, 0, 1}

LinkNames == {"rl", "cr", "sp", "hp", "cm", "dc"}

WidgetsTypeOK ==
  /\ moderator \in BOOLEAN
  /\ comment \in [vote: Votes, rating: Int, displayed: BOOLEAN, deleted: BOOLEAN]
  /\ links \subseteq LinkNames
  /\ replies \in Seq(BOOLEAN)
  /\ sent \in Seq(Votes)
  /\ serverData \in [vote: Votes, displayed: BOOLEAN, deleted: BOOLEAN]
  /\ disordered \in BOOLEAN
  /\ asked \subseteq {"accept", "delete"}
  /\ cookies \in Seq({"sortBy", "other"})

(* The vote the server will have when the votes under way are processed in *)
(* order.                                                                  *)
FinalVote == IF sent = <<>> THEN serverData.vote ELSE Last(sent)

(* Only its author, not a moderator, marks a comment as deleted. *)
OwnDeletion == comment.deleted \/ serverData.deleted \/ "delete" \in asked => ~moderator

(***************************************************************************)
(* The inductive invariant.  VoteReachesServer speaks of the moment when   *)
(* no vote is under way; until then the last one under way is the one that *)
(* is shown.                                                               *)
(***************************************************************************)
WInv ==
  /\ WidgetsTypeOK
  /\ ArrowsMatchVote
  /\ ~disordered => FinalVote = comment.vote
  /\ OwnDeletion
  /\ OneOpenReply
  /\ DeletedHasNoLinks

(* The places behind an element that is removed from l elements. *)
LEMMA Shifted ==
  ASSUME NEW l \in Nat, NEW n \in 1 .. l, NEW i \in 1 .. l - 1, ~(i < n)
  PROVE  /\ i - (n - 1) \in 1 .. l - n /\ n + (i - (n - 1)) = i + 1
         /\ i \in 1 .. (n - 1) + (l - n) /\ ~(i <= n - 1)
BY SMT

(* Removing an element of a sequence. *)
LEMMA RemoveAtFacts ==
  ASSUME NEW S, NEW s \in Seq(S), NEW n \in DOMAIN s
  PROVE  /\ RemoveAt(s, n) \in Seq(S)
         /\ Len(RemoveAt(s, n)) = Len(s) - 1
         /\ \A i \in 1 .. Len(s) - 1 : RemoveAt(s, n)[i] = IF i < n THEN s[i] ELSE s[i + 1]
<1> DEFINE a == SubSeq(s, 1, n - 1)
           b == SubSeq(s, n + 1, Len(s))
<1>1. n \in 1 .. Len(s) /\ Len(s) \in Nat
  BY SMT
<1>2. a \in Seq(S) /\ Len(a) = n - 1 /\ \A i \in 1 .. n - 1 : a[i] = s[i]
  BY <1>1, SMT
<1>3. b \in Seq(S) /\ Len(b) = Len(s) - n /\ \A i \in 1 .. Len(s) - n : b[i] = s[n + i]
  BY <1>1, SMT
<1>4. RemoveAt(s, n) = a \o b
  BY DEF RemoveAt
<1> HIDE DEF a, b
<1>5. /\ a \o b \in Seq(S)
      /\ Len(a \o b) = Len(a) + Len(b)
      /\ \A i \in 1 .. Len(a) + Len(b) : (a \o b)[i] = IF i <= Len(a) THEN a[i] ELSE b[i - Len(a)]
  BY <1>2, <1>3, ConcatProperties
<1>6. ASSUME NEW i \in 1 .. Len(s) - 1 PROVE (a \o b)[i] = IF i < n THEN s[i] ELSE s[i + 1]
  <2>1. CASE i < n
    <3>1. i \in 1 .. n - 1 /\ i \in 1 .. Len(a) + Len(b) /\ i <= Len(a)
      BY <1>1, <1>2, <1>3, <2>1, SMT
    <3>2. (a \o b)[i] = a[i]
      BY <1>5, <3>1
    <3>3. a[i] = s[i]
      BY <1>2, <3>1
    <3> QED
      BY <2>1, <3>2, <3>3
  <2>2. CASE ~(i < n)
    <3>0. Len(a) = n - 1 /\ Len(b) = Len(s) - n
      BY <1>2, <1>3
    <3>1. /\ i - (n - 1) \in 1 .. Len(s) - n /\ n + (i - (n - 1)) = i + 1
          /\ i \in 1 .. (n - 1) + (Len(s) - n) /\ ~(i <= n - 1)
      BY <1>1, <2>2, <3>0, Shifted
    <3>2. (a \o b)[i] = b[i - (n - 1)]
      BY <1>5, <3>0, <3>1
    <3>3. b[i - (n - 1)] = s[n + (i - (n - 1))]
      BY <1>3, <3>1
    <3> QED
      BY <2>2, <3>1, <3>2, <3>3
  <2> QED
    BY <2>1, <2>2
<1>7. Len(a \o b) = Len(s) - 1
  BY <1>1, <1>2, <1>3, <1>5, SMT
<1> QED
  BY <1>4, <1>5, <1>6, <1>7

(* The arrows after a click on one of them show the new vote. *)
LEMMA PressRight ==
  ASSUME NEW vote \in Votes, NEW link \in voteArrows(vote)
  PROVE  /\ voteValue(link) \in Votes
         /\ press(voteArrows(vote), link, voteValue(link), vote) = voteArrows(voteValue(link))
<1> USE DEF voteArrows, voteValue, press
<1>1. CASE vote = 0
  BY <1>1, SMT DEF Votes
<1>2. CASE vote = 1
  BY <1>2, SMT DEF Votes
<1>3. CASE vote = -1
  BY <1>3, SMT DEF Votes
<1> QED
  BY <1>1, <1>2, <1>3 DEF Votes

(* The rating counts the new vote instead of the old one. *)
LEMMA RateRight ==
  ASSUME NEW c \in [vote: Votes, rating: Int, displayed: BOOLEAN, deleted: BOOLEAN],
         c.rating = Rating + c.vote, NEW value \in Votes
  PROVE  /\ rate(c, value) \in [vote: Votes, rating: Int, displayed: BOOLEAN, deleted: BOOLEAN]
         /\ rate(c, value).vote = value
         /\ rate(c, value).rating = Rating + value
         /\ rate(c, value).deleted = c.deleted
<1>1. Votes \subseteq Int /\ Rating \in Int
  BY WidgetsAssumption, SMT DEF Votes
<1> DEFINE rating == c.rating + (IF c.vote = 0 THEN value ELSE value - c.vote)
<1>2. rating = Rating + value /\ rating \in Int
  <2>1. c.vote \in Int /\ c.rating \in Int /\ value \in Int
    BY <1>1
  <2> QED
    BY <1>1, <2>1, SMT
<1>3. rate(c, value) = [c EXCEPT !.rating = rating, !.vote = value]
  BY DEF rate
<1> HIDE DEF rating
<1>4. rate(c, value) = [vote |-> value, rating |-> rating, displayed |-> c.displayed, deleted |-> c.deleted]
  BY <1>3
<1>5. c.displayed \in BOOLEAN /\ c.deleted \in BOOLEAN
  OBVIOUS
<1> QED
  BY <1>2, <1>4, <1>5, SMT

LEMMA InitWidgets == CommentWidgetsInit => WInv
<1> SUFFICES ASSUME CommentWidgetsInit PROVE WInv
  OBVIOUS
<1>1. PICK vote \in Votes :
        comment = [vote |-> vote, rating |-> Rating + vote, displayed |-> ~moderator, deleted |-> FALSE]
  BY DEF CommentWidgetsInit, Votes
<1>2. Votes \subseteq Int /\ Rating \in Int
  BY WidgetsAssumption, SMT DEF Votes
<1>3. links \subseteq LinkNames /\ "rl" \in links /\ "cr" \notin links
  BY <1>1 DEF CommentWidgetsInit, createCommentLinks, LinkNames
<1>4. WidgetsTypeOK
  <2>1. moderator \in BOOLEAN /\ disordered \in BOOLEAN /\ asked \subseteq {"accept", "delete"}
    BY DEF CommentWidgetsInit
  <2>2. replies \in Seq(BOOLEAN) /\ sent \in Seq(Votes) /\ cookies \in Seq({"sortBy", "other"})
    BY SMT DEF CommentWidgetsInit
  <2>3. Rating + vote \in Int /\ (~moderator) \in BOOLEAN
    BY <1>2, SMT
  <2>4. comment \in [vote: Votes, rating: Int, displayed: BOOLEAN, deleted: BOOLEAN]
    BY <1>1, <2>3
  <2>5. serverData \in [vote: Votes, displayed: BOOLEAN, deleted: BOOLEAN]
    BY <1>1, <2>4 DEF CommentWidgetsInit
  <2> QED
    BY <1>3, <2>1, <2>2, <2>4, <2>5 DEF WidgetsTypeOK
<1>5. ArrowsMatchVote /\ FinalVote = comment.vote /\ OwnDeletion
  BY <1>1 DEF CommentWidgetsInit, ArrowsMatchVote, FinalVote, OwnDeletion
<1>6. OneOpenReply /\ DeletedHasNoLinks
  BY <1>1, <1>3, SMT DEF CommentWidgetsInit, OneOpenReply, DeletedHasNoLinks, ToSet
<1> QED
  BY <1>4, <1>5, <1>6 DEF WInv

(* A click on an arrow. *)
LEMMA VoteStep ==
  ASSUME WInv, handleVote
  PROVE  WInv'
<1>1. PICK link \in arrows :
        /\ arrows' = press(arrows, link, voteValue(link), comment.vote)
        /\ comment' = rate(comment, voteValue(link))
        /\ sent' = Append(sent, voteValue(link))
        /\ UNCHANGED <<moderator, links, replies, serverData, disordered, asked, cookies>>
  BY DEF handleVote
<1> DEFINE value == voteValue(link)
<1>2. comment.vote \in Votes /\ arrows = voteArrows(comment.vote)
  BY DEF WInv, WidgetsTypeOK, ArrowsMatchVote
<1>3. value \in Votes /\ arrows' = voteArrows(value)
  BY <1>1, <1>2, PressRight
<1>4. /\ comment' \in [vote: Votes, rating: Int, displayed: BOOLEAN, deleted: BOOLEAN]
      /\ comment'.vote = value /\ comment'.rating = Rating + value /\ comment'.deleted = comment.deleted
  BY <1>1, <1>3, RateRight DEF WInv, WidgetsTypeOK, ArrowsMatchVote
<1> HIDE DEF value
<1>5. sent' \in Seq(Votes) /\ sent' # <<>> /\ Last(sent') = value
  <2>1. sent \in Seq(Votes) /\ sent' = Append(sent, value)
    BY <1>1 DEF WInv, WidgetsTypeOK, value
  <2> QED
    BY <1>3, <2>1, SMT DEF Last
<1>6. WidgetsTypeOK'
  BY <1>1, <1>4, <1>5 DEF WInv, WidgetsTypeOK
<1>7. ArrowsMatchVote'
  BY <1>3, <1>4 DEF ArrowsMatchVote
<1>8. FinalVote' = comment'.vote
  BY <1>4, <1>5 DEF FinalVote
<1>9. OwnDeletion' /\ OneOpenReply' /\ DeletedHasNoLinks'
  BY <1>1, <1>4 DEF WInv, OwnDeletion, OneOpenReply, DeletedHasNoLinks
<1> QED
  BY <1>6, <1>7, <1>8, <1>9 DEF WInv

(* The server processes the first vote under way, and the last one under   *)
(* way stays the last; or a later one, and the votes are disordered.       *)
LEMMA ProcessedStep ==
  ASSUME WInv, VoteProcessed
  PROVE  WInv'
<1>1. PICK n \in DOMAIN sent :
        /\ sent' = RemoveAt(sent, n)
        /\ serverData' = [serverData EXCEPT !.vote = sent[n]]
        /\ disordered' = (disordered \/ n > 1)
        /\ UNCHANGED <<moderator, comment, arrows, links, replies, asked, cookies>>
  BY DEF VoteProcessed
<1>2. sent \in Seq(Votes) /\ n \in 1 .. Len(sent) /\ Len(sent) \in Nat
  BY SMT DEF WInv, WidgetsTypeOK
<1>3. /\ sent' \in Seq(Votes)
      /\ Len(sent') = Len(sent) - 1
      /\ \A i \in 1 .. Len(sent) - 1 : sent'[i] = IF i < n THEN sent[i] ELSE sent[i + 1]
  BY <1>1, <1>2, RemoveAtFacts
<1>4. WidgetsTypeOK'
  <2>1. disordered' \in BOOLEAN
    BY <1>1
  <2>2. sent[n] \in Votes
    BY <1>2, SMT
  <2>3. serverData' \in [vote: Votes, displayed: BOOLEAN, deleted: BOOLEAN]
    BY <1>1, <2>2 DEF WInv, WidgetsTypeOK
  <2> QED
    BY <1>1, <1>3, <2>1, <2>3 DEF WInv, WidgetsTypeOK
<1>0. serverData'.vote = sent[n] /\ serverData'.deleted = serverData.deleted
  BY <1>1 DEF WInv, WidgetsTypeOK
<1>5. ASSUME ~disordered' PROVE FinalVote' = comment'.vote
  <2>0. ~(n > 1) /\ ~disordered
    BY <1>1, <1>5
  <2>1. n = 1 /\ ~disordered
    BY <1>2, <2>0, SMT
  <2>2. sent # <<>> /\ sent[Len(sent)] = comment.vote
    BY <1>2, <2>1, SMT DEF WInv, FinalVote, Last
  <2>3. CASE Len(sent) = 1
    <3>1. sent' = <<>>
      BY <1>3, <2>3, SMT
    <3> QED
      BY <1>0, <1>1, <2>1, <2>2, <2>3, <3>1 DEF FinalVote
  <2>4. CASE Len(sent) > 1
    <3>1. sent' # <<>> /\ sent'[Len(sent')] = sent[Len(sent)]
      BY <1>2, <1>3, <2>1, <2>4, SMT
    <3> QED
      BY <1>1, <2>2, <3>1 DEF FinalVote, Last
  <2>5. Len(sent) \in Nat /\ 1 <= n /\ n <= Len(sent)
    BY <1>2, SMT
  <2>6. Len(sent) = 1 \/ Len(sent) > 1
    BY <2>1, <2>5, SMT
  <2> QED
    BY <2>3, <2>4, <2>6
<1>6. ArrowsMatchVote' /\ OwnDeletion' /\ OneOpenReply' /\ DeletedHasNoLinks'
  BY <1>0, <1>1 DEF WInv, ArrowsMatchVote, OwnDeletion, OneOpenReply, DeletedHasNoLinks
<1> QED
  BY <1>4, <1>5, <1>6 DEF WInv

(* A vote is lost. *)
LEMMA FailedStep ==
  ASSUME WInv, VoteFails
  PROVE  WInv'
<1>1. PICK n \in DOMAIN sent :
        /\ sent' = RemoveAt(sent, n)
        /\ disordered' = TRUE
        /\ UNCHANGED <<moderator, comment, arrows, links, replies, serverData, asked, cookies>>
  BY DEF VoteFails
<1>2. sent' \in Seq(Votes)
  BY <1>1, RemoveAtFacts DEF WInv, WidgetsTypeOK
<1>3. WidgetsTypeOK'
  BY <1>1, <1>2 DEF WInv, WidgetsTypeOK
<1>4. ArrowsMatchVote' /\ OwnDeletion' /\ OneOpenReply' /\ DeletedHasNoLinks'
  BY <1>1 DEF WInv, ArrowsMatchVote, OwnDeletion, OneOpenReply, DeletedHasNoLinks
<1> QED
  BY <1>1, <1>3, <1>4 DEF WInv

(* The steps that only change what is shown of the links and the forms. *)
LEMMA ShownStep ==
  ASSUME WInv, links' \subseteq LinkNames, replies' \in Seq(BOOLEAN), OneOpenReply', DeletedHasNoLinks',
         UNCHANGED <<moderator, comment, arrows, sent, serverData, disordered, asked, cookies>>
  PROVE  WInv'
<1>1. WidgetsTypeOK'
  BY DEF WInv, WidgetsTypeOK
<1>2. ArrowsMatchVote' /\ (~disordered => FinalVote = comment.vote)' /\ OwnDeletion'
  BY DEF WInv, ArrowsMatchVote, FinalVote, OwnDeletion
<1> QED
  BY <1>1, <1>2 DEF WInv

(* The reply form is opened: the link that opens it is shown, so that no   *)
(* form is open, and a form that is still in the document closes.          *)
LEMMA OpenStep ==
  ASSUME WInv, openReply
  PROVE  WInv'
<1>1. /\ "rl" \in links
      /\ links' = (links \ {"rl"}) \cup {"cr"}
      /\ replies' = <<FALSE>> \o replies
      /\ UNCHANGED <<moderator, comment, arrows, sent, serverData, disordered, asked, cookies>>
  BY DEF openReply
<1>2. replies \in Seq(BOOLEAN) /\ Len(replies) \in Nat /\ links \subseteq LinkNames
  BY SMT DEF WInv, WidgetsTypeOK
<1>3. ~comment.deleted /\ "cr" \notin links
  BY <1>1 DEF WInv, DeletedHasNoLinks, OneOpenReply
<1>4. \A i \in DOMAIN replies : replies[i]
  <2> SUFFICES ASSUME NEW i \in DOMAIN replies PROVE replies[i]
    OBVIOUS
  <2>1. i > 1 => replies[i]
    BY DEF WInv, OneOpenReply
  <2>2. replies # <<>> => replies[1]
    BY <1>3 DEF WInv, OneOpenReply
  <2> QED
    BY <1>2, <2>1, <2>2, SMT
<1>5. /\ replies' \in Seq(BOOLEAN) /\ replies' # <<>>
      /\ Len(replies') = Len(replies) + 1
      /\ ~replies'[1]
      /\ \A i \in DOMAIN replies' : i > 1 => i - 1 \in DOMAIN replies /\ replies'[i] = replies[i - 1]
  BY <1>1, <1>2, SMT
<1>6. OneOpenReply'
  <2>1. \A i \in DOMAIN replies' : i > 1 => replies'[i]
    BY <1>4, <1>5
  <2> QED
    BY <1>1, <1>5, <2>1 DEF OneOpenReply
<1>7. DeletedHasNoLinks' /\ links' \subseteq LinkNames
  BY <1>1, <1>2, <1>3 DEF DeletedHasNoLinks, LinkNames
<1> QED
  BY <1>1, <1>5, <1>6, <1>7, ShownStep

LEMMA CloseStep ==
  ASSUME WInv, closeReply
  PROVE  WInv'
<1>1. /\ "cr" \in links \/ replies # <<>>
      /\ replies' = IF replies = <<>> THEN replies ELSE [replies EXCEPT ![1] = TRUE]
      /\ links' = IF comment.deleted THEN links ELSE (links \ {"cr"}) \cup {"rl"}
      /\ UNCHANGED <<moderator, comment, arrows, sent, serverData, disordered, asked, cookies>>
  BY DEF closeReply
<1>2. replies \in Seq(BOOLEAN) /\ Len(replies) \in Nat /\ links \subseteq LinkNames
  BY SMT DEF WInv, WidgetsTypeOK
<1>3. /\ replies' \in Seq(BOOLEAN)
      /\ DOMAIN replies' = DOMAIN replies
      /\ replies' # <<>> => replies'[1]
      /\ \A i \in DOMAIN replies : i > 1 => replies'[i] = replies[i]
  <2>1. CASE replies = <<>>
    BY <1>1, <1>2, <2>1
  <2>2. CASE replies # <<>>
    <3>1. 1 \in DOMAIN replies /\ replies' = [replies EXCEPT ![1] = TRUE]
      BY <1>1, <1>2, <2>2, SMT
    <3>2. \A i \in DOMAIN replies : replies[i] \in BOOLEAN
      BY <1>2, SMT
    <3>3. replies' \in [1 .. Len(replies) -> BOOLEAN]
      BY <1>2, <3>1, <3>2, SMT
    <3>4. replies'[1] = TRUE /\ \A i \in DOMAIN replies : i # 1 => replies'[i] = replies[i]
      BY <3>1
    <3>6. \A i \in DOMAIN replies : i > 1 => i # 1
      BY <1>2, SMT
    <3>5. replies' \in Seq(BOOLEAN) /\ DOMAIN replies' = DOMAIN replies
      BY <1>2, <3>3, SMT
    <3> QED
      BY <3>4, <3>5, <3>6
  <2> QED
    BY <2>1, <2>2
<1>4. \A i \in DOMAIN replies' : i > 1 => replies'[i]
  BY <1>3 DEF WInv, OneOpenReply
<1>5. OneOpenReply' /\ DeletedHasNoLinks' /\ links' \subseteq LinkNames
  <2>1. CASE comment.deleted
    BY <1>1, <1>2, <1>4, <2>1 DEF WInv, OneOpenReply, DeletedHasNoLinks
  <2>2. CASE ~comment.deleted
    BY <1>1, <1>2, <1>3, <1>4, <2>2 DEF OneOpenReply, DeletedHasNoLinks, LinkNames
  <2> QED
    BY <2>1, <2>2
<1> QED
  BY <1>1, <1>3, <1>5, ShownStep

(* A form that closes is removed: the first one, and the next one closes   *)
(* already; or another one, and the first one stays.                       *)
LEMMA RemovedStep ==
  ASSUME WInv, ReplyRemoved
  PROVE  WInv'
<1>1. PICK i \in DOMAIN replies :
        /\ replies[i]
        /\ replies' = RemoveAt(replies, i)
        /\ UNCHANGED <<moderator, comment, arrows, links, sent, serverData, disordered, asked, cookies>>
  BY DEF ReplyRemoved
<1>2. replies \in Seq(BOOLEAN) /\ links \subseteq LinkNames
  BY DEF WInv, WidgetsTypeOK
<1>3. Len(replies) \in Nat /\ 1 <= i /\ i <= Len(replies) /\ DOMAIN replies = 1 .. Len(replies) /\ i \in Nat
  BY <1>2, SMT
<1>4. /\ replies' \in Seq(BOOLEAN)
      /\ Len(replies') = Len(replies) - 1
      /\ \A k \in 1 .. Len(replies) - 1 : replies'[k] = IF k < i THEN replies[k] ELSE replies[k + 1]
  BY <1>1, <1>2, RemoveAtFacts
<1>5. DOMAIN replies' = 1 .. Len(replies) - 1
  BY <1>4, SMT
<1>6. \A k \in DOMAIN replies : k > 1 => replies[k]
  BY DEF WInv, OneOpenReply
<1>7. \A k \in DOMAIN replies' : k > 1 => replies'[k]
  <2> SUFFICES ASSUME NEW k \in DOMAIN replies', k > 1 PROVE replies'[k]
    OBVIOUS
  <2>1. k \in 1 .. Len(replies) - 1 /\ k \in DOMAIN replies /\ k + 1 \in DOMAIN replies /\ k + 1 > 1
    BY <1>3, <1>5, SMT
  <2>2. replies[k] /\ replies[k + 1]
    BY <1>6, <2>1
  <2> QED
    BY <1>4, <2>1, <2>2
<1>8. (replies' # <<>> /\ ~replies'[1]) <=> (replies # <<>> /\ ~replies[1])
  <2>1. replies # <<>>
    BY <1>2, <1>3, SMT
  <2>2. CASE i = 1
    <3>1. replies' # <<>> => replies'[1]
      <4> SUFFICES ASSUME replies' # <<>> PROVE replies'[1]
        OBVIOUS
      <4>1. Len(replies) - 1 >= 1
        BY <1>3, <1>4, SMT
      <4>2. replies'[1] = replies[2] /\ 2 \in DOMAIN replies
        BY <1>3, <1>4, <2>2, <4>1, SMT
      <4> QED
        BY <1>6, <4>2, SMT
    <3>2. replies[1]
      BY <1>1, <2>2
    <3> QED
      BY <3>1, <3>2
  <2>3. CASE i > 1
    <3>1. 1 \in 1 .. Len(replies) - 1 /\ 1 < i
      BY <1>3, <2>3, SMT
    <3>2. replies'[1] = replies[1] /\ replies' # <<>>
      BY <1>3, <1>4, <3>1, SMT
    <3> QED
      BY <2>1, <3>2
  <2>4. i = 1 \/ i > 1
    BY <1>3, SMT
  <2> QED
    BY <2>2, <2>3, <2>4
<1>9. OneOpenReply' /\ DeletedHasNoLinks'
  BY <1>1, <1>7, <1>8 DEF WInv, OneOpenReply, DeletedHasNoLinks
<1> QED
  BY <1>1, <1>2, <1>4, <1>9, ShownStep

(* The proposal is shown or hidden. *)
LEMMA LinksStep ==
  ASSUME WInv, showProposal \/ hideProposal
  PROVE  WInv'
<1>1. /\ \/ "sp" \in links /\ links' = (links \ {"sp"}) \cup {"hp"}
         \/ "hp" \in links /\ links' = (links \ {"hp"}) \cup {"sp"}
      /\ UNCHANGED <<moderator, comment, arrows, replies, sent, serverData, disordered, asked, cookies>>
  BY DEF showProposal, hideProposal
<1>2. links \subseteq LinkNames /\ replies \in Seq(BOOLEAN)
  BY DEF WInv, WidgetsTypeOK
<1>3. /\ links' \subseteq LinkNames
      /\ "cr" \in links' <=> "cr" \in links
      /\ "rl" \in links' <=> "rl" \in links
      /\ links = {} => links' = {}
  BY <1>1, <1>2 DEF LinkNames
<1>4. OneOpenReply' /\ DeletedHasNoLinks'
  BY <1>1, <1>3 DEF WInv, OneOpenReply, DeletedHasNoLinks
<1> QED
  BY <1>1, <1>2, <1>3, <1>4, ShownStep

(* What the server does with a request leaves the vote alone, and a        *)
(* comment is only deleted by request.                                     *)
LEMMA ProcessedRequest ==
  ASSUME WInv, NEW request \in asked
  PROVE  /\ processed(request) \in [vote: Votes, displayed: BOOLEAN, deleted: BOOLEAN]
         /\ processed(request).vote = serverData.vote
         /\ processed(request).deleted => ~moderator
<1>1. serverData \in [vote: Votes, displayed: BOOLEAN, deleted: BOOLEAN]
  BY DEF WInv, WidgetsTypeOK
<1>2. CASE request = "accept"
  <2>1. processed(request) = [serverData EXCEPT !.displayed = TRUE]
    BY <1>2 DEF processed
  <2>2. serverData.deleted => ~moderator
    BY DEF WInv, OwnDeletion
  <2> QED
    BY <1>1, <2>1, <2>2
<1>3. CASE request # "accept"
  <2>1. processed(request) = [serverData EXCEPT !.deleted = TRUE]
    BY <1>3 DEF processed
  <2>0. asked \subseteq {"accept", "delete"}
    BY DEF WInv, WidgetsTypeOK
  <2>2. ~moderator
    <3>1. "delete" \in asked
      BY <1>3, <2>0
    <3> QED
      BY <3>1 DEF WInv, OwnDeletion
  <2> QED
    BY <1>1, <2>1, <2>2
<1> QED
  BY <1>2, <1>3

(* A request is sent, or ends: of the comment the server's deletion        *)
(* changes, and the links of moderation fade out.                          *)
LEMMA RequestStep ==
  ASSUME WInv, acceptComment \/ deleteOwnComment \/ CommentAccepted \/ RequestFailed
  PROVE  WInv'
<1>1. /\ links' \in {links, links \ {"cm"}}
      /\ asked' \subseteq {"accept", "delete"}
      /\ "delete" \in asked' => ~moderator
      /\ serverData' = serverData \/ \E request \in asked : serverData' = processed(request)
      /\ UNCHANGED <<moderator, comment, arrows, replies, sent, disordered, cookies>>
  <2>0. asked \subseteq {"accept", "delete"} /\ ("delete" \in asked => ~moderator)
    BY DEF WInv, WidgetsTypeOK, OwnDeletion
  <2>1. CASE acceptComment
    BY <2>0, <2>1 DEF acceptComment
  <2>2. CASE deleteOwnComment
    BY <2>0, <2>2 DEF deleteOwnComment
  <2>3. CASE CommentAccepted
    BY <2>0, <2>3 DEF CommentAccepted
  <2>4. CASE RequestFailed
    <3>1. PICK request \in asked :
            /\ asked' = asked \ {request}
            /\ serverData' = serverData \/ serverData' = processed(request)
            /\ UNCHANGED <<moderator, comment, arrows, links, replies, sent, disordered, cookies>>
      BY <2>4 DEF RequestFailed
    <3> QED
      BY <2>0, <3>1
  <2> QED
    BY <2>1, <2>2, <2>3, <2>4
<1>2. /\ serverData' \in [vote: Votes, displayed: BOOLEAN, deleted: BOOLEAN]
      /\ serverData'.vote = serverData.vote
      /\ serverData'.deleted => ~moderator
  BY <1>1, ProcessedRequest DEF WInv, WidgetsTypeOK, OwnDeletion
<1>3. /\ links' \subseteq LinkNames
      /\ "cr" \in links' <=> "cr" \in links
      /\ "rl" \in links' <=> "rl" \in links
      /\ links = {} => links' = {}
  BY <1>1 DEF WInv, WidgetsTypeOK
<1>5. WidgetsTypeOK'
  BY <1>1, <1>2, <1>3 DEF WInv, WidgetsTypeOK
<1>6. ArrowsMatchVote' /\ (~disordered => FinalVote = comment.vote)' /\ OwnDeletion'
  BY <1>1, <1>2 DEF WInv, ArrowsMatchVote, FinalVote, OwnDeletion
<1>7. OneOpenReply' /\ DeletedHasNoLinks'
  BY <1>1, <1>3 DEF WInv, OneOpenReply, DeletedHasNoLinks
<1> QED
  BY <1>5, <1>6, <1>7 DEF WInv

(* The author sees the comment marked as deleted. *)
LEMMA DeletedStep ==
  ASSUME WInv, CommentMarkedDeleted
  PROVE  WInv'
<1>1. /\ ~moderator
      /\ links' = {}
      /\ comment' = [comment EXCEPT !.deleted = TRUE]
      /\ "delete" \in asked /\ serverData' = processed("delete") /\ asked' \subseteq asked
      /\ UNCHANGED <<moderator, arrows, replies, sent, disordered, cookies>>
  BY DEF CommentMarkedDeleted
<1>0. serverData' \in [vote: Votes, displayed: BOOLEAN, deleted: BOOLEAN] /\ serverData'.vote = serverData.vote
  BY <1>1, ProcessedRequest
<1>2. comment \in [vote: Votes, rating: Int, displayed: BOOLEAN, deleted: BOOLEAN]
  BY DEF WInv, WidgetsTypeOK
<1>3. /\ comment' \in [vote: Votes, rating: Int, displayed: BOOLEAN, deleted: BOOLEAN]
      /\ comment'.vote = comment.vote /\ comment'.rating = comment.rating /\ comment'.deleted
  BY <1>1, <1>2
<1>4. WidgetsTypeOK'
  BY <1>0, <1>1, <1>3 DEF WInv, WidgetsTypeOK
<1>5. ArrowsMatchVote' /\ (~disordered => FinalVote = comment.vote)' /\ OwnDeletion'
  BY <1>0, <1>1, <1>3 DEF WInv, ArrowsMatchVote, FinalVote, OwnDeletion
<1>6. OneOpenReply' /\ DeletedHasNoLinks'
  BY <1>1, <1>3 DEF WInv, OneOpenReply, DeletedHasNoLinks
<1> QED
  BY <1>4, <1>5, <1>6 DEF WInv

(* The links of a comment whose elements are made anew. *)
LEMMA CreatedLinks ==
  ASSUME NEW c, c.deleted => ~moderator
  PROVE  /\ createCommentLinks(c) \subseteq LinkNames
         /\ "cr" \notin createCommentLinks(c)
         /\ c.deleted => createCommentLinks(c) = {}
BY DEF createCommentLinks, LinkNames

LEMMA ReSortStep ==
  ASSUME WInv, ReSort
  PROVE  WInv'
<1>1. /\ cookies' = IF "sortBy" \in ToSet(cookies) THEN cookies ELSE Append(cookies, "sortBy")
      /\ arrows' = voteArrows(comment.vote)
      /\ links' = createCommentLinks(comment)
      /\ replies' = <<>>
      /\ UNCHANGED <<moderator, comment, sent, serverData, disordered, asked>>
  BY DEF ReSort
<1>2. cookies' \in Seq({"sortBy", "other"}) /\ replies' \in Seq(BOOLEAN)
  BY <1>1, SMT DEF WInv, WidgetsTypeOK
<1>3. links' \subseteq LinkNames /\ "cr" \notin links' /\ (comment.deleted => links' = {})
  BY <1>1, CreatedLinks DEF WInv, OwnDeletion
<1>4. WidgetsTypeOK'
  BY <1>1, <1>2, <1>3 DEF WInv, WidgetsTypeOK
<1>5. ArrowsMatchVote' /\ (~disordered => FinalVote = comment.vote)' /\ OwnDeletion'
  BY <1>1 DEF WInv, ArrowsMatchVote, FinalVote, OwnDeletion
<1>6. OneOpenReply' /\ DeletedHasNoLinks'
  BY <1>1, <1>3, SMT DEF OneOpenReply, DeletedHasNoLinks
<1> QED
  BY <1>4, <1>5, <1>6 DEF WInv

(* Another cookie is set. *)
LEMMA CookieStep ==
  ASSUME WInv, OtherCookie
  PROVE  WInv'
<1>1. /\ cookies' = Append(cookies, "other")
      /\ UNCHANGED <<moderator, comment, arrows, links, replies, sent, serverData, disordered, asked>>
  BY DEF OtherCookie
<1>2. cookies' \in Seq({"sortBy", "other"})
  BY <1>1, SMT DEF WInv, WidgetsTypeOK
<1>3. WidgetsTypeOK'
  BY <1>1, <1>2 DEF WInv, WidgetsTypeOK
<1>4. /\ ArrowsMatchVote' /\ (~disordered => FinalVote = comment.vote)' /\ OwnDeletion'
      /\ OneOpenReply' /\ DeletedHasNoLinks'
  BY <1>1 DEF WInv, ArrowsMatchVote, FinalVote, OwnDeletion, OneOpenReply, DeletedHasNoLinks
<1> QED
  BY <1>3, <1>4 DEF WInv

(* The page is loaded again: the comment is as the server has it. *)
LEMMA ReloadStep ==
  ASSUME WInv, Reload
  PROVE  WInv'
<1>1. /\ sent = <<>>
      /\ comment' = [vote |-> serverData.vote, rating |-> Rating + serverData.vote,
                     displayed |-> serverData.displayed, deleted |-> serverData.deleted]
      /\ arrows' = voteArrows(serverData.vote)
      /\ links' = createCommentLinks(comment')
      /\ replies' = <<>>
      /\ disordered' = FALSE
      /\ UNCHANGED <<moderator, sent, serverData, asked, cookies>>
  BY DEF Reload
<1>2. serverData.vote \in Votes /\ serverData.displayed \in BOOLEAN /\ serverData.deleted \in BOOLEAN
  BY DEF WInv, WidgetsTypeOK
<1>3. Rating + serverData.vote \in Int
  <2>1. serverData.vote \in Int
    BY <1>2, SMT DEF Votes
  <2> QED
    BY <2>1, WidgetsAssumption, SMT
<1>4. /\ comment' \in [vote: Votes, rating: Int, displayed: BOOLEAN, deleted: BOOLEAN]
      /\ comment'.vote = serverData.vote /\ comment'.rating = Rating + serverData.vote /\ comment'.deleted = serverData.deleted
  BY <1>1, <1>2, <1>3
<1>5. links' \subseteq LinkNames /\ "cr" \notin links' /\ (comment'.deleted => links' = {})
  <2>1. comment'.deleted => ~moderator
    BY <1>4 DEF WInv, OwnDeletion
  <2> QED
    BY <1>1, <2>1, CreatedLinks
<1>6. WidgetsTypeOK'
  <2>0. replies' = <<>> /\ disordered' = FALSE
    BY <1>1
  <2>1. replies' \in Seq(BOOLEAN)
    BY <2>0, SMT
  <2>2. disordered' \in BOOLEAN
    BY <2>0
  <2> QED
    BY <1>1, <1>4, <1>5, <2>1, <2>2 DEF WInv, WidgetsTypeOK
<1>7. ArrowsMatchVote' /\ (~disordered => FinalVote = comment.vote)' /\ OwnDeletion'
  BY <1>1, <1>4 DEF WInv, ArrowsMatchVote, FinalVote, OwnDeletion
<1>8. OneOpenReply' /\ DeletedHasNoLinks'
  BY <1>1, <1>5, SMT DEF OneOpenReply, DeletedHasNoLinks
<1> QED
  BY <1>6, <1>7, <1>8 DEF WInv

(* What is shown of a comment fits together, for any number of clicks,     *)
(* replies and reloads and whatever order the answers come in: the arrows  *)
(* and the rating with the vote, the links with the reply form and the     *)
(* deletion; and unless a vote was lost or overtaken, the server ends up   *)
(* with the vote that is shown.                                            *)
THEOREM CommentFits == CommentWidgetsSpec => []CommentConsistent
<1>1. WInv /\ [CommentWidgetsNext]_widgetVars => WInv'
  <2> SUFFICES ASSUME WInv, [CommentWidgetsNext]_widgetVars PROVE WInv'
    OBVIOUS
  <2>1. CASE handleVote
    BY <2>1, VoteStep
  <2>2. CASE VoteProcessed
    BY <2>2, ProcessedStep
  <2>3. CASE VoteFails
    BY <2>3, FailedStep
  <2>4. CASE openReply
    BY <2>4, OpenStep
  <2>5. CASE closeReply
    BY <2>5, CloseStep
  <2>6. CASE ReplyRemoved
    BY <2>6, RemovedStep
  <2>7. CASE showProposal \/ hideProposal
    BY <2>7, LinksStep
  <2>8. CASE acceptComment \/ deleteOwnComment \/ CommentAccepted \/ RequestFailed
    BY <2>8, RequestStep
  <2>9. CASE CommentMarkedDeleted
    BY <2>9, DeletedStep
  <2>10. CASE ReSort
    BY <2>10, ReSortStep
  <2>11. CASE OtherCookie
    BY <2>11, CookieStep
  <2>12. CASE Reload
    BY <2>12, ReloadStep
  <2>13. CASE UNCHANGED widgetVars
    BY <2>13 DEF widgetVars, WInv, WidgetsTypeOK, ArrowsMatchVote, FinalVote, OwnDeletion, OneOpenReply, DeletedHasNoLinks
  <2> QED
    BY <2>1, <2>2, <2>3, <2>4, <2>5, <2>6, <2>7, <2>8, <2>9, <2>10, <2>11, <2>12, <2>13 DEF CommentWidgetsNext
<1>2. WInv => CommentConsistent
  BY DEF WInv, FinalVote, CommentConsistent, VoteReachesServer
<1> QED
  BY InitWidgets, <1>1, <1>2, PTL DEF CommentWidgetsSpec
==============================================================================
