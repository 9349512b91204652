CONSTANTS
  SortOptions = {"rating", "age"}
  Rating = 3
  MaxVotes = 0
  MaxReplies = 0
SPECIFICATION CommentWidgetsSpec
INVARIANT PreferenceUsed
CHECK_DEADLOCK FALSE
