------------------------------- MODULE DocPage -------------------------------
(***************************************************************************)
(* A page of the documentation: what Documentation of doctools.js and      *)
(* theme.js do when it is ready, on timeouts and on clicks.                *)
(* The searched words are marked by a timeout; a link hides the marks.     *)
(* The domain index has images that fold its groups.  The navigation and   *)
(* the box of versions slide with the class shift.                         *)
(***************************************************************************)
EXTENDS Integers, FiniteSets

CONSTANTS
  Groups,      \* the groups of the domain index
  NavHeight,   \* the height of the navigation
  Heights,     \* the heights the window can have
  MaxClicks    \* bound: the clicks on links of the navigation

VARIABLES
  options,       \* of this page: highlight (words in the address), COLLAPSE_INDEX
  pageReady,     \* whether the ready functions ran
  markTimer,     \* whether the timeout of highlightSearchWords is pending
  marked,        \* whether words carry the class highlighted
  hideLink,      \* the link that hides them: none, shown or fading (also faded out)
  minus,         \* the groups whose image is minus.png
  shownGroups,   \* the groups whose rows are displayed
  navShift,      \* the class shift of the navigation
  versionsShift, \* the class shift of the box of versions
  closedClicks,  \* history: clicks on links of the navigation while it was not shifted
  winHeight,     \* the height of the window
  stickynav      \* the class stickynav of the navigation

docVars == <<options, pageReady, markTimer, marked, hideLink, minus, shownGroups, navShift, versionsShift,
             closedClicks, winHeight, stickynav>>

DocPageInit ==
  /\ options \in [highlight : BOOLEAN, COLLAPSE_INDEX : BOOLEAN]
  /\ pageReady = FALSE
  /\ markTimer = FALSE
  /\ marked = FALSE
  /\ hideLink = "none"
  /\ minus = Groups
  /\ shownGroups = Groups
  /\ navShift = FALSE
  /\ versionsShift = FALSE
  /\ closedClicks = 0
  /\ winHeight \in Heights
  /\ stickynav = FALSE

(* $('tr.cg-...').toggle() for each of the groups *)
toggler(shown, groups) == (shown \ groups) \cup (groups \ shown)

applyStickNav(height) == NavHeight <= height

(* Documentation.init: highlightSearchWords and initIndexTable, which      *)
(* clicks on every image when the index is to be collapsed; and            *)
(* StickyNav.enable.                                                       *)
PageReady ==
  /\ ~pageReady
  /\ pageReady' = TRUE
  /\ markTimer' = options.highlight
  /\ hideLink' = IF options.highlight THEN "shown" ELSE "none"
  /\ LET clicked == IF options.COLLAPSE_INDEX THEN Groups ELSE {}
     IN shownGroups' = toggler(shownGroups, clicked) /\ minus' = toggler(minus, clicked)
  /\ stickynav' = applyStickNav(winHeight)
  /\ UNCHANGED <<options, marked, navShift, versionsShift, closedClicks, winHeight>>

MarkWords ==
  /\ markTimer
  /\ markTimer' = FALSE
  /\ marked' = TRUE
  /\ UNCHANGED <<options, pageReady, hideLink, minus, shownGroups, navShift, versionsShift, closedClicks,
                 winHeight, stickynav>>

(* The link may be clicked while it fades out. *)
hideSearchWords ==
  /\ hideLink # "none"
  /\ hideLink' = "fading"
  /\ marked' = FALSE
  /\ UNCHANGED <<options, pageReady, markTimer, minus, shownGroups, navShift, versionsShift, closedClicks,
                 winHeight, stickynav>>

(* A click on the image of a group. *)
ClickToggler ==
  \E group \in Groups :
    /\ pageReady
    /\ shownGroups' = toggler(shownGroups, {group})
    /\ minus' = IF group \in minus THEN minus \ {group} ELSE minus \cup {group}
    /\ UNCHANGED <<options, pageReady, markTimer, marked, hideLink, navShift, versionsShift, closedClicks,
                   winHeight, stickynav>>

ClickNavTop ==
  /\ pageReady
  /\ navShift' = ~navShift
  /\ versionsShift' = ~versionsShift
  /\ UNCHANGED <<options, pageReady, markTimer, marked, hideLink, minus, shownGroups, closedClicks,
                 winHeight, stickynav>>

(* Variant: the class is toggled on both. *)
ClickNavLinkToggles ==
  /\ pageReady /\ closedClicks < MaxClicks
  /\ navShift' = ~navShift
  /\ versionsShift' = ~versionsShift
  /\ closedClicks' = IF navShift THEN closedClicks ELSE closedClicks + 1
  /\ UNCHANGED <<options, pageReady, markTimer, marked, hideLink, minus, shownGroups,
                 winHeight, stickynav>>

(* "Close menu when you click a link": the class is removed from the       *)
(* navigation and toggled on the box of versions.                          *)
ClickNavLink ==
  /\ pageReady /\ closedClicks < MaxClicks
  /\ navShift' = FALSE
  /\ versionsShift' = ~versionsShift
  /\ closedClicks' = IF navShift THEN closedClicks ELSE closedClicks + 1
  /\ UNCHANGED <<options, pageReady, markTimer, marked, hideLink, minus, shownGroups,
                 winHeight, stickynav>>

Resize ==
  /\ pageReady
  /\ winHeight' \in Heights
  /\ stickynav' = applyStickNav(winHeight')
  /\ UNCHANGED <<options, pageReady, markTimer, marked, hideLink, minus, shownGroups, navShift, versionsShift,
                 closedClicks>>

DocPageNext ==
  \/ PageReady \/ MarkWords \/ hideSearchWords \/ ClickToggler \/ ClickNavTop \/ ClickNavLink \/ Resize

DocPageSpec == DocPageInit /\ [][DocPageNext]_docVars /\ WF_docVars(MarkWords)

(***************************************************************************)
(* Properties                                                              *)
(***************************************************************************)

(* A group of the index is displayed exactly while its image is the minus, *)
(* whatever was clicked and whether the index was collapsed at first.      *)
ImageMatchesRows == shownGroups = minus

(* Navigation and versions are shifted together, except after an odd       *)
(* number of clicks on links while the navigation was not shifted: such a  *)
(* click shifts the versions only.                                         *)
ShiftedTogether == (navShift = versionsShift) <=> closedClicks % 2 = 0

(* The words of the address are marked in the end, or were hidden.         *)
WordsMarked == pageReady /\ options.highlight ~> marked \/ hideLink = "fading"

(* Clicks in any order leave what a page shows consistent: a group of the  *)
(* index with its image, and the navigation with the versions; the words   *)
(* that were searched for are marked.                                      *)
PageConsistent ==
  /\ [](ImageMatchesRows /\ ShiftedTogether)
  /\ WordsMarked
=============================================================================
