------------------------------- MODULE DocPage -------------------------------
(***************************************************************************)
(* The scripts of a documentation page together, in the order the page     *)
(* runs them: the call of toc() at its end, then the ready handlers of     *)
(* doctools.js (Documentation.init), highlightCode.js, scrollTo.js and     *)
(* contentsFix.js; afterwards timers, and clicks of the reader on links of *)
(* the table of contents, on the toggle images of an index and on "Hide    *)
(* Search Matches".  jQuery runs the handlers in a loop without a try: one *)
(* that throws is the last to run.                                         *)
(*                                                                         *)
(* Modules QueryParameters, Toc, HighlightText and HighlightEffect give    *)
(* the details of the steps that are single actions here.                  *)
(*                                                                         *)
(* The window is a scrollTop.  doctools.js puts a search in arrays in the  *)
(* place of jQuery.contains, by which offset() finds out whether an        *)
(* element is in the document: it now always answers with the place in the *)
(* window, not in the document.                                            *)
(***************************************************************************)
EXTENDS Integers, Sequences, FiniteSets

CONSTANTS MaxHeadings,  \* headings in the table of contents (bound)
          Toggler,      \* toggle images of an index
          Pre,          \* code blocks
          MaxClicks,    \* clicks of the reader (bound)
          HeadingTop,   \* where each heading is, from the top of the page
          LastTop       \* the window's scrollTop at the end of the page

Heading == 1 .. MaxHeadings
PageAssumption == /\ MaxHeadings \in Nat /\ MaxClicks \in Nat
                  /\ HeadingTop \in [Heading -> Nat] /\ LastTop \in Nat

VARIABLES
  page,     \* what the page and its address are: see Page
  stage,    \* the script that runs next, "loaded", or "aborted"
  links,    \* entries of the table of contents
  timers,   \* window.setTimeout callbacks to come
  marks,    \* words highlighted in the text
  hideLink, \* "Hide Search Matches": "absent", "shown", "fading" or "hidden"
  icon,     \* the image of each toggler
  rows,     \* whether the index rows of each toggler are visible
  pretty,   \* code blocks with the class prettyprint
  printed,  \* calls of prettyPrint
  bound,    \* the links have the click handler of scrollTo.js
  title,    \* contents-title is visible
  scrolls,  \* the fx queue of html and body: the scrollTops to animate to
  top,      \* the window's scrollTop, or where the running animation was seen last
  glows,    \* highlight effects queued for each heading
  clicked,  \* history: the last click on a link that led anywhere, if any
  clicks    \* clicks so far

script == <<stage, links, timers, marks, hideLink, pretty, printed, bound, title>>
reader == <<scrolls, top, glows, clicked, clicks>>
vars == <<page, script, icon, rows, reader>>

(* The query has no highlight key, one with words, or cannot be parsed; the *)
(* id made of a heading consists of word characters, or of others too, and *)
(* then location.hash holds it with escapes.                               *)
Page == [query : {"none", "words", "unreadable"},
         hash : BOOLEAN, mozilla : BOOLEAN, collapse : BOOLEAN, menu : BOOLEAN,
         ids : UNION {[1 .. n -> {"word", "other"}] : n \in 0 .. MaxHeadings},
         plain : SUBSET Pre, disabled : BOOLEAN]

(* A click on a link: the scrollTop at that time, and whether the handler   *)
(* took it or the browser.                                                 *)
LinkClick == [link : Heading, at : 0 .. LastTop, handled : BOOLEAN]

TypeOK ==
  /\ page \in Page
  /\ stage \in {"toc", "anchor", "search", "index", "highlightCode", "scrollTo",
                "contentsFix", "loaded", "aborted"}
  /\ links \in 0 .. MaxHeadings
  /\ timers \subseteq {"anchor", "words"}
  /\ hideLink \in {"absent", "shown", "fading", "hidden"}
  /\ icon \in [Toggler -> {"minus", "plus"}] /\ rows \in [Toggler -> BOOLEAN]
  /\ pretty \subseteq Pre /\ printed \in 0 .. 1
  /\ bound \in BOOLEAN /\ title \in BOOLEAN
  /\ scrolls \in Seq(Int) /\ top \in 0 .. LastTop /\ glows \in [Heading -> Nat]
  /\ clicked \in {<<>>} \cup {<<c>> : c \in LinkClick} /\ clicks \in 0 .. MaxClicks

(* A window scrolls no further than the ends of the page. *)
Clip(y) == IF y < 0 THEN 0 ELSE IF y > LastTop THEN LastTop ELSE y

(* An address with a hash opens where it points to. *)
Init ==
  /\ page \in Page
  /\ stage = "toc"
  /\ links = 0 /\ timers = {} /\ marks = {} /\ hideLink = "absent"
  /\ icon = [t \in Toggler |-> "minus"] /\ rows = [t \in Toggler |-> TRUE]
  /\ pretty = Pre \ page.plain /\ printed = 0
  /\ bound = FALSE /\ title = TRUE
  /\ scrolls = <<>> /\ glows = [k \in Heading |-> 0] /\ clicked = <<>> /\ clicks = 0
  /\ top \in IF page.hash THEN {Clip(HeadingTop[k]) : k \in DOMAIN page.ids} \cup {0} ELSE {0}

Goes(from, to) == stage = from /\ stage' = to

RunToc ==
  /\ Goes("toc", "anchor")
  /\ links' = Len(page.ids)
  /\ UNCHANGED <<page, timers, marks, hideLink, icon, rows, pretty, printed, bound, title, reader>>

FixFirefoxAnchorBug ==
  /\ Goes("anchor", "search")
  /\ timers' = IF page.hash /\ page.mozilla THEN timers \cup {"anchor"} ELSE timers
  /\ UNCHANGED <<page, links, marks, hideLink, icon, rows, pretty, printed, bound, title, reader>>

HighlightSearchWords ==
  /\ \/ /\ page.query # "unreadable"
        /\ Goes("search", "index")
        /\ IF page.query = "words"
           THEN /\ timers' = timers \cup {"words"}
                /\ hideLink' = IF page.menu THEN "shown" ELSE "absent"
           ELSE UNCHANGED <<timers, hideLink>>
     \/ /\ page.query = "unreadable"
        /\ Goes("search", "aborted")
        /\ UNCHANGED <<timers, hideLink>>
  /\ UNCHANGED <<page, links, marks, icon, rows, pretty, printed, bound, title, reader>>

(* mutant: the image is changed once for the set, by its first member's *)
ToggleIconOfAll(ts) ==
  /\ rows' = [t \in Toggler |-> IF t \in ts THEN ~rows[t] ELSE rows[t]]
  /\ icon' = [t \in Toggler |-> IF ts = {} THEN icon[t]
                                ELSE IF \E u \in ts : icon[u] = "minus" THEN "plus" ELSE "minus"]

(* The click function of initIndexTable: the rows, and minus.png to plus.png *)
(* or back.                                                                 *)
Toggle(ts) ==
  /\ rows' = [t \in Toggler |-> IF t \in ts THEN ~rows[t] ELSE rows[t]]
  /\ icon' = [t \in Toggler |-> IF t \notin ts THEN icon[t]
                                ELSE IF icon[t] = "minus" THEN "plus" ELSE "minus"]

InitIndexTable ==
  /\ Goes("index", "highlightCode")
  /\ Toggle(IF page.collapse THEN Toggler ELSE {})
  /\ UNCHANGED <<page, links, timers, marks, hideLink, pretty, printed, bound, title, reader>>

(* mutant: the handlers stop where the page says that code is left alone *)
HighlightCodeAborts ==
  /\ IF page.disabled THEN Goes("highlightCode", "aborted") /\ UNCHANGED <<pretty, printed>>
     ELSE /\ Goes("highlightCode", "scrollTo")
          /\ pretty' = Pre
          /\ printed' = IF pretty = Pre THEN printed ELSE printed + 1
  /\ UNCHANGED <<page, links, timers, marks, hideLink, icon, rows, bound, title, reader>>

HighlightCode ==
  /\ Goes("highlightCode", "scrollTo")
  /\ IF page.disabled THEN UNCHANGED <<pretty, printed>>
     ELSE /\ pretty' = Pre
          /\ printed' = IF pretty = Pre THEN printed ELSE printed + 1
  /\ UNCHANGED <<page, links, timers, marks, hideLink, icon, rows, bound, title, reader>>

ScrollTo ==
  /\ Goes("scrollTo", "contentsFix")
  /\ bound' = TRUE
  /\ UNCHANGED <<page, links, timers, marks, hideLink, icon, rows, pretty, printed, title, reader>>

ContentsFix ==
  /\ Goes("contentsFix", "loaded")
  /\ title' = (title /\ links > 0)
  /\ UNCHANGED <<page, links, timers, marks, hideLink, icon, rows, pretty, printed, bound, reader>>

(***************************************************************************)
(* The callbacks of setTimeout run when no script does.  The selector that *)
(* stands for the text, 'http://www.gtan.com/.../div.body', finds nothing. *)
(***************************************************************************)
Quiet == stage \in {"loaded", "aborted"}
Body == {}

AnchorTimer ==
  /\ Quiet /\ "anchor" \in timers
  /\ timers' = timers \ {"anchor"}
  /\ UNCHANGED <<page, stage, links, marks, hideLink, icon, rows, pretty, printed, bound, title, reader>>

WordsTimer ==
  /\ Quiet /\ "words" \in timers
  /\ timers' = timers \ {"words"}
  /\ marks' = marks \cup Body
  /\ UNCHANGED <<page, stage, links, hideLink, icon, rows, pretty, printed, bound, title, reader>>

(* A click comes when no script runs: between toc() and the ready handlers,  *)
(* or after them.                                                          *)
Click == /\ stage = "anchor" \/ Quiet
         /\ clicks < MaxClicks
         /\ clicks' = clicks + 1

HideSearchWords ==
  /\ Click
  /\ hideLink = "shown"
  /\ hideLink' = "fading"
  /\ marks' = {}
  /\ UNCHANGED <<page, stage, links, timers, icon, rows, pretty, printed, bound, title,
                 scrolls, top, glows, clicked>>

FadedOut ==
  /\ hideLink = "fading"
  /\ hideLink' = "hidden"
  /\ UNCHANGED <<page, stage, links, timers, marks, icon, rows, pretty, printed, bound, title, reader>>

(* The togglers have their handler once init has come that far. *)
ClickToggler(t) ==
  /\ Click
  /\ stage = "loaded"
  /\ Toggle({t})
  /\ UNCHANGED <<page, script, scrolls, top, glows, clicked>>

(* Where the window can be seen: at rest, or anywhere on the way of the      *)
(* animation under way.                                                    *)
Seen == IF scrolls = <<>> THEN {top}
        ELSE LET goal == Clip(Head(scrolls))
             IN  {y \in 0 .. LastTop : (top <= y /\ y <= goal) \/ (goal <= y /\ y <= top)}

(* With the handler, preventDefault and then offset() of $(this.hash), which *)
(* finds the heading only if no character of the hash is escaped: otherwise *)
(* offset() is null or the selector is refused, and the handler throws.    *)
(* The heading's offset is its place in the window at that time; two       *)
(* animations and a highlight are queued.  Without the handler the browser *)
(* jumps.                                                                  *)
ClickLink(k) ==
  /\ Click
  /\ k <= links
  /\ \/ /\ bound /\ page.ids[k] = "word"
        /\ top' \in Seen
        /\ LET offset == HeadingTop[k] - top'
           IN  scrolls' = scrolls \o <<offset, offset - 5>>
        /\ glows' = [glows EXCEPT ![k] = @ + 1]
        /\ clicked' = <<[link |-> k, at |-> top', handled |-> TRUE]>>
     \/ /\ bound /\ page.ids[k] = "other"
        /\ UNCHANGED <<scrolls, top, glows, clicked>>
     \/ /\ ~bound
        /\ top' = Clip(HeadingTop[k])
        /\ clicked' = <<[link |-> k, at |-> top, handled |-> FALSE]>>
        /\ UNCHANGED <<scrolls, glows>>
  /\ UNCHANGED <<page, script, icon, rows>>

(* mutant: the queue is served from its end *)
ScrolledLastFirst ==
  /\ scrolls # <<>>
  /\ "anchor" \notin timers
  /\ top' = Clip(scrolls[Len(scrolls)])
  /\ scrolls' = SubSeq(scrolls, 1, Len(scrolls) - 1)
  /\ UNCHANGED <<page, script, icon, rows, glows, clicked, clicks>>

(* An animation of 300 ms is done; a timer of 10 ms has come before.        *)
Scrolled ==
  /\ scrolls # <<>>
  /\ "anchor" \notin timers
  /\ top' = Clip(Head(scrolls))
  /\ scrolls' = Tail(scrolls)
  /\ UNCHANGED <<page, script, icon, rows, glows, clicked, clicks>>

Glowed(k) ==
  /\ glows[k] > 0
  /\ glows' = [glows EXCEPT ![k] = @ - 1]
  /\ UNCHANGED <<page, script, icon, rows, scrolls, top, clicked, clicks>>

Load ==
  \/ RunToc
  \/ FixFirefoxAnchorBug
  \/ HighlightSearchWords
  \/ InitIndexTable
  \/ HighlightCode
  \/ ScrollTo
  \/ ContentsFix

Next ==
  \/ Load
  \/ AnchorTimer
  \/ WordsTimer
  \/ HideSearchWords
  \/ FadedOut
  \/ Scrolled
  \/ \E t \in Toggler : ClickToggler(t)
  \/ \E k \in Heading : ClickLink(k) \/ Glowed(k)

Spec == Init /\ [][Next]_vars
-----------------------------------------------------------------------------
(* The image of a toggler tells whether its rows are open, however often it *)
(* is clicked and whether or not the index began collapsed.                *)
IconFits == \A t \in Toggler : icon[t] = "minus" <=> rows[t]

(* However fast the reader clicks, the window comes to rest where the last   *)
(* click that can be looked up leads: by the browser to the heading; by the *)
(* handler 5 less than what was left of the way to it, from the top of    *)
(* the page, which is the heading only if the window was there.            *)
Landing(c) == Clip(IF c.handled THEN HeadingTop[c.link] - c.at - 5 ELSE HeadingTop[c.link])
LastClickWins == scrolls = <<>> /\ clicked # <<>> => top = Landing(clicked[1])

(* When the ready handlers have run, code blocks are printed once at most,   *)
(* the links are bound and empty contents have no title.  They have not if *)
(* and only if the query cannot be read; then nothing of that is done, but *)
(* the contents are there.                                                 *)
Enhanced ==
  /\ stage = "loaded" =>
       /\ page.query # "unreadable" /\ bound
       /\ page.disabled \/ (pretty = Pre /\ (printed = 1 <=> page.plain # {}))
       /\ title <=> page.ids # <<>>
  /\ stage = "aborted" =>
       /\ page.query = "unreadable" /\ ~bound /\ title
       /\ pretty = Pre \ page.plain /\ printed = 0
       /\ links = Len(page.ids) /\ \A t \in Toggler : rows[t]
=============================================================================
