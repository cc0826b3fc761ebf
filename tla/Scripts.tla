------------------------------- MODULE Scripts -------------------------------
(***************************************************************************)
(* The scripts of the documentation pages that share no state, Toc,        *)
(* HighlightText, QueryParameters, Translations, CurrentUrl, ColorFx, and  *)
(* a page as a whole, DocPage, in one specification: a behaviour runs one  *)
(* of them, while the others have come to an end of theirs.                *)
(***************************************************************************)
EXTENDS Integers, FiniteSets, FiniteSetsExt, Strings

CONSTANTS Pages, Excluded, HeadingText, OwnId, GenerateId, NoId, \* Toc
          Letter, TextNodes, Terms, MaxItems, MaxTerms,          \* HighlightText
          Raw, MaxRaw, Plain, MaxPairs,                          \* QueryParameters
          Text, Methods, Locale, Rule, MaxAdded,                 \* Translations
          Char, MaxPath, MaxUp,                                  \* CurrentUrl
          Animations,                                            \* ColorFx
          MaxHeadings, Toggler, Pre, MaxClicks, HeadingTop, LastTop \* DocPage

VARIABLES
  page, numerate, autoId, next, headers, ids, numbers, lis, title,
  items, kind, kids, text, terms, stack, start,
  form, query, i, result, outcome,
  TRANSLATIONS, PLURAL_EXPR, LOCALE, added,
  path, up, url,
  chain, fx, run, time, from, end, style,
  doc, stage, links, timers, marks, hideLink, icon, rows, pretty, printed, bound, heading,
  scrolls, top, glows, clicked, clicks

tVars == <<page, numerate, autoId, next, headers, ids, numbers, lis, title>>
hVars == <<items, kind, kids, text, terms, stack, start>>
qVars == <<form, query, i, result, outcome>>
trVars == <<TRANSLATIONS, PLURAL_EXPR, LOCALE, added>>
uVars == <<path, up, url>>
cVars == <<chain, fx, run, time, from, end, style>>
dVars == <<doc, stage, links, timers, marks, hideLink, icon, rows, pretty, printed, bound, heading,
           scrolls, top, glows, clicked, clicks>>
vars == <<tVars, hVars, qVars, trVars, uVars, cVars, dVars>>

T == INSTANCE Toc WITH Text <- HeadingText
H == INSTANCE HighlightText WITH Texts <- TextNodes
Q == INSTANCE QueryParameters
Tr == INSTANCE Translations WITH Inherited <- Methods
U == INSTANCE CurrentUrl
C == INSTANCE ColorFx WITH page <- chain, start <- from
D == INSTANCE DocPage WITH page <- doc, title <- heading

ASSUME ScriptsAssumption == /\ T!TocAssumption /\ <<>> \in Pages
                            /\ H!HighlightTextAssumption /\ Terms # {}
                            /\ Q!QueryAssumption
                            /\ Tr!TranslationAssumption
                            /\ U!UrlAssumption
                            /\ C!ColorAssumption
                            /\ D!PageAssumption

-----------------------------------------------------------------------------
(* Each script after its end.                                                *)

TOver == /\ page = <<>> /\ numerate = FALSE /\ autoId = FALSE /\ next = 1
         /\ headers = [l \in 1 .. 6 |-> 0] /\ ids = <<>> /\ numbers = <<>> /\ lis = <<>>
         /\ title = "hidden"

ATerm == CHOOSE t \in Terms : TRUE
HOver == /\ items = <<>> /\ kind = <<"element">> /\ kids = <<<<>>>> /\ text = <<<<>>>>
         /\ terms = <<ATerm>> /\ stack = <<>> /\ start = <<<<>>>>

QOver == /\ form = <<>> /\ query = <<>> /\ i = 2
         /\ result = [key \in {<<>>} |-> <<<<"undefined">>>>] /\ outcome = "returned"

TrOver == /\ TRANSLATIONS = [t \in Text |-> IF t \in Methods THEN Tr!Method ELSE Tr!Nothing]
          /\ PLURAL_EXPR = <<2, Tr!Unknown>> /\ LOCALE = Tr!Unknown /\ added = MaxAdded

UOver == path = <<"/">> /\ up = 0 /\ url = <<<<"/">>>>

COver == /\ chain = <<C!Css("rgb", 0)>> /\ run = "done" /\ time = 0
         /\ fx = [easing |-> <<"swing", "">>, duration |-> 0, end |-> C!Css("rgb", 0)]
         /\ from = {} /\ end = {} /\ style = C!None

DOver == /\ doc = [query |-> "none", hash |-> FALSE, mozilla |-> FALSE, collapse |-> FALSE,
                   menu |-> FALSE, ids |-> <<>>, plain |-> {}, disabled |-> FALSE]
         /\ stage = "loaded" /\ links = 0 /\ timers = {} /\ marks = {} /\ hideLink = "absent"
         /\ icon = [t \in Toggler |-> "minus"] /\ rows = [t \in Toggler |-> TRUE]
         /\ pretty = Pre /\ printed = 0 /\ bound = TRUE /\ heading = FALSE
         /\ scrolls = <<>> /\ top = 0 /\ glows = [k \in 1 .. MaxHeadings |-> 0]
         /\ clicked = <<>> /\ clicks = MaxClicks

Init ==
  \/ T!Init /\ HOver /\ QOver /\ TrOver /\ UOver /\ COver /\ DOver
  \/ TOver /\ H!Init /\ QOver /\ TrOver /\ UOver /\ COver /\ DOver
  \/ TOver /\ HOver /\ Q!Init /\ TrOver /\ UOver /\ COver /\ DOver
  \/ TOver /\ HOver /\ QOver /\ Tr!Init /\ UOver /\ COver /\ DOver
  \/ TOver /\ HOver /\ QOver /\ TrOver /\ U!Init /\ COver /\ DOver
  \/ TOver /\ HOver /\ QOver /\ TrOver /\ UOver /\ C!Init /\ DOver
  \/ TOver /\ HOver /\ QOver /\ TrOver /\ UOver /\ COver /\ D!Init

Next ==
  \/ T!Next /\ UNCHANGED <<hVars, qVars, trVars, uVars, cVars, dVars>>
  \/ H!Next /\ UNCHANGED <<tVars, qVars, trVars, uVars, cVars, dVars>>
  \/ Q!Next /\ UNCHANGED <<tVars, hVars, trVars, uVars, cVars, dVars>>
  \/ Tr!Next /\ UNCHANGED <<tVars, hVars, qVars, uVars, cVars, dVars>>
  \/ U!Next /\ UNCHANGED <<tVars, hVars, qVars, trVars, cVars, dVars>>
  \/ C!Next /\ UNCHANGED <<tVars, hVars, qVars, trVars, uVars, dVars>>
  \/ D!Next /\ UNCHANGED <<tVars, hVars, qVars, trVars, uVars, cVars>>

Spec == Init /\ [][Next]_vars

-----------------------------------------------------------------------------
(* toc.js and contentsFix.js: the lists nest properly, in the order of the  *)
(* page; an entry lies in that of its section and its number is that of the  *)
(* section and its place in it, where no level is left out; headings keep    *)
(* their ids and links lead to theirs; the title goes exactly if nothing is  *)
(* below it.                                                                *)
ContentsFit ==
  /\ T!TypeOK
  /\ T!WellNested
  /\ T!InsideItsSection
  /\ T!NumbersAreLegal
  /\ T!LinksLead
  /\ T!TitleFits

(* highlightText changes the list it walks, but the page reads as before; a  *)
(* mark holds a term and is in no other mark or control; a walk comes to its *)
(* end, and finds the terms of texts that are the only child.               *)
WalkMarks ==
  /\ H!TypeOK
  /\ H!TextPreserved
  /\ H!MarksAreTerms
  /\ H!WalkIsShort
  /\ H!LoneTextsMarked

(* The query of an address comes apart into all its keys and values, also of *)
(* those without one, unless an escape or an inherited name stops it; what  *)
(* urlencode wrote comes back, but for a "+"; and the relative url is the   *)
(* page's path below the root, less a character.                            *)
AddressesRead ==
  /\ Q!TypeOK
  /\ Q!QueryAnswered
  /\ Q!FormComesBack
  /\ U!UrlBelowRoot

(* addTranslations: whichever catalogs are refused half way, the plural rule *)
(* is that of the locale, and a text once translated stays translated.      *)
TranslationsFit ==
  /\ []Tr!TypeOK
  /\ []Tr!RuleOfLocale
  /\ Tr!StaysTranslated

(* fx.step under all easings: an animation ends with the colour it was       *)
(* given, goes straight there but for Back and Bounce, throws only for a     *)
(* colour nobody understands, and a number written with an exponent costs    *)
(* one digit at most; In and Out mirror each other, and InOut itself.       *)
ColorsArrive ==
  /\ []C!TypeOK
  /\ []C!ReachesItsEnd
  /\ []C!BrokenForAReason
  /\ []C!Mirrored
  /\ []C!Near
  /\ C!NeverBack

(* However often a toggler of the index is clicked, its image tells whether  *)
(* its rows are open; however fast the reader clicks on links, before and    *)
(* after their handler is bound, the window rests where the last led, which *)
(* is not the heading if the handler met a window scrolled before; and the  *)
(* ready handlers are run to their end or, from the one on that cannot read *)
(* the query, not at all.                                                   *)
IconFits == D!IconFits
LastClickWins == D!LastClickWins
PageEnhanced == D!TypeOK /\ D!Enhanced
=============================================================================
