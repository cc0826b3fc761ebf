-------------------------------- MODULE Toc ---------------------------------
(***************************************************************************)
(* toc.js and contentsFix.js: $('#toc').toc() walks the headings of the    *)
(* page, numbers them if asked to, gives them ids, and builds nested lists *)
(* of links to them; when the page is ready contentsFix hides the title of *)
(* a table of contents that stayed empty.                                  *)
(*                                                                         *)
(* The nested lists are a sequence of their li elements in document order, *)
(* each with its depth and whether it holds a ul; a li without a heading   *)
(* only indents.                                                           *)
(***************************************************************************)
EXTENDS Naturals, Sequences, FiniteSets, FiniteSetsExt

CONSTANTS Pages,       \* the pages of the model: sequences of headings
          Excluded,    \* the levels of opts.exclude
          Text,        \* heading texts
          OwnId,       \* OwnId[t]: the id attribute of a heading, NoId if none
          GenerateId,  \* GenerateId[t]: generateId(t), not injective
          NoId

Level == 1 .. 6
Heading == [level : Level, text : Text]

TocAssumption == /\ Pages \subseteq Seq(Heading)
                 /\ Excluded \subseteq Level
                 /\ NoId \notin {GenerateId[t] : t \in Text}

VARIABLES
  page,      \* the headings of the page, in order
  numerate,  \* opts.numerate
  autoId,    \* opts.autoId
  next,      \* the heading to visit next
  headers,   \* the counter of each level
  ids,       \* the id of each heading
  numbers,   \* the section number written before each heading
  lis,       \* the table of contents
  title      \* contents-title: "shown", then "hidden" or "kept" by contentsFix

vars == <<page, numerate, autoId, next, headers, ids, numbers, lis, title>>
options == <<page, numerate, autoId>>

Number == Seq(Nat \ {0})
Li == [depth : Nat \ {0}, ul : BOOLEAN, heading : Nat,
       href : {NoId} \cup {OwnId[t] : t \in Text} \cup {GenerateId[t] : t \in Text}]

(* Line 34: the rank of a level among the included levels the page has. *)
Index(l) ==
  Cardinality({m \in Level \ Excluded : m <= l /\ \E k \in DOMAIN page : page[k].level = m})

TypeOK ==
  /\ page \in Pages
  /\ numerate \in BOOLEAN /\ autoId \in BOOLEAN
  /\ next \in 1 .. Len(page) + 1
  /\ headers \in [1 .. 6 -> Nat]
  /\ DOMAIN ids = DOMAIN page /\ numbers \in [DOMAIN page -> Number]
  /\ lis \in Seq(Li)
  /\ title \in {"shown", "hidden", "kept"}

Init ==
  /\ page \in Pages
  /\ numerate \in BOOLEAN
  /\ autoId \in BOOLEAN
  /\ next = 1
  /\ headers = [l \in 1 .. 6 |-> 0]
  /\ ids = [k \in DOMAIN page |-> OwnId[page[k].text]]
  /\ numbers = [k \in DOMAIN page |-> <<>>]
  /\ lis = <<>>
  /\ title = "shown"

(* The last li of the ul that is open behind position from, or 0. *)
LastLi(s, depth, from) ==
  LET at == {k \in from + 1 .. Len(s) : s[k].depth = depth}
  IN  IF at = {} THEN 0 ELSE Max(at)

Padding(depth) == [depth |-> depth, ul |-> TRUE, heading |-> 0, href |-> NoId]

(* mutant: a new level gets no ul *)
NoContainer(header, s) == s

(* checkContainer: a new level opens a ul in the last li of the table. *)
CheckContainer(header, s) ==
  IF header = 0 /\ s # <<>> /\ ~s[Len(s)].ul
  THEN [s EXCEPT ![Len(s)].ul = TRUE] ELSE s

UpdateNumeration(l) ==
  [m \in 1 .. 6 |-> IF m = l THEN headers[m] + 1 ELSE IF m > l THEN 0 ELSE headers[m]]

(* The counters that addNumeration joins with dots. *)
AddNumeration(h, l) ==
  LET number[m \in 0 .. l] ==
        IF m = 0 THEN <<>>
        ELSE LET before == number[m - 1] IN IF h[m] > 0 THEN Append(before, h[m]) ELSE before
  IN  number[l]

(* One turn of the loop of appendToTOC, from the ul behind acc.from.        *)
Down(acc, i) ==
  LET last == LastLi(acc.lis, i, acc.from)
  IN  IF last # 0 /\ acc.lis[last].ul
      THEN [acc EXCEPT !.from = last]
      ELSE [lis |-> Append(acc.lis, Padding(i)), from |-> Len(acc.lis) + 1]

Entry(index, k, href) == [depth |-> index, ul |-> FALSE, heading |-> k, href |-> href]

AppendToTOC(s, index, k, href) ==
  LET down[i \in 0 .. index - 1] == IF i = 0 THEN [lis |-> s, from |-> 0] ELSE Down(down[i - 1], i)
  IN  Append(down[index - 1].lis, Entry(index, k, href))

(* One heading of the each loop. *)
Visit ==
  /\ next <= Len(page)
  /\ LET l == page[next].level
         h == UpdateNumeration(l)
         id == IF autoId /\ ids[next] = NoId THEN GenerateId[page[next].text] ELSE ids[next]
     IN  /\ l \notin Excluded
         /\ headers' = IF numerate THEN h ELSE headers
         /\ numbers' = IF numerate THEN [numbers EXCEPT ![next] = AddNumeration(h, l)] ELSE numbers
         /\ ids' = [ids EXCEPT ![next] = id]
         /\ lis' = AppendToTOC(IF numerate THEN CheckContainer(headers[l], lis) ELSE lis,
                               Index(l), next, id)
  /\ next' = next + 1
  /\ UNCHANGED <<options, title>>

(* .not(opts.exclude) *)
Skip ==
  /\ next <= Len(page)
  /\ page[next].level \in Excluded
  /\ next' = next + 1
  /\ UNCHANGED <<options, headers, ids, numbers, lis, title>>

(* A ul of the table has no children: the outer one, or one opened in a li. *)
EmptyUl ==
  \/ lis = <<>>
  \/ \E k \in DOMAIN lis :
       lis[k].ul /\ (k = Len(lis) \/ lis[k + 1].depth <= lis[k].depth)

(* contentsFix.js, when the page is ready. *)
ContentsFix ==
  /\ next > Len(page)
  /\ title = "shown"
  /\ title' = IF EmptyUl THEN "hidden" ELSE "kept"
  /\ UNCHANGED <<options, next, headers, ids, numbers, lis>>

Next == Visit \/ Skip \/ ContentsFix
Spec == Init /\ [][Next]_vars
-----------------------------------------------------------------------------
Visited == {k \in 1 .. next - 1 : page[k].level \notin Excluded}

(* A level of the headings visited so far was left out on the way down. *)
Skips ==
  \E k \in Visited : Index(page[k].level) > 1 /\
    ~\E j \in Visited : /\ j < k
                        /\ Index(page[j].level) = Index(page[k].level) - 1
                        /\ \A i \in Visited : j < i /\ i < k => Index(page[i].level) >= Index(page[k].level)

(* The li that encloses position k. *)
Parent(k) == CHOOSE j \in 1 .. k - 1 :
               lis[j].depth < lis[k].depth /\ \A i \in j + 1 .. k - 1 : lis[i].depth >= lis[k].depth

(* The lists nest properly: an item lies one level below the item around    *)
(* it, which holds a ul, and the headings come in the order of the page.   *)
WellNested ==
  /\ \A k \in DOMAIN lis : lis[k].depth > 1 =>
       \E j \in 1 .. k - 1 : /\ lis[j].depth = lis[k].depth - 1
                             /\ lis[j].ul
                             /\ \A i \in j + 1 .. k - 1 : lis[i].depth >= lis[k].depth
  /\ \A j, k \in DOMAIN lis : j < k /\ lis[j].heading # 0 /\ lis[k].heading # 0
       => lis[j].heading < lis[k].heading

(* With numbers, an entry lies inside the entry of the section its heading  *)
(* belongs to: the latest heading before it of a higher rank.              *)
InsideItsSection ==
  numerate /\ ~Skips => \A k \in DOMAIN lis : lis[k].depth > 1 =>
    LET outer == {j \in Visited : /\ j < lis[k].heading
                                  /\ Index(page[j].level) < Index(page[lis[k].heading].level)}
    IN  lis[Parent(k)].heading \in outer /\ \A j \in outer : j <= lis[Parent(k)].heading

(* A section number is that of the section around it and the place in that  *)
(* section; if no level is left out on the way down, no two are the same.   *)
NumbersAreLegal ==
  numerate => \A k \in Visited :
    LET rank(j) == Index(page[j].level)
        outer == {j \in Visited : j < k /\ rank(j) < rank(k)}
        section == IF outer = {} THEN 0 ELSE Max(outer)
        sisters == {j \in Visited : section < j /\ j <= k /\ rank(j) = rank(k)}
    IN  /\ numbers[k] = Append(IF section = 0 THEN <<>> ELSE numbers[section], Cardinality(sisters))
        /\ ~Skips => \A j \in Visited : numbers[j] = numbers[k] => j = k

(* If the ids differ, each link leads to its own heading, which keeps the   *)
(* id it had, or the one of its text without the number.                   *)
LinksLead ==
  autoId => \A k \in DOMAIN lis : lis[k].heading # 0 =>
    LET h == lis[k].heading
        Id(j) == IF OwnId[page[j].text] # NoId THEN OwnId[page[j].text]
                 ELSE GenerateId[page[j].text]
    IN  /\ ids[h] = Id(h)
        /\ (\A j \in DOMAIN page : j # h => Id(j) # Id(h)) =>
             {j \in DOMAIN page : ids[j] = lis[k].href} = {h}

(* The title goes exactly if there is nothing below it: no list in the table *)
(* is left empty, with the options of the pages; nor with numbers, where    *)
(* two places open lists, unless a level is left out on the way down.      *)
TitleFits ==
  ~numerate \/ ~Skips => (title = "hidden" => Visited = {}) /\ (title = "kept" => Visited # {})
=============================================================================
