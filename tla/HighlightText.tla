---------------------------- MODULE HighlightText ----------------------------
(***************************************************************************)
(* jQuery.fn.highlightText of doctools.js: a walk over the nodes below an  *)
(* element that puts the first occurrence of a term in a text node into a  *)
(* span of its own.  The walk uses jQuery.each on the live childNodes list *)
(* and splits nodes of that very list; jQuery.each (1.7.1) reads the       *)
(* length of the list once, before it starts.                              *)
(*                                                                         *)
(* A page is a root element whose children are text nodes and elements     *)
(* that hold one text node each, as a parser builds them: no text is empty *)
(* and no two texts are neighbours.  Letters stand for themselves in either   *)
(* case.  The terms are walked for one after the other.                    *)
(***************************************************************************)
EXTENDS Naturals, Strings

CONSTANTS Letter,
          Texts,     \* contents of text nodes, sequences of letters
          Terms,     \* search terms, sequences of letters; may be empty
          MaxItems,  \* children of the root (bound)
          MaxTerms   \* terms of one search (bound)

HighlightTextAssumption == /\ Texts \subseteq Seq(Letter) /\ Terms \subseteq Seq(Letter)
                           /\ MaxItems \in Nat /\ MaxTerms \in Nat

VARIABLES
  items,  \* the page as it was loaded
  kind,   \* each node: "text", "element", "mark" (a highlighted span),
          \* "control" (a button, select or textarea), or "none" (no node)
  kids,   \* the childNodes of each node
  text,   \* the nodeValue of each node
  terms,  \* the terms still to be walked for, the current one first
  stack,  \* the each loops under way, the innermost last
  start   \* history: the childNodes of each node when the current walk began

vars == <<items, kind, kids, text, terms, stack, start>>

Root == 1
Node == DOMAIN kind
Loop == [node : Nat, i : Nat, length : Nat]

TypeOK ==
  /\ kind \in Seq({"text", "element", "control", "mark", "none"})
  /\ kids \in [Node -> Seq(Node)] /\ text \in [Node -> Seq(Letter)]
  /\ terms \in Seq(Terms)
  /\ stack \in Seq(Loop)
  /\ \A k \in DOMAIN stack : stack[k].node \in Node /\ stack[k].i <= stack[k].length
  /\ DOMAIN start \subseteq Node

Item == [kind : {"text", "element", "control"}, text : Texts]

(* Item k of a page is node 2k, and node 2k+1 the text inside an element. *)
Init ==
  /\ items \in UNION {[1 .. n -> Item] : n \in 0 .. MaxItems}
  /\ \A k \in 1 .. Len(items) - 1 : ~(items[k].kind = "text" /\ items[k + 1].kind = "text")
  /\ terms \in UNION {[1 .. n -> Terms] : n \in 1 .. MaxTerms}
  /\ LET size == 2 * Len(items) + 1
     IN  /\ kind = [n \in 1 .. size |-> IF n = Root THEN "element"
                                        ELSE IF n % 2 = 0 THEN items[n \div 2].kind
                                        ELSE IF items[n \div 2].kind = "text" THEN "none" ELSE "text"]
         /\ kids = [n \in 1 .. size |-> IF n = Root THEN [k \in 1 .. Len(items) |-> 2 * k]
                                        ELSE IF kind[n] \in {"text", "none"} THEN <<>> ELSE <<n + 1>>]
         /\ text = [n \in 1 .. size |-> IF n # Root /\ kind[n] = "text" THEN items[n \div 2].text
                                        ELSE <<>>]
         /\ start = kids
  /\ stack = <<[node |-> Root, i |-> 0, length |-> Len(kids[Root])]>>

(* indexOf: the letters before the first occurrence of t in s, -1 if none. *)
Occurs(t, s, at) == at + Len(t) <= Len(s) /\ SubSeq(s, at + 1, at + Len(t)) = t
Holds(t, s) == \E at \in 0 .. Len(s) : Occurs(t, s, at)
IndexOf(t, s) == CHOOSE at \in 0 .. Len(s) : /\ Occurs(t, s, at)
                                             /\ \A b \in 0 .. at - 1 : ~Occurs(t, s, b)

Top == stack[Len(stack)]
Step == [stack EXCEPT ![Len(stack)].i = @ + 1]
Child == kids[Top.node][Top.i + 1]

(* mutant: the length is read again at each turn *)
HasNextLive == stack # <<>> /\ Top.i < Len(kids[Top.node])

(* each goes on with the next child of the list as it is now. *)
HasNext == stack # <<>> /\ Top.i < Top.length

Matches(n) == Holds(Head(terms), text[n]) /\ kind[Top.node] # "mark"

(* Text node n keeps what stands before the term; a span with the term and  *)
(* a text node with the rest come after it.                                *)
Split(n) ==
  LET t    == Head(terms)
      pos  == IndexOf(t, text[n])
      s    == text[n]
      span == Len(kind) + 2
      at   == Top.i + 1
  IN  /\ kind' = kind \o <<"text", "mark", "text">>
      /\ text' = [text EXCEPT ![n] = SubSeq(s, 1, pos)]
                   \o <<SubSeq(s, pos + Len(t) + 1, Len(s)), <<>>, SubSeq(s, pos + 1, pos + Len(t))>>
      /\ kids' = [kids EXCEPT ![Top.node] =
                    SubSeq(@, 1, at) \o <<span, span - 1>> \o SubSeq(@, at + 1, Len(@))]
                   \o <<<<>>, <<span + 1>>, <<>>>>

VisitText ==
  /\ HasNext
  /\ kind[Child] = "text"
  /\ IF Matches(Child) THEN Split(Child) ELSE UNCHANGED <<kind, kids, text>>
  /\ stack' = Step
  /\ UNCHANGED <<items, terms, start>>

VisitElement ==
  /\ HasNext
  /\ kind[Child] \in {"element", "mark"}
  /\ stack' = Append(Step, [node |-> Child, i |-> 0, length |-> Len(kids[Child])])
  /\ UNCHANGED <<items, kind, kids, text, terms, start>>

VisitControl ==
  /\ HasNext
  /\ kind[Child] = "control"
  /\ stack' = Step
  /\ UNCHANGED <<items, kind, kids, text, terms, start>>

LeaveElement ==
  /\ stack # <<>> /\ ~HasNext
  /\ stack' = SubSeq(stack, 1, Len(stack) - 1)
  /\ UNCHANGED <<items, kind, kids, text, terms, start>>

(* highlightSearchWords: the next term walks over the page from the root. *)
NextTerm ==
  /\ stack = <<>>
  /\ Len(terms) > 1
  /\ terms' = Tail(terms)
  /\ start' = kids
  /\ stack' = <<[node |-> Root, i |-> 0, length |-> Len(kids[Root])]>>
  /\ UNCHANGED <<items, kind, kids, text>>

Next == VisitText \/ VisitElement \/ VisitControl \/ LeaveElement \/ NextTerm
Spec == Init /\ [][Next]_vars
-----------------------------------------------------------------------------
(* What a mark or a control reads, what any child of the root reads, and the *)
(* page: a mark is the lowest node with a text of its own below it.         *)
TextOfMark(n) == text[n] \o Joined([k \in DOMAIN kids[n] |-> text[kids[n][k]]])
TextOfChild(n) == text[n] \o Joined([k \in DOMAIN kids[n] |-> TextOfMark(kids[n][k])])
TextOfPage == Joined([k \in DOMAIN kids[Root] |-> TextOfChild(kids[Root][k])])

(* Whatever is split, the page reads as before. *)
TextPreserved == TextOfPage = Joined([k \in DOMAIN items |-> items[k].text])

ChildOf(m) == {kids[m][k] : k \in DOMAIN kids[m]}
Parent(n) == CHOOSE m \in Node : n \in ChildOf(m)

(* A mark is never put into a mark or into a control, and holds one of the  *)
(* terms and nothing else, also when a later term occurs in it.            *)
MarksAreTerms ==
  \A n \in Node : kind[n] = "mark" =>
    /\ kind[Parent(n)] = "element"
    /\ Len(kids[n]) = 1
    /\ text[kids[n][1]] \in Terms

(* A walk comes to its end, also for the empty term that every piece holds: *)
(* pieces may be split again, but a mark follows each, and a loop makes no  *)
(* more turns than the node had children, which at most double, plus one.  *)
WalkIsShort == \A n \in DOMAIN start : Len(kids[n]) <= 2 * Len(start[n]) + 1

(* Texts that are the only child of their element are all found. *)
Marked(n) == \E k \in ChildOf(n) : kind[k] = "mark"
LoneTextsMarked ==
  Len(terms) = 1 /\ DOMAIN start = 1 .. 2 * Len(items) + 1 /\ stack = <<>>
    /\ (\A k \in DOMAIN items : items[k].kind # "text")
  => \A k \in DOMAIN items :
       Marked(2 * k) <=> items[k].kind = "element" /\ Holds(terms[1], items[k].text)
=============================================================================
