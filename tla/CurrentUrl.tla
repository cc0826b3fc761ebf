----------------------------- MODULE CurrentUrl -----------------------------
(***************************************************************************)
(* getCurrentURL and makeURL of Documentation in doctools.js: the address  *)
(* of the page, relative to the root of the documentation, and back.       *)
(* A path is a sequence of characters, "/" and others.                     *)
(***************************************************************************)
EXTENDS Integers, Sequences, FiniteSets

CONSTANTS Char,    \* characters of a name
          MaxPath, \* length of a path (bound)
          MaxUp    \* components ".." of URL_ROOT (bound)

UrlAssumption == "/" \notin Char /\ MaxPath \in Nat /\ MaxUp \in Nat

VARIABLES
  path,    \* document.location.pathname
  up,      \* the ".." in DOCUMENTATION_OPTIONS.URL_ROOT
  url      \* what getCurrentURL answered, after the call: a sequence of one

vars == <<path, up, url>>

Slashes(s) == {i \in 1 .. Len(s) : s[i] = "/"}
Above(s, i) == Cardinality({j \in Slashes(s) : j >= i})

Init ==
  /\ path \in {<<"/">> \o s : s \in UNION {[1 .. n -> Char \cup {"/"}] : n \in 0 .. MaxPath - 1}}
  /\ up \in 0 .. MaxUp
  /\ url = <<>>

(* split, one pop for each "..", join: the path before its up-th last slash. *)
Popped == IF up = 0 THEN path
          ELSE SubSeq(path, 1, CHOOSE n \in 0 .. Len(path) :
                 IF Cardinality(Slashes(path)) < up THEN n = 0
                 ELSE n + 1 \in Slashes(path) /\ Above(path, n + 1) = up)

LastSlash(s) == CHOOSE n \in 0 .. Len(s) : IF Slashes(s) = {} THEN n = 0
                                           ELSE n \in Slashes(s) /\ Above(s, n) = 1

(* String.substring, which swaps its arguments when they are out of order. *)
Substring(s, a, b) ==
  CASE a < 0 -> SubSeq(s, 1, b)
    [] 0 <= a /\ a <= b -> SubSeq(s, a + 1, b)
    [] a > b -> SubSeq(s, b + 1, a)

getCurrentURL ==
  /\ url = <<>>
  /\ url' = <<Substring(path, LastSlash(Popped), Len(path) - 1)>>
  /\ UNCHANGED <<path, up>>

(* The directory up levels above that of the page, as a browser finds it;    *)
(* above the root there is the root.                                        *)
Root == SubSeq(path, 1, CHOOSE n \in 1 .. Len(path) :
          IF up < Cardinality(Slashes(path)) THEN n \in Slashes(path) /\ Above(path, n) = up + 1
          ELSE n = 1)

(* makeURL as the browser resolves it.  URL_ROOT is '' or ends in a slash,   *)
(* '../': with none the slash after it makes the address start at the       *)
(* server's, and else the address has two slashes there.                   *)
makeURL(relative) == IF up = 0 THEN <<"/">> \o relative ELSE Root \o <<"/">> \o relative

Next == getCurrentURL
Spec == Init /\ [][Next]_vars
-----------------------------------------------------------------------------
(* The answer is the page's path below the root, less its last character,    *)
(* which is a slash only for a directory.  A directory that is itself the   *)
(* root gets that slash alone; a root above the server's gives the path     *)
(* whole.  makeURL does not lead back: it adds a slash.                     *)
UrlBelowRoot ==
  url # <<>> =>
    LET last == <<path[Len(path)]>>
    IN  IF up = 0 /\ last = <<"/">> THEN url[1] = last
        ELSE IF up >= Cardinality(Slashes(path)) THEN path = url[1] \o last
        ELSE /\ path = Root \o url[1] \o last
             /\ up > 0 /\ url[1] # <<>> /\ url[1][1] # "/" => makeURL(url[1]) # path
=============================================================================
