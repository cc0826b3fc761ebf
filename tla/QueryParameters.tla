--------------------------- MODULE QueryParameters ---------------------------
(***************************************************************************)
(* jQuery.urldecode, jQuery.urlencode and jQuery.getQueryParameters of     *)
(* doctools.js.  A string is a sequence of characters, where an escape     *)
(* like %26 counts as one; "%" alone is an escape that is malformed, and   *)
(* "toString" stands for the name of a property every object inherits.     *)
(***************************************************************************)
EXTENDS Naturals, FiniteSets, Strings

CONSTANTS Raw,       \* characters of a query somebody typed
          MaxRaw,    \* its length (bound)
          Plain,     \* characters of the keys and values of a form
          MaxPairs   \* key and value pairs of a form (bound)

Escapes == {"%25", "%26", "%3D", "%2B", "%20"}
QueryAssumption == MaxRaw \in Nat /\ MaxPairs \in Nat /\ Plain \cap Escapes = {}

VARIABLES
  form,    \* the pairs the query was encoded from, or <<>> if it was typed
  query,   \* document.location.search behind its "?"
  i,       \* the part to parse next
  result,  \* the object returned: arrays of strings
  outcome  \* "running", "returned", or the error thrown

vars == <<form, query, i, result, outcome>>

String == Seq(Raw \cup Plain \cup {"&", "=", "%", " ", "undefined"})
TypeOK ==
  /\ i \in 1 .. Len(query) + 2
  /\ DOMAIN result \subseteq String
  /\ \A key \in DOMAIN result : result[key] \in Seq(String) /\ result[key] # <<>>
  /\ outcome \in {"running", "returned", "TypeError", "URIError"}

(* encodeURIComponent *)
Escape(c) == CASE c = "%" -> "%25" [] c = "&" -> "%26" [] c = "=" -> "%3D" [] c = "+" -> "%2B"
               [] c = " " -> "%20" [] OTHER -> c
UrlEncode(s) == [k \in DOMAIN s |-> Escape(s[k])]

(* decodeURIComponent and then replace(/\+/g, ' '), in this order. *)
Unescape(c) == CASE c = "%25" -> "%" [] c = "%26" -> "&" [] c = "%3D" -> "=" [] c = "%2B" -> "+"
                 [] c = "%20" -> " " [] OTHER -> c
Space(c) == IF c = "+" THEN " " ELSE c
UrlDecode(s) == [k \in DOMAIN s |-> Space(Unescape(s[k]))]

Texts == {<<c>> : c \in Plain} \cup {<<c, d>> : c, d \in Plain}
Pair(p) == UrlEncode(p[1]) \o <<"=">> \o UrlEncode(p[2])
Encoded(f) ==
  Joined([k \in DOMAIN f |-> IF k = 1 THEN Pair(f[k]) ELSE <<"&">> \o Pair(f[k])])

Init ==
  /\ \/ form \in UNION {[1 .. n -> Texts \X Texts] : n \in 1 .. MaxPairs} /\ query = Encoded(form)
     \/ form = <<>> /\ query \in UNION {[1 .. n -> Raw] : n \in 0 .. MaxRaw}
  /\ i = 1
  /\ result = <<>>
  /\ outcome = "running"

Parts == SplitBy(query, "&")
Inherited == {<<"toString">>}

(* The two strings of parts[i].split('=', 2); the second may be undefined,   *)
(* which urldecode makes the text "undefined".                             *)
Fields(part) == SplitBy(part, "=")
KeyOf(part) == UrlDecode(Fields(part)[1])
ValueOf(part) ==
  IF Len(Fields(part)) = 1 THEN <<"undefined">> ELSE UrlDecode(Fields(part)[2])
Malformed(part) ==
  \E k \in 1 .. IF Len(Fields(part)) = 1 THEN 1 ELSE 2 :
    LET field == Fields(part)[k] IN \E j \in DOMAIN field : field[j] = "%"

Key == KeyOf(Parts[i])
Value == ValueOf(Parts[i])
More == outcome = "running" /\ i <= Len(Parts)

(* mutant: a second value replaces the first *)
PushReplaces ==
  /\ More /\ ~Malformed(Parts[i])
  /\ Key \in DOMAIN result
  /\ result' = [result EXCEPT ![Key] = <<Value>>]
  /\ i' = i + 1
  /\ UNCHANGED <<form, query, outcome>>

Push ==
  /\ More /\ ~Malformed(Parts[i])
  /\ Key \in DOMAIN result
  /\ result' = [result EXCEPT ![Key] = Append(@, Value)]
  /\ i' = i + 1
  /\ UNCHANGED <<form, query, outcome>>

NewKey ==
  /\ More /\ ~Malformed(Parts[i])
  /\ Key \notin DOMAIN result \cup Inherited
  /\ result' = [k \in DOMAIN result \cup {Key} |-> IF k = Key THEN <<Value>> ELSE result[k]]
  /\ i' = i + 1
  /\ UNCHANGED <<form, query, outcome>>

(* "key in result" is true, but what result[key] gives has no push. *)
PushFails ==
  /\ More /\ ~Malformed(Parts[i])
  /\ Key \in Inherited \ DOMAIN result
  /\ outcome' = "TypeError"
  /\ UNCHANGED <<form, query, i, result>>

DecodeFails ==
  /\ More /\ Malformed(Parts[i])
  /\ outcome' = "URIError"
  /\ UNCHANGED <<form, query, i, result>>

Return ==
  /\ outcome = "running" /\ i > Len(Parts)
  /\ outcome' = "returned"
  /\ UNCHANGED <<form, query, i, result>>

Next == Push \/ NewKey \/ PushFails \/ DecodeFails \/ Return
Spec == Init /\ [][Next]_vars
-----------------------------------------------------------------------------
(* Each of the n first keys has all its values, and no others, in order.     *)
Count(keys, key, n) == Cardinality({k \in 1 .. n : keys[k] = key})
Holds(keys, values, n) ==
  /\ DOMAIN result = {keys[k] : k \in 1 .. n}
  /\ \A key \in DOMAIN result : Len(result[key]) = Count(keys, key, n)
  /\ \A k \in 1 .. n : result[keys[k]][Count(keys, keys[k], k)] = values[k]

Keys == [k \in DOMAIN Parts |-> KeyOf(Parts[k])]
Values == [k \in DOMAIN Parts |-> ValueOf(Parts[k])]

(* However a query is typed: an answer has every part, those without a key   *)
(* or a value too, and comes only if all can be decoded and no key is the   *)
(* name of an inherited property.  The first part that is not so ends the   *)
(* call, with the parts before it in the object that is lost.               *)
Readable(k) == ~Malformed(Parts[k]) /\ Keys[k] \notin Inherited
QueryAnswered ==
  /\ outcome = "returned" =>
       Holds(Keys, Values, Len(Parts)) /\ \A k \in DOMAIN Parts : Readable(k)
  /\ outcome \in {"TypeError", "URIError"} =>
       /\ i \in DOMAIN Parts /\ \A k \in 1 .. i : Readable(k) <=> k < i
       /\ Holds(Keys, Values, i - 1)
       /\ outcome = "URIError" <=> Malformed(Parts[i])

(* What urlencode wrote comes back: every key of a form has all its values, *)
(* in their order, whatever separators they contain; only a "+" does not    *)
(* survive, as it is replaced after the escapes are decoded.               *)
NoPlus == \A k \in DOMAIN form, f \in 1 .. 2 : \A j \in DOMAIN form[k][f] : form[k][f][j] # "+"
FormComesBack ==
  form # <<>> /\ outcome = "returned" /\ NoPlus =>
    Holds([k \in DOMAIN form |-> form[k][1]], [k \in DOMAIN form |-> form[k][2]], Len(form))

(* "it will always return arrays of strings for the value parts", at least   *)
(* where all escapes are well-formed.                                       *)
AlwaysArrays ==
  outcome \in {"running", "returned"} \/ \E k \in DOMAIN Parts : Malformed(Parts[k])
=============================================================================
