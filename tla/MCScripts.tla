------------------------------ MODULE MCScripts ------------------------------
(* The inputs of the scripts. *)
EXTENDS Scripts, TLC

(* Two texts that differ only in an unwanted character, and a heading whose  *)
(* id the page gives; short pages of all of these, and longer ones with more *)
(* levels and one text.                                                     *)
MCOwnId == ("a b" :> "") @@ ("a_b" :> "") @@ ("c" :> "s1")
MCGenerateId == ("a b" :> "a_b") @@ ("a_b" :> "a_b") @@ ("c" :> "c")
Headings(levels, texts) == [level : levels, text : texts]
MCPages == UNION {[1 .. n -> Headings(1 .. 2, HeadingText)] : n \in 0 .. 4}
           \cup UNION {[1 .. n -> Headings(1 .. 4, {"a b"})] : n \in 0 .. 5}

(* Texts without the letter, with it at either end, and with it twice.       *)
MCTextNodes == {<<"b">>, <<"a", "b">>, <<"b", "a", "a">>}
MCTerms == {<<l>> : l \in Letter} \cup {<<>>}

(* Colours in all notations; and small numbers of a long animation with the  *)
(* fifth power.                                                             *)
Css(notation, v) == [form |-> notation, v |-> v]
Ends == {Css("rgb", 0), Css("rgb", 7), Css("hex6", 242), Css("hex3", 10), Css("percent", 20),
         Css("gold", 0), Css("transparent", 0), Css("nonesuch", 0), Css("clear", 0),
         Css("rgba", 9)}
Computed == {Css("rgb", 3), Css("empty", 0), Css("transparent", 0), Css("clear", 0),
             Css("rgba", 9)}
Small == {Css("rgb", v) : v \in (0 .. 4) \cup {100}}
Polynomials == {"Quad", "Cubic", "Quart", "Quint"}
Easings == {<<"swing", "">>} \cup ({"In", "Out", "InOut"} \X (Polynomials \cup {"Expo", "Back", "Bounce"}))
Quint == {<<"In", "Quint">>, <<"Out", "Quint">>}
MCAnimations ==
  [page : [1 .. 2 -> Computed], fx : [easing : Easings, duration : {0, 10}, end : Ends]]
  \cup [page : [1 .. 1 -> Small], fx : [easing : Quint, duration : {20}, end : Small]]

(* The second heading is nearer to the end of the page than a window is high. *)
MCHeadingTop == <<6, 9>>
=============================================================================
