---------------------------- MODULE Translations ----------------------------
(***************************************************************************)
(* The translations of Documentation in doctools.js: catalogs are merged   *)
(* into one table as they come, in any order and number, and gettext and   *)
(* ngettext look texts up in it.                                           *)
(***************************************************************************)
EXTENDS Naturals, FiniteSets

CONSTANTS Text,      \* texts of the documentation
          Inherited, \* those that every object has as a property, such as "constructor"
          Locale,
          Rule,      \* plural rules: numbers of forms
          MaxAdded   \* catalogs added (bound)

Unknown == "unknown"
TranslationAssumption ==
  /\ Inherited \subseteq Text /\ Rule \subseteq Nat \ {0}
  /\ {Unknown, "Object"} \cap Locale = {}
  /\ MaxAdded \in Nat

VARIABLES
  TRANSLATIONS,      \* what is known of a text: see Known
  PLURAL_EXPR,       \* forms of the rule in force; Unknown, the initial n == 1, has two
  LOCALE,
  added              \* catalogs added so far

vars == <<TRANSLATIONS, PLURAL_EXPR, LOCALE, added>>

(* Nothing, a property of Object, a word, or that many forms; each with the  *)
(* locale it comes from.                                                    *)
Entry == [forms : {0} \cup Rule, from : Locale]
Nothing == [forms |-> 0, from |-> Unknown]
Method == [forms |-> 0, from |-> "Object"]
Known == Entry \cup {Nothing, Method}

(* A catalog whose rule is 0 has an expression that new Function refuses:   *)
(* an addTranslations with it throws, with the messages merged.             *)
Catalog == [locale : Locale, messages : UNION {[T -> {0} \cup Rule] : T \in SUBSET Text}, rule : {0} \cup Rule]

TypeOK ==
  /\ TRANSLATIONS \in [Text -> Known]
  /\ PLURAL_EXPR \in (Rule \X Locale) \cup {<<2, Unknown>>}
  /\ LOCALE \in Locale \cup {Unknown}
  /\ added \in 0 .. MaxAdded

Init ==
  /\ TRANSLATIONS = [t \in Text |-> IF t \in Inherited THEN Method ELSE Nothing]
  /\ PLURAL_EXPR = <<2, Unknown>> /\ LOCALE = Unknown
  /\ added = 0

Merged(c) ==
  [t \in Text |-> IF t \in DOMAIN c.messages THEN [forms |-> c.messages[t], from |-> c.locale]
                  ELSE TRANSLATIONS[t]]

(* mutant: the catalog replaces the table *)
addTranslationsAnew(c) ==
  /\ added < MaxAdded /\ added' = added + 1
  /\ TRANSLATIONS' = [t \in Text |-> IF t \in DOMAIN c.messages THEN Merged(c)[t] ELSE Nothing]
  /\ IF c.rule = 0 THEN UNCHANGED <<PLURAL_EXPR, LOCALE>>
     ELSE PLURAL_EXPR' = <<c.rule, c.locale>> /\ LOCALE' = c.locale

addTranslations(c) ==
  /\ added < MaxAdded /\ added' = added + 1
  /\ TRANSLATIONS' = Merged(c)
  /\ IF c.rule = 0 THEN UNCHANGED <<PLURAL_EXPR, LOCALE>>
     ELSE PLURAL_EXPR' = <<c.rule, c.locale>> /\ LOCALE' = c.locale

Next == \E c \in Catalog : addTranslations(c)
Spec == Init /\ [][Next]_vars

(* What the two functions answer: a locale, "itself" for the text in the     *)
(* original, "nothing" for undefined, "throws".                             *)
gettext(t) ==
  CASE TRANSLATIONS[t] = Nothing -> "itself"
    [] TRANSLATIONS[t] = Method -> "nothing"
    [] OTHER -> TRANSLATIONS[t].from

(* PLURALEXPR is no property of Documentation: to call it is a TypeError. *)
ngettext(singular) ==
  IF TRANSLATIONS[singular] = Nothing THEN "itself" ELSE "throws"
-----------------------------------------------------------------------------
(* A catalog that is refused half way leaves texts behind, but the plural   *)
(* rule in force is always the one of the locale the documentation names.   *)
RuleOfLocale == PLURAL_EXPR[2] = LOCALE

(* A text once translated stays translated, whatever comes after, and      *)
(* nothing but a translation replaces it: only names of Object's own        *)
(* properties lack an answer, and only until a catalog has them.            *)
StaysTranslated ==
  [][\A t \in Text : gettext(t) \in Locale => gettext(t)' \in Locale]_vars
=============================================================================
