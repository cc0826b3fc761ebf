SPECIFICATION Spec
CONSTANTS
  Pages <- MCPages
  Excluded = {1}
  HeadingText = {"a b", "a_b", "c"}
  OwnId <- MCOwnId
  GenerateId <- MCGenerateId
  NoId = ""
  Letter = {"a", "b"}
  TextNodes <- MCTextNodes
  Terms <- MCTerms
  MaxItems = 3
  MaxTerms = 2
  Raw = {"a", "=", "&", "+", "%", "%26", "toString"}
  MaxRaw = 3
  Plain = {"a", "&", "+"}
  MaxPairs = 2
  Text = {"search", "page", "constructor"}
  Methods = {"constructor"}
  Locale = {"de", "fr"}
  Rule = {1, 2}
  MaxAdded = 2
  Char = {"a", "b"}
  MaxPath = 7
  MaxUp = 3
  Animations <- MCAnimations
  MaxHeadings = 2
  Toggler = {t1, t2}
  Pre = {p1}
  MaxClicks = 2
  HeadingTop <- MCHeadingTop
  LastTop = 7
INVARIANTS ContentsFit WalkMarks AddressesRead IconFits LastClickWins PageEnhanced
PROPERTIES TranslationsFit ColorsArrive
\* every script comes to its end
CHECK_DEADLOCK FALSE
