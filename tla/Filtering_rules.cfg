\* Every three of the patterns, and every three of the rules with modifiers,
\* parsed by two goroutines; two tabs.
SPECIFICATION Spec
CONSTANTS
  own = own
  list = list
  t1 = t1
  t2 = t2
  NoRule = NoRule
  Text <- PageText
  Host <- PageHost
  ParamOrder <- ParamNames
  Lists <- TwoLists
  Builds <- AllBuilds
  Pages = {"p"}
  Headers <- ThreeHeaders
  Queries = {{"q", "u"}}
  Tabs = {t1, t2}
PROPERTIES PatternsDecide ListsDecide AllowedNeverBlocks
