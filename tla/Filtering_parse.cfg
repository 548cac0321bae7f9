\* Two rules without a pattern, in two lists.
SPECIFICATION Spec
CONSTANTS
  own = own
  list = list
  t1 = t1
  t2 = t2
  NoRule = NoRule
  Text <- PageText
  Host <- PageHost
  ParamOrder <- ParamNames
  Lists <- TwoLists
  Builds <- GenericRules
  Pages = {"p"}
  Headers <- ThreeHeaders
  Queries = {{"q", "u"}}
  Tabs = {t1}
INVARIANTS EveryRuleKept
