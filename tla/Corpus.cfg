SPECIFICATION CorpusSpec
CONSTANTS
  Sources = {"s", "t"}
  Models = {"a1", "a2", "b1"}
  NameOf <- MCNameOf
  Newest = "a2"
  Named = {"b1"}
  NoModel = "none"
  Runners = {"cli", "migrate"}
  Migrator = "migrate"
  Targets = {"a2", "b1"}
  Keyed = {"migrate", "client"}
  Client = "client"
  Corpora <- MCCorpora
  MaxSwitches = 1
  MaxFaults = 1
INVARIANT SameSpace
INVARIANT OneName
INVARIANT LabelSettles
