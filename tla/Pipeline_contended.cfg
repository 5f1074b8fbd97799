SPECIFICATION Spec
CONSTANTS
  Runners = {c1, c2, s}
  Daemons = {}
  Servers = {s}
  DryRunners = {s}
  NAccounts = 1
  Messages = {"a1", "a2"}
  AccountOf <- MCAccountOf
  Parseable = {"a1"}
  NRules = 2
  Scope <- MCScope
  Inline <- MCInline
  Lists = {"vip"}
  ListOf <- MCListOf
  Negated = {1}
  ListStates <- EmptyOrMissing
  Perishable = {"a1"}
  Formats = {"eml", "md"}
  FormatsOf <- MCFormatsOf
  Dests = {"news", "other"}
  DestOf <- MCDestOf
  OnMessageFailure = "abort"
  OnDegradedFilter = "fail"
  NoRunner = NoRunner
  NoMessage = NoMessage
  NoList = NoList
SYMMETRY Interchangeable
CONSTRAINT StillFailing
INVARIANT NoLostUpdate
