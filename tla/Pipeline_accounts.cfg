SPECIFICATION FairSpec
CONSTANTS
  Runners = {d}
  Daemons = {d}
  Servers = {}
  DryRunners = {}
  NAccounts = 2
  Messages = {"a1", "b1"}
  AccountOf <- MCAccountOf
  Parseable = {"a1", "b1"}
  NRules = 2
  Scope <- MCScope
  Inline <- MCInline
  Lists = {"vip"}
  ListOf <- MCListOf
  Negated = {}
  ListStates <- WholeOrMissing
  Perishable = {"a1"}
  Formats = {"eml", "md"}
  FormatsOf <- MCFormatsOf
  Dests = {"news", "other"}
  DestOf <- MCDestOf
  OnMessageFailure = "quarantine"
  OnDegradedFilter = "hold"
  NoRunner = NoRunner
  NoMessage = NoMessage
  NoList = NoList
INVARIANTS NeverForgotten OkMeansSettled
PROPERTIES DegradedHolds EventuallySettled
