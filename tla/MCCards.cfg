SPECIFICATION FairSpec
CONSTANTS
  call1 = call1
  call2 = call2
  question = question
  turn = turn
  work = work
  owner = owner
  guest = guest
  bash = bash
  Question = {}
  Run = {turn, work}
  Background = {work}
  User = {owner, guest}
  Tool = {bash}
  OwnerOf <- OneOwner
  ToolOf <- OneTool
  Admitted <- Everybody
  Call = {call1, call2}
  RunOf <- TurnAndWork
  Client = {}
  Faults = TRUE
INVARIANTS
  TypeOK
  AllowedByOwner
  BackgroundStays
PROPERTIES
  EveryCardLeaves
  BackgroundCloses
CHECK_DEADLOCK FALSE
