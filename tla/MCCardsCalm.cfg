SPECIFICATION Spec
CONSTANTS
  call1 = call1
  call2 = call2
  question = question
  turn = turn
  work = work
  owner = owner
  guest = guest
  bash = bash
  Question = {question}
  Run = {turn, work}
  Background = {work}
  User = {owner, guest}
  Tool = {bash}
  OwnerOf <- OneOwner
  ToolOf <- OneTool
  Admitted <- Everybody
  Call = {call1, call2, question}
  RunOf <- TurnAndWork
  Client = {turn}
  Faults = FALSE
INVARIANTS
  OneClick
  CardTellsVerdict
PROPERTY NotAskedAgain
CHECK_DEADLOCK FALSE
