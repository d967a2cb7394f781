SPECIFICATION FairSpec
CONSTANTS
  p1 = p1
  p3 = p3
  NoPriority = NoPriority
  NoTime = NoTime
  Priorities = {p1, p3}
  Calendar = {p1}
  Window <- MCWindow
  DayLength = 4
  Opens = 1
  Closes = 3
  Created = 1
  Triages = {w1}
  MaxTime = 6
PROPERTIES
  BreachesStand
  PausesKeepMargins
  ReopensKeepMargins
  BreachesAreRecorded
