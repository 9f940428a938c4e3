CONSTANTS
  v1 = v1  v2 = v2
  Viewers = {v1, v2}
  Rates <- MCRates
  Fallback <- MCFallback
  Family <- MCFamily
  BufLimit = 2
  DayTicks = 2
  MonthDays = 2
  MaxCoverageDays = 400
  Scripts <- MCScripts
  Catalogue <- MCCatalogue
  Asked = "gpt-4o-mini"
  CallTime = 6
  Windows = {0, 1}
  MaxRows = 3
  MaxTears = 1
  Names <- MCNames
SPECIFICATION Spec
SYMMETRY ViewerSymmetry
ACTION_CONSTRAINT CallFirst
CHECK_DEADLOCK FALSE
INVARIANTS StreamMetersLikeBody LostOnlyToTears BarsAddUp
PROPERTIES AnswersAreFresh BillReplacesOnlyItsDays
