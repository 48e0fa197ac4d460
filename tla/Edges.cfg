\* Two accounts, three clients of a limiter with room for two, two templates in a calendar of
\* two-day years, one card with two moves at a
\* time, two conversations of a chat with one text of the person's and one of another's.
SPECIFICATION SpecAll
CONSTANTS
  Persons = {p1}
  MaxAccounts = 2
  Tokens = {x1, x2}
  Clients = {y1, y2}
  Forms <- OneForm
  MaxChanges = 1
  Keys = {k0, x1, x2}
  Watched = k0
  MaxRequests = 2
  Window = 2
  MaxEntries = 2
  MaxClock = 5
  Templates = {"daily", "often"}
  InProject = {"often"}
  Writers = {w1}
  MinutesPerHour = 2
  HoursPerDay = 1
  DaysPerWeek = 2
  DaysPerYear = 2
  MaxMinute = 5
  MaxTwins = 2
  Tasks = {t1}
  Statuses = {"todo", "done"}
  Fetches = {1}
  Moves = {x1, x2}
  MaxTries = 1
  MaxWrites = 2
  MaxDrags = 2
  Conversations = {c, g}
  Coordinated = {c}
  Texts = {t2}
  OtherTexts = {t3}
  Posts = {1}
  Loads = {1}
  Page = 2
  ListMax = 3
  MaxMessages = 3
SYMMETRY Symmetry
INVARIANTS TypesOK  OneFirstAdmin LimitIsKept BoardIsTrue 
 
CHECK_DEADLOCK FALSE
