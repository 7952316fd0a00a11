SPECIFICATION Spec
CONSTANTS
  Omitted = Omitted
  Provides <- Catalog
  Unset = Unset
  Gone = Gone
  Manual = Manual
  bot = bot
  github = github
  google = google
  mail = mail
  desk = desk
  push1 = push1
  push2 = push2
  SKILL_md = SKILL_md
  notes = notes
  MinutesPerHour = 2
  HoursPerDay = 3
  MonthDays = 3
  Months = 2
  WeekDays = 3
  DateOf <- Calendar
  Lookahead = 6
  Setups <- SomeSetups
  Agents <- OneBot
  Spaces <- OneDesk
  Layers <- SomeLayers
  Start = 7
  Late = 3
  Pushers <- TwoPushers
  SkillMd = SKILL_md
  Others <- OneNote
  Shapes <- SomeShapes
  Official <- Tarball
INVARIANTS RunsThrough LaunchesAsChecked SlotIsNext PushKeepsSkill
SYMMETRY EitherPusher
CHECK_DEADLOCK FALSE
