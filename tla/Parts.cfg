SPECIFICATION Spec
CONSTANTS
  PartsRun = {"route", "netmail", "mime", "text", "url", "parse", "conferences", "mailtoss", "newstoss", "ibolimport", "ftntoss", "search", "praise", "survey", "settings", "letters", "ftnconf", "users", "plan", "files", "purge"}
  None = None
  Bad = Bad
  u1 = u1
  u2 = u2
  p1 = p1
  p2 = p2
  i1 = i1
  i2 = i2
INVARIANTS Routes MailShown Admitted CommentsArrive ImportedOnce TossAnnounced OpinionsKept CommandsFound PersonalKept LettersArrive FilesListed NewsHeard PurgeKeeps
PROPERTY FirstIsLowest
CHECK_DEADLOCK FALSE
