SPECIFICATION FairSpec
CONSTANTS
  r1 = r1
  r2 = r2
  ann = ann
  bob = bob
  annMail = annMail
  bobMail = bobMail
  NoUser = NoUser
  NoEmail = NoEmail
  Requests = {r1, r2}
  Users = {ann, bob}
  Emails = {annMail, bobMail}
  Scenarios <- AllScenarios
  MaxCrashes = 1
INVARIANTS
  TypeOK
  OwnMeeting
  NoStrayFile
  StrandedIsKnown
  AnswerAgrees
  CauseFits
  UploadReadable
PROPERTIES
  AcceptedEnds
CHECK_DEADLOCK FALSE
