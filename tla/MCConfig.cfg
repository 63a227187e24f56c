CONSTANTS
  Texts <- MCTexts
  Contents <- MCContents
  Revisions <- MCRevisions
  ValidNames = {"a", "b"}
  ValidEndpoints = {"url"}
  ValidUnits = {"u"}
  Environments = {"override", "home", "homeless"}
  Recipes = {"content-v1", "older"}
  Word = 1024
  BareZero = BareZero
  Absent = Absent
  Unreadable = Unreadable
  MaxEdits = 2
SPECIFICATION Spec
INVARIANTS
  TypeOK
  AcceptedIsUsable
  LastWordWins
  AnswerIsRight
  UntouchedIsFresh
