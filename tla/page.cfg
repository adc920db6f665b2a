SPECIFICATION FairPageSpec
CONSTANTS
  Script <- MCScript
  MaxPolls = 2
  MaxRestarts = 1
INVARIANTS
  AlertsOfTheRun
  PictureFirst
PROPERTIES
  PageCatchesUp
  PictureCatchesUp
