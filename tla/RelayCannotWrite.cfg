SPECIFICATION FairSpec
CONSTANTS
  None = None
  MaxVersion = 2
  Writers = {"root"}
PROPERTIES
  RefreshedForNextTime
