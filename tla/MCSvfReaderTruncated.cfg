SPECIFICATION Spec
CONSTANTS
  Bytes <- Classes
  Follow <- UsualText
  MaxText = 3
  MaxBrackets = 2
  CleanHandover = TRUE
  Threshold = 2
  FirstSize = 4
  Margin = 3
INVARIANT UploadEndVerdict
