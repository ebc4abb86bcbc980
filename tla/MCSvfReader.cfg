SPECIFICATION Spec
CONSTANTS
  Bytes <- Classes
  Follow <- UsualText
  MaxText = 6
  MaxBrackets = 2
  CleanHandover = TRUE
  Threshold = 2
  FirstSize = 4
  Margin = 3
INVARIANT WritesFit
PROPERTIES
  ImplementsSource
  FileEndVerdict
