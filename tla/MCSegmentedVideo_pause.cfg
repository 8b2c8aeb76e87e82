SPECIFICATION VideoSpec
CHECK_DEADLOCK FALSE
CONSTANTS
  upload = upload
  Segments = {g1, g2, upload}
  SourceOf <- Sources
  MaxTransports = 2
INVARIANT PausedStaysPaused
