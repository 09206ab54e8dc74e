SPECIFICATION ScreenshotSpec
CONSTANTS
  Callers = {a}
  Wayland = FALSE
  MaxCalls = 2
INVARIANT SuccessIsSaved
CHECK_DEADLOCK FALSE
