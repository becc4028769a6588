SPECIFICATION BrowserSpec
INVARIANT RetryAfterClosingWorks
CHECK_DEADLOCK FALSE
