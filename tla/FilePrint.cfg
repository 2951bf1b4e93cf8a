CONSTANTS
  NfThreads = {t1}
  NfChannels = {1, 2}
  NfFiles = 2
  NfItems = 2
  NfNesting = 2
SPECIFICATION NfSpec
INVARIANT FileLinesWhole
CHECK_DEADLOCK FALSE
