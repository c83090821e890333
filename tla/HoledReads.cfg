\* The limits of Outputs.cfg.
SPECIFICATION OutputSpec
CONSTANTS
  Files <- MCFiles
  Trees <- MCTrees
  Offsets = {0, 1, 2, 3, 4}
  Limits = {0, 1, 2, 3}
  WholeFileLimit = 3
  KeepFirst = 1
  KeepLast = 1
  MaxReadBytes = 6
  MaxWalked = 3
  MaxListed = 2
  ShellChars = 4
  ShellHeadChars = 2
  ShellTailChars = 1
  ShellLines = 3
  ShellHeadLines = 1
  ShellTailLines = 1
INVARIANT ByteCountsAreReturned
