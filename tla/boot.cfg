\* Every command line of up to four words, and ctrl-C at any time.
SPECIFICATION FairSpec
CONSTANTS
  MaxArgs = 4
  NULL = NULL
INVARIANTS
  TestChosen
  OptionsObeyed
  CrashesOnly
PROPERTIES
  Completes
