CONSTANTS
  Names <- MCNames
  Directories <- MCDirectories
  wwwroot <- MCRoot
  Urls <- MCUrls
  want_hide_dotfiles = TRUE
  MAXNAMLEN = 3
  InitialPool = 1
  APBUF_INIT = 4
  MaxChanges = 2
SPECIFICATION Spec
INVARIANTS ListsWhatIsThere LinksLeadToEntries BuffersHold
CHECK_DEADLOCK FALSE
