CONSTANTS
  RawUrls <- MCRawUrls
  Options <- MCOptions
  wwwroot <- MCRoot
  index_name <- MCIndex
  default_extension_map <- MCDefaults
  mimetypes <- MCMimeTypes
  None = None
  default_mimetype <- MCOctets
SPECIFICATION Spec
INVARIANTS ResultIsClean
INVARIANTS OpensWhatWasAsked HiddenStaysHidden RedirectLeadsIn TypeIsOfTheFile
PROPERTY ImplementsWalk
CHECK_DEADLOCK FALSE
