SPECIFICATION SessionSpec
CONSTANTS
  None = None
  ElementNames <- MCElementNames
  Served <- MCServed
  Routes <- MCRoutes
  Urls <- MCUrls
  Leaky <- MCLeaky
  Flattened <- MCFlattened
  MaxImages = 4
  Runbooks <- MCRunbooks
  Operations <- MCOperations
  ArgumentSets <- MCArgumentSets
  Replies <- MCReplies
  Families <- MCFamilies
  Location <- MCLocation
  MaxRedirects = 2
  Widgets <- MCWidgets
  Uris <- MCUris
  Hosts = {"mcp", "alias"}
  ClientIds = {"public", "other"}
  RedirectUris = {"callback", "elsewhere"}
  Origins = {"claude", "inspector", "localhost"}
  LocalOrigins = {"localhost"}
  ProdOrigins = {"claude"}
  StagingOrigins = {"inspector"}
  Unset = Unset
  Deployments <- MCDeployments
CHECK_DEADLOCK FALSE
INVARIANTS
  TypeOK
  NothingHidden
  OmitHonest
  PicturesHonest
  NoOtherHostThanTheWidget
  ResourcesReadable
  OnboardingSound
  LinksHonest
  ForwardedExactly
  ErrorsSafe
