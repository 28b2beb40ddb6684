CONSTANTS
  Hostnames = {"h1"}
  OtherClasses = {"other"}
  Issuers = {"issuer"}
  Subnets = {"subnet"}
  StorageClasses = {"fast"}
  ClusterDefault = "std"
  Sites <- SitesDef
  Generated <- GeneratedDef
  MaxEdits = 1
  None = None
SPECIFICATION Spec
INVARIANTS CredentialsAgree NoStrayKCMCP AssociationKept ClassKept
PROPERTIES CredentialsKept AcceptingOfferedKeeps
