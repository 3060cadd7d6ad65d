SPECIFICATION Spec
CONSTANTS
  Clients = {c, d}
  Requests <- MCRequests
  NoKey = "nokey"
  Orgs = {"acme", "globex"}
  SeedUsers <- MCUsers
  SeedProjects <- MCProjects
  SeedIssues <- MCIssues
  SeedMembers <- MCMembers
  PageLimit = 1
  Reader = 2
  ListedProject = 1
  MaxRequests = 3
SYMMETRY MCAlike
CHECK_DEADLOCK FALSE
INVARIANTS TypeOK TenantsApart AuditTellsWhatIsThere RetriesAgree PagesComplete
