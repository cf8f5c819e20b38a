CONSTANTS
  NONE = NONE
  NoUrl = NoUrl
  u1 = u1
  u2 = u2
  o1 = o1
  o2 = o2
  j1 = j1
  i1 = i1
  i2 = i2
  a1 = a1
  a2 = a2
  w1 = w1
  k1 = k1
  oldMail = oldMail
  newMail = newMail
  otherMail = otherMail
  Users <- MCUsers
  Orgs <- MCOrgs
  Jobs <- MCJobs
  Invitations <- MCInvitations
  Connections <- MCConnections
  ProcessOf <- MCProcessOf
  OrgOf <- MCOrgOf
  RecipientOf <- MCRecipientOf
  InvitedTo <- MCInvitedTo
  InvitedAs <- MCInvitedAs
  Mailbox <- MCMailbox
  Founders <- MCFounders
  Roles <- MCRoles
  Deployments <- MCDeployments
  BootstrapUser = u1
  MaxSessions = 2
  MaxChanges = 2
  MaxVersion = 3
SPECIFICATION SessionSpec
SYMMETRY Pool
CHECK_DEADLOCK FALSE
INVARIANTS ExposureIsBounded NeverBlind RowsKeepTheirTenant ServesUnderPolicies NoLostUpdate
