SPECIFICATION Spec
CONSTANTS
  ann = ann
  bob = bob
  cyd = cyd
  i1 = i1
  i2 = i2
  r1 = r1
  r2 = r2
  Emails <- MCEmails
  Founders <- MCFounders
  Invitees <- MCInvitees
  Names <- MCNames
  Slugs <- MCSlugs
  MaxSuffix <- MCMaxSuffix
  SlugOf <- MCSlugOf
  InviteRoles = {"admin", "viewer"}
  InviteIds = {i1, i2}
  Requests = {r1, r2}
SYMMETRY Symmetry
INVARIANTS
  TypeOK
  OneOwnerPerOrg
  OwnersBelongNowhereElse
  EveryAccountWasPlaced
  ReadsStayTrue
  MembershipsComeFromInvites
PROPERTIES
  OwnershipIsARegistry
  PromotionsAloneOvertake
