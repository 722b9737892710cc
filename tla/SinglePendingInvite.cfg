SPECIFICATION Spec
CONSTANTS
  ann = ann
  bob = bob
  cyd = cyd
  i1 = i1
  i2 = i2
  r1 = r1
  r2 = r2
  Emails <- MCEmails
  Founders <- MCFounders
  Invitees = {cyd}
  Names <- MCNames
  Slugs <- MCSlugs
  MaxSuffix <- MCMaxSuffix
  SlugOf <- MCSlugOf
  InviteRoles = {"viewer"}
  InviteIds = {i1, i2}
  Requests = {r1, r2}
SYMMETRY Symmetry
INVARIANT SinglePendingInvite
