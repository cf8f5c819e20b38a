SPECIFICATION Spec
CONSTANTS
 Users = {u1}
 Addresses = {a1,a2}
 Invitations = {i1,i2}
 Logins = {l1,l2}
 Clerks = {c1,c2}
 None = None
 MaxOpen = 2
 MaxChanges = 2
SYMMETRY Sym
INVARIANTS OnePendingInvitation RevokedIsRevokedAtWorkOS
PROPERTIES ImplementsAdmission MembershipNeedsAnInvitation
