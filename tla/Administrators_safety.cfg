SPECIFICATION Spec
CONSTANTS
 Users = {u1,u2,u3}
 NoUser = NoUser
 Configured = {u1,u2}
 Requests = {r1,r2}
SYMMETRY Sym
INVARIANTS BootstrapFiresOnce
PROPERTIES EveryLockoutIsAudited RecoveryOnlyWhenLockedOut
