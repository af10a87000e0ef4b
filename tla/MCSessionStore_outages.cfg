CONSTANTS
  boss = boss
  anna = anna
  Member <- MCMember
  Boss = boss
  Role = {"VISITOR", "EMPLOYEE", "SUPER_ADMIN"}
  Handler = {"h1", "h2"}
  MaxUpdates = 3
  MaxFaults = 2
SPECIFICATION Spec
INVARIANT TypeOK
INVARIANT RoleIsCurrent
 
PROPERTY Recovers
CHECK_DEADLOCK FALSE
