SPECIFICATION Spec
CONSTANTS
    ann = ann
    ben = ben
    bob = bob
    annMail = annMail
    bMail = bMail
    Users = {ann, ben, bob}
    Emails = {annMail, bMail}
    Email <- MCEmail
    SuperAdmins = {bob}
    Grants = {"manager", "member"}
    Invites = {i1}
    Requests = {r1, r2}
    None = None
SYMMETRY Symmetry
INVARIANTS
    LiveHasAdmin
    JoinedByInvite
PROPERTIES
    EntersByAccept
    ReturnsByStaleAccept
CHECK_DEADLOCK FALSE
