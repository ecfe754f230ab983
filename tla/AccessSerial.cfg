SPECIFICATION Spec
CONSTANTS
    ann = ann
    ben = ben
    bob = bob
    annMail = annMail
    bMail = bMail
    Users = {ann, ben, bob}
    Emails = {annMail, bMail}
    Email <- MCEmail
    SuperAdmins = {ann}
    Grants = {"manager", "member"}
    Invites = {i1, i2}
    Requests = {r1}
    None = None
SYMMETRY Symmetry
PROPERTIES
    SingleUse
CHECK_DEADLOCK FALSE
