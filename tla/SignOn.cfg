SPECIFICATION Spec
CONSTANTS
    Tasks = {q1, q2}
    Providers = {p1, p2}
    Idents = {i1, i2}
    Emails = {e1, e2}
    Tenants = {t1, t2}
    Groups = {staff}
    RoleMap <- MCRoleMap
    Usernames = {e1, e2, root, d8, d32}
    Derived <- MCDerived
    Claims <- MCClaims
    Forms <- MCForms
    AdminName = root
    MaxUsers = 3
    p1 = p1
    p2 = p2
    i1 = i1
    i2 = i2
    e1 = e1
    e2 = e2
    t1 = t1
    t2 = t2
    root = root
    d8 = d8
    d32 = d32
    staff = staff
SYMMETRY Symmetry
INVARIANTS
    AnAdminRemains
    BoundToIdentity
    OneAccountEach
    TrailExplains
