\* Two tabs, two users, three organizations; no bound is needed.
CONSTANTS
    Tabs = {tab1, tab2}
    ann = ann
    bob = bob
    a1 = a1
    a2 = a2
    b1 = b1
    Users = {ann, bob}
    OrgsOf <- Orgs2
    FirstOf <- First2
    Null = Null
SPECIFICATION WorkspacesSpec
SYMMETRY Symmetry
INVARIANTS
    RequestsAreAdmitted
    MismatchIsExplained
