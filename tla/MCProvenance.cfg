CONSTANTS
    here = here
    there = there
    project = project
    other = other
    located = located
    unlocated = unlocated
    elsewhere = elsewhere
    dev = dev
    bare = bare
    lab = lab
    NoPath = NoPath
    NoProject = NoProject
    NoRow = NoRow
    Nobody = Nobody
    Scanners = {s1}
    Paths = {here, there}
    Projects = {project, other}
    Cons = {located, elsewhere}
    VolOrder <- MCVolOrder
    ProjectOf <- MCProjectOf
    PathOf <- MCPathOf
    MountsOf <- MCMountsOf
    LabelOf <- MCLabelOf
    DirectOf <- MCDirectOf
    PrefixOf <- MCPrefixOf
    MinAbsentScans = 2
SPECIFICATION Spec
INVARIANTS
    AbsenceIsOfItsOwn
PROPERTIES
    AbsenceIsConfirmed
