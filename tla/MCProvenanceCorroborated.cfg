CONSTANTS
    here = here
    there = there
    project = project
    other = other
    located = located
    unlocated = unlocated
    elsewhere = elsewhere
    dev = dev
    bare = bare
    lab = lab
    NoPath = NoPath
    NoProject = NoProject
    NoRow = NoRow
    Nobody = Nobody
    Scanners = {s1}
    Paths = {here}
    Projects = {project}
    Cons = {located, unlocated}
    VolOrder <- MCVolOrderTwo
    ProjectOf <- MCProjectOfTwo
    PathOf <- MCPathOfTwo
    MountsOf <- MCMountsOfTwo
    LabelOf <- MCLabelOfTwo
    DirectOf <- MCDirectOfTwo
    PrefixOf <- MCPrefixOfTwo
    MinAbsentScans = 2
SPECIFICATION SpecWithStreak
PROPERTIES
    AbsenceIsCorroborated
