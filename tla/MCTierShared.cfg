CONSTANTS
    app = app
    job = job
    cron = cron
    data = data
    image = image
    project = project
    net = net
    other = other
    more = more
    NoProject = NoProject
    Nobody = Nobody
    NoVerdict = NoVerdict
    NoReport = NoReport
    Cons <- MCCons
    Vols = {data, more}
    Imgs = {image}
    Nets = {net}
    Projects = {project, other}
    LabelOf <- MCLabelOf
    Carriers <- MCCons
    MountsOf <- MCMountsOf
    ImageOf <- MCImageOf
    NetsOf <- MCNetsOf
    RouteOf <- MCRouteOf
    BuiltIn = {}
    Rooted = {}
    Declared = {}
    Swarm = FALSE
    Remote = FALSE
    MinAbsentScans = 2
    Lives <- MCLives
    MaxEvents = 2
SPECIFICATION Spec
PROPERTIES
    PathsGoInPairsOnly
    OnlyWhatWasReadCancels
