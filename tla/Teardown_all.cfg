CONSTANTS
    web = web
    app = app
    other = other
    my = my
    myapp = myapp
    oWeb = oWeb
    oApp = oApp
    c1 = c1
    c2 = c2
    Bases = {web, other}
    Envs = {app}
    Projects = {my, myapp}
    Owners = {oWeb, oApp}
    ProjectOf <- MCProjectOf
    BaseOf <- MCBaseOf
    OwnerOf <- MCOwnerOf
    NoFootprint = NoFootprint
    CLIs = {c1, c2}
    MaxStarts = 3
    MaxFaults = 1
SPECIFICATION Spec
INVARIANT LiveIsAccountedFor
PROPERTY TeardownsAreExact Reaped
\* Every footprint is gone, or stays, and no command is left to run.
CHECK_DEADLOCK FALSE
