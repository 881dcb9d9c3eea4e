CONSTANTS
    r1 = r1
    q1 = q1
    f1 = f1
    f2 = f2
    None = None
    Robots = {r1}
    Requests = {f1, f2}
    Formations = {f1, f2}
    Strict = {}
    Members <- RivalFormations
    Handlers = {h1}
    MaxChannel = 1
    MaxFaults <- OneOutage
SPECIFICATION FairSpec
PROPERTIES
    CommandsSettle
    FormationConverges
    FormationBecomesReady
