SPECIFICATION Spec
CONSTANTS
    conf1 = conf1
    conf2 = conf2
    broken = broken
    Confs = {conf1, conf2, broken}
    Valid = {conf1, conf2}
    None = None
    Gens = {1, 2, 3, 4}
    MaxFaults = 1
PROPERTY UnchangedMeansRunning
