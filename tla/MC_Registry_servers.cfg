\* Two servers on their own ports that start, stop, crash and come back, services
\* registered and unregistered meanwhile, and one session that ends early.
CONSTANTS
    Servers = {s1, s2}
    Services = {calc}
    Port <- OwnPort
    Faults = {"late", "loss", "expire"}
    Overlap = FALSE
    RestartSoon = FALSE
    MaxStarts = 2
    MaxCalls = 1
    MaxFaults = 1
SPECIFICATION Spec
   
PROPERTIES CrashedDisappears CallsReturn
\* The bounds on starts and calls end every behaviour.
CHECK_DEADLOCK FALSE
