SPECIFICATION BootSpec
CONSTANTS
    RestartOnly = {h1, h2}
    GuardFrames = 2
INVARIANT GuardedBusIsNotDriven
