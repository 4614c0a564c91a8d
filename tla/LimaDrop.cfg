SPECIFICATION LimaSpec
CONSTANTS
    Size = 2
    MaxFaults = 3
PROPERTIES
    DropResumes
CHECK_DEADLOCK FALSE
