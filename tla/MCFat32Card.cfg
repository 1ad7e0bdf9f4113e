\* One app saving files of one or two clusters, two entries to a directory
\* cluster: with four files the directory grows, and once more when the link
\* to its second cluster is misread.
CONSTANTS
    Writers = {"photo"}
    LastCluster = 9
    SlotsPerCluster = 2
    MaxFileClusters = 2
    MaxSaves = 4
    MaxFaults = 1
SPECIFICATION CardSpec
INVARIANTS ChainsDisjoint SavedFilesStay NothingLeaks
PROPERTIES CardComesBack
