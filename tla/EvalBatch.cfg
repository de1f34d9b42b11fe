\* Three skills, the batch started three times in one directory.
CONSTANTS
    Skills = 3
    Attempts = 3
SPECIFICATION Spec
INVARIANTS
    SuccessCoversEverySkill
    ReportsBeforeManifest
