SPECIFICATION Spec
CONSTANTS
    LowerCase <- Lowered
    Singular <- Singulars
    Numerals <- Digits
    Fields <- FieldsOf
    ReadOnly <- IsReadOnly
    PartType <- PartTypeOf
    FilePart <- IsFile
    RequiredNames <- RequiredOf
    ObjectSchema <- IsObject
    JSONFlagType <- FlagTypeOf
    Projects <- AllProjects
    Edits <- FilesAgain
    Compiled <- GeneratedApp
    Trees <- SkillTrees
    Sources = {"a", "b"}
    MaxRuns = 2
    MaxFaults = 1
    Versions <- Runnings
    SuffixOrder <- Ranks
    Archives <- AllArchives
    Releases <- AllReleases
    Requested <- AllRequests
    Starters <- AllStarters
INVARIANTS RefusalWritesNothing
CHECK_DEADLOCK FALSE
