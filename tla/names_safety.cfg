SPECIFICATION Spec
CONSTANTS
    Characters <- MCCharacters
    PublicPrefixes <- MCPublicPrefixes
    Texts <- MCTexts
    Objects <- MCObjects
    MaxAsked = 2
INVARIANTS
    TypeOK
    PathsAreParsed
    JobReadsWhatWasAsked
    OneJobPerResource
CHECK_DEADLOCK FALSE
