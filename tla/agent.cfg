SPECIFICATION Spec
CONSTANTS
    Service <- MCService
    UserAgents = {"git", "npm", "pip", "other"}
    ServerPaths = {"p", "api"}
    MaxHops = 2
    Names <- MCNames
    Manifest <- MCManifest
    States <- MCStates
    Changes <- MCChanges
    Legacy <- MCLegacy
    Watched <- MCWatched
    MaxDebugs = 2
    MaxFaults = 1
INVARIANTS AskedIsPushed FollowedIsServed
PROPERTIES NothingLeftToDo
