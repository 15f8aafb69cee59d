\* ExtractInstallDir over every command line in the bounds.
CONSTANTS
    Dirs <- MCDirs
    Prefixes <- MCPrefixes
INIT Init
NEXT Next
\* The custom action runs once and the installer moves on.
CHECK_DEADLOCK FALSE
