\* Two agent files of four contents or none, two sets of main files.
CONSTANTS
    AgentFiles = {1, 2}
    AgentContents <- MCAgentContents
    MainConfigs <- MCMainConfigs
    ValidIds = {"a", "b", "default"}
    MinSecret = 32
    Unparsable = Unparsable
    NoFile = NoFile
    NoDir = NoDir
    NoSecret = NoSecret
    NoSection = NoSection
    NoBoot = NoBoot
    Disturbed = Disturbed
SPECIFICATION Spec
INVARIANTS
    ConfigIsUsable
    FingerprintsTell
