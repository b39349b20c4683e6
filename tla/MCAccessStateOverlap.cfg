SPECIFICATION Spec
CONSTANTS
    p = p
    q = q
    s1 = s1
    Process <- TwoCommands
    Subject <- OneSubject
    Given <- AnyFields
    Observable <- WholeSeconds
PROPERTIES
    OlderNeverOverwritesNewer
