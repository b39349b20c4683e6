SPECIFICATION Spec
CONSTANTS
    p = p
    q = q
    s1 = s1
    Process <- OneCommand
    Subject <- OneSubject
    Given <- AnyFields
    Observable <- WithinASecond
PROPERTIES
    OlderNeverOverwritesNewer
