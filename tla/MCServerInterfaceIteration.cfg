SPECIFICATION Spec
CONSTANTS
    c1 = c1
    c2 = c2
    Conns = {c1, c2}
    Null = null
    MaxMessages = 1
CHECK_DEADLOCK FALSE
PROPERTIES ContainerStableWhileIterated
