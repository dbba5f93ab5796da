\* Five nodes: a list long enough to unlink its front, its back and a middle node.
SPECIFICATION Spec
CONSTANTS
    Process = {p1, p2, p3, p4, p5}
    None = None
INVARIANTS
    ListIsQueue
    NodesAccounted
PROPERTIES
    RefinesRunQueue
