CONSTANTS
    h1 = h1  h2 = h2
    Handlers = {h1, h2}
    Channels = {"web", "whatsapp", "telegram"}
    MaxCommands = 2
    MaxSegments = 2
    MaxQuestions = 2
    MaxInputs = 6
    MaxAtOnce = 4
SYMMETRY HandlerSymmetry
SPECIFICATION Spec
CHECK_DEADLOCK FALSE
INVARIANTS
    SegmentsInOrder
    
    
