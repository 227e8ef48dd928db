\* Two viewers, two sources or one and a crash; either agent.
SPECIFICATION Spec
CONSTANTS
    v1 = v1  v2 = v2
    NoViewer = NoViewer
    Viewer = {v1, v2}
    Kinds = {"video", "audio"}
    PipeLimit = 1
    SocketLimit = 1
    MaxChunks = 2
    MaxTurns = 2
INVARIANTS TypeOK ReadyIsListening StreamIsWhole EofIsWhole
PROPERTIES ImplementsService WithdrawnOnce OpenIsAnswered GoneIsLetGo
CHECK_DEADLOCK FALSE
