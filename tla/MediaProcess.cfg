\* Two lines more than a pipe holds on either stream, two presses of Ctrl-C.
CONSTANTS
    Streams = {stdout, stderr}
    Stderr = stderr
    Lines = 3
    PipeSize = 1
    MaxStderrLines = 2
    MaxInterrupts = 2
    Eof = Eof
SPECIFICATION FairSpec
INVARIANTS TypeOK NoChildLeftRunning AcceptedIsWhole
PROPERTIES RunEnds
CHECK_DEADLOCK FALSE
