\* smcpctl reading a script of one or two characters from a pipe or a file
\* (no terminal).  Lines this short fit the scaled buffers, so what the run
\* shows is how the command loop meets the end of its input.  The program
\* really stops, so deadlock is not checked.
CONSTANTS
    Chars <- MCLineChars
    MinInput = 1
    MaxInput = 2
    TtyModes = {FALSE}
    ArgCommands = {}
    CmdResults = {"OK", "FAILED"}
    LineBufSize = 4
    ArgvSize = 2
SPECIFICATION Spec
INVARIANT
    ScriptRunsAsWritten
CHECK_DEADLOCK FALSE
