------------------------------ MODULE SmcpctlShell -----------------------------
(***************************************************************************)
(* The smcpctl shell (src/src/smcpctl/main.c): main runs one sub-command   *)
(* given on its command line and returns, or enters command mode, where    *)
(* it reads lines from stdin and hands each to process_input_line, which   *)
(* splits it into words with strsep and calls exec_command.  On a terminal *)
(* the lines come through readline's callback interface one character per  *)
(* loop iteration (rl_callback_read_char); otherwise (a pipe, or a file    *)
(* given with -f) each iteration calls fgets into a 200-byte buffer.       *)
(*                                                                         *)
(* Data is abstracted to what exec_command tells apart.  A character is    *)
(* a word character, a blank or newline (strsep's delimiters) or '#'.  The *)
(* word characters are "q" (the quit word: "quit", "exit" and "q" behave   *)
(* alike), "?" (the hidden alias of "help", tool_cmd_help) and "g", which  *)
(* stands for the name of a command implemented in another file (get,     *)
(* post, list, ...) whose result is a choice from CmdResults.  Any other   *)
(* word is not recognised.  cd, whose url_change is not in src/, and the   *)
(* daemon work between iterations (smcp_daemon_process) are not modelled.  *)
(***************************************************************************)
EXTENDS Integers, Sequences, SequencesExt

CONSTANTS
    Chars,          \* the characters a script or a terminal user may type
    MinInput,       \* bound: characters of input, at least
    MaxInput,       \*   and at most
    TtyModes,       \* isatty(fileno(stdin)): TRUE, FALSE or both
    ArgCommands,    \* sub-commands main may be given on its command line
    CmdResults,     \* what the entrypoint of a "g" command may return
    LineBufSize,    \* sizeof(linebuffer): 200 in the code
    ArgvSize        \* the length of argv2[]: 100 in the code

\* The ratio of the code: a full fgets buffer of one-letter words fills argv2.
ASSUME LineBufSize = 2 * ArgvSize /\ ArgvSize \in Nat \ {0}

Delims    == {" ", "\n"}            \* strsep(&inputstring, " \t\n\r")
QuitWord  == <<"q">>                \* "quit", "exit", "q"
HelpWord  == <<"?">>                \* commandList entry "?" -> tool_cmd_help
OtherWord == <<"g">>                \* a commandList entry implemented elsewhere
HelpFlag  == <<"-", "-", "h">>      \* the "--help" tool_cmd_help passes on

\* gRet values: 0 and the ERRORCODE_* constants.
OK == "OK"
QUIT == "QUIT"
HELP == "HELP"
BADCOMMAND == "BADCOMMAND"

(* strsep applied until it returns NULL: the pieces of s between single   *)
(* delimiters of D, empty pieces included.                                 *)
RECURSIVE Pieces(_, _)
Pieces(s, D) ==
    LET i == SelectInSeq(s, LAMBDA c : c \in D)
    IN  IF i = 0 THEN <<s>>
        ELSE <<SubSeq(s, 1, i - 1)>> \o Pieces(SubSeq(s, i + 1, Len(s)), D)

(* The loop of process_input_line: a piece starting with '#' ends the     *)
(* line; every other non-empty piece becomes the next argv2 entry.         *)
Words(l) ==
    LET ps   == Pieces(l, Delims)
        stop == SelectInSeq(ps, LAMBDA p : p # <<>> /\ Head(p) = "#")
        kept == IF stop = 0 THEN ps ELSE SubSeq(ps, 1, stop - 1)
    IN  SelectSeq(kept, LAMBDA p : p # <<>>)

(* The loop writes *ap once per strsep call, the final NULL included, so   *)
(* it writes argv2[argc2] after the last word: past the array as soon as   *)
(* the line has ArgvSize words before any comment.                         *)
OverrunsArgv(l) == Len(Words(l)) >= ArgvSize

(* exec_command: the set of values it may return for argv.  The quit      *)
(* words return ERRORCODE_QUIT, a commandList name calls its entrypoint,   *)
(* anything else is ERRORCODE_BADCOMMAND.                                  *)
RECURSIVE exec_command(_), tool_cmd_help(_)
exec_command(argv) ==
    CASE argv[1] = QuitWord  -> {QUIT}
      [] argv[1] = HelpWord  -> tool_cmd_help(argv)
      [] argv[1] = OtherWord -> CmdResults
      [] OTHER               -> {BADCOMMAND}

(* tool_cmd_help: "help --help" and "help" alone print and return         *)
(* ERRORCODE_HELP; "help <word>" re-enters exec_command with               *)
(* <word> --help and returns whatever that returns.                        *)
tool_cmd_help(argv) ==
    IF Len(argv) = 2 /\ argv[2] = HelpFlag THEN {HELP}
    ELSE IF Len(argv) = 2 /\ Head(argv[2]) # "-"
         THEN exec_command(<<argv[2], HelpFlag>>)
         ELSE {HELP}

VARIABLES
    phase,      \* "start", "loop" (command mode), "exited", "crashed"
    istty,      \* isatty(fileno(stdin))
    args,       \* the sub-command on main's command line, <<>> for none
    script,     \* everything stdin will deliver (a history variable)
    stdin,      \* what stdin has not delivered yet
    eof,        \* the stdio end-of-file indicator of stdin
    linebuffer, \* the contents of main's linebuffer, up to its NUL
    filled,     \* some fgets has stored into linebuffer
    rlLine,     \* the line readline has collected so far
    gRet,       \* the static gRet
    executed    \* the argv of every top-level exec_command call, in order

vars == <<phase, istty, args, script, stdin, eof, linebuffer, filled, rlLine,
          gRet, executed>>

\* What stdin may hold.  A terminal user ends every line with Return before
\* typing Ctrl-D, which readline reports only on an empty line.
Inputs(tty) ==
    {s \in BoundedSeq(Chars, MaxInput) :
        /\ Len(s) >= MinInput
        /\ tty => (s = <<>> \/ Last(s) = "\n")}

Init ==
    /\ phase = "start"
    /\ istty \in TtyModes
    /\ args \in {<<>>} \cup ArgCommands
    /\ script \in Inputs(istty)
    /\ stdin = script
    /\ eof = FALSE
    /\ linebuffer = <<>>
    /\ filled = FALSE
    /\ rlLine = <<>>
    /\ gRet = OK
    /\ executed = <<>>

\* The bail label of main: ERRORCODE_QUIT becomes exit status 0.
Bail(r) == IF r = QUIT THEN OK ELSE r

(* main after its options: a sub-command on the command line that is not  *)
(* an smcp:/coap: URL is run by exec_command and main returns (it stays    *)
(* only after a successful cd); without one it enters command mode, where  *)
(* on a terminal initialize_readline installs process_input_line.          *)
Start ==
    /\ phase = "start"
    /\ IF args # <<>>
          THEN \E r \in exec_command(args) :
                  /\ executed' = Append(executed, args)
                  /\ gRet' = Bail(r)
                  /\ phase' = "exited"
          ELSE /\ phase' = "loop"
               /\ UNCHANGED <<executed, gRet>>
    /\ UNCHANGED <<istty, args, script, stdin, eof, linebuffer, filled, rlLine>>

(* process_input_line(l): an empty line or one with no words runs nothing; *)
(* otherwise gRet takes what exec_command returns.  When the words filled   *)
(* argv2, the NULL written past it is undefined behaviour: it goes          *)
(* unnoticed, or the stack protector aborts the process when the function   *)
(* returns, after the command has run.  An empty line jumps to bail, which  *)
(* frees the caller's l: readline's line is heap memory (heap), but main's  *)
(* linebuffer is on the stack, and freeing it is undefined behaviour that  *)
(* goes unnoticed or aborts the process.                                    *)
process_input_line(l, heap) ==
    IF l = <<>>
    THEN /\ UNCHANGED <<gRet, executed>>
         /\ phase' \in IF heap THEN {"loop"} ELSE {"loop", "crashed"}
    ELSE IF Words(l) = <<>>
    THEN UNCHANGED <<gRet, executed, phase>>
    ELSE \E r \in exec_command(Words(l)) :
            /\ executed' = Append(executed, Words(l))
            /\ gRet' = r
            /\ phase' \in IF OverrunsArgv(l) THEN {"loop", "crashed"} ELSE {"loop"}

\* The test of main's command-mode while loop.
LoopContinues == gRet # QUIT /\ ~eof

(* One iteration without a terminal: fgets(linebuffer, LineBufSize, stdin) *)
(* and process_input_line(linebuffer), whatever fgets returned.  fgets     *)
(* stores up to LineBufSize - 1 characters, through the first newline; it  *)
(* sets the end-of-file indicator only when it tries to read past the      *)
(* end.  When it reads nothing it returns NULL and leaves linebuffer as it *)
(* was: the previous line, or uninitialised bytes if there was none.       *)
ScriptStep ==
    /\ phase = "loop" /\ ~istty /\ LoopContinues
    /\ \/ /\ stdin = <<>>
          /\ eof' = TRUE
          /\ IF filled
                THEN /\ UNCHANGED linebuffer
                     /\ process_input_line(linebuffer, FALSE)
                ELSE \E g \in BoundedSeq(Chars, LineBufSize - 1) :
                        /\ linebuffer' = g
                        /\ process_input_line(g, FALSE)
          /\ UNCHANGED <<stdin, filled>>
       \/ /\ stdin # <<>>
          /\ LET n    == LineBufSize - 1
                 nl   == SelectInSeq(stdin, LAMBDA c : c = "\n")
                 k    == IF nl # 0 THEN Min({nl, n}) ELSE Min({Len(stdin), n})
                 line == SubSeq(stdin, 1, k)
             IN  /\ linebuffer' = line
                 /\ stdin' = SubSeq(stdin, k + 1, Len(stdin))
                 /\ eof' = (nl = 0 /\ Len(stdin) < n)
                 /\ filled' = TRUE
                 /\ process_input_line(line, FALSE)
    /\ UNCHANGED <<istty, args, script, rlLine>>

(* One iteration on a terminal: poll reports stdin readable and            *)
(* rl_callback_read_char takes one character.  A newline hands the line,   *)
(* without it, to process_input_line; end of input on an empty line calls  *)
(* the handler with NULL, and process_input_line reads l[0] through it.    *)
TtyStep ==
    /\ phase = "loop" /\ istty /\ LoopContinues
    /\ \/ /\ stdin = <<>>
          /\ phase' = "crashed"
          /\ UNCHANGED <<stdin, rlLine, gRet, executed>>
       \/ /\ stdin # <<>> /\ Head(stdin) = "\n"
          /\ stdin' = Tail(stdin)
          /\ rlLine' = <<>>
          /\ process_input_line(rlLine, TRUE)
       \/ /\ stdin # <<>> /\ Head(stdin) # "\n"
          /\ stdin' = Tail(stdin)
          /\ rlLine' = Append(rlLine, Head(stdin))
          /\ UNCHANGED <<gRet, executed, phase>>
    /\ UNCHANGED <<istty, args, script, eof, linebuffer, filled>>

\* The loop test fails: main goes to bail and returns gRet.
Exit ==
    /\ phase = "loop" /\ ~LoopContinues
    /\ phase' = "exited"
    /\ gRet' = Bail(gRet)
    /\ UNCHANGED <<istty, args, script, stdin, eof, linebuffer, filled, rlLine,
                   executed>>

Next == Start \/ ScriptStep \/ TtyStep \/ Exit

Spec == Init /\ [][Next]_vars

-----------------------------------------------------------------------------

Codes == {OK, QUIT, HELP, BADCOMMAND} \cup CmdResults

TypeOK ==
    /\ phase \in {"start", "loop", "exited", "crashed"}
    /\ istty \in BOOLEAN /\ eof \in BOOLEAN /\ filled \in BOOLEAN
    /\ stdin \in BoundedSeq(Chars, MaxInput)
    /\ linebuffer \in BoundedSeq(Chars, LineBufSize - 1)
    /\ rlLine \in BoundedSeq(Chars, MaxInput)
    /\ gRet \in Codes

(* The command lines of a script: its lines' words, lines without words    *)
(* left out, up to and including the first line that starts with a quit   *)
(* word.                                                                   *)
ScriptCommands(s) ==
    LET ls   == Pieces(s, {"\n"})
        cmds == SelectSeq([i \in 1 .. Len(ls) |-> Words(ls[i])],
                          LAMBDA w : w # <<>>)
        q    == SelectInSeq(cmds, LAMBDA w : w[1] = QuitWord)
    IN  IF q = 0 THEN cmds ELSE SubSeq(cmds, 1, q)

(* Command mode runs what it reads ("-f: Read commands from file"): once   *)
(* the shell has stopped, it has run every command line of its input once, *)
(* in order, with the words the line holds, up to the first quit, and it   *)
(* stopped by returning from main, not by crashing.                        *)
ScriptRunsAsWritten ==
    (args = <<>> /\ phase \in {"exited", "crashed"}) =>
        /\ phase = "exited"
        /\ executed = ScriptCommands(script)
=============================================================================
