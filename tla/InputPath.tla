------------------------------ MODULE InputPath ------------------------------
(***************************************************************************)
(* The threads around one shell's PTY: ShellManager::write_input, pump,    *)
(* resize, terminate and the scan of open_shell and reap_idle              *)
(* (crates/session-core/src/lib.rs), the reader thread and the blocking    *)
(* PtyProcess::write (crates/pty/src/lib.rs).                              *)
(*                                                                         *)
(* Two locks: the manager's inner, and the shell's runtime.  write_input   *)
(* keeps runtime while it writes to the PTY, a blocking write of as many   *)
(* bytes as the message has; pump needs runtime for every chunk.  The      *)
(* terminal is external: two finite buffers of the kernel, and a program   *)
(* that reads its input when it likes, and prints.  Bytes are counted.     *)
(***************************************************************************)
EXTENDS Naturals

CONSTANTS
    InCap, OutCap,     \* the kernel's buffers of a PTY, each way
    ReaderCap,         \* PTY_OUTPUT_QUEUE_CHUNKS
    MessageBytes,      \* bytes of one TerminalInput
    MaxMessages        \* bound: messages of input

VARIABLES
    inner, runtime,    \* who holds the two locks
    toWrite,           \* bytes write_input still has to write
    inBuf, outBuf,     \* bytes in the kernel's buffers
    toPrint,           \* bytes the program has read and not printed
    held, queue,       \* the reader thread's chunk, and the channel to pump
    opening,           \* another user's open_shell
    messages

inputVars == <<inner, runtime, toWrite, inBuf, outBuf, toPrint, held, queue, opening,
               messages>>

InputInit ==
    /\ inner = "free" /\ runtime = "free" /\ toWrite = 0
    /\ inBuf = 0 /\ outBuf = 0 /\ toPrint = 0 /\ held = 0 /\ queue = 0
    /\ opening = "idle" /\ messages = 0
-----------------------------------------------------------------------------
\* write_input: the lock, then one write after the other.
WriteInput ==
    /\ runtime = "free" /\ messages < MaxMessages
    /\ runtime' = "writer" /\ messages' = messages + 1 /\ toWrite' = MessageBytes
    /\ UNCHANGED <<inner, inBuf, outBuf, toPrint, held, queue, opening>>
PtyWrite ==
    /\ runtime = "writer" /\ toWrite > 0 /\ inBuf < InCap
    /\ inBuf' = inBuf + 1 /\ toWrite' = toWrite - 1
    /\ UNCHANGED <<inner, runtime, outBuf, toPrint, held, queue, opening, messages>>
WriteReturns ==
    /\ runtime = "writer" /\ toWrite = 0 /\ runtime' = "free"
    /\ UNCHANGED <<inner, toWrite, inBuf, outBuf, toPrint, held, queue, opening, messages>>

\* The program: it reads, and has something to print, of its own or of what
\* it has read; it does nothing else while it waits for room to print.
ProgramReads ==
    /\ inBuf > 0 /\ toPrint = 0 /\ inBuf' = inBuf - 1
    /\ UNCHANGED <<inner, runtime, toWrite, outBuf, toPrint, held, queue, opening, messages>>
ProgramComputes ==
    /\ toPrint = 0 /\ toPrint' = 1
    /\ UNCHANGED <<inner, runtime, toWrite, inBuf, outBuf, held, queue, opening, messages>>
ProgramPrints ==
    /\ toPrint > 0 /\ outBuf < OutCap
    /\ outBuf' = outBuf + 1 /\ toPrint' = 0
    /\ UNCHANGED <<inner, runtime, toWrite, inBuf, held, queue, opening, messages>>

\* hf-pty-reader: read, then send into a bounded channel.
ReaderReads ==
    /\ held = 0 /\ outBuf > 0
    /\ held' = 1 /\ outBuf' = outBuf - 1
    /\ UNCHANGED <<inner, runtime, toWrite, inBuf, toPrint, queue, opening, messages>>
ReaderSends ==
    /\ held > 0 /\ queue < ReaderCap
    /\ held' = 0 /\ queue' = queue + 1
    /\ UNCHANGED <<inner, runtime, toWrite, inBuf, outBuf, toPrint, opening, messages>>

\* pump: a chunk goes to the model and the attachments under the lock.
Pump ==
    /\ queue > 0 /\ runtime = "free" /\ queue' = queue - 1
    /\ UNCHANGED <<inner, runtime, toWrite, inBuf, outBuf, toPrint, held, opening, messages>>

\* open_shell of any user (and reap_idle's scan) keeps inner while it locks
\* the runtime of every shell.
OpenBegins ==
    /\ opening = "idle" /\ inner = "free" /\ opening' = "scanning" /\ inner' = "opener"
    /\ UNCHANGED <<runtime, toWrite, inBuf, outBuf, toPrint, held, queue, messages>>
OpenScans ==
    /\ opening = "scanning" /\ runtime = "free" /\ opening' = "done" /\ inner' = "free"
    /\ UNCHANGED <<runtime, toWrite, inBuf, outBuf, toPrint, held, queue, messages>>
-----------------------------------------------------------------------------
InputStep ==
    \/ PtyWrite \/ WriteReturns \/ ProgramReads \/ ProgramPrints
    \/ ReaderReads \/ ReaderSends \/ Pump \/ OpenScans
InputNext == InputStep \/ WriteInput \/ OpenBegins \/ ProgramComputes
InputSpec == /\ InputInit /\ [][InputNext]_inputVars
             /\ WF_inputVars(PtyWrite) /\ WF_inputVars(WriteReturns)
             /\ SF_inputVars(ProgramReads) /\ WF_inputVars(ProgramPrints)
             /\ WF_inputVars(ReaderReads) /\ WF_inputVars(ReaderSends)
             /\ SF_inputVars(Pump) /\ SF_inputVars(OpenScans)
-----------------------------------------------------------------------------
\* "PTY reads pause only when the scrollback writer itself is at its bound":
\* what the shell has printed is always read on.  One message of input larger
\* than the PTY can hold stops pump for ever, when the program prints before it
\* reads: the writer waits for the program, the program for the reader, the
\* reader for pump, and pump for the writer's lock.
ReadsContinue == (outBuf = OutCap) ~> (outBuf < OutCap)
=============================================================================
