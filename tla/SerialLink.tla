----------------------------- MODULE SerialLink -----------------------------
(***************************************************************************)
(* The threads of the gateway daemon around the serial port                *)
(* (serial_link.py): the reader thread, which opens the port, reads it,    *)
(* pings the bridge and sends ACKs, and the HTTP threads that send         *)
(* commands, while the USB cable is pulled and plugged in again.           *)
(*                                                                         *)
(* A step ends where another thread may run: at a system call and between  *)
(* two reads of self._fd.  Descriptors are numbers, and the kernel hands   *)
(* out the lowest free one, also to the rest of the daemon (HTTP           *)
(* connections, SQLite's journal).                                         *)
(***************************************************************************)
EXTENDS Integers, FiniteSets, FiniteSetsExt

CONSTANTS
    Senders,      \* the HTTP threads that may call send_frame
    MaxFd,        \* descriptors are 1 .. MaxFd; 0 stands for None
    MaxUnplugs    \* how often the cable may be pulled

SerialLinkAssumption ==
    /\ {"reader", "none"} \intersect Senders = {}
    /\ MaxFd \in Nat \ {0}
    /\ MaxUnplugs \in Nat

Threads == Senders \union {"reader"}

Fds == 1 .. MaxFd

None == 0

NoThread == "none"

VARIABLES
    plugged,   \* is the device there?
    unplugs,   \* bounded counter
    table,     \* what each descriptor is: "free", "port", "gone" (the port of
               \* a device that was unplugged) or "other"
    fd,        \* self._fd
    wlock,     \* the thread that holds self._wlock
    pc,        \* where each thread is
    arg,       \* the descriptor each thread has loaded for its next system call
    ret        \* what each thread calls _write_frame or _close for

vars == <<plugged, unplugs, table, fd, wlock, pc, arg, ret>>

world == <<plugged, unplugs>>

\* _write_frame is called for: the CFG in _open, the keepalive, an answer to a
\* frame (an ACK, or a CFG after RDY), a command; _close also after a read error.
Purposes == {"cfg", "ping", "answer", "command", "readerr"}

\* Where control goes on from a call ...
Resume == [cfg |-> "ping", ping |-> "load", answer |-> "top",
           command |-> "idle", readerr |-> "top"]

\* ... and where an exception that is not an OSError ends up: _dispatch and
\* send_cmd catch everything, run() does not.
Catch == [Resume EXCEPT !.cfg = "dead", !.ping = "dead", !.readerr = "dead"]

Writing == {"lock", "check", "wload", "write"}

Closing == {"cchk", "cload", "close", "clear"}

TypeOK ==
    /\ plugged \in BOOLEAN
    /\ unplugs \in 0 .. MaxUnplugs
    /\ table \in [Fds -> {"free", "port", "gone", "other"}]
    /\ fd \in Fds \union {None}
    /\ wlock \in Threads \union {NoThread}
    /\ pc \in [Threads -> Writing \union Closing \union
                 {"top", "open", "setup", "ping", "load", "read", "dead", "idle"}]
    /\ arg \in [Threads -> Fds \union {None}]
    /\ ret \in [Threads -> Purposes]
    /\ \A t \in Threads : pc[t] \in {"write", "close", "read", "setup"} => arg[t] \in Fds

Init ==
    /\ plugged \in BOOLEAN
    /\ unplugs = 0
    /\ table = [n \in Fds |-> "free"]
    /\ fd = None
    /\ wlock = NoThread
    /\ pc = [t \in Threads |-> IF t = "reader" THEN "top" ELSE "idle"]
    /\ arg = [t \in Threads |-> None]
    /\ ret = [t \in Threads |-> "command"]

-----------------------------------------------------------------------------
(* The world around the link                                               *)

Free == {n \in Fds : table[n] = "free"}

Unplug ==
    /\ plugged
    /\ unplugs < MaxUnplugs
    /\ plugged' = FALSE /\ unplugs' = unplugs + 1
    /\ table' = [n \in Fds |-> IF table[n] = "port" THEN "gone" ELSE table[n]]
    /\ UNCHANGED <<fd, wlock, pc, arg, ret>>

Plug ==
    /\ ~plugged
    /\ plugged' = TRUE
    /\ UNCHANGED <<unplugs, table, fd, wlock, pc, arg, ret>>

\* The rest of the daemon opens and closes files of its own.
OtherOpens ==
    /\ Free # {}
    /\ table' = [table EXCEPT ![Min(Free)] = "other"]
    /\ UNCHANGED <<world, fd, wlock, pc, arg, ret>>

OtherCloses(n) ==
    /\ table[n] = "other"
    /\ table' = [table EXCEPT ![n] = "free"]
    /\ UNCHANGED <<world, fd, wlock, pc, arg, ret>>

-----------------------------------------------------------------------------
(* Steps shared by every thread                                            *)

Goto(t, label) == pc' = [pc EXCEPT ![t] = label]

CallWrite(t, purpose) == Goto(t, "lock") /\ ret' = [ret EXCEPT ![t] = purpose]

Unlock(t) == wlock' = IF wlock = t THEN NoThread ELSE wlock

\* The call returns, or raises what no `except OSError` catches.
Return(t) == Unlock(t) /\ Goto(t, Resume[ret[t]])


Raise(t) == Unlock(t) /\ Goto(t, Catch[ret[t]])

-----------------------------------------------------------------------------
(* _write_frame                                                            *)

Lock(t) ==
    /\ pc[t] = "lock"
    /\ wlock = NoThread
    /\ wlock' = t
    /\ Goto(t, "check")
    /\ UNCHANGED <<world, table, fd, arg, ret>>

\* `if self._fd is not None`: with no port the frame is dropped in silence.
CheckOpen(t) ==
    /\ pc[t] = "check"
    /\ IF fd = None THEN Return(t) ELSE Goto(t, "wload") /\ UNCHANGED wlock
    /\ UNCHANGED <<world, table, fd, arg, ret>>

\* self._fd is loaded again for os.write, which rejects None with a TypeError.
LoadForWrite(t) ==
    /\ pc[t] = "wload"
    /\ IF fd = None
       THEN Raise(t) /\ UNCHANGED arg
       ELSE arg' = [arg EXCEPT ![t] = fd] /\ Goto(t, "write") /\ UNCHANGED wlock
    /\ UNCHANGED <<world, table, fd, ret>>

\* os.write; an OSError closes the port.
Write(t) ==
    /\ pc[t] = "write"
    /\ IF table[arg[t]] \in {"port", "other"}
       THEN Return(t)
       ELSE Goto(t, "cchk") /\ UNCHANGED wlock
    /\ UNCHANGED <<world, table, fd, arg, ret>>

-----------------------------------------------------------------------------
(* _close                                                                  *)

CheckClose(t) ==
    /\ pc[t] = "cchk"
    /\ IF fd = None THEN Return(t) ELSE Goto(t, "cload") /\ UNCHANGED wlock
    /\ UNCHANGED <<world, table, fd, arg, ret>>

LoadForClose(t) ==
    /\ pc[t] = "cload"
    /\ IF fd = None
       THEN Raise(t) /\ UNCHANGED arg
       ELSE arg' = [arg EXCEPT ![t] = fd] /\ Goto(t, "close") /\ UNCHANGED wlock
    /\ UNCHANGED <<world, table, fd, ret>>

\* os.close; EBADF is swallowed.
Close(t) ==
    /\ pc[t] = "close"
    /\ table' = [table EXCEPT ![arg[t]] = "free"]
    /\ Goto(t, "clear")
    /\ UNCHANGED <<world, fd, wlock, arg, ret>>

Clear(t) ==
    /\ pc[t] = "clear"
    /\ fd' = None
    /\ Return(t)
    /\ UNCHANGED <<world, table, arg, ret>>

-----------------------------------------------------------------------------
(* The reader thread: run and _open                                        *)

Top ==
    /\ pc["reader"] = "top"
    /\ Goto("reader", IF fd = None THEN "open" ELSE "ping")
    /\ UNCHANGED <<world, table, fd, wlock, arg, ret>>

\* os.open, or its failure and a nap of three seconds.
OpenPort ==
    /\ pc["reader"] = "open"
    /\ IF plugged
       THEN /\ Free # {}
            /\ table' = [table EXCEPT ![Min(Free)] = "port"]
            /\ arg' = [arg EXCEPT !["reader"] = Min(Free)]
            /\ Goto("reader", "setup")
       ELSE Goto("reader", "top") /\ UNCHANGED <<table, arg>>
    /\ UNCHANGED <<world, fd, wlock, ret>>

\* tcgetattr, tcsetattr and tcflush raise termios.error, which is no OSError, if
\* the device has gone; otherwise the port is published and CFG sent.
SetupPort ==
    /\ pc["reader"] = "setup"
    /\ IF table[arg["reader"]] = "port"
       THEN fd' = arg["reader"] /\ CallWrite("reader", "cfg")
       ELSE Goto("reader", "dead") /\ UNCHANGED <<fd, ret>>
    /\ UNCHANGED <<world, table, wlock, arg>>

\* PING if nothing has been written for ten seconds.
Ping ==
    /\ pc["reader"] = "ping"
    /\ \/ CallWrite("reader", "ping")
       \/ Goto("reader", "load") /\ UNCHANGED ret
    /\ UNCHANGED <<world, table, fd, wlock, arg>>

\* os.read(None) is a TypeError, and only OSError is caught.
LoadForRead ==
    /\ pc["reader"] = "load"
    /\ IF fd = None
       THEN Goto("reader", "dead") /\ UNCHANGED arg
       ELSE Goto("reader", "read") /\ arg' = [arg EXCEPT !["reader"] = fd]
    /\ UNCHANGED <<world, table, fd, wlock, ret>>

\* os.read on an open descriptor: no bytes, or frames that are dispatched, one
\* of which may be answered.  A hung-up port reads as empty too.
ReadSome ==
    /\ pc["reader"] = "read"
    /\ table[arg["reader"]] # "free"
    /\ \/ Goto("reader", "top") /\ UNCHANGED ret
       \/ table[arg["reader"]] = "port" /\ CallWrite("reader", "answer")
    /\ UNCHANGED <<world, table, fd, wlock, arg>>

\* os.read raises OSError: "read error - reopening".  _close takes no lock here.
ReadError ==
    /\ pc["reader"] = "read"
    /\ table[arg["reader"]] \in {"gone", "free"}
    /\ Goto("reader", "cchk")
    /\ ret' = [ret EXCEPT !["reader"] = "readerr"]
    /\ UNCHANGED <<world, table, fd, wlock, arg>>

-----------------------------------------------------------------------------
\* send_cmd of an HTTP thread.
Send(t) ==
    /\ pc[t] = "idle"
    /\ CallWrite(t, "command")
    /\ UNCHANGED <<world, table, fd, wlock, arg>>

\* What a thread does once it has entered _write_frame or _close.
CallSteps(t) ==
    \/ Lock(t) \/ CheckOpen(t) \/ LoadForWrite(t) \/ Write(t)
    \/ CheckClose(t) \/ LoadForClose(t) \/ Close(t) \/ Clear(t)

ReaderSteps ==
    Top \/ OpenPort \/ SetupPort \/ Ping \/ LoadForRead \/ ReadSome \/ ReadError

Next ==
    \/ Unplug
    \/ Plug
    \/ OtherOpens
    \/ \E n \in Fds : OtherCloses(n)
    \/ \E t \in Threads : CallSteps(t)
    \/ ReaderSteps
    \/ \E t \in Senders : Send(t)

Spec == Init /\ [][Next]_vars

-----------------------------------------------------------------------------
(***************************************************************************)
(* Properties                                                              *)
(***************************************************************************)

\* run() is documented as USB unplug tolerant and _dispatch as never killing
\* the reader thread: pulling the cable does not end the thread.
ReaderSurvives == pc["reader"] # "dead"

\* self._fd names a closed descriptor, or somebody else's, only while a thread is
\* about to clear it: the two unsynchronised callers of _close never leave a
\* stale number behind for good.
NoDanglingFd ==
    fd # None /\ table[fd] \in {"free", "other"} => \E t \in Threads : pc[t] = "clear"

\* Whoever takes the write lock gives it back, whatever is raised inside, so a
\* dead reader never blocks the HTTP threads.
LockGivenBack == wlock # NoThread ~> wlock = NoThread

=============================================================================
