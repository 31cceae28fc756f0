------------------------------- MODULE Scheduler -------------------------------
(***************************************************************************)
(* sched.cpp: the loop around select, the table of input handlers and the  *)
(* alarm that runs Main_loop between any two steps of that loop, except    *)
(* where it is blocked.  Connections come and go in Main_loop and in the   *)
(* handlers, and the kernel gives the number of a closed descriptor to the *)
(* next that is opened, so what select said may be about somebody else.    *)
(*                                                                         *)
(* Main_loop and each handler are one step: setup_timer, when an operator  *)
(* changes the frame rate, unblocks the alarm while the handlers of the    *)
(* same round are still to be called, and the model has Main_loop run      *)
(* between them then, but not within one.                                  *)
(***************************************************************************)
EXTENDS Integers, FiniteSets, FiniteSetsExt

CONSTANTS
    Connections,            \* the slots of Conn[]
    contactSocket,
    NumSelectFd,            \* NUM_SELECT_FD
    MaxDivisor,             \* upper limit of option frameDivisor
    Dummy                   \* io_dummy

VARIABLES
    fds,    \* open:   descriptor -> whose it is, Dummy if it is closed
            \* mask:   input_mask
            \* func:   input_handlers, the handler of a connection being itself
            \* max_fd
            \* exit:   ServerExit was called
    loop,   \* at:     where sched() is
            \* readmask, i
    alarm   \* blocked
            \* frame_cycle, frameDivisor

schedVars == <<fds, loop, alarm>>

min_fd == 3
Fd     == min_fd .. min_fd + NumSelectFd
Window == min_fd .. min_fd + NumSelectFd - 1

Live(f) == {f.open[d] : d \in Fd} \cap Connections
FdOf(f, c) == CHOOSE d \in Fd : f.open[d] = c

-----------------------------------------------------------------------------
(* The table of handlers.                                                  *)

install_input(f, c, d) ==
    IF d \notin Window \/ d \in f.mask THEN [f EXCEPT !.exit = TRUE]
    ELSE [f EXCEPT !.func[d] = c, !.mask = @ \cup {d},
                   !.max_fd = IF d > @ THEN d ELSE @]

\* The loop of remove_input.
MaxBelow(f, d) ==
    LET S == {e \in f.mask : min_fd <= e /\ e < d}
    IN  IF S = {} THEN -1 ELSE Max(S)

remove_input(f, d) ==
    IF d \notin Window THEN [f EXCEPT !.exit = TRUE]
    ELSE IF d \notin f.mask THEN f
    ELSE [f EXCEPT !.func[d] = Dummy, !.mask = @ \ {d},
                   !.max_fd = IF d = @ THEN MaxBelow(f, d) ELSE @]

\* The kernel takes the lowest number that is free.
CreateDgramSocket(f) == Min({d \in Fd : f.open[d] = Dummy})

Setup_connection(f, c) ==
    LET d == CreateDgramSocket(f)
    IN  install_input([f EXCEPT !.open[d] = c], c, d)

\* The handler goes before the socket is closed.
Destroy_connection(f, c) ==
    LET d == FdOf(f, c)
    IN  [remove_input(f, d) EXCEPT !.open[d] = Dummy]

Destroyed(f, D) == FoldSet(LAMBDA c, a : Destroy_connection(a, c), f, D)

-----------------------------------------------------------------------------
(* The alarm.                                                              *)

\* Mutant: only the divisor changes.
Tuned_NoReset(a, d) == [a EXCEPT !.frameDivisor = d, !.blocked = FALSE]

\* tuner_framedivisor, tuner_fps; setup_timer allows the alarm at its end.
Tuned(a, d) == [a EXCEPT !.frameDivisor = d, !.frame_cycle = 0, !.blocked = FALSE]

\* Whether the frame that comes next is real.
CycleNow == IF alarm.frame_cycle = alarm.frameDivisor THEN 0 ELSE alarm.frame_cycle

\* Main_loop throws some out, and Queue_loop lets at most one in.
Main_loop ==
    /\ \E D \in SUBSET Live(fds) :
       LET f == Destroyed(fds, D) IN
           \/ fds' = f
           \/ \E c \in Connections \ Live(f) : fds' = Setup_connection(f, c)
    /\ alarm' = [alarm EXCEPT !.frame_cycle = CycleNow + 1]

\* It comes where it is not blocked.  select is interrupted, or not yet called.
SIGALRM ==
    /\ ~fds.exit /\ ~alarm.blocked
    /\ Main_loop
    /\ \/ UNCHANGED loop
       \/ loop.at = "select" /\ loop' = [loop EXCEPT !.at = "copy"]

-----------------------------------------------------------------------------
(* sched.                                                                  *)

Copy ==
    /\ ~fds.exit /\ loop.at = "copy"
    /\ loop' = [loop EXCEPT !.at = "select", !.readmask = fds.mask]
    /\ UNCHANGED <<fds, alarm>>

\* What select is asked about.
Asked == {d \in loop.readmask : d <= fds.max_fd}

\* EBADF: a descriptor of the copy was closed meanwhile.
SelectFails ==
    /\ ~fds.exit /\ loop.at = "select"
    /\ \E d \in Asked : fds.open[d] = Dummy
    /\ loop' = [loop EXCEPT !.at = "copy"]
    /\ UNCHANGED <<fds, alarm>>

Select ==
    /\ ~fds.exit /\ loop.at = "select"
    /\ \A d \in Asked : fds.open[d] # Dummy
    /\ \E R \in SUBSET Asked \ {{}} : loop' = [loop EXCEPT !.at = "returned", !.readmask = R]
    /\ UNCHANGED <<fds, alarm>>

Block ==
    /\ ~fds.exit /\ loop.at = "returned"
    /\ alarm' = [alarm EXCEPT !.blocked = TRUE]
    /\ loop' = [loop EXCEPT !.at = "dispatch", !.i = fds.max_fd]
    /\ UNCHANGED fds

\* A handler may destroy its connection and others, and change the frame rate.
Dispatch ==
    /\ ~fds.exit /\ loop.at = "dispatch" /\ loop.i >= min_fd
    /\ loop' = [loop EXCEPT !.i = @ - 1]
    /\ IF loop.i \in loop.readmask /\ fds.func[loop.i] # Dummy
       THEN /\ \E D \in SUBSET Live(fds) : fds' = Destroyed(fds, D)
            /\ \/ UNCHANGED alarm
               \/ \E d \in 1 .. MaxDivisor : alarm' = Tuned(alarm, d)
       ELSE UNCHANGED <<fds, alarm>>

Unblock ==
    /\ ~fds.exit /\ loop.at = "dispatch" /\ loop.i < min_fd
    /\ alarm' = [alarm EXCEPT !.blocked = FALSE]
    /\ loop' = [loop EXCEPT !.at = "copy"]
    /\ UNCHANGED fds

\* Contact_init has installed the first handler.
SchedInit ==
    /\ fds = [open |-> [d \in Fd |-> IF d = min_fd THEN contactSocket ELSE Dummy],
              mask |-> {min_fd},
              func |-> [d \in Window |-> IF d = min_fd THEN contactSocket ELSE Dummy],
              max_fd |-> min_fd, exit |-> FALSE]
    /\ loop = [at |-> "copy", readmask |-> {}, i |-> min_fd]
    /\ alarm = [blocked |-> FALSE, frame_cycle |-> 0, frameDivisor |-> MaxDivisor]

SchedNext == SIGALRM \/ Copy \/ SelectFails \/ Select \/ Block \/ Dispatch \/ Unblock

SchedSpec == SchedInit /\ [][SchedNext]_schedVars

-----------------------------------------------------------------------------
(* Properties.                                                             *)

\* The handler of a descriptor is that of the connection it belongs to, whoever had the
\* number before; a closed one has none; and select is asked about all of them, which
\* hangs on max_fd being right after any order of coming and going.
HandlersAgree ==
    /\ \A d \in Window : fds.func[d] = fds.open[d] /\ (d \in fds.mask <=> fds.open[d] # Dummy)
    /\ fds.max_fd = Max(fds.mask)

\* install_input and remove_input end the server on a descriptor beyond the table or one
\* that is busy: MAX_SELECT_FD - 5 connections never make them do so.
ServerGoesOn == ~fds.exit

\* Main_loop tests frame_cycle == frameDivisor: if an operator lowers the divisor and
\* frame_cycle were beyond it, no frame would be real any more.
RealFramesCome == alarm.frame_cycle <= alarm.frameDivisor

\* Connections come and go and operators change the frame rate: the descriptors are watched
\* for their owners, and frames go on being drawn.
SchedulerSafe == HandlersAgree /\ ServerGoesOn /\ RealFramesCome

\* sched blocks the alarm around the handlers, so that none runs beside Main_loop.  It
\* may, once a handler has changed the frame rate.
HandlersAreAlone == [][loop.at = "dispatch" /\ loop.i >= min_fd => ~SIGALRM]_schedVars
=============================================================================
