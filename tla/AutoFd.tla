------------------------------- MODULE AutoFd -------------------------------
(***************************************************************************)
(* rmrf::net::auto_fd (src/net/async_fd.hpp): a handle that owns a file    *)
(* descriptor.  `open' is the set of descriptors the kernel has open for   *)
(* the process; NullFd is -1.  Each operator gives what is left open when  *)
(* a handle holding fd undergoes the operation; what the handle holds      *)
(* afterwards is said in each comment.                                     *)
(***************************************************************************)

CONSTANTS
    Fds,    \* file descriptors
    NullFd  \* the -1 of a handle that owns nothing

ASSUME NullFdAssumption == NullFd \notin Fds

Handles == Fds \cup {NullFd}

Valid(fd) == fd # NullFd

\* close(), reset() and ~auto_fd: the handle holds NullFd afterwards.
AfterClose(open, fd) == IF Valid(fd) THEN open \ {fd} ELSE open

\* Faulty variant: the old descriptor is overwritten.
AfterAssignLeaking(open, fd, other) == open

\* operator=(auto_fd&& other): the old descriptor is closed, the handle holds
\* the one of `other', and `other' holds NullFd.
AfterAssign(open, fd, other) == AfterClose(open, fd)
=============================================================================
