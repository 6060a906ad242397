------------------------------- MODULE Mumta -------------------------------
(***************************************************************************)
(* The daemon: main of src/app/mumta.cpp, which checks the libraries it    *)
(* runs with (src/lib/ev/ev.cpp, src/lib/nl/nl.cpp,                        *)
(* src/lib/openssl/openssl.cpp), tells the service manager that it is      *)
(* ready (src/service/daemonctl_systemd.cpp), runs the event loop of       *)
(* TcpServer and tells it that it stops.                                   *)
(*                                                                         *)
(* main binds no socket yet: MaxServers = 0 is the program as it is, and   *)
(* with other values the loop runs the servers that its callbacks create.  *)
(***************************************************************************)
EXTENDS TcpServer

CONSTANTS
    HalfWord,  \* 2^16, where the version number of OpenSSL is split
    Compiled,  \* the versions of the libraries at build time
    Detected   \* the versions that may be found at run time

Libraries == {"libev", "libnl", "libssl"}

\* libev and libnl have a major and a minor version, OpenSSL has one number.
Versions ==
    [libev : [major : Nat, minor : Nat],
     libnl : [major : Nat, minor : Nat],
     libssl : Nat]

ASSUME VersionsAssumption ==
    /\ HalfWord \in Nat \ {0}
    /\ Compiled \in Versions
    /\ Detected \subseteq Versions

VARIABLES
    phase,     \* "checking", "notifying", "looping", "stopping" or "exited"
    checked,   \* the libraries whose check has passed
    detected,  \* the versions found
    notes,     \* what sd_notify has told the service manager, status texts aside
    status     \* what main returns

mainVars == <<phase, checked, detected, notes, status>>
allVars == <<vars, mainVars>>

MainInit ==
    /\ Nothing
    /\ stdinWatch = FALSE
    /\ phase = "checking"
    /\ checked = {}
    /\ detected \in Detected
    /\ notes = {}
    /\ status = 0

----------------------------------------------------------------------------
(* The checks.                                                             *)

\* check_version_libev
LibevPasses ==
    /\ detected.libev.major = Compiled.libev.major
    /\ detected.libev.minor >= Compiled.libev.minor

\* Faulty variant: the minor version is not looked at.
LibnlPassesMajor == detected.libnl.major = Compiled.libnl.major

\* check_version_libnl
LibnlPasses ==
    /\ detected.libnl.major = Compiled.libnl.major
    /\ detected.libnl.minor >= Compiled.libnl.minor

\* check_version_openssl compares the halves of the number that a mask selects.
OpensslPasses ==
    /\ detected.libssl \div HalfWord = Compiled.libssl \div HalfWord
    /\ detected.libssl % HalfWord >= Compiled.libssl % HalfWord

\* main checks one library after the other, and returns 1 at the first that
\* fails.
Check(library, before, passes) ==
    /\ phase = "checking"
    /\ checked = before
    /\ IF passes
       THEN checked' = before \cup {library} /\ UNCHANGED <<phase, status>>
       ELSE phase' = "exited" /\ status' = 1 /\ UNCHANGED checked
    /\ UNCHANGED <<vars, detected, notes>>

CheckLibev == Check("libev", {}, LibevPasses)
CheckLibnl == Check("libnl", {"libev"}, LibnlPasses)
CheckOpenssl == Check("libssl", {"libev", "libnl"}, OpensslPasses)

----------------------------------------------------------------------------
(* The notifications and the loop.                                         *)

\* dctl_status_ready, dctl_watchdog_refresh and dctl_status_shutdown
Notify(note) == notes' = notes \cup {note}

NotifyReady ==
    /\ phase = "checking"
    /\ checked = Libraries
    /\ Notify("READY")
    /\ phase' = "notifying"
    /\ UNCHANGED <<vars, checked, detected, status>>

\* The watchdog is told once, and the loop makes its stdin_waiter.
EnterLoop ==
    /\ phase = "notifying"
    /\ Notify("WATCHDOG")
    /\ stdinWatch' = TRUE
    /\ phase' = "looping"
    /\ UNCHANGED <<pc, outcome, serverVars, clientVars, stdinReady, kernelVars,
                   historyVars, checked, detected, status>>

Loop ==
    /\ phase = "looping"
    /\ Next
    /\ UNCHANGED mainVars

\* Peers and stdin do not wait for the loop.
Outside ==
    /\ phase \notin {"looping", "exited"}
    /\ \/ \E c \in Conns : Connect(c)
       \/ \E i \in DOMAIN backlog : Abort(i)
       \/ StdinReadable
    /\ UNCHANGED mainVars

\* The loop has returned, and with it its stdin_waiter is gone.
NotifyStopping ==
    /\ phase = "looping"
    /\ At("returned")
    /\ Notify("STOPPING")
    /\ stdinWatch' = FALSE
    /\ phase' = "stopping"
    /\ UNCHANGED <<pc, outcome, serverVars, clientVars, stdinReady, kernelVars,
                   historyVars, checked, detected, status>>

\* main returns 0.
Exit ==
    /\ phase = "stopping"
    /\ phase' = "exited"
    /\ UNCHANGED <<vars, checked, detected, notes, status>>

\* Nothing catches what the loop throws: the process ends in main.
Terminate ==
    /\ phase = "looping"
    /\ outcome # "running"
    /\ phase' = "exited"
    /\ UNCHANGED <<vars, checked, detected, notes, status>>

Main ==
    \/ CheckLibev \/ CheckLibnl \/ CheckOpenssl
    \/ NotifyReady
    \/ EnterLoop
    \/ NotifyStopping
    \/ Exit
    \/ Terminate

MainNext == Main \/ Loop \/ Outside

MainSpec == MainInit /\ [][MainNext]_allVars

\* main goes on; the loop reports what is ready, a started handler goes on, the
\* listener returns, and run(0) returns once it may.
MainFairness ==
    /\ WF_allVars(Main)
    /\ WF_allVars(phase = "looping" /\ PollStdin /\ UNCHANGED mainVars)
    /\ WF_allVars(phase = "looping" /\ PollServer /\ UNCHANGED mainVars)
    /\ WF_allVars(phase = "looping" /\ Handler /\ UNCHANGED mainVars)
    /\ WF_allVars(phase = "looping" /\ RunReturns /\ UNCHANGED mainVars)

MainFairSpec == MainSpec /\ MainFairness

----------------------------------------------------------------------------
(* Properties.                                                             *)

(***************************************************************************)
(* The service manager is told READY only by a process whose libraries     *)
(* have the interface it was compiled against: the same major version, and *)
(* at least the minor one, of each library, by each library's own          *)
(* numbering.                                                              *)
(***************************************************************************)
NewerOrSame(found, built) == found.major = built.major /\ found.minor >= built.minor

ReadyIsCompatible ==
    "READY" \in notes =>
        /\ NewerOrSame(detected.libev, Compiled.libev)
        /\ NewerOrSame(detected.libnl, Compiled.libnl)
        /\ \E patch \in 0 .. HalfWord - 1 :
              detected.libssl = Compiled.libssl + patch
        /\ detected.libssl < (Compiled.libssl \div HalfWord + 1) * HalfWord

(***************************************************************************)
(* STOPPING is true when it is said: no watcher is started that the        *)
(* process would still have to serve, no client exists, and no peer waits  *)
(* to be accepted but at a server whose watcher libev has stopped.         *)
(***************************************************************************)
StoppingIsQuiet ==
    "STOPPING" \in notes =>
        /\ outcome = "running"
        /\ ~stdinWatch /\ ~lwatch /\ ~cwatch
        /\ conn = {}
        /\ backlog # <<>> => server

(***************************************************************************)
(* The daemon comes to its end: once stdin is readable and the servers are *)
(* gone for good, main tells the service manager and returns, unless an    *)
(* exception ends the process.                                             *)
(***************************************************************************)
EventuallyStops ==
    (phase = "looping" /\ stdinReady /\ ~server /\ servers = MaxServers)
        ~> (phase = "exited" /\ ("STOPPING" \in notes \/ outcome # "running"))
=============================================================================
