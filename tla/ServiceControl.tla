--------------------------- MODULE ServiceControl ---------------------------
(***************************************************************************)
(* The commands "proxydge service <action>" (service_ctrl.go) over the     *)
(* operating system's service manager, which runs GatewayProcess.  The     *)
(* manager is external: a unit is installed or not, wanted or not; a       *)
(* wanted unit without a process is started, again and again (the options  *)
(* Restart=always, OnFailure=restart).  Any call of it may be refused.     *)
(* One administrator issues commands, one process exists at a time.        *)
(***************************************************************************)
EXTENDS GatewayProcess

VARIABLES installed, wanted,
          cmd       \* the command: action, where it is, its exit code, Stop's error

controlVars == <<installed, wanted, cmd>>
vars == <<processVars, controlVars>>

Actions == {"install", "start", "stop", "uninstall"}

TypeOK ==
    /\ ProcessTypeOK
    /\ installed \in BOOLEAN /\ wanted \in BOOLEAN
    /\ cmd \in [action : Actions, stopErr : BOOLEAN,
                pc : {"stat", "status", "install", "start", "stop", "stopping", "remove", "ended"},
                code : {"none", "clean", "runtime", "usage"}]

Init ==
    /\ ProcessInit /\ installed = FALSE /\ wanted = FALSE
    /\ cmd = [action |-> "stop", pc |-> "ended", code |-> "none", stopErr |-> FALSE]

-----------------------------------------------------------------------------
(* The service manager and the users of a terminal.                        *)
Restart == installed /\ wanted /\ Launch("service") /\ UNCHANGED controlVars
Interact == ~(installed /\ wanted) /\ Launch("interactive") /\ UNCHANGED controlVars
Interrupt == mode = "interactive" /\ AskToStop /\ UNCHANGED controlVars
Crash == Kill /\ UNCHANGED controlVars
Runs == ProcessStep /\ UNCHANGED controlVars

ServiceUp == Alive /\ mode = "service"

-----------------------------------------------------------------------------
(* The commands.  cmdService dispatches; every step is one call.           *)
At(p)     == cmd.pc = p
CmdGoto(p) == cmd' = [cmd EXCEPT !.pc = p]
End(code) == cmd' = [cmd EXCEPT !.pc = "ended", !.code = code]
Refused   == IF installed THEN "runtime" ELSE "usage"    \* ErrNotInstalled is 2

FirstCall == [install |-> "stat", start |-> "start", stop |-> "stop", uninstall |-> "stop"]

Dispatch(a) ==
    /\ At("ended")
    /\ cmd' = [action |-> a, pc |-> FirstCall[a], code |-> "none", stopErr |-> FALSE]
    /\ UNCHANGED <<processVars, installed, wanted>>

(* A flag it does not know, no controller: nothing is called.              *)
Reject(a) ==
    /\ At("ended")
    /\ \E code \in {"runtime", "usage"} :
          cmd' = [action |-> a, pc |-> "ended", code |-> code, stopErr |-> FALSE]
    /\ UNCHANGED <<processVars, installed, wanted>>

(* serviceInstall: the configuration must exist; a unit that exists is     *)
(* left alone; Install is tried also when Status fails.                    *)
StatConfig ==
    /\ At("stat") /\ (CmdGoto("status") \/ End("usage"))
    /\ UNCHANGED <<processVars, installed, wanted>>

AlreadyInstalled ==
    /\ At("status") /\ installed /\ End("clean")
    /\ UNCHANGED <<processVars, installed, wanted>>

StatusUnknown ==
    /\ At("status") /\ CmdGoto("install")
    /\ UNCHANGED <<processVars, installed, wanted>>

Install ==
    /\ At("install") /\ ~installed /\ installed' = TRUE /\ CmdGoto("start")
    /\ UNCHANGED <<processVars, wanted>>

InstallFails ==
    /\ At("install") /\ End("runtime") /\ UNCHANGED <<processVars, installed, wanted>>

(* serviceControl, and the Start of install.                               *)
StartUnit ==
    /\ At("start") /\ installed /\ wanted' = TRUE /\ End("clean")
    /\ UNCHANGED <<processVars, installed>>

StartFails ==
    /\ At("start") /\ End(IF cmd.action = "install" THEN "runtime" ELSE Refused)
    /\ UNCHANGED <<processVars, installed, wanted>>

\* Faulty form: uninstall removes the unit without stopping it.
StopUnit_NotFirst ==
    /\ At("stop") /\ installed
    /\ IF cmd.action = "uninstall"
       THEN CmdGoto("remove") /\ UNCHANGED <<processVars, wanted>>
       ELSE /\ wanted' = FALSE /\ CmdGoto("stopping")
            /\ IF ServiceUp THEN AskToStop ELSE UNCHANGED processVars
    /\ UNCHANGED installed

StopUnit ==
    /\ At("stop") /\ installed /\ wanted' = FALSE /\ CmdGoto("stopping")
    /\ IF ServiceUp THEN AskToStop ELSE UNCHANGED processVars
    /\ UNCHANGED installed

Stopped ==
    /\ At("stopping") /\ ~ServiceUp
    /\ IF cmd.action = "uninstall" THEN CmdGoto("remove") ELSE End("clean")
    /\ UNCHANGED <<processVars, installed, wanted>>

(* Refused, or the process has not ended in time.  uninstall does not look *)
(* at the error.                                                           *)
StopFails ==
    /\ cmd.pc \in {"stop", "stopping"}
    /\ cmd' = IF cmd.action = "uninstall"
              THEN [cmd EXCEPT !.pc = "remove", !.stopErr = TRUE]
              ELSE [cmd EXCEPT !.pc = "ended", !.code = Refused]
    /\ UNCHANGED <<processVars, installed, wanted>>

Uninstall ==
    /\ At("remove") /\ installed /\ installed' = FALSE /\ wanted' = FALSE
    /\ End("clean") /\ UNCHANGED processVars

UninstallFails ==
    /\ At("remove") /\ End(Refused) /\ UNCHANGED <<processVars, installed, wanted>>

CommandStep ==
    \/ StatConfig \/ AlreadyInstalled \/ StatusUnknown \/ Install \/ InstallFails
    \/ StartUnit \/ StartFails \/ StopUnit \/ Stopped \/ StopFails
    \/ Uninstall \/ UninstallFails

Next ==
    \/ Runs \/ Restart \/ Interact \/ Interrupt \/ Crash
    \/ CommandStep \/ \E a \in Actions : Dispatch(a) \/ Reject(a)

Spec == Init /\ [][Next]_vars

(* The service manager starts what it has promised to keep running.        *)
FairSpec == Spec /\ ProcessFairness /\ WF_vars(Restart)

-----------------------------------------------------------------------------
(* A gateway that failed is not reported as a clean exit, whatever signal  *)
(* or end of closer it coincides with; only a service that was told to     *)
(* stop may end with 0 (Stop may see done before the monitor's os.Exit).   *)
FatalNotMasked ==
    status = "clean" /\ serve = "failed" => mode = "service" /\ asked

(* A process that ends by itself has closed the log file and the listener  *)
(* it opened, on every path of runGateway and closer, unless Serve failed. *)
ExitReleases ==
    status \in {"clean", "runtime", "usage"} /\ serve # "failed"
        => log # "open" /\ listener # "open"

(* When "service uninstall" has reported success and its Stop was not      *)
(* refused, no gateway is left running under the service manager.          *)
UninstallLeavesNothing ==
    cmd.action = "uninstall" /\ cmd.pc = "ended" /\ cmd.code = "clean" /\ ~cmd.stopErr
        => ~ServiceUp

(* A signal or a stop ends the process, unless the Close of a UDP gateway  *)
(* does not return.                                                        *)
StopsWhenAsked ==
    asked ~> (~Alive \/ [](main = "expiring"))

(* A service does not live on without its gateway: after a fatal error the *)
(* service manager gets to start it again, as long as it is to run.        *)
FatalRestarts ==
    (mode = "service" /\ serve = "failed")
        ~> (serve # "failed" \/ ~(installed /\ wanted))

=============================================================================
