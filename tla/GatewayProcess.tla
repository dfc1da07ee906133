--------------------------- MODULE GatewayProcess ---------------------------
(***************************************************************************)
(* The gateway's process: cmdStart (main.go), runGateway and its closer    *)
(* (gateway_runner.go) and, under a service manager, proxydgeService with  *)
(* Start, Stop and the monitor goroutine (service_program.go).             *)
(*                                                                         *)
(* The goroutines are the main one (in service mode the one that svc.Run   *)
(* calls Start and Stop on), the Serve goroutine and the monitor; they     *)
(* meet on the channels errc (capacity 1) and done.  Of the gateways only  *)
(* what they owe the process is kept: Serve returns nil once the listener  *)
(* is closed, an error only before, and the Close of the UDP gateway may   *)
(* not return (CloseReturns of UdpGateway).                                *)
(***************************************************************************)
CONSTANTS Modes, Protocols
ASSUME ModesAssumption ==
    Modes \subseteq {"interactive", "service"} /\ Protocols \subseteq {"tcp", "udp"}

VARIABLES
    mode, proto,    \* how the process was started, what its configuration says
    main,           \* its main goroutine
    log, listener,  \* what runGateway has opened
    serve, errc,    \* the Serve goroutine and the channel of its result
    monitor, done,  \* service mode: the consumer of errc and what it closes
    asked,          \* a signal or the service manager's stop has reached it
    status          \* its exit status: 0 clean, 1 runtime, 2 usage

configVars  == <<mode, proto>>
gatewayVars == <<log, listener, serve, errc>>
serviceVars == <<monitor, done>>
processVars == <<configVars, gatewayVars, serviceVars, main, asked, status>>

StartPcs == {"load", "register", "logger", "listen", "notify", "monitor"}

ProcessTypeOK ==
    /\ mode \in {"interactive", "service"} /\ proto \in {"tcp", "udp"}
    /\ main \in StartPcs \cup {"none", "select", "serving", "closing", "expiring",
                               "closeFile", "drain", "waitDone", "exited"}
    /\ log \in {"none", "open", "closed"} /\ listener \in {"none", "open", "closed"}
    /\ serve \in {"none", "running", "returned", "failed"}
    /\ errc \in {"empty", "nil", "error"}
    /\ monitor \in {"none", "wait", "exit", "ended"} /\ done \in BOOLEAN
    /\ asked \in BOOLEAN
    /\ status \in {"none", "clean", "runtime", "usage", "killed"}

ProcessInit ==
    /\ mode = "interactive" /\ proto = "tcp" /\ main = "none"
    /\ log = "none" /\ listener = "none" /\ serve = "none" /\ errc = "empty"
    /\ monitor = "none" /\ done = FALSE /\ asked = FALSE /\ status = "none"

Alive == main \notin {"none", "exited"}

-----------------------------------------------------------------------------
(* cmdStart.                                                               *)

Launch(m) ==
    /\ ~Alive /\ m \in Modes /\ mode' = m /\ proto' \in Protocols /\ main' = "load"
    /\ log' = "none" /\ listener' = "none" /\ serve' = "none" /\ errc' = "empty"
    /\ monitor' = "none" /\ done' = FALSE /\ asked' = FALSE /\ status' = "none"

Goto(p)  == main' = p /\ UNCHANGED status
Exit(st) == main' = "exited" /\ status' = st

\* Faulty form: what Serve returned is handed on as the exit status.
Result_Raw == errc

Result == IF errc = "error" THEN "runtime" ELSE "clean"

(* config.Load; then service.New and svc.Run, which calls Start, or        *)
(* straight to runGateway.                                                 *)
Load ==
    /\ main = "load" /\ Goto(IF mode = "service" THEN "register" ELSE "logger")
    /\ UNCHANGED <<configVars, gatewayVars, serviceVars, asked>>

LoadFails ==    \* ErrHelp, or a ConfigError
    /\ main = "load" /\ \E st \in {"clean", "usage"} : Exit(st)
    /\ UNCHANGED <<configVars, gatewayVars, serviceVars, asked>>

Register ==
    /\ main = "register" /\ Goto("logger")
    /\ UNCHANGED <<configVars, gatewayVars, serviceVars, asked>>

RegisterFails ==
    /\ main = "register" /\ Exit("runtime")
    /\ UNCHANGED <<configVars, gatewayVars, serviceVars, asked>>

-----------------------------------------------------------------------------
(* runGateway: the log file, if one is configured, then the listener and   *)
(* the Serve goroutine.  Its error ends the process: cmdStart returns 1,   *)
(* proxydgeService.Start calls os.Exit(1).                                 *)
BuildLogger ==
    /\ main = "logger" /\ Goto("listen") /\ log' \in {"none", "open"}
    /\ UNCHANGED <<configVars, listener, serve, errc, serviceVars, asked>>

BuildLoggerFails ==
    /\ main = "logger" /\ Exit("runtime")
    /\ UNCHANGED <<configVars, gatewayVars, serviceVars, asked>>

Closed(f) == IF f = "open" THEN "closed" ELSE f

Listen ==
    /\ main = "listen" /\ Goto(IF mode = "service" THEN "monitor" ELSE "notify")
    /\ listener' = "open" /\ serve' = "running"
    /\ UNCHANGED <<configVars, log, errc, serviceVars, asked>>

\* Faulty form: the log file is left open.
ListenFails_Leaks ==
    /\ main = "listen" /\ Exit("runtime")
    /\ UNCHANGED <<configVars, gatewayVars, serviceVars, asked>>

ListenFails ==
    /\ main = "listen" /\ Exit("runtime") /\ log' = Closed(log)
    /\ UNCHANGED <<configVars, listener, serve, errc, serviceVars, asked>>

ServeReturns ==
    /\ Alive /\ serve = "running" /\ listener = "closed"
    /\ serve' = "returned" /\ errc' = "nil"
    /\ UNCHANGED <<configVars, main, log, listener, serviceVars, asked, status>>

ServeFails ==
    /\ Alive /\ serve = "running" /\ listener = "open"
    /\ serve' = "failed" /\ errc' = "error"
    /\ UNCHANGED <<configVars, main, log, listener, serviceVars, asked, status>>

(* closer: the listener, for UDP the sessions (ExpireAll), the log file.   *)
\* Faulty form: only the log file is closed.
CloseListener_Kept ==
    /\ main = "closing" /\ Goto(IF proto = "udp" THEN "expiring" ELSE "closeFile")
    /\ UNCHANGED <<configVars, gatewayVars, serviceVars, asked>>

CloseListener ==
    /\ main = "closing" /\ Goto(IF proto = "udp" THEN "expiring" ELSE "closeFile")
    /\ listener' = "closed"
    /\ UNCHANGED <<configVars, log, serve, errc, serviceVars, asked>>

SessionsExpired ==
    /\ main = "expiring" /\ Goto("closeFile")
    /\ UNCHANGED <<configVars, gatewayVars, serviceVars, asked>>

CloseFile ==
    /\ main = "closeFile" /\ Goto(IF mode = "service" THEN "waitDone" ELSE "drain")
    /\ log' = Closed(log)
    /\ UNCHANGED <<configVars, listener, serve, errc, serviceVars, asked>>

-----------------------------------------------------------------------------
(* A terminal: signals and the result of Serve.                            *)
Notify ==
    /\ main = "notify" /\ Goto("select")
    /\ UNCHANGED <<configVars, gatewayVars, serviceVars, asked>>

SelectSignal ==
    /\ main = "select" /\ asked /\ Goto("closing")
    /\ UNCHANGED <<configVars, gatewayVars, serviceVars, asked>>

SelectResult ==
    /\ main = "select" /\ errc # "empty" /\ errc' = "empty" /\ Exit(Result)
    /\ UNCHANGED <<configVars, log, listener, serve, serviceVars, asked>>

\* Faulty form: after a signal the result of Serve is awaited but not looked at.
Drain_Ignored ==
    /\ main = "drain" /\ errc # "empty" /\ errc' = "empty" /\ Exit("clean")
    /\ UNCHANGED <<configVars, log, listener, serve, serviceVars, asked>>

Drain ==
    /\ main = "drain" /\ errc # "empty" /\ errc' = "empty" /\ Exit(Result)
    /\ UNCHANGED <<configVars, log, listener, serve, serviceVars, asked>>

-----------------------------------------------------------------------------
(* A service: Start leaves a monitor behind that alone reads errc; Stop    *)
(* waits for what the monitor closes, ten seconds at most.                 *)
StartMonitor ==
    /\ main = "monitor" /\ Goto("serving") /\ monitor' = "wait"
    /\ UNCHANGED <<configVars, gatewayVars, done, asked>>

MonitorTakes ==
    /\ Alive /\ monitor = "wait" /\ errc # "empty" /\ errc' = "empty"
    /\ done' = TRUE
    /\ monitor' = IF errc = "error" THEN "exit" ELSE "ended"
    /\ UNCHANGED <<configVars, main, log, listener, serve, asked, status>>

\* Faulty form: a fatal error is printed and the process lives on.
MonitorExits_Stays ==
    /\ Alive /\ monitor = "exit" /\ monitor' = "ended"
    /\ UNCHANGED <<configVars, gatewayVars, main, done, asked, status>>

MonitorExits ==
    /\ Alive /\ monitor = "exit" /\ monitor' = "ended" /\ Exit("runtime")
    /\ UNCHANGED <<configVars, gatewayVars, done, asked>>

Stop ==
    /\ main = "serving" /\ asked /\ Goto("closing")
    /\ UNCHANGED <<configVars, gatewayVars, serviceVars, asked>>

StopSeesDone ==
    /\ main = "waitDone" /\ done /\ Exit("clean")
    /\ UNCHANGED <<configVars, gatewayVars, serviceVars, asked>>

StopTimesOut ==
    /\ main = "waitDone" /\ Exit("clean")
    /\ UNCHANGED <<configVars, gatewayVars, serviceVars, asked>>

-----------------------------------------------------------------------------
(* From outside: a signal or a stop, fatal as long as nobody listens for   *)
(* it, and kill -9.                                                        *)
AskToStop ==
    /\ Alive
    /\ IF main \in StartPcs
       THEN Exit("killed") /\ UNCHANGED asked
       ELSE asked' = TRUE /\ UNCHANGED <<main, status>>
    /\ UNCHANGED <<configVars, gatewayVars, serviceVars>>

Kill ==
    /\ Alive /\ Exit("killed")
    /\ UNCHANGED <<configVars, gatewayVars, serviceVars, asked>>

StartStep ==
    \/ Load \/ LoadFails \/ Register \/ RegisterFails
    \/ BuildLogger \/ BuildLoggerFails \/ Listen \/ ListenFails
    \/ Notify \/ StartMonitor

StopStep ==
    \/ SelectSignal \/ SelectResult \/ Stop \/ CloseListener \/ CloseFile
    \/ Drain \/ StopSeesDone \/ StopTimesOut

ProcessStep ==
    \/ StartStep \/ StopStep \/ SessionsExpired \/ MonitorTakes \/ MonitorExits
    \/ ServeReturns \/ ServeFails

(* Goroutines that can run do run, Serve sees a closed listener (the      *)
(* ServeStops of both gateways), ten seconds pass.  Nothing promises that  *)
(* the Close of the UDP gateway returns.                                   *)
ProcessFairness ==
    /\ WF_processVars(StartStep) /\ WF_processVars(StopStep)
    /\ WF_processVars(MonitorTakes \/ MonitorExits) /\ WF_processVars(ServeReturns)

=============================================================================
