------------------------ MODULE ServiceControlProofs ------------------------
(***************************************************************************)
(* Proofs about ServiceControl, and with it about GatewayProcess: for any  *)
(* modes and protocols, any number of launches, commands, signals, crashes *)
(* and refusals of the service manager.                                    *)
(***************************************************************************)
EXTENDS ServiceControl, TLAPS

-----------------------------------------------------------------------------
(* The process.  What is open, and what asked and mode say, is fixed by    *)
(* the place of its main goroutine; what errc holds by what Serve did.     *)

BeforeLog    == {"none", "load", "register", "logger"}
BeforeListen == BeforeLog \cup {"listen"}
Listening    == {"notify", "monitor", "select", "serving", "closing"}
AfterClose   == {"expiring", "closeFile", "drain", "waitDone"}

(* What runGateway and its closer have opened and closed so far.           *)
OpenedInv ==
    /\ main \in BeforeLog => log = "none"
    /\ main \in BeforeListen => listener = "none" /\ serve = "none"
    /\ main \in Listening => listener = "open"
    /\ main \in AfterClose => listener = "closed"
    /\ main \in {"drain", "waitDone"} => log # "open"

(* Who tells whom of the end of Serve.  Serve returns nil only after the   *)
(* closer, and only the monitor of a service that failed calls os.Exit.    *)
ResultInv ==
    /\ serve = "none" => errc = "empty"
    /\ serve = "running" => errc = "empty"
    /\ errc = "nil" => serve = "returned"
    /\ errc = "error" => serve = "failed"
    /\ serve = "returned" => listener = "closed"
    /\ monitor = "exit" => serve = "failed"

(* The way the main goroutine took.                                        *)
WayInv ==
    /\ main # "exited" => status = "none"
    /\ main \in {"register", "monitor", "serving", "waitDone"} => mode = "service"
    /\ main \in {"closing"} \cup AfterClose => asked

ProcessInv ==
    ProcessTypeOK /\ OpenedInv /\ ResultInv /\ WayInv /\ FatalNotMasked /\ ExitReleases

LEMMA ProcessInvInit == ProcessInit => ProcessInv
BY DEF ProcessInit, ProcessInv, ProcessTypeOK, OpenedInv, ResultInv, WayInv,
       FatalNotMasked, ExitReleases, StartPcs, BeforeLog, BeforeListen, Listening, AfterClose

(* A new process starts with nothing.                                      *)
LEMMA ProcessInvLaunch ==
    ASSUME NEW m \in {"interactive", "service"}, Launch(m)
    PROVE  ProcessInv'
BY ModesAssumption
   DEF Launch, ProcessInv, ProcessTypeOK, OpenedInv, ResultInv, WayInv, FatalNotMasked,
       ExitReleases, StartPcs, BeforeLog, BeforeListen, Listening, AfterClose

(* The steps of the start, runGateway's error paths included.              *)
LEMMA ProcessInvStart ==
    ASSUME ProcessInv, StartStep
    PROVE  ProcessInv'
<1> USE DEF configVars, gatewayVars, serviceVars, Goto, Exit, ProcessInv, ProcessTypeOK,
            OpenedInv, ResultInv, WayInv, FatalNotMasked, ExitReleases, StartPcs,
            BeforeLog, BeforeListen, Listening, AfterClose
<1>1. CASE Load
  BY <1>1 DEF Load
<1>2. CASE LoadFails
  BY <1>2 DEF LoadFails
<1>3. CASE Register \/ RegisterFails
  BY <1>3 DEF Register, RegisterFails
<1>4. CASE BuildLogger \/ BuildLoggerFails
  BY <1>4 DEF BuildLogger, BuildLoggerFails
<1>5. CASE Listen
  BY <1>5 DEF Listen
<1>6. CASE ListenFails
  BY <1>6 DEF ListenFails, Closed
<1>7. CASE Notify \/ StartMonitor
  BY <1>7 DEF Notify, StartMonitor
<1> QED BY <1>1, <1>2, <1>3, <1>4, <1>5, <1>6, <1>7 DEF StartStep

(* The steps of the stop: a signal, Stop, the closer and the wait for Serve. *)
LEMMA ProcessInvStop ==
    ASSUME ProcessInv, StopStep
    PROVE  ProcessInv'
<1> USE DEF configVars, gatewayVars, serviceVars, Goto, Exit, ProcessInv, ProcessTypeOK,
            OpenedInv, ResultInv, WayInv, FatalNotMasked, ExitReleases, StartPcs,
            BeforeLog, BeforeListen, Listening, AfterClose
<1>1. CASE SelectSignal \/ Stop
  BY <1>1 DEF SelectSignal, Stop
<1>2. CASE SelectResult
  BY <1>2 DEF SelectResult, Result
<1>3. CASE CloseListener
  BY <1>3 DEF CloseListener
<1>4. CASE CloseFile
  BY <1>4 DEF CloseFile, Closed
<1>5. CASE Drain
  BY <1>5 DEF Drain, Result
<1>6. CASE StopSeesDone \/ StopTimesOut
  BY <1>6 DEF StopSeesDone, StopTimesOut
<1> QED BY <1>1, <1>2, <1>3, <1>4, <1>5, <1>6 DEF StopStep

(* The Serve goroutine, the monitor, and what comes from outside.          *)
LEMMA ProcessInvOthers ==
    ASSUME ProcessInv,
           \/ SessionsExpired \/ MonitorTakes \/ MonitorExits \/ ServeReturns \/ ServeFails
           \/ AskToStop \/ Kill \/ UNCHANGED processVars
    PROVE  ProcessInv'
<1> USE DEF configVars, gatewayVars, serviceVars, Goto, Exit, Alive, ProcessInv, ProcessTypeOK,
            OpenedInv, ResultInv, WayInv, FatalNotMasked, ExitReleases, StartPcs,
            BeforeLog, BeforeListen, Listening, AfterClose
<1>1. CASE SessionsExpired
  BY <1>1 DEF SessionsExpired
<1>2. CASE MonitorTakes
  BY <1>2 DEF MonitorTakes
<1>3. CASE MonitorExits
  BY <1>3 DEF MonitorExits
<1>4. CASE ServeReturns
  BY <1>4 DEF ServeReturns
<1>5. CASE ServeFails
  BY <1>5 DEF ServeFails
<1>6. CASE AskToStop
  <2>1. CASE main \in StartPcs
    BY <1>6, <2>1 DEF AskToStop
  <2>2. CASE main \notin StartPcs
    BY <1>6, <2>2 DEF AskToStop
  <2> QED BY <2>1, <2>2
<1>7. CASE Kill
  BY <1>7 DEF Kill
<1>8. CASE UNCHANGED processVars
  BY <1>8 DEF processVars
<1> QED BY <1>1, <1>2, <1>3, <1>4, <1>5, <1>6, <1>7, <1>8

-----------------------------------------------------------------------------
(* The commands.  Each call belongs to the commands that make it; from the *)
(* Stop of an uninstall on the unit is not wanted, so that nothing starts  *)
(* the process again that was seen to end.                                 *)
CommandInv ==
    /\ cmd.pc \in {"stat", "status", "install"} => cmd.action = "install"
    /\ cmd.pc = "start" => cmd.action \in {"install", "start"}
    /\ cmd.pc \in {"stop", "stopping"} => cmd.action \in {"stop", "uninstall"}
    /\ cmd.pc = "remove" => cmd.action = "uninstall"
    /\ cmd.pc = "stopping" => ~wanted
    /\ cmd.pc = "remove" /\ ~cmd.stopErr => ~wanted /\ ~ServiceUp
    /\ cmd.action = "uninstall" /\ cmd.pc = "ended" /\ cmd.code = "clean" /\ ~cmd.stopErr
          => ~wanted /\ ~ServiceUp

ControlTypeOK ==
    /\ installed \in BOOLEAN /\ wanted \in BOOLEAN
    /\ cmd \in [action : Actions, stopErr : BOOLEAN,
                pc : {"stat", "status", "install", "start", "stop", "stopping", "remove", "ended"},
                code : {"none", "clean", "runtime", "usage"}]

ControlInv == ProcessInv /\ ControlTypeOK /\ CommandInv

LEMMA ControlInvInit == Init => ControlInv
<1> SUFFICES ASSUME Init PROVE ControlInv
  OBVIOUS
<1>1. ProcessInv
  BY ProcessInvInit DEF Init
<1>2. ControlTypeOK /\ CommandInv
  BY DEF Init, ControlTypeOK, CommandInv, Actions
<1> QED BY <1>1, <1>2 DEF ControlInv

(* A running process is not made a service's by any step of its own: only  *)
(* Launch sets mode, and it takes a process that is not there.             *)
LEMMA ProcessStepMode ==
    ASSUME \/ ProcessStep \/ AskToStop \/ Kill
    PROVE  ServiceUp' => ServiceUp
<1> USE DEF configVars, gatewayVars, serviceVars, Goto, Exit, Alive, ServiceUp
<1>1. ASSUME StartStep PROVE ServiceUp' => ServiceUp
  BY <1>1 DEF StartStep, Load, LoadFails, Register, RegisterFails, BuildLogger,
              BuildLoggerFails, Listen, ListenFails, Notify, StartMonitor
<1>2. ASSUME StopStep PROVE ServiceUp' => ServiceUp
  BY <1>2 DEF StopStep, SelectSignal, SelectResult, Stop, CloseListener, CloseFile, Drain,
              StopSeesDone, StopTimesOut
<1>3. ASSUME SessionsExpired \/ MonitorTakes \/ MonitorExits \/ ServeReturns \/ ServeFails
      PROVE  ServiceUp' => ServiceUp
  BY <1>3 DEF SessionsExpired, MonitorTakes, MonitorExits, ServeReturns, ServeFails
<1>4. ASSUME AskToStop \/ Kill PROVE ServiceUp' => ServiceUp
  BY <1>4 DEF AskToStop, Kill
<1> QED BY <1>1, <1>2, <1>3, <1>4 DEF ProcessStep

LEMMA ControlInvProcess ==
    ASSUME ControlInv, Runs \/ Restart \/ Interact \/ Interrupt \/ Crash
    PROVE  ControlInv'
<1>1. ProcessInv'
  <2>1. CASE Runs \/ Interrupt \/ Crash
    BY <2>1, ProcessInvStart, ProcessInvStop, ProcessInvOthers
       DEF Runs, Interrupt, Crash, ProcessStep, ControlInv
  <2>2. CASE Restart \/ Interact
    BY <2>2, ProcessInvLaunch DEF Restart, Interact
  <2> QED BY <2>1, <2>2
<1>2. UNCHANGED <<installed, wanted, cmd>>
  BY DEF Runs, Restart, Interact, Interrupt, Crash, controlVars
<1>3. ServiceUp' => ServiceUp \/ wanted
  <2>1. CASE Runs \/ Interrupt \/ Crash
    BY <2>1, ProcessStepMode DEF Runs, Interrupt, Crash
  <2>2. CASE Restart \/ Interact
    BY <2>2 DEF Restart, Interact, Launch, ServiceUp
  <2> QED BY <2>1, <2>2
<1>4. ControlTypeOK'
  BY <1>2 DEF ControlInv, ControlTypeOK
<1>5. CommandInv'
  BY <1>2, <1>3 DEF ControlInv, CommandInv
<1> QED BY <1>1, <1>4, <1>5 DEF ControlInv

(* The steps of a command that leave the process alone.                    *)
LEMMA ControlInvCommand ==
    ASSUME ControlInv, CommandStep, ~StopUnit
    PROVE  ControlInv'
<1>0. UNCHANGED processVars
  BY DEF CommandStep, StatConfig, AlreadyInstalled, StatusUnknown, Install, InstallFails,
         StartUnit, StartFails, Stopped, StopFails, Uninstall, UninstallFails
<1>1. ProcessInv'
  BY <1>0, ProcessInvOthers DEF ControlInv
<1>2. ServiceUp' <=> ServiceUp
  BY <1>0 DEF processVars, configVars, ServiceUp, Alive
<1> USE DEF ControlInv, ControlTypeOK, Actions, At, CmdGoto, End, Refused
<1>3. ControlTypeOK'
  <2>1. CASE StatConfig \/ AlreadyInstalled \/ StatusUnknown \/ Install \/ InstallFails
    BY <2>1 DEF StatConfig, AlreadyInstalled, StatusUnknown, Install, InstallFails
  <2>2. CASE StartUnit \/ StartFails \/ Stopped \/ StopFails \/ Uninstall \/ UninstallFails
    BY <2>2 DEF StartUnit, StartFails, Stopped, StopFails, Uninstall, UninstallFails
  <2> QED BY <2>1, <2>2 DEF CommandStep
<1>4. CommandInv'
  <2> USE <1>2 DEF CommandInv
  <2>1. CASE StatConfig \/ AlreadyInstalled \/ StatusUnknown \/ Install \/ InstallFails
    BY <2>1 DEF StatConfig, AlreadyInstalled, StatusUnknown, Install, InstallFails
  <2>2. CASE StartUnit \/ StartFails
    BY <2>2 DEF StartUnit, StartFails
  <2>3. CASE Stopped
    BY <2>3 DEF Stopped
  <2>4. CASE StopFails
    BY <2>4 DEF StopFails
  <2>5. CASE Uninstall \/ UninstallFails
    BY <2>5 DEF Uninstall, UninstallFails
  <2> QED BY <2>1, <2>2, <2>3, <2>4, <2>5 DEF CommandStep
<1> QED BY <1>1, <1>3, <1>4

LEMMA ControlInvStop ==
    ASSUME ControlInv, StopUnit
    PROVE  ControlInv'
<1>1. AskToStop \/ UNCHANGED processVars
  BY DEF StopUnit
<1>2. ProcessInv'
  BY <1>1, ProcessInvOthers DEF ControlInv
<1>3. ControlTypeOK' /\ CommandInv'
  BY DEF StopUnit, ControlInv, ControlTypeOK, CommandInv, Actions, At, CmdGoto
<1> QED BY <1>2, <1>3 DEF ControlInv

LEMMA ControlInvDispatch ==
    ASSUME ControlInv, NEW a \in Actions, Dispatch(a) \/ Reject(a)
    PROVE  ControlInv'
<1>1. UNCHANGED processVars /\ UNCHANGED <<installed, wanted>>
  BY DEF Dispatch, Reject
<1>2. ProcessInv'
  BY <1>1, ProcessInvOthers DEF ControlInv
<1>3. ControlTypeOK' /\ CommandInv'
  <2>1. CASE Dispatch(a)
    BY <1>1, <2>1 DEF Dispatch, FirstCall, ControlInv, ControlTypeOK, CommandInv, Actions
  <2>2. CASE Reject(a)
    BY <1>1, <2>2 DEF Reject, ControlInv, ControlTypeOK, CommandInv, Actions
  <2> QED BY <2>1, <2>2
<1> QED BY <1>2, <1>3 DEF ControlInv

LEMMA ControlInvStep == ControlInv /\ [Next]_vars => ControlInv'
<1> SUFFICES ASSUME ControlInv, [Next]_vars PROVE ControlInv'
  OBVIOUS
<1>1. ASSUME UNCHANGED vars PROVE ControlInv'
  <2>1. UNCHANGED processVars /\ UNCHANGED <<installed, wanted, cmd>>
    BY <1>1 DEF vars, controlVars
  <2>2. ProcessInv'
    BY <2>1, ProcessInvOthers DEF ControlInv
  <2> QED BY <2>1, <2>2 DEF ControlInv, ControlTypeOK, CommandInv, ServiceUp, Alive,
             processVars, configVars
<1> QED BY <1>1, ControlInvProcess, ControlInvCommand, ControlInvStop, ControlInvDispatch DEF Next

LEMMA ControlInvariant == Spec => []ControlInv
BY ControlInvInit, ControlInvStep, PTL DEF Spec

-----------------------------------------------------------------------------
(* Every variable of the process, of the service manager and of the        *)
(* command stays in its type.                                              *)
THEOREM TypeCorrect == Spec => []TypeOK
<1>1. ControlInv => TypeOK
  BY DEF ControlInv, ProcessInv, ControlTypeOK, TypeOK
<1> QED BY <1>1, ControlInvariant, PTL

(* runGateway's result reaches the exit code: a process whose Serve failed *)
(* does not end with 0, but for a service that was told to stop.           *)
THEOREM FailureReported == Spec => []FatalNotMasked
<1>1. ControlInv => FatalNotMasked
  BY DEF ControlInv, ProcessInv
<1> QED BY <1>1, ControlInvariant, PTL

(* Every way out of runGateway and of its closer has closed the log file   *)
(* and the listener, unless Serve failed.                                  *)
THEOREM ExitsClean == Spec => []ExitReleases
<1>1. ControlInv => ExitReleases
  BY DEF ControlInv, ProcessInv
<1> QED BY <1>1, ControlInvariant, PTL

(* An uninstall that reports success, with a Stop that was not refused,    *)
(* leaves no gateway of the service manager running, whatever else was     *)
(* launched, killed or restarted meanwhile.                                *)
THEOREM UninstallComplete == Spec => []UninstallLeavesNothing
<1>1. ControlInv => UninstallLeavesNothing
  BY DEF ControlInv, CommandInv, UninstallLeavesNothing
<1> QED BY <1>1, ControlInvariant, PTL

=============================================================================
