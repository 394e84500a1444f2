------------------------------- MODULE Service -------------------------------
(***************************************************************************)
(* Start and stop of the process: main and run of                          *)
(* cmd/windows_exporter/main.go, and the service goroutine (svc.Run and    *)
(* Execute) of 0_service.go, with the channels exitCodeCh, stopCh and      *)
(* serviceManagerFinishedCh between them.                                  *)
(***************************************************************************)
EXTENDS Naturals

CONSTANT MaxControls   \* bound: control requests the service manager sends

ASSUME MaxControlsAssumption == MaxControls \in Nat

VARIABLES isService,   \* the variable IsService
          eventLog,    \* the first write to the event log: "ok", "failed"
          mainPc,      \* "startup", "serve", "shutdown", "code", "finish", "exited"
          leftBy,      \* why run left its select or returned early
          exitCode,    \* what run returned
          exitCodeCh,  \* content of the buffered channel, or Empty
          finished,    \* serviceManagerFinishedCh holds its token
          svcPc,       \* service goroutine: "off", "run", "signal", "done"
          execPc,      \* Execute: "off", "loop", "stop", "wait", "returned"
          svcCode,     \* exit code reported to the service manager, or Empty
          controls     \* control requests sent so far

processVars == <<isService, eventLog, mainPc, leftBy, exitCode, exitCodeCh, finished, svcPc,
          execPc, svcCode, controls>>
mainVars == <<mainPc, leftBy, exitCode>>
svcVars  == <<svcPc, execPc, svcCode>>

Empty == 99
Codes == {0, 1, 2, Empty}

\* The initialisation of IsService: outside a service nothing is started; a
\* failing event log puts exit code 2 into exitCodeCh before svc.Run starts.
ProcessInit ==
  /\ isService \in BOOLEAN
  /\ eventLog \in {"ok", "failed"}
  /\ mainPc = "startup" /\ leftBy = "none" /\ exitCode = Empty
  /\ exitCodeCh = IF isService /\ eventLog = "failed" THEN 2 ELSE Empty
  /\ finished = FALSE
  /\ svcPc = IF isService THEN "run" ELSE "off"
  /\ execPc = "off" /\ svcCode = Empty
  /\ controls = 0

-----------------------------------------------------------------------------
(* run and main. *)

\* run returns 1: configuration, process priority, Enable or Build failed.
StartupFails ==
  /\ mainPc = "startup"
  /\ mainPc' = "code" /\ leftBy' = "startup" /\ exitCode' = 1
  /\ UNCHANGED <<isService, eventLog, exitCodeCh, finished, svcVars, controls>>

\* run has started the server and waits in its select.
StartupDone ==
  /\ mainPc = "startup"
  /\ mainPc' = "serve"
  /\ UNCHANGED <<isService, eventLog, leftBy, exitCode, exitCodeCh, finished, svcVars, controls>>

\* select: the process received a signal.
SelectSignal ==
  /\ mainPc = "serve"
  /\ mainPc' = "shutdown" /\ leftBy' = "signal"
  /\ UNCHANGED <<isService, eventLog, exitCode, exitCodeCh, finished, svcVars, controls>>

\* select: the server ended with an error, and run returns 1.
SelectServerError ==
  /\ mainPc = "serve"
  /\ mainPc' = "code" /\ leftBy' = "server" /\ exitCode' = 1
  /\ UNCHANGED <<isService, eventLog, exitCodeCh, finished, svcVars, controls>>

\* Mutant: Execute returns 0 as soon as main has taken the stop signal.
MutSelectStop ==
  /\ mainPc = "serve" /\ execPc = "stop"
  /\ mainPc' = "shutdown" /\ leftBy' = "stop"
  /\ execPc' = "returned" /\ svcCode' = 0
  /\ UNCHANGED <<isService, eventLog, exitCode, exitCodeCh, finished, svcPc, controls>>

\* select: stopCh; Execute sends on it and then waits for the exit code.
SelectStop ==
  /\ mainPc = "serve" /\ execPc = "stop"
  /\ mainPc' = "shutdown" /\ leftBy' = "stop"
  /\ execPc' = "wait"
  /\ UNCHANGED <<isService, eventLog, exitCode, exitCodeCh, finished, svcPc, svcCode, controls>>

\* server.Shutdown returns within its five seconds, and run returns 0.
Shutdown ==
  /\ mainPc = "shutdown"
  /\ mainPc' = "code" /\ exitCode' = 0
  /\ UNCHANGED <<isService, eventLog, leftBy, exitCodeCh, finished, svcVars, controls>>

\* main: os.Exit outside a service, else exitCodeCh <- exitCode, which blocks
\* while the channel is full.
SendCode ==
  /\ mainPc = "code"
  /\ \/ /\ ~isService
        /\ mainPc' = "exited"
        /\ UNCHANGED exitCodeCh
     \/ /\ isService /\ exitCodeCh = Empty
        /\ mainPc' = "finish"
        /\ exitCodeCh' = exitCode
  /\ UNCHANGED <<isService, eventLog, leftBy, exitCode, finished, svcVars, controls>>

\* main: <-serviceManagerFinishedCh, and the process ends.
AwaitFinished ==
  /\ mainPc = "finish" /\ finished
  /\ mainPc' = "exited" /\ finished' = FALSE
  /\ UNCHANGED <<isService, eventLog, leftBy, exitCode, exitCodeCh, svcVars, controls>>

-----------------------------------------------------------------------------
(* The service goroutine; it dies with the process. *)

Alive == mainPc # "exited"

\* svc.Run fails before it calls Execute.
RunFails ==
  /\ Alive /\ svcPc = "run" /\ execPc = "off"
  /\ svcPc' = "signal"
  /\ UNCHANGED <<isService, eventLog, mainVars, exitCodeCh, finished, execPc, svcCode, controls>>

\* svc.Run calls Execute, which reports StartPending and Running.
RunExecutes ==
  /\ Alive /\ svcPc = "run" /\ execPc = "off"
  /\ execPc' = "loop"
  /\ UNCHANGED <<isService, eventLog, mainVars, exitCodeCh, finished, svcPc, svcCode, controls>>

\* Execute's select: an exit code is received and Execute returns it.
ExecuteCode ==
  /\ Alive /\ execPc = "loop" /\ exitCodeCh # Empty
  /\ svcCode' = exitCodeCh /\ exitCodeCh' = Empty
  /\ execPc' = "returned"
  /\ UNCHANGED <<isService, eventLog, mainVars, finished, svcPc, controls>>

\* Execute's select: Interrogate or an unexpected request.
ExecuteOther ==
  /\ Alive /\ execPc = "loop" /\ controls < MaxControls
  /\ controls' = controls + 1
  /\ UNCHANGED <<isService, eventLog, mainVars, exitCodeCh, finished, svcVars>>

\* Execute's select: Stop or Shutdown; Execute blocks on stopCh <- {}.
ExecuteStop ==
  /\ Alive /\ execPc = "loop" /\ controls < MaxControls
  /\ controls' = controls + 1
  /\ execPc' = "stop"
  /\ UNCHANGED <<isService, eventLog, mainVars, exitCodeCh, finished, svcPc, svcCode>>

\* Execute waits for the exit code of the stopped main function.
ExecuteWait ==
  /\ Alive /\ execPc = "wait" /\ exitCodeCh # Empty
  /\ svcCode' = exitCodeCh /\ exitCodeCh' = Empty
  /\ execPc' = "returned"
  /\ UNCHANGED <<isService, eventLog, mainVars, finished, svcPc, controls>>

\* svc.Run returns.
RunReturns ==
  /\ Alive /\ svcPc = "run" /\ execPc = "returned"
  /\ svcPc' = "signal"
  /\ UNCHANGED <<isService, eventLog, mainVars, exitCodeCh, finished, execPc, svcCode, controls>>

\* Mutant: the goroutine ends without a token for main.
MutFinish ==
  /\ Alive /\ svcPc = "signal"
  /\ svcPc' = "done"
  /\ UNCHANGED <<isService, eventLog, mainVars, exitCodeCh, finished, execPc, svcCode, controls>>

\* serviceManagerFinishedCh <- {}.
Finish ==
  /\ Alive /\ svcPc = "signal"
  /\ svcPc' = "done" /\ finished' = TRUE
  /\ UNCHANGED <<isService, eventLog, mainVars, exitCodeCh, execPc, svcCode, controls>>

-----------------------------------------------------------------------------
Startup == StartupFails \/ StartupDone
Select  == SelectSignal \/ SelectServerError \/ SelectStop
Run     == RunFails \/ RunExecutes
Execute == ExecuteCode \/ ExecuteWait

ProcessNext == Startup \/ Select \/ Shutdown \/ SendCode \/ AwaitFinished \/ Run \/ Execute
          \/ ExecuteOther \/ ExecuteStop \/ RunReturns \/ Finish

ProcessSafety == ProcessInit /\ [][ProcessNext]_processVars

\* Startup and Shutdown end (the latter by its deadline), the service manager
\* lib starts Execute or fails, and goroutines that can go on do.  Signals,
\* server errors and control requests need not come.
ProcessEndFairness ==
  /\ WF_processVars(SelectStop) /\ WF_processVars(Shutdown) /\ WF_processVars(SendCode)
  /\ WF_processVars(AwaitFinished) /\ WF_processVars(Run) /\ WF_processVars(ExecuteWait)
  /\ WF_processVars(ExecuteCode) /\ WF_processVars(RunReturns) /\ WF_processVars(Finish)

ProcessFairness == WF_processVars(Startup) /\ ProcessEndFairness

ProcessSpec == ProcessSafety /\ ProcessFairness

-----------------------------------------------------------------------------
(* Properties. *)

\* Every variable holds a value of its type, the channels hold at most one element,
\* and run has an exit code exactly when it has returned.
ProcessTypeOK ==
  /\ exitCode # Empty <=> mainPc \in {"code", "finish", "exited"}
  /\ isService \in BOOLEAN /\ eventLog \in {"ok", "failed"}
  /\ mainPc \in {"startup", "serve", "shutdown", "code", "finish", "exited"}
  /\ leftBy \in {"none", "startup", "signal", "server", "stop"}
  /\ exitCode \in Codes /\ exitCodeCh \in Codes /\ svcCode \in Codes
  /\ finished \in BOOLEAN
  /\ svcPc \in {"off", "run", "signal", "done"}
  /\ execPc \in {"off", "loop", "stop", "wait", "returned"}
  /\ controls \in 0..MaxControls

\* The service manager is told that the service has stopped, and with which exit
\* code, only after run has returned that code; only a failing event log at
\* start makes it see exit code 2 instead.
StoppedAfterMain ==
  eventLog = "ok" /\ execPc = "returned" =>
    mainPc \in {"finish", "exited"} /\ svcCode = exitCode

\* A service process does not end before the service manager has been answered.
ExitAfterManager == mainPc = "exited" /\ isService => svcPc = "done"

\* The order of the end: run returns, the service manager is answered, the process ends.
EndsInOrder == StoppedAfterMain /\ ExitAfterManager

\* A stop request ends the process, unless main has left (or never reaches) the
\* select that receives from stopCh for another reason; and when run has returned the
\* process ends, unless Execute is stuck in stopCh <- {} or the event log and svc.Run
\* failed both, which leaves exitCodeCh full.
ProcessEnds ==
  /\ execPc = "stop" ~> mainPc = "exited" \/ leftBy \in {"startup", "signal", "server"}
  /\ mainPc = "code" ~> \/ mainPc = "exited" \/ execPc = "stop"
                        \/ eventLog = "failed" /\ execPc = "off" /\ svcPc = "done"

\* What Execute's comments say of a stop request: it makes the main function stop
\* the service, that is, the process ends.
StopStopsService == execPc = "stop" ~> mainPc = "exited"
=============================================================================
