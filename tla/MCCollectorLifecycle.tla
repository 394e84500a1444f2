------------------------ MODULE MCCollectorLifecycle ------------------------
(* CollectorLifecycle for TLC: its bounds, and the exceptions its properties make. *)
EXTENDS CollectorDiscipline, CollectorPrograms

\* What the runs have shown to be so, collector by collector.
LeavesOpenKnown ==
  [thermalzone |-> {"thermalzone"}, physical_disk |-> {"physical_disk"}, memory |-> {"memory"},
   logical_disk |-> {"logical_disk"}, performancecounter |-> {"A", "B"},
   msmq |-> {"msmq"}, smbclient |-> {"smbclient"}, nps |-> {"access", "accounting"},
   terminal_services |-> {"hServer", "session", "broker"},
   exchange |-> FnNames(exchange_Collect), hyperv |-> FnNames(hyperv_Collect),
   mssql |-> {<<"databases2019", 1>>, <<"databases2019", 2>>}, iis |-> {"W3SVCW3WPV8"}]
StopsEarlyKnown == [iis |-> {"W3SVCW3WPV8"}]
UnreadyKnown    == {"os", "dns", "iis", "service"}
WaitsKnown      == {"logical_disk"}
UnclosableKnown == {"logical_disk", "service"}
LargeOnes       == {"netframework", "exchange", "hyperv", "mssql", "iis"}
=============================================================================
