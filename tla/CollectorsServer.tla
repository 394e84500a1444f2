-------------------------- MODULE CollectorsServer --------------------------
(***************************************************************************)
(* Build, Collect and Close of the collectors of internal/collector that   *)
(* are made of many sub-collectors, for server products: netframework,     *)
(* exchange, hyperv, mssql, iis and mscluster.  All but iis collect each   *)
(* sub-collector in a goroutine of its own.                                *)
(***************************************************************************)
EXTENDS CollectorSteps, Sequences

\* Build of a sub-collector that goes into collectorFns only when it was built.
Registered(n, steps) == Joining(When(n, steps \o <<Fn(n)>>))
Running(n, steps)    == Thread(n, <<Returning(steps)>>)

-----------------------------------------------------------------------------
(* netframework: WMI classes; building one cannot fail, the session is shared. *)

netframework_build(n)   == Registered(n, <<Set(n)>>)
netframework_collect(n) == Running(n, <<Query(n), Each(n)>>)

netframework_buildClrExceptions        == netframework_build("clrexceptions")
netframework_collectClrExceptions      == netframework_collect("clrexceptions")
netframework_buildClrInterop           == netframework_build("clrinterop")
netframework_collectClrInterop         == netframework_collect("clrinterop")
netframework_buildClrJIT               == netframework_build("clrjit")
netframework_collectClrJIT             == netframework_collect("clrjit")
netframework_buildClrLoading           == netframework_build("clrloading")
netframework_collectClrLoading         == netframework_collect("clrloading")
netframework_buildClrLocksAndThreads   == netframework_build("clrlocksandthreads")
netframework_collectClrLocksAndThreads == netframework_collect("clrlocksandthreads")
netframework_buildClrMemory            == netframework_build("clrmemory")
netframework_collectClrMemory          == netframework_collect("clrmemory")
netframework_buildClrRemoting          == netframework_build("clrremoting")
netframework_collectClrRemoting        == netframework_collect("clrremoting")
netframework_buildClrSecurity          == netframework_build("clrsecurity")
netframework_collectClrSecurity        == netframework_collect("clrsecurity")

netframework_Build ==
  <<Returning(<<Validate("miSession")>>),
    netframework_buildClrExceptions, netframework_buildClrInterop, netframework_buildClrJIT,
    netframework_buildClrLoading, netframework_buildClrLocksAndThreads, netframework_buildClrMemory,
    netframework_buildClrRemoting, netframework_buildClrSecurity,
    Returning(<<Validate("CollectorsEnabled")>>)>>
netframework_Collect ==
  <<netframework_collectClrExceptions, netframework_collectClrInterop, netframework_collectClrJIT,
    netframework_collectClrLoading, netframework_collectClrLocksAndThreads, netframework_collectClrMemory,
    netframework_collectClrRemoting, netframework_collectClrSecurity>>

-----------------------------------------------------------------------------
(* exchange.  The close functions are taken from the nil collectors before Build makes *)
(* the real ones, so Close closes none.                                                *)

exchange_buildADAccessProcesses    == OpenThenDescribe("ADAccessProcesses")
exchange_collectADAccessProcesses  == ReadRows("ADAccessProcesses")
exchange_buildTransportQueues      == OpenThenDescribe("TransportQueues")
exchange_collectTransportQueues    == ReadRows("TransportQueues")
exchange_buildHTTPProxy            == OpenThenDescribe("HttpProxy")
exchange_collectHTTPProxy          == ReadRows("HttpProxy")
exchange_buildActiveSync           == OpenThenDescribe("ActiveSync")
exchange_collectActiveSync         == ReadRows("ActiveSync")
exchange_buildAvailabilityService   == OpenThenDescribe("AvailabilityService")
exchange_collectAvailabilityService == ReadRows("AvailabilityService")
exchange_buildOWA                  == OpenThenDescribe("OutlookWebAccess")
exchange_collectOWA                == ReadRows("OutlookWebAccess")
exchange_buildAutoDiscover         == OpenThenDescribe("Autodiscover")
exchange_collectAutoDiscover       == ReadRows("Autodiscover")
exchange_buildWorkloadManagementWorkloads   == OpenThenDescribe("WorkloadManagement")
exchange_collectWorkloadManagementWorkloads == ReadRows("WorkloadManagement")
exchange_buildRpcClientAccess      == OpenThenDescribe("RpcClientAccess")
exchange_collectRpcClientAccess    == ReadRows("RpcClientAccess")
exchange_buildMapiHTTPEmsMDB       == OpenThenDescribe("MapiHttpEmsmdb")
exchange_collectMapiHTTPEmsMDB     == ReadRows("MapiHttpEmsmdb")

exchange_Build ==
  <<Registered("ADAccessProcesses", exchange_buildADAccessProcesses),
    Registered("TransportQueues", exchange_buildTransportQueues),
    Registered("HttpProxy", exchange_buildHTTPProxy),
    Registered("ActiveSync", exchange_buildActiveSync),
    Registered("AvailabilityService", exchange_buildAvailabilityService),
    Registered("OutlookWebAccess", exchange_buildOWA),
    Registered("Autodiscover", exchange_buildAutoDiscover),
    Registered("WorkloadManagement", exchange_buildWorkloadManagementWorkloads),
    Registered("RpcClientAccess", exchange_buildRpcClientAccess),
    Registered("MapiHttpEmsmdb", exchange_buildMapiHTTPEmsMDB),
    Returning(<<Validate("CollectorsEnabled")>>)>>
exchange_Collect ==
  <<Running("ADAccessProcesses", exchange_collectADAccessProcesses),
    Running("TransportQueues", exchange_collectTransportQueues),
    Running("HttpProxy", exchange_collectHTTPProxy),
    Running("ActiveSync", exchange_collectActiveSync),
    Running("AvailabilityService", exchange_collectAvailabilityService),
    Running("OutlookWebAccess", exchange_collectOWA),
    Running("Autodiscover", exchange_collectAutoDiscover),
    Running("WorkloadManagement", exchange_collectWorkloadManagementWorkloads),
    Running("RpcClientAccess", exchange_collectRpcClientAccess),
    Running("MapiHttpEmsmdb", exchange_collectMapiHTTPEmsMDB)>>
exchange_Close == Nothing

-----------------------------------------------------------------------------
(* hyperv.  As in exchange the close functions belong to nil collectors.  datastore and *)
(* virtual_smb are left out on a Windows older than LTSC 2022, as if not enabled; a     *)
(* malformed instance name ends the loop of the three processor collectors.             *)

hyperv_readNamed(n) == <<Use(n), Each(n), Check("Name"), Each(n)>>

hyperv_buildDataStore == OpenThenDescribe("datastore")
hyperv_collectDataStore == ReadRows("datastore")
hyperv_buildDynamicMemoryBalancer == OpenThenDescribe("dynamic_memory_balancer")
hyperv_collectDynamicMemoryBalancer == ReadRows("dynamic_memory_balancer")
hyperv_buildDynamicMemoryVM == OpenThenDescribe("dynamic_memory_vm")
hyperv_collectDynamicMemoryVM == ReadRows("dynamic_memory_vm")
hyperv_buildHypervisorLogicalProcessor == OpenThenDescribe("hypervisor_logical_processor")
hyperv_collectHypervisorLogicalProcessor == hyperv_readNamed("hypervisor_logical_processor")
hyperv_buildHypervisorRootPartition == OpenThenDescribe("hypervisor_root_partition")
hyperv_collectHypervisorRootPartition == ReadFirst("hypervisor_root_partition")
hyperv_buildHypervisorRootVirtualProcessor == OpenThenDescribe("hypervisor_root_virtual_processor")
hyperv_collectHypervisorRootVirtualProcessor == hyperv_readNamed("hypervisor_root_virtual_processor")
hyperv_buildHypervisorVirtualProcessor == OpenThenDescribe("hypervisor_virtual_processor")
hyperv_collectHypervisorVirtualProcessor == hyperv_readNamed("hypervisor_virtual_processor")
hyperv_buildLegacyNetworkAdapter == OpenThenDescribe("legacy_network_adapter")
hyperv_collectLegacyNetworkAdapter == ReadRows("legacy_network_adapter")
hyperv_buildVirtualMachineHealthSummary == OpenThenDescribe("virtual_machine_health_summary")
hyperv_collectVirtualMachineHealthSummary == ReadFirst("virtual_machine_health_summary")
hyperv_buildVirtualMachineVidPartition == OpenThenDescribe("virtual_machine_vid_partition")
hyperv_collectVirtualMachineVidPartition == ReadRows("virtual_machine_vid_partition")
hyperv_buildVirtualNetworkAdapter == OpenThenDescribe("virtual_network_adapter")
hyperv_collectVirtualNetworkAdapter == ReadRows("virtual_network_adapter")
hyperv_buildVirtualNetworkAdapterDropReasons == OpenThenDescribe("virtual_network_adapter_drop_reasons")
hyperv_collectVirtualNetworkAdapterDropReasons == ReadRows("virtual_network_adapter_drop_reasons")
hyperv_buildVirtualSMB == OpenThenDescribe("virtual_smb")
hyperv_collectVirtualSMB == ReadRows("virtual_smb")
hyperv_buildVirtualStorageDevice == OpenThenDescribe("virtual_storage_device")
hyperv_collectVirtualStorageDevice == ReadRows("virtual_storage_device")
hyperv_buildVirtualSwitch == OpenThenDescribe("virtual_switch")
hyperv_collectVirtualSwitch == ReadRows("virtual_switch")

hyperv_Build ==
  <<Registered("datastore", hyperv_buildDataStore),
    Registered("dynamic_memory_balancer", hyperv_buildDynamicMemoryBalancer),
    Registered("dynamic_memory_vm", hyperv_buildDynamicMemoryVM),
    Registered("hypervisor_logical_processor", hyperv_buildHypervisorLogicalProcessor),
    Registered("hypervisor_root_partition", hyperv_buildHypervisorRootPartition),
    Registered("hypervisor_root_virtual_processor", hyperv_buildHypervisorRootVirtualProcessor),
    Registered("hypervisor_virtual_processor", hyperv_buildHypervisorVirtualProcessor),
    Registered("legacy_network_adapter", hyperv_buildLegacyNetworkAdapter),
    Registered("virtual_machine_health_summary", hyperv_buildVirtualMachineHealthSummary),
    Registered("virtual_machine_vid_partition", hyperv_buildVirtualMachineVidPartition),
    Registered("virtual_network_adapter", hyperv_buildVirtualNetworkAdapter),
    Registered("virtual_network_adapter_drop_reasons", hyperv_buildVirtualNetworkAdapterDropReasons),
    Registered("virtual_smb", hyperv_buildVirtualSMB),
    Registered("virtual_storage_device", hyperv_buildVirtualStorageDevice),
    Registered("virtual_switch", hyperv_buildVirtualSwitch),
    Returning(<<Validate("CollectorsEnabled")>>)>>
hyperv_Collect ==
  <<Running("datastore", hyperv_collectDataStore),
    Running("dynamic_memory_balancer", hyperv_collectDynamicMemoryBalancer),
    Running("dynamic_memory_vm", hyperv_collectDynamicMemoryVM),
    Running("hypervisor_logical_processor", hyperv_collectHypervisorLogicalProcessor),
    Running("hypervisor_root_partition", hyperv_collectHypervisorRootPartition),
    Running("hypervisor_root_virtual_processor", hyperv_collectHypervisorRootVirtualProcessor),
    Running("hypervisor_virtual_processor", hyperv_collectHypervisorVirtualProcessor),
    Running("legacy_network_adapter", hyperv_collectLegacyNetworkAdapter),
    Running("virtual_machine_health_summary", hyperv_collectVirtualMachineHealthSummary),
    Running("virtual_machine_vid_partition", hyperv_collectVirtualMachineVidPartition),
    Running("virtual_network_adapter", hyperv_collectVirtualNetworkAdapter),
    Running("virtual_network_adapter_drop_reasons", hyperv_collectVirtualNetworkAdapterDropReasons),
    Running("virtual_smb", hyperv_collectVirtualSMB),
    Running("virtual_storage_device", hyperv_collectVirtualStorageDevice),
    Running("virtual_switch", hyperv_collectVirtualSwitch)>>
hyperv_Close == Nothing

-----------------------------------------------------------------------------
(* mssql, with two SQL Server instances.  A sub-collector opens a query per instance and *)
(* is registered whatever failed; what it says about its own run is described last.      *)

mssql_open(n)   == <<Joining(<<Only(n, Pdh(<<n, 1>>))>>), Joining(<<Only(n, Pdh(<<n, 2>>))>>)>>
mssql_build(n)  == mssql_open(n) \o <<Returning(When(n, <<Set(n), Fn(n)>>))>>
mssql_instance(r, n) == <<Joining(<<Use(r), Each(n)>>), Returning(<<Get("scrape")>>)>>
mssql_collect(n) == Thread(n, mssql_instance(<<n, 1>>, n) \o mssql_instance(<<n, 2>>, n))
mssql_close(n)  == When(n, <<Shut(<<n, 1>>), Shut(<<n, 2>>)>>)

mssql_buildAccessMethods == mssql_build("accessmethods")
mssql_collectAccessMethods == mssql_collect("accessmethods")
mssql_closeAccessMethods == mssql_close("accessmethods")
mssql_buildAvailabilityReplica == mssql_build("availreplica")
mssql_collectAvailabilityReplica == mssql_collect("availreplica")
mssql_closeAvailabilityReplica == mssql_close("availreplica")
mssql_buildBufferManager == mssql_build("bufman")
mssql_collectBufferManager == mssql_collect("bufman")
mssql_closeBufferManager == mssql_close("bufman")
mssql_buildDatabaseReplica == mssql_build("dbreplica")
mssql_collectDatabaseReplica == mssql_collect("dbreplica")
mssql_closeDatabaseReplica == mssql_close("dbreplica")
mssql_buildGeneralStatistics == mssql_build("genstats")
mssql_collectGeneralStatistics == mssql_collect("genstats")
mssql_closeGeneralStatistics == mssql_close("genstats")
mssql_buildLocks == mssql_build("locks")
mssql_collectLocks == mssql_collect("locks")
mssql_closeLocks == mssql_close("locks")
mssql_buildMemoryManager == mssql_build("memmgr")
mssql_collectMemoryManager == mssql_collect("memmgr")
mssql_closeMemoryManager == mssql_close("memmgr")
mssql_buildSQLErrors == mssql_build("sqlerrors")
mssql_collectSQLErrors == mssql_collect("sqlerrors")
mssql_closeSQLErrors == mssql_close("sqlerrors")
mssql_buildSQLStats == mssql_build("sqlstats")
mssql_collectSQLStats == mssql_collect("sqlstats")
mssql_closeSQLStats == mssql_close("sqlstats")
mssql_buildTransactions == mssql_build("transactions")
mssql_collectTransactions == mssql_collect("transactions")
mssql_closeTransactions == mssql_close("transactions")
mssql_buildWaitStats == mssql_build("waitstats")
mssql_collectWaitStats == mssql_collect("waitstats")
mssql_closeWaitStats == mssql_close("waitstats")

\* The databases have a second query for an instance of 2019 or later, which is not closed.
mssql_buildDatabases ==
  <<Joining(<<Only("databases", Pdh(<<"databases", 1>>))>>),
    Joining(<<Only("1 is 2019", Pdh(<<"databases2019", 1>>))>>),
    Joining(<<Only("databases", Pdh(<<"databases", 2>>))>>),
    Joining(<<Only("2 is 2019", Pdh(<<"databases2019", 2>>))>>),
    Returning(When("databases", <<Set("databases"), Fn("databases")>>))>>
mssql_collectDatabases ==
  Thread("databases",
    mssql_instance(<<"databases", 1>>, "databases") \o mssql_instance(<<"databases", 2>>, "databases")
      \o <<Joining(When("1 is 2019", <<Use(<<"databases2019", 1>>), Each("databases")>>)),
           Joining(When("2 is 2019", <<Use(<<"databases2019", 2>>), Each("databases")>>))>>)
mssql_closeDatabases == mssql_close("databases")

mssql_buildInstance   == <<Returning(When("info", <<Set("info"), Fn("info")>>))>>
mssql_collectInstance == Thread("info", <<Logging(<<Check("OpenKey"), Each("info")>>)>>)

mssql_getMSSQLInstances == Returning(<<Check("OpenKey")>>)
mssql_Build ==
  <<mssql_getMSSQLInstances>> \o mssql_buildAccessMethods \o mssql_buildAvailabilityReplica
    \o mssql_buildBufferManager \o mssql_buildDatabases \o mssql_buildDatabaseReplica
    \o mssql_buildGeneralStatistics \o mssql_buildInstance \o mssql_buildLocks
    \o mssql_buildMemoryManager \o mssql_buildSQLErrors \o mssql_buildSQLStats
    \o mssql_buildTransactions \o mssql_buildWaitStats
    \o <<Returning(<<Validate("CollectorsEnabled"), Set("scrape")>>)>>
mssql_Collect ==
  <<mssql_collectAccessMethods, mssql_collectAvailabilityReplica, mssql_collectBufferManager,
    mssql_collectDatabases, mssql_collectDatabaseReplica, mssql_collectGeneralStatistics,
    mssql_collectInstance, mssql_collectLocks, mssql_collectMemoryManager, mssql_collectSQLErrors,
    mssql_collectSQLStats, mssql_collectTransactions, mssql_collectWaitStats>>
mssql_Close ==
  <<Returning(mssql_closeAccessMethods \o mssql_closeAvailabilityReplica \o mssql_closeBufferManager
      \o mssql_closeDatabases \o mssql_closeDatabaseReplica \o mssql_closeGeneralStatistics
      \o mssql_closeLocks \o mssql_closeMemoryManager \o mssql_closeSQLErrors
      \o mssql_closeSQLStats \o mssql_closeTransactions \o mssql_closeWaitStats)>>

-----------------------------------------------------------------------------
(* iis.  The sub-collectors are collected one after the other whether or not they were *)
(* built, and their descriptors are made after their queries.                          *)

iis_buildWebService               == OpenThenDescribe("WebService")
iis_collectWebService             == ReadRows("WebService")
iis_buildHttpServiceRequestQueues   == OpenThenDescribe("HttpServiceRequestQueues")
iis_collectHttpServiceRequestQueues == ReadRows("HttpServiceRequestQueues")
iis_buildAppPoolWAS               == OpenThenDescribe("AppPoolWAS")
iis_collectAppPoolWAS             == ReadRows("AppPoolWAS")
\* "v8" holds for IIS 8 and later; the query for it is not closed.
iis_buildW3SVCW3WP     == <<Pdh("W3SVCW3WP"), Only("v8", Pdh("W3SVCW3WPV8")), Set("W3SVCW3WP")>>
iis_collectW3SVCW3WPv7 == ReadRows("W3SVCW3WP")
iis_collectW3SVCW3WPv8 == When("v8", <<Use("W3SVCW3WPV8"), Each("W3SVCW3WP")>>)
iis_collectW3SVCW3WP   == iis_collectW3SVCW3WPv7 \o iis_collectW3SVCW3WPv8
iis_buildWebServiceCache   == OpenThenDescribe("WebServiceCache")
iis_collectWebServiceCache == ReadRows("WebServiceCache")

iis_Build ==
  <<Returning(<<Set("info")>>), Joining(iis_buildWebService), Joining(iis_buildHttpServiceRequestQueues),
    Joining(iis_buildAppPoolWAS), Joining(iis_buildW3SVCW3WP), Joining(iis_buildWebServiceCache)>>
iis_Collect ==
  <<Returning(<<Get("info")>>), Joining(iis_collectWebService), Joining(iis_collectHttpServiceRequestQueues),
    Joining(iis_collectAppPoolWAS), Joining(iis_collectW3SVCW3WP), Joining(iis_collectWebServiceCache)>>
iis_Close ==
  <<Returning(<<Shut("WebService"), Shut("HttpServiceRequestQueues"), Shut("AppPoolWAS"),
                Shut("W3SVCW3WP"), Shut("WebServiceCache")>>)>>

-----------------------------------------------------------------------------
(* mscluster: WMI classes.  Seven goroutines and room for seven errors; the two for the *)
(* resources are started when the nodes have been collected, with the nodes' names.      *)

mscluster_build(n)   == Joining(When(n, <<Set(n), Check("probe")>>))
mscluster_query(n)   == Returning(When(n, <<Query(n), Each(n)>>))

mscluster_buildCluster == mscluster_build("cluster")
mscluster_collectCluster == <<mscluster_query("cluster")>>
mscluster_buildNetwork == mscluster_build("network")
mscluster_collectNetwork == <<mscluster_query("network")>>
mscluster_buildNode == mscluster_build("node")
mscluster_collectNode == <<mscluster_query("node")>>
mscluster_buildResource == mscluster_build("resource")
mscluster_collectResource == <<Returning(<<Await(3)>>), mscluster_query("resource")>>
mscluster_buildResourceGroup == mscluster_build("resourcegroup")
mscluster_collectResourceGroup == <<Returning(<<Await(3)>>), mscluster_query("resourcegroup")>>
mscluster_buildSharedVolumes == mscluster_build("shared_volumes")
mscluster_collectSharedVolumes == <<mscluster_query("shared_volumes")>>
mscluster_buildVirtualDisk == mscluster_build("virtualdisk")
mscluster_collectVirtualDisk == <<mscluster_query("virtualdisk")>>

mscluster_Build ==
  <<Returning(<<Validate("miSession")>>), mscluster_buildCluster, mscluster_buildNetwork, mscluster_buildNode,
    mscluster_buildResource, mscluster_buildResourceGroup, mscluster_buildSharedVolumes, mscluster_buildVirtualDisk>>
mscluster_Collect ==
  <<Thread("", mscluster_collectCluster), Thread("", mscluster_collectNetwork), Thread("", mscluster_collectNode),
    Thread("", mscluster_collectResource), Thread("", mscluster_collectResourceGroup),
    Thread("", mscluster_collectSharedVolumes), Thread("", mscluster_collectVirtualDisk)>>
mscluster_errCap == 7
=============================================================================
