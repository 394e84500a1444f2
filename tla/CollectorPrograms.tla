-------------------------- MODULE CollectorPrograms --------------------------
(* The methods of every collector of the collection (pkg/collector/map.go), with   *)
(* the sub-collectors and conditions they depend on.                               *)
EXTENDS CollectorsHost, CollectorsNetwork, CollectorsServer

\* The names of the collectors.
AllCollectors ==
  {"cache", "cpu", "system", "pagefile", "thermalzone", "physical_disk", "memory",
   "logical_disk", "gpu", "cpu_info", "diskdrive", "printer", "os", "license",
   "scheduled_task", "textfile", "file", "service", "time", "performancecounter", "container",
   "ad", "adcs", "adfs", "smb", "smtp", "msmq", "smbclient", "net", "udp", "tcp", "remote_fx",
   "nps", "vmware", "dhcp", "dns", "dfsr", "terminal_services", "fsrmquota", "netframework",
   "exchange", "hyperv", "mssql", "iis", "mscluster"}

\* The sub-collectors that the goroutines of a Collect run.
FnNames(threads) == {threads[t].fn : t \in DOMAIN threads}

\* Build, Collect and Close of the collector n.
ProgramOf(n) ==
  CASE n = "cache" -> Inline({}, cache_Build, cache_Collect, cache_Close)
    [] n = "cpu" -> Inline({}, cpu_Build, cpu_Collect, cpu_Close)
    [] n = "system" -> Inline({}, system_Build, system_Collect, system_Close)
    [] n = "pagefile" -> Inline({}, pagefile_Build, pagefile_Collect, pagefile_Close)
    [] n = "thermalzone" -> Inline({}, thermalzone_Build, thermalzone_Collect, thermalzone_Close)
    [] n = "physical_disk" -> Inline({}, physical_disk_Build, physical_disk_Collect, physical_disk_Close)
    [] n = "memory" -> Inline({}, memory_Build, memory_Collect, memory_Close)
    [] n = "logical_disk" -> Inline({"bitlocker_status"}, logical_disk_Build, logical_disk_Collect, logical_disk_Close)
    [] n = "gpu" -> Inline({}, gpu_Build, gpu_Collect, gpu_Close)
    [] n = "cpu_info" -> Inline({}, cpu_info_Build, cpu_info_Collect, Nothing)
    [] n = "diskdrive" -> Inline({}, diskdrive_Build, diskdrive_Collect, Nothing)
    [] n = "printer" -> Inline({}, printer_Build, printer_Collect, Nothing)
    [] n = "os" -> Inline({}, os_Build, os_Collect, Nothing)
    [] n = "license" -> Inline({}, license_Build, license_Collect, Nothing)
    [] n = "scheduled_task" -> Inline({}, scheduled_task_Build, scheduled_task_Collect, Nothing)
    [] n = "textfile" -> Inline({}, textfile_Build, textfile_Collect, Nothing)
    [] n = "file" -> Spawning({}, file_Build, file_Collect, Nothing, 0)
    [] n = "service" -> Inline({}, service_Build, service_Collect, service_Close)
    [] n = "time" -> Inline({"system_time", "clock_source", "ntp"}, time_Build, time_Collect, time_Close)
    [] n = "performancecounter" -> Inline({"A", "B"}, performancecounter_Build, performancecounter_Collect,
                                 performancecounter_Close)
    [] n = "container" -> Inline({"hcs", "hostprocess"}, container_Build, container_Collect, Nothing)
    [] n = "ad" -> Inline({}, ad_Build, ad_Collect, ad_Close)
    [] n = "adcs" -> Inline({}, adcs_Build, adcs_Collect, adcs_Close)
    [] n = "adfs" -> Inline({}, adfs_Build, adfs_Collect, adfs_Close)
    [] n = "smb" -> Inline({}, smb_Build, smb_Collect, smb_Close)
    [] n = "smtp" -> Inline({}, smtp_Build, smtp_Collect, smtp_Close)
    [] n = "msmq" -> Inline({}, msmq_Build, msmq_Collect, msmq_Close)
    [] n = "smbclient" -> Inline({}, smbclient_Build, smbclient_Collect, smbclient_Close)
    [] n = "net" -> Inline({"metrics", "nic_info"}, net_Build, net_Collect, net_Close)
    [] n = "udp" -> Inline({}, udp_Build, udp_collect, udp_Close)
    [] n = "tcp" -> Inline({"metrics", "connections_state"}, tcp_Build, tcp_Collect, tcp_Close)
    [] n = "remote_fx" -> Inline({}, remote_fx_Build, remote_fx_Collect, remote_fx_Close)
    [] n = "nps" -> Inline({}, nps_Build, nps_Collect, nps_Close)
    [] n = "vmware" -> Inline({}, vmware_Build, vmware_Collect, vmware_Close)
    [] n = "dhcp" -> Inline({"server_metrics", "scope_metrics"}, dhcp_Build, dhcp_Collect, dhcp_Close)
    [] n = "dns" -> Inline({"metrics", "wmi_stats"}, dns_Build, dns_Collect, dns_Close)
    [] n = "dfsr" -> Inline({"connection", "folder", "volume"}, dfsr_Build, dfsr_Collect, dfsr_Close)
    [] n = "terminal_services" -> Inline({"broker"}, terminal_services_Build, terminal_services_Collect,
                                terminal_services_Close)
    [] n = "fsrmquota" -> Inline({}, fsrmquota_Build, fsrmquota_Collect, Nothing)
    [] n = "netframework" -> RunningFns(FnNames(netframework_Collect), netframework_Build, netframework_Collect, Nothing)
    [] n = "exchange" -> RunningFns(FnNames(exchange_Collect), exchange_Build, exchange_Collect, exchange_Close)
    [] n = "hyperv" -> RunningFns(FnNames(hyperv_Collect), hyperv_Build, hyperv_Collect, hyperv_Close)
    [] n = "mssql" -> Under("databases", {"1 is 2019", "2 is 2019"},
                            RunningFns(FnNames(mssql_Collect), mssql_Build, mssql_Collect, mssql_Close))
    [] n = "iis" -> Inline({"v8"}, iis_Build, iis_Collect, iis_Close)
    [] n = "mscluster" -> Spawning({"cluster", "network", "node", "resource", "resourcegroup", "shared_volumes",
                           "virtualdisk"}, mscluster_Build, mscluster_Collect, Nothing, mscluster_errCap)
=============================================================================
