-------------------------- MODULE CollectorsNetwork --------------------------
(***************************************************************************)
(* Build, Collect and Close of the collectors of internal/collector that   *)
(* report on the network and on network services.  A method nothing is     *)
(* said about does nothing and returns nil.                                *)
(***************************************************************************)
EXTENDS CollectorSteps, Sequences

\* One performance object; the descriptors are made before the query is opened.
ad_Build   == <<Returning(DescribeThenOpen("ad"))>>
ad_Collect == <<Returning(ReadFirst("ad"))>>
ad_Close   == <<Returning(<<Shut("ad")>>)>>

adcs_Build   == <<Returning(DescribeThenOpen("adcs"))>>
adcs_Collect == <<Returning(ReadRows("adcs"))>>
adcs_Close   == <<Returning(<<Shut("adcs")>>)>>

adfs_Build   == <<Returning(DescribeThenOpen("adfs"))>>
adfs_Collect == <<Returning(ReadFirst("adfs"))>>
adfs_Close   == <<Returning(<<Shut("adfs")>>)>>

smb_Build   == <<Returning(DescribeThenOpen("smb"))>>
smb_Collect == <<Returning(ReadRows("smb"))>>
smb_Close   == <<Returning(<<Shut("smb")>>)>>

smtp_Build   == <<Returning(DescribeThenOpen("smtp"))>>
smtp_Collect == <<Returning(ReadRows("smtp"))>>
smtp_Close   == <<Returning(<<Shut("smtp")>>)>>

\* Close of these two closes nothing; a malformed instance name ends smbclient's loop.
msmq_Build   == <<Returning(DescribeThenOpen("msmq"))>>
msmq_Collect == <<Returning(ReadRows("msmq"))>>
msmq_Close   == Nothing

smbclient_Build   == <<Returning(DescribeThenOpen("smbclient"))>>
smbclient_Collect == <<Returning(<<Use("smbclient"), Each("smbclient"), Check("Name"), Each("smbclient")>>)>>
smbclient_Close   == Nothing

\* The query is opened whichever sub-collector is enabled.
net_Build   == <<Returning(<<Validate("CollectorsEnabled"), Set("net"), Pdh("net")>>)>>
net_collect == Joining(When("metrics", <<Use("net"), Each("net")>>))
net_collectNICInfo == Joining(When("nic_info", <<Check("adapterAddresses"), Each("net")>>))
net_Collect == <<net_collect, net_collectNICInfo>>
net_Close   == <<Returning(<<Shut("net")>>)>>

\* IPv4 and IPv6, each tried whatever happened to the other.
udp_Build   == <<Joining(<<Set("udp"), Pdh("UDPv4")>>), Joining(<<Pdh("UDPv6")>>)>>
udp_collect == <<Joining(<<Use("UDPv4"), Get("udp")>>), Joining(<<Use("UDPv6"), Get("udp")>>)>>
udp_Close   == <<Returning(<<Shut("UDPv4"), Shut("UDPv6")>>)>>

tcp_Build ==
  <<Joining(<<Set("tcp"), Only("metrics", Pdh("TCPv4"))>>), Joining(<<Only("metrics", Pdh("TCPv6"))>>)>>
tcp_collect ==
  <<Joining(When("metrics", <<Use("TCPv4"), Get("tcp")>>)),
    Joining(When("metrics", <<Use("TCPv6"), Get("tcp")>>))>>
tcp_collectConnectionsState ==
  <<Joining(When("connections_state", <<Check("AF_INET"), Get("tcp")>>)),
    Joining(When("connections_state", <<Check("AF_INET6"), Get("tcp")>>))>>
tcp_Collect == tcp_collect \o tcp_collectConnectionsState
tcp_Close   == <<Returning(When("metrics", <<Shut("TCPv4"), Shut("TCPv6")>>))>>

remote_fx_Build   == <<Joining(<<Set("remote_fx"), Pdh("Network")>>), Joining(<<Pdh("Graphics")>>)>>
remote_fx_collectRemoteFXNetworkCount    == Joining(<<Use("Network"), Each("remote_fx")>>)
remote_fx_collectRemoteFXGraphicsCounters == Joining(<<Use("Graphics"), Each("remote_fx")>>)
remote_fx_Collect == <<remote_fx_collectRemoteFXNetworkCount, remote_fx_collectRemoteFXGraphicsCounters>>
remote_fx_Close   == <<Returning(<<Shut("Network"), Shut("Graphics")>>)>>

\* The queries of nps are not closed.
nps_Build   == <<Joining(<<Set("nps"), Pdh("access")>>), Joining(<<Pdh("accounting")>>)>>
nps_collectAccept     == Joining(<<Use("access"), Get("nps")>>)
nps_collectAccounting == Joining(<<Use("accounting"), Get("nps")>>)
nps_Collect == <<nps_collectAccept, nps_collectAccounting>>
nps_Close   == Nothing

\* The queries come first, but their errors do not keep Build from the descriptors.
vmware_Build   == <<Joining(<<Pdh("CPU")>>), Joining(<<Pdh("Memory")>>), Returning(<<Set("vmware")>>)>>
vmware_collectCpu == Joining(<<Use("CPU"), Get("vmware")>>)
vmware_collectMem == Joining(<<Use("Memory"), Get("vmware")>>)
vmware_Collect == <<vmware_collectCpu, vmware_collectMem>>
vmware_Close   == <<Returning(<<Shut("CPU"), Shut("Memory")>>)>>

\* The descriptors of a sub-collector are made when it is enabled.
dhcp_Build ==
  <<Returning(<<Only("scope_metrics", Set("scope")), Only("server_metrics", Set("server")),
                Only("server_metrics", Pdh("server"))>>)>>
dhcp_collectServerMetrics == Joining(When("server_metrics", <<Use("server"), Get("server")>>))
dhcp_collectScopeMetrics ==
  Joining(When("scope_metrics", <<Check("GetDHCPV4ScopeStatistics"), Each("scope")>>))
dhcp_Collect == <<dhcp_collectServerMetrics, dhcp_collectScopeMetrics>>
dhcp_Close   == <<Returning(<<Only("server_metrics", Shut("server"))>>)>>

\* The descriptor of the WMI statistics is made with those of the other sub-collector.
dns_buildMetricsCollector ==
  <<Only("metrics", Set("metrics")), Only("metrics", Set("dnsWMIStats")), Only("metrics", Pdh("dns"))>>
dns_buildErrorStatsCollector ==
  <<Only("wmi_stats", Validate("miSession")), Only("wmi_stats", Set("query")), Only("wmi_stats", Check("probe"))>>
dns_Build ==
  <<Returning(<<Validate("CollectorsEnabled")>> \o dns_buildMetricsCollector \o dns_buildErrorStatsCollector)>>
dns_collectMetrics    == Joining(When("metrics", <<Use("dns"), Get("metrics")>>))
dns_collectErrorStats == Joining(When("wmi_stats", <<Query("query"), Each("dnsWMIStats")>>))
dns_Collect == <<dns_collectMetrics, dns_collectErrorStats>>
dns_Close   == <<Returning(<<Shut("dns")>>)>>

\* A query that cannot be opened keeps Build from the next ones.
dfsr_Build ==
  <<Returning(<<Set("dfsr"), Only("connection", Pdh("connection")), Only("folder", Pdh("folder")),
                Only("volume", Pdh("volume"))>>)>>
dfsr_collectPDHConnection == Joining(When("connection", <<Use("connection"), Each("dfsr")>>))
dfsr_collectPDHFolder     == Joining(When("folder", <<Use("folder"), Each("dfsr")>>))
dfsr_collectPDHVolume     == Joining(When("volume", <<Use("volume"), Each("dfsr")>>))
dfsr_Collect == <<dfsr_collectPDHConnection, dfsr_collectPDHFolder, dfsr_collectPDHVolume>>
dfsr_Close ==
  <<Returning(<<Only("connection", Shut("connection")), Only("folder", Shut("folder")),
                Only("volume", Shut("volume"))>>)>>

\* Sessions are listed on the server of the handle, or on this one when there is none.
\* Close gives up when the handle cannot be closed.
terminal_services_Build ==
  <<Returning(<<Set("terminal_services"), Validate("miSession"), Only("broker", Pdh("broker")),
                Open("hServer"), Pdh("session")>>)>>
terminal_services_collectWTSSessions == Joining(<<Check("WTSEnumerateSessionsEx"), Each("terminal_services")>>)
terminal_services_collectTSSessionCounters == Joining(<<Use("session"), Each("terminal_services")>>)
terminal_services_collectCollectionBrokerPerformanceCounter ==
  Joining(When("broker", <<Use("broker"), Get("terminal_services")>>))
terminal_services_Collect ==
  <<terminal_services_collectWTSSessions, terminal_services_collectTSSessionCounters,
    terminal_services_collectCollectionBrokerPerformanceCounter>>
terminal_services_Close ==
  <<Returning(<<Check("WTSCloseServer"), Shut("hServer"), Shut("session"), Only("broker", Shut("broker"))>>)>>

fsrmquota_Build   == <<Returning(<<Validate("miSession"), Set("query"), Set("fsrmquota"), Check("probe")>>)>>
fsrmquota_Collect == <<Returning(<<Query("query"), Each("fsrmquota"), Get("fsrmquota")>>)>>
=============================================================================
