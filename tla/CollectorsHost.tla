--------------------------- MODULE CollectorsHost ---------------------------
(***************************************************************************)
(* Build, Collect and Close of the collectors of internal/collector that   *)
(* report on the host itself: hardware, memory, disks, the system, files.  *)
(* A method nothing is said about does nothing and returns nil.  The WMI    *)
(* queries are made from constant texts, which never fails.                *)
(***************************************************************************)
EXTENDS CollectorSteps, Sequences

\* One performance object; the descriptors are made before the query is opened.
cache_Build   == <<Returning(DescribeThenOpen("cache"))>>
cache_Collect == <<Returning(ReadFirst("cache"))>>
cache_Close   == <<Returning(<<Shut("cache")>>)>>

cpu_Build   == <<Returning(DescribeThenOpen("cpu"))>>
cpu_Collect == <<Returning(ReadRows("cpu"))>>
cpu_Close   == <<Returning(<<Shut("cpu")>>)>>

system_Build   == <<Returning(DescribeThenOpen("system"))>>
system_Collect == <<Returning(ReadFirst("system"))>>
system_Close   == <<Returning(<<Shut("system")>>)>>

pagefile_Build   == <<Returning(DescribeThenOpen("pagefile"))>>
pagefile_Collect == <<Returning(<<Use("pagefile"), Check("GetPerformanceInfo"), Each("pagefile")>>)>>
pagefile_Close   == <<Returning(<<Shut("pagefile")>>)>>

\* Close of these three closes nothing.
thermalzone_Build   == <<Returning(DescribeThenOpen("thermalzone"))>>
thermalzone_Collect == <<Returning(ReadRows("thermalzone"))>>
thermalzone_Close   == Nothing

physical_disk_Build   == <<Returning(DescribeThenOpen("physical_disk"))>>
physical_disk_Collect == <<Returning(ReadRows("physical_disk"))>>
physical_disk_Close   == Nothing

memory_Build   == <<Returning(DescribeThenOpen("memory"))>>
memory_Collect == <<Joining(ReadFirst("memory")),
                    Joining(<<Check("GlobalMemoryStatusEx"), Get("memory")>>)>>
memory_Close   == Nothing

\* Sub-collector bitlocker: a worker goroutine bound to its thread.  The query is not
\* closed; Close calls the worker's cancel function when bitlocker is enabled, also if
\* Build did not come so far.
logical_disk_Build ==
  <<Returning(<<Validate("CollectorsEnabled"), Set("logical_disk"), Pdh("logical_disk"),
                Only("bitlocker_status", Set("cancel")), Only("bitlocker_status", Start("bitlocker"))>>)>>
logical_disk_Collect ==
  <<Returning(<<Use("logical_disk"), Check("FindFirstVolume"), Each("logical_disk"),
                Only("bitlocker_status", Ask("bitlocker")), Each("logical_disk")>>)>>
logical_disk_Close ==
  <<Returning(When("bitlocker_status", <<Get("cancel"), Shut("bitlocker")>>))>>

\* Five performance objects, each tried whatever happened to the others.
gpu_Build ==
  <<Joining(<<Set("gpu"), Pdh("engine")>>), Joining(<<Pdh("adapter")>>), Joining(<<Pdh("local")>>),
    Joining(<<Pdh("nonLocal")>>), Joining(<<Pdh("process")>>),
    Joining(<<Check("GetGPUDevices")>>), Joining(<<Check("GetDevicesInstanceIDs")>>)>>
gpu_collectGpu(n) == Joining(<<Use(n), Each("gpu")>>)
gpu_Collect ==
  <<Returning(<<Each("gpu")>>), gpu_collectGpu("engine"), gpu_collectGpu("adapter"),
    gpu_collectGpu("local"), gpu_collectGpu("nonLocal"), gpu_collectGpu("process")>>
gpu_Close ==
  <<Returning(<<Shut("engine"), Shut("adapter"), Shut("local"), Shut("nonLocal"), Shut("process")>>)>>

\* WMI: the session and the query are kept before the query is run for a first time.
cpu_info_Build   == <<Returning(<<Set("cpu_info"), Validate("miSession"), Set("query"), Check("probe")>>)>>
cpu_info_Collect == <<Returning(<<Query("query"), Each("cpu_info")>>)>>

diskdrive_Build   == <<Returning(<<Set("diskdrive"), Validate("miSession"), Set("query"), Check("probe")>>)>>
diskdrive_Collect == <<Returning(<<Query("query"), Each("diskdrive")>>)>>

printer_Build   == <<Returning(<<Set("printer"), Validate("miSession"),
                                 Set("status"), Set("jobs")>>)>>
printer_Collect == <<Joining(<<Query("status"), Each("printer")>>),
                     Joining(<<Query("jobs"), Each("printer")>>)>>

\* The registry is read before any descriptor is made.
os_Build   == <<Returning(<<Check("getWindowsVersion"), Check("getInstallTime"), Set("os")>>)>>
os_Collect == <<Joining(<<Get("os"), Check("GetComputerName"), Get("os")>>)>>

license_Build   == <<Returning(<<Set("license")>>)>>
license_Collect == <<Returning(<<Check("SLIsWindowsGenuineLocal"), Get("license")>>)>>

scheduled_task_Build   == <<Returning(<<Set("scheduled_task")>>)>>
scheduled_task_Collect == <<Returning(<<Check("getScheduledTasks"), Each("scheduled_task")>>)>>

\* A file that cannot be read is skipped, the others are reported.
textfile_Build   == <<Returning(<<Set("textfile")>>)>>
textfile_Collect == <<Joining(<<Check("scrapeFile")>>), Joining(<<Check("WalkDir")>>),
                      Returning(<<Each("textfile")>>)>>

\* One goroutine per pattern; what goes wrong in it is logged.
file_Build   == <<Returning(<<Set("file"), Validate("FilePatterns")>>)>>
file_collectGlobFilePath == <<Logging(<<Check("GlobWalk"), Each("file")>>)>>
file_Collect == <<Thread("", file_collectGlobFilePath), Thread("", file_collectGlobFilePath)>>

\* The handle of the service manager is stored last.  The services of the list are
\* handed to four goroutines, which only log what goes wrong with one of them.
service_Build ==
  <<Returning(<<Set("service"), Open("scm"), Validate("ServiceStartModeInclude"), Set("handle")>>)>>
service_queryAllServices == Returning(<<Get("handle"), Use("scm")>>)
service_collectWorker    == Logging(<<Each("handle"), Check("OpenService"), Each("service")>>)
service_Collect == <<service_queryAllServices, service_collectWorker>>
service_Close == <<Returning(<<Get("handle"), Shut("scm")>>)>>

\* Only the sub-collector ntp has a performance object.
time_Build ==
  <<Returning(<<Validate("CollectorsEnabled"), Set("time"), Only("ntp", Pdh("ntp"))>>)>>
time_collectTime ==
  Joining(When("system_time", <<Get("time"), Check("GetDynamicTimeZoneInformation"), Get("time")>>))
time_collectClockSource ==
  Joining(When("clock_source", <<Check("OpenKey"), Get("time")>>))
time_collectNTP == Joining(When("ntp", <<Use("ntp"), Get("time")>>))
time_Collect == <<time_collectTime, time_collectClockSource, time_collectNTP>>
time_Close   == <<Returning(<<Only("ntp", Shut("ntp"))>>)>>

\* The objects of the configuration.  One without a name ends Build; a query that could
\* not be made is kept all the same, and the descriptors are made last.  Close walks the
\* configuration, in which no query is stored.
performancecounter_object(n, entry) ==
  <<Returning(<<Only(n, Validate("Name"))>>),
    Joining(When(n, <<Validate("Object"), Fn(entry), PdhAny(n)>>))>>
performancecounter_Build ==
  performancecounter_object("A", "kept A") \o performancecounter_object("B", "kept B")
    \o <<Returning(<<Set("scrape")>>)>>
performancecounter_collectObject(n, entry) ==
  <<Joining(When(entry, <<Use(n), Check("FieldByName")>>)),
    Returning(<<Only(entry, Get("scrape"))>>)>>
performancecounter_Collect ==
  performancecounter_collectObject("A", "kept A") \o performancecounter_collectObject("B", "kept B")
performancecounter_Close == Nothing

\* Errors of single containers are reported after all of them have been tried.
container_Build == <<Returning(<<Validate("CollectorsEnabled"), Set("container")>>)>>
container_collectHCS ==
  Joining(When("hcs", <<Check("GetContainers"), Get("container"), Check("collectNetworkMetrics"), Check("collectHCSContainer")>>))
container_collectJobContainers ==
  Joining(When("hostprocess", <<Check("WalkDir"), Each("container"), Check("collectJobContainer")>>))
container_Collect == <<container_collectHCS, container_collectJobContainers>>
=============================================================================
