------------------------------ MODULE Services ------------------------------
(***************************************************************************)
(* The smaller services of the server, the agent and the scripts, together *)
(* in one specification.  They share no state, so it is enough that each   *)
(* behaviour is one of one of them.                                        *)
(***************************************************************************)
EXTENDS Transfers, LogStreams, RemoteDesktop, Maintenance, Ticks, Feeds, Rollups, AgentHeal,
        Endpoints, Alerts, Backup, RootCause, Plugins, Sessions

CONSTANT Parts  \* the names of the services that step

VARIABLE part   \* the one that steps

servicesVars == <<part, transferVars, streamVars, desktopVars, maintenanceVars, tickVars, cronVars,
                  feedVars, rollupVars, agentHealVars, endpointVars, alertVars,
                  backupVars, graphVars, pluginVars, sessionVars, loginVars>>

ServicesInit ==
    /\ TransferInit /\ StreamInit /\ DesktopInit /\ MaintenanceInit /\ TickInit /\ CronInit
    /\ FeedInit /\ RollupInit /\ AgentHealInit /\ EndpointInit /\ AlertInit
    /\ BackupInit /\ GraphInit /\ PluginInit /\ SessionInit
    /\ part \in Parts
    \* Where a service has several initial states, one is enough for the others.
    /\ part # "ticks" => clock = 0
    /\ part # "rollups" => second = Back + 1
    /\ part # "agent heals" => trusted = {}
    /\ part # "plugins" => disabled = {}
    /\ part # "feeds" => listing = [u \in DOMAIN listing |-> {}]

ServicesNext ==
    /\ UNCHANGED part
    /\ IF part = "transfers"   THEN TransferNext    ELSE UNCHANGED transferVars
    /\ IF part = "streams"     THEN StreamNext      ELSE UNCHANGED streamVars
    /\ IF part = "desktop"     THEN DesktopNext     ELSE UNCHANGED desktopVars
    /\ IF part = "maintenance" THEN MaintenanceNext ELSE UNCHANGED maintenanceVars
    /\ IF part = "ticks"       THEN TickNext        ELSE UNCHANGED tickVars
    /\ IF part = "cron"        THEN CronNext        ELSE UNCHANGED cronVars
    /\ IF part = "feeds"       THEN FeedNext        ELSE UNCHANGED feedVars
    /\ IF part = "rollups"     THEN RollupNext      ELSE UNCHANGED rollupVars
    /\ IF part = "agent heals" THEN AgentHealNext   ELSE UNCHANGED agentHealVars
    /\ IF part = "endpoints"   THEN EndpointNext    ELSE UNCHANGED endpointVars
    /\ IF part = "alerts"      THEN AlertNext       ELSE UNCHANGED alertVars
    /\ IF part = "backups"     THEN BackupNext      ELSE UNCHANGED backupVars
    /\ IF part = "root cause"  THEN GraphNext       ELSE UNCHANGED graphVars
    /\ IF part = "plugins"     THEN PluginNext      ELSE UNCHANGED pluginVars
    /\ CASE part = "sessions" -> SessionNext
         [] part = "logins"   -> LoginNext
         [] OTHER             -> UNCHANGED <<sessionVars, loginVars>>

ServicesSpec == ServicesInit /\ [][ServicesNext]_servicesVars /\ DesktopFairness

-----------------------------------------------------------------------------
\* Each service keeps its variables in their types.
ServicesTypeOK ==
    /\ TransferTypeOK /\ StreamTypeOK /\ DesktopTypeOK /\ MaintenanceTypeOK /\ TickTypeOK
    /\ FeedTypeOK /\ RollupTypeOK /\ AgentHealTypeOK /\ EndpointTypeOK /\ AlertsTypeOK
    /\ BackupTypeOK /\ GraphTypeOK /\ PluginTypeOK /\ SessionTypeOK
=============================================================================
