---------------------------- MODULE MCServices ----------------------------
(***************************************************************************)
(* TLC instances of the components that share no state with one another:   *)
(* a behaviour is one of a single component, chosen at the start, and the  *)
(* variables of the others keep their initial values.                      *)
(***************************************************************************)
EXTENDS WatchdogRecovery, FileLock, NotifyOutbox, ManagedUpdate, ChatOutbox, ApiCache,
        SidecarSupervisor, GmailWatch, RestartRequired, GatewayLaunch

CONSTANTS n1, n2

VARIABLE component

MCNotice == {n1, n2}
MCOverseer == {n1}
MCText == [m \in Message |-> m]

ServicesInit ==
  /\ component \in {"recovery", "filelock", "notify", "managed", "chat", "cache",
                    "sidecar", "gmail", "restart", "launch"}
  /\ Init /\ FileLockInit /\ NotifyInit /\ ManagedInit /\ OutboxInit /\ ApiCacheInit
  /\ SidecarInit /\ GmailInit /\ RestartInit /\ LaunchInit
  /\ component # "launch" => ~incumbent
  /\ component # "sidecar" => entry = [type |-> "simple", policy |-> "always"]

\* A step of component c, whose next-state relation is A.
Of(c, A) == component = c /\ A /\ UNCHANGED component

ServicesNext ==
  \/ /\ Of("recovery", Next)
     /\ UNCHANGED <<fileLockVars, notifyVars, managedVars, outboxVars, apiCacheVars,
                    sidecarVars, gmailVars, restartVars, launchVars>>
  \/ /\ Of("filelock", FileLockNext)
     /\ UNCHANGED <<vars, notifyVars, managedVars, outboxVars, apiCacheVars,
                    sidecarVars, gmailVars, restartVars, launchVars>>
  \/ /\ Of("notify", NotifyNext)
     /\ UNCHANGED <<vars, fileLockVars, managedVars, outboxVars, apiCacheVars,
                    sidecarVars, gmailVars, restartVars, launchVars>>
  \/ /\ Of("managed", ManagedNext)
     /\ UNCHANGED <<vars, fileLockVars, notifyVars, outboxVars, apiCacheVars,
                    sidecarVars, gmailVars, restartVars, launchVars>>
  \/ /\ Of("chat", OutboxNext)
     /\ UNCHANGED <<vars, fileLockVars, notifyVars, managedVars, apiCacheVars,
                    sidecarVars, gmailVars, restartVars, launchVars>>
  \/ /\ Of("cache", ApiCacheNext)
     /\ UNCHANGED <<vars, fileLockVars, notifyVars, managedVars, outboxVars,
                    sidecarVars, gmailVars, restartVars, launchVars>>
  \/ /\ Of("sidecar", SidecarNext)
     /\ UNCHANGED <<vars, fileLockVars, notifyVars, managedVars, outboxVars, apiCacheVars,
                    gmailVars, restartVars, launchVars>>
  \/ /\ Of("gmail", GmailNext)
     /\ UNCHANGED <<vars, fileLockVars, notifyVars, managedVars, outboxVars, apiCacheVars,
                    sidecarVars, restartVars, launchVars>>
  \/ /\ Of("restart", RestartNext)
     /\ UNCHANGED <<vars, fileLockVars, notifyVars, managedVars, outboxVars, apiCacheVars,
                    sidecarVars, gmailVars, launchVars>>
  \/ /\ Of("launch", LaunchNext)
     /\ UNCHANGED <<vars, fileLockVars, notifyVars, managedVars, outboxVars, apiCacheVars,
                    sidecarVars, gmailVars, restartVars>>

ServicesSpec == ServicesInit /\ [][ServicesNext]_<<component, vars, fileLockVars, notifyVars,
                                      managedVars, outboxVars, apiCacheVars, sidecarVars,
                                      gmailVars, restartVars, launchVars>>

\* Every variable of every component keeps its type.
ServicesTypeOK ==
  /\ TypeOK /\ FileLockTypeOK /\ NotifyTypeOK /\ ManagedTypeOK /\ OutboxTypeOK
  /\ ApiCacheTypeOK /\ SidecarTypeOK /\ GmailTypeOK /\ RestartTypeOK /\ LaunchTypeOK
===========================================================================
