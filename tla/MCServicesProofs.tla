------------------------- MODULE MCServicesProofs -------------------------
(***************************************************************************)
(* The composition that the services run explores adds nothing to its      *)
(* components: seen through the variables of one of them, each of its      *)
(* behaviours is a behaviour of that component.  What is proved of a       *)
(* component alone therefore holds in the composition.                     *)
(***************************************************************************)
EXTENDS MCServices, GatewayProofs, ServiceProofs, NotifyOutboxProofs, ManagedUpdateProofs,
        BrowserProofs

\* No step of the composition is more than a step of each component, or nothing.
LEMMA StepOfEach ==
  ServicesNext =>
    /\ [Next]_vars /\ [FileLockNext]_fileLockVars /\ [NotifyNext]_notifyVars
    /\ [ManagedNext]_managedVars /\ [OutboxNext]_outboxVars /\ [ApiCacheNext]_apiCacheVars
    /\ [SidecarNext]_sidecarVars /\ [GmailNext]_gmailVars /\ [RestartNext]_restartVars
    /\ [LaunchNext]_launchVars
  BY DEF ServicesNext, Of

\* Put together by MCServices, the lock file, the outboxes, the deployments, the cache, the
\* sidecar, the watch, the restart state, the launches and the recovery each keep to the
\* specification of their own code: what is proved of one holds of it there.
THEOREM ComponentsAreApart ==
  ServicesSpec => /\ Spec /\ FileLockSpec /\ NotifySpec /\ ManagedSpec /\ OutboxSpec
                  /\ ApiCacheSpec /\ SidecarSpec /\ GmailSpec /\ RestartSpec /\ LaunchSpec
<1>1. ServicesInit => /\ Init /\ FileLockInit /\ NotifyInit /\ ManagedInit /\ OutboxInit
                      /\ ApiCacheInit /\ SidecarInit /\ GmailInit /\ RestartInit /\ LaunchInit
  BY DEF ServicesInit
<1>2. [ServicesNext]_<<component, vars, fileLockVars, notifyVars, managedVars, outboxVars,
                       apiCacheVars, sidecarVars, gmailVars, restartVars, launchVars>>
        => /\ [Next]_vars /\ [FileLockNext]_fileLockVars /\ [NotifyNext]_notifyVars
           /\ [ManagedNext]_managedVars /\ [OutboxNext]_outboxVars
           /\ [ApiCacheNext]_apiCacheVars /\ [SidecarNext]_sidecarVars
           /\ [GmailNext]_gmailVars /\ [RestartNext]_restartVars /\ [LaunchNext]_launchVars
  BY StepOfEach
<1> QED
  BY <1>1, <1>2, PTL DEF ServicesSpec, Spec, FileLockSpec, NotifySpec, ManagedSpec, OutboxSpec,
                         ApiCacheSpec, SidecarSpec, GmailSpec, RestartSpec, LaunchSpec

\* Every variable of every component keeps its type.
THEOREM ServicesTypes == ServicesSpec => []ServicesTypeOK
<1>1. /\ TypeOK /\ FileLockTypeOK /\ NotifyTypeOK /\ ManagedTypeOK /\ OutboxTypeOK
      /\ ApiCacheTypeOK /\ SidecarTypeOK /\ GmailTypeOK /\ RestartTypeOK /\ LaunchTypeOK
      => ServicesTypeOK
  BY DEF ServicesTypeOK
<1> QED
  BY <1>1, ComponentsAreApart, RecoveryTypes, FileLockTypes, NotifyTypes, ManagedTypes,
     OutboxTypes, ApiCacheTypes, SidecarTypes, GmailTypes, RestartTypes, LaunchTypes, PTL

\* Everything the run of the composition checks as an invariant, for any constants.  The one
\* premise is that of the launches: a boot that outlives its lease is not fenced by the code,
\* so the child it would start is only covered where it does not.
THEOREM ServicesAreSafe ==
  ServicesSpec => []/\ ServicesTypeOK /\ ObligationNeverStranded /\ StaleBreakingExcludes
                    /\ LossIsReported /\ ProviderHoldsOne /\ AuditIsComplete
                    /\ InflightIsMarked /\ CallerSeesWrites /\ RunningIsAccounted
                    /\ NeverStranded /\ RemoteIsNotForgotten /\ LatestIntentWins
                    /\ (~BootOverruns => LiveChildIsHeld)
<1>1. LaunchSpec => [](~BootOverruns => LiveChildIsHeld)
  <2>1. CASE ~BootOverruns
    <3>1. LaunchSpec => []LiveChildIsHeld
      BY <2>1, OneGatewayIsHeld
    <3>2. LiveChildIsHeld => (~BootOverruns => LiveChildIsHeld)
      OBVIOUS
    <3> QED
      BY <3>1, <3>2, PTL
  <2>2. CASE BootOverruns
    <3>1. ~BootOverruns => LiveChildIsHeld
      BY <2>2
    <3> QED
      BY <3>1, PTL
  <2> QED
    BY <2>1, <2>2
<1> QED
  BY <1>1, ComponentsAreApart, ServicesTypes, CrashIsNeverStranded, StaleBreakersAreAlone,
     LossesAreReported, ProviderHoldsOneDeployment, AuditOwesEverything, InflightStaysMarked,
     CallersSeeWrites, RunningCopiesAreAccounted, WantedIsNeverStranded,
     RemoteIsAlwaysRecorded, TheLatestIntentWins, PTL

\* Everything the run checks of its steps, for any constants and finitely many notices: a
\* late dispatch, a retire, a flush, a reload, a clear and an answer each do no more than
\* their code promises.
THEOREM ServicesStepsAreSafe ==
  ASSUME IsFiniteSet(Notice)
  PROVE  ServicesSpec => /\ SupersededIsInert /\ RetiredIsNeverSent /\ NoticesAreKept
                         /\ TextIsTaken /\ ClearsKeepLaterChanges /\ ImplementsReadYourWrites
<1>1. NotifySpec => NoticesAreKept
  BY NothingIsLost
<1> QED
  BY <1>1, ComponentsAreApart, StaleDispatchIsInert, RetiredStaysUnsent, TextsAreTaken,
     ClearsLeaveLaterChanges, KeepsReadYourWrites, PTL
===========================================================================
