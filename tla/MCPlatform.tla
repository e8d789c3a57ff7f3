---------------------------- MODULE MCPlatform ----------------------------
(***************************************************************************)
(* What the pipelines run on, checked in one run: which says whether a     *)
(* behaviour is about runs that share a pipeline's exchanges, the          *)
(* connections, the registration of pipelines, the catalog of artifacts,   *)
(* the launcher, a command consumer or an evaluation batch; the others     *)
(* stay as they are.                                                       *)
(***************************************************************************)
EXTENDS RunIsolation, ConnectionPool, Registration, ServiceCatalog, CommandConsumers, BatchRunner, TLC

VARIABLE which

platformVars == <<which, isoVars, poolVars, regVars, serviceVars, commandVars, batchVars>>

(* Steps b and c of one service after step a of the other.                 *)
Triangle == {<<"a", "b">>, <<"a", "c">>, <<"b", "c">>}
TwoServices == [t \in {"a", "b", "c"} |-> IF t = "a" THEN "s1" ELSE "s2"]

(* Two graphs that have a task in common and fan out in different places.  *)
TwoWirings == ("g" :> (("xa" :> "direct") @@ ("xb" :> "direct")))
           @@ ("h" :> (("xa" :> "fanout") @@ ("xc" :> "direct")))

TwoConfigs == <<"C0", "C2">>
OneClient == <<"freshco">>

PlatformInit ==
  /\ which \in {"runs", "pool", "registration", "catalog", "launcher", "commands", "batch"}
  /\ IsoInit /\ PoolInit /\ RegistrationInit /\ CatalogInit
  /\ CommandInit /\ BatchInit
  /\ which # "pool" => legacy = FALSE
  /\ which # "commands" => me = RevisePlanConsumer

IsolationStep ==
  /\ which = "runs" /\ IsoNext
  /\ UNCHANGED <<which, poolVars, regVars, serviceVars, commandVars, batchVars>>
PoolStep ==
  /\ which = "pool" /\ PoolNext
  /\ UNCHANGED <<which, isoVars, regVars, serviceVars, commandVars, batchVars>>
RegistrationStep ==
  /\ which = "registration" /\ RegistrationNext
  /\ UNCHANGED <<which, isoVars, poolVars, serviceVars, commandVars, batchVars>>
CatalogStep ==
  /\ which = "catalog" /\ CatalogNext
  /\ UNCHANGED <<which, isoVars, poolVars, regVars, commandVars, batchVars>>
LaunchStep ==
  /\ which = "launcher" /\ LaunchNext
  /\ UNCHANGED <<which, isoVars, poolVars, regVars, commandVars, batchVars>>

CommandStep ==
  /\ which = "commands" /\ CommandNext
  /\ UNCHANGED <<which, isoVars, poolVars, regVars, serviceVars, batchVars>>

BatchStep ==
  /\ which = "batch" /\ BatchNext
  /\ UNCHANGED <<which, isoVars, poolVars, regVars, serviceVars, commandVars>>

PlatformNext ==
  \/ IsolationStep \/ PoolStep \/ RegistrationStep \/ CatalogStep \/ LaunchStep \/ CommandStep
  \/ BatchStep

PlatformSpec == PlatformInit /\ [][PlatformNext]_platformVars
=============================================================================
