-------------------------- MODULE GatewayServices --------------------------
(***************************************************************************)
(* The components that meet others only through what their own modules     *)
(* already contain (a module that is switched, a schema that is replaced): *)
(* each behaviour is about one of them, and the others stand still.        *)
(* Products and the tree they are put into are followed one at a time,     *)
(* too: of the tree they only ask whether a category exists.               *)
(***************************************************************************)
EXTENDS CatalogProducts, IntegrationVault, RequestPipeline, RealtimePresence, AdminPanels,
        PlatformBootstrap, ConnectionPool

VARIABLE scene           \* the component this behaviour is about

catalogState == <<catalogRows, catalogRest>>
requests == <<work, overlap>>
allVars == <<scene, catalogState, vaultRows, pipelineVars, realtimeVars, panelVars, bootVars, poolVars,
             requests>>

(* Of a component that stands still one initial state is enough. *)
Init ==
  /\ scene \in {"products", "categories", "vault", "pipeline", "realtime", "panels", "bootstrap",
               "pool"}
  /\ RequestsInit /\ (scene \notin {"products", "categories", "vault"} => ~overlap)
  /\ CatalogInit
  /\ scene = "products" => Cardinality(Known) <= 1
  /\ scene \notin {"products", "categories"} => catalogOn /\ sellerApproved /\ Known = {}
  /\ VaultInit /\ PipelineInit /\ RealtimeInit
  /\ PanelsInit
  /\ scene # "panels" =>
       panel = NewTenantPage /\ habit = "patient" /\ selected = CHOOSE row \in Rows : TRUE
  /\ BootInit /\ (scene # "bootstrap" => admin = NoAdmin)
  /\ PoolInit

CatalogActs ==
  /\ scene \in {"products", "categories"} /\ CatalogNext
  /\ scene = "products" => parent' = parent \/ cleaned' # cleaned
  /\ scene = "categories" => <<product, stock, syncJobs>>' = <<product, stock, syncJobs>>
  /\ UNCHANGED <<vaultRows, pipelineVars, realtimeVars, panelVars, bootVars, poolVars>>
VaultActs ==
  /\ scene = "vault" /\ VaultNext
  /\ UNCHANGED <<catalogState, pipelineVars, realtimeVars, panelVars, bootVars, poolVars>>
PipelineActs ==
  /\ scene = "pipeline" /\ PipelineNext
  /\ UNCHANGED <<catalogState, vaultRows, realtimeVars, panelVars, bootVars, poolVars, requests>>
RealtimeActs ==
  /\ scene = "realtime" /\ RealtimeNext
  /\ UNCHANGED <<catalogState, vaultRows, pipelineVars, panelVars, bootVars, poolVars, requests>>
PanelsAct ==
  /\ scene = "panels" /\ PanelsNext
  /\ UNCHANGED <<catalogState, vaultRows, pipelineVars, realtimeVars, bootVars, poolVars, requests>>
BootActs ==
  /\ scene = "bootstrap" /\ BootNext
  /\ UNCHANGED <<catalogState, vaultRows, pipelineVars, realtimeVars, panelVars, poolVars, requests>>
PoolActs ==
  /\ scene = "pool" /\ PoolNext
  /\ UNCHANGED <<catalogState, vaultRows, pipelineVars, realtimeVars, panelVars, bootVars, requests>>

Next ==
  /\ UNCHANGED scene
  /\ CatalogActs \/ VaultActs \/ PipelineActs \/ RealtimeActs \/ PanelsAct \/ BootActs
     \/ PoolActs

Spec == Init /\ [][Next]_allVars
=============================================================================
