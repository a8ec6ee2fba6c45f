------------------------ MODULE GatewayServicesProofs ------------------------
(***************************************************************************)
(* Proofs about the components of GatewayServices, each with an invariant  *)
(* of its own: what it says of the component's tables holds always, what   *)
(* it says of requests under way while the behaviour is about it.          *)
(***************************************************************************)
EXTENDS GatewayServices, SumTheorems

(* A step is of the component the behaviour is about, and leaves the others alone. *)
LEMMA SceneSteps ==
  ASSUME [Next]_allVars
  PROVE  /\ scene' = scene
         /\ CatalogActs \/ (UNCHANGED catalogState /\ (scene \in {"products", "categories"} => UNCHANGED requests))
         /\ VaultActs \/ (UNCHANGED vaultRows /\ (scene = "vault" => UNCHANGED requests))
         /\ PipelineActs \/ UNCHANGED pipelineVars
         /\ RealtimeActs \/ UNCHANGED realtimeVars
         /\ PanelsAct \/ UNCHANGED panelVars
         /\ BootActs \/ UNCHANGED bootVars
         /\ PoolActs \/ UNCHANGED poolVars
<1>1. CASE UNCHANGED allVars
  BY <1>1, Zenon DEF allVars
<1>2. CASE Next
  BY <1>2 DEF Next, CatalogActs, VaultActs, PipelineActs, RealtimeActs, PanelsAct, BootActs, PoolActs
<1> QED  BY <1>1, <1>2

(* Whether requests overlap does not change. *)
LEMMA OverlapStays == [Next]_allVars => overlap' = overlap
<1>1. CASE UNCHANGED allVars
  BY <1>1, Zenon DEF allVars, requests
<1>2. ASSUME NEW r \in Requests, NEW x,
             Begins(r, x) \/ GoesOn(r, x) \/ Ends(r) \/ Aborts(r) \/ AtOnce(r)
      PROVE  overlap' = overlap
  BY <1>2 DEF Begins, GoesOn, Ends, Aborts, AtOnce
<1>3. VaultNext => overlap' = overlap
  BY <1>2, Zenon DEF VaultNext, VaultReads, CredentialCreateBegin, CredentialUpdateBegin,
     CredentialDelete, CredentialTestBegin, CredentialCreate, CredentialUpdate,
     CredentialFoundInvalid, CredentialFoundValid, PolicyUpdateBegin, PolicyUpdate, VaultAbort,
     SchemaReplaced
<1>4. CatalogNext => overlap' = overlap
  <2>1. ASSUME NEW r \in Requests, NEW x, Mutation(r, x)  PROVE overlap' = overlap
    BY <1>2, <2>1 DEF Mutation
  <2>2. ASSUME NEW r \in Requests, SyncReadsProduct(r) \/ SyncReadsVariants(r)
        PROVE  overlap' = overlap
    BY <1>2, <2>2, Zenon DEF SyncReadsProduct, SyncReadsVariants
  <2> QED
    BY <1>2, <2>1, <2>2, Zenon DEF CatalogNext, ProductCreateBegin, ProductUpdateBegin,
       ProductWrite, ProductSubmitBegin, ProductModerationBegin, ProductModerated, ProductSubmit,
       ProductApprove, ProductReject, ProductArchive, VariantCreateBegin, VariantUpdateBegin,
       VariantWrite, CategoryCreateBegin, CategoryUpdateBegin, CategoryWrite, SyncBegin, SyncQueued,
       Queued, CatalogAbort, ModuleSwitched, SellerReviewed, CategoryCleaned
<1> QED
  BY <1>1, <1>3, <1>4 DEF Next, CatalogActs, VaultActs, PipelineActs, RealtimeActs, PanelsAct,
     BootActs, PoolActs, requests
-----------------------------------------------------------------------------
(* RealtimePresence *)
Connections ==
  [principal : {"service", "jwt"}, tenant : Tenants, workspace : Workspaces,
   ends : TokenEnds, since : Nat, subscriptions : SUBSET Channels]

RealtimeInv ==
  /\ clock \in Nat
  /\ socket \in [Sockets -> {"none", "open", "closed"}]
  /\ presence \in [Sockets -> {Absent} \union Connections]
  /\ ListensInScope

LEMMA RealtimeStep ==
  ASSUME RealtimeInv, RealtimeNext
  PROVE  RealtimeInv'
<1> DEFINE Goal == RealtimeInv'
<1> SUFFICES Goal  OBVIOUS
<1>0. \A c \in Connections : c # Absent  BY DEF Connections, Absent
<1>1. ASSUME NEW s \in Sockets, NEW t \in Tenants, NEW w \in Workspaces, NEW token \in Tokens,
             NEW service \in BOOLEAN,
             Upgrade(s, [tenant |-> t, workspace |-> w, token |-> token, service |-> service])
      PROVE  Goal
  <2> DEFINE first == {[tenant |-> t, workspace |-> v, family |-> "all"] : v \in {"any", w}}
             c == [principal |-> IF service THEN "service" ELSE "jwt", tenant |-> t, workspace |-> w,
                   ends |-> token.ends, since |-> clock, subscriptions |-> first]
  <2>1. /\ presence' = [presence EXCEPT ![s] = c]
        /\ socket[s] = "none" /\ socket' = [socket EXCEPT ![s] = "open"] /\ clock' = clock
        /\ service \/ token.ends > clock
    BY <1>1 DEF Upgrade, Authenticated, TokenAccepted
  <2>2. first \in SUBSET Channels /\ \A ch \in first : ch.tenant = t /\ ch.workspace \in {"any", w}
    BY DEF Channels
  <2> HIDE DEF first
  <2>3. c \in Connections  BY <2>2 DEF Connections, RealtimeInv, Tokens
  <2>4. /\ c.principal = "jwt" => c.ends > c.since
        /\ c.tenant = t /\ c.workspace = w /\ c.subscriptions = first
    BY <2>1
  <2> HIDE DEF c
  <2>5. \A x \in Sockets : x # s => presence'[x] = presence[x] /\ socket'[x] = socket[x]
    BY <2>1 DEF RealtimeInv
  <2>6. presence'[s] = c /\ socket'[s] = "open"  BY <2>1 DEF RealtimeInv
  <2>7. ListensInScope'
    BY <1>0, <2>2, <2>3, <2>4, <2>5, <2>6 DEF RealtimeInv, ListensInScope, Present
  <2> QED  BY <2>1, <2>3, <2>7 DEF RealtimeInv
<1>2. ASSUME NEW s \in Sockets, NEW channel \in Channels, Subscribe(s, channel)
      PROVE  Goal
  <2> DEFINE c == [presence[s] EXCEPT !.subscriptions = @ \union {channel}]
  <2>1. presence' = [presence EXCEPT ![s] = c] /\ clock' = clock /\ socket' = socket
    BY <1>2 DEF Subscribe
  <2>2. presence[s] \in Connections /\ AllowedChannel(presence[s], channel)
    BY <1>2 DEF Subscribe, Present, RealtimeInv
  <2>3. c \in Connections  BY <2>2 DEF Connections
  <2>4. /\ c.principal = presence[s].principal /\ c.ends = presence[s].ends
        /\ c.since = presence[s].since /\ c.tenant = presence[s].tenant
        /\ c.workspace = presence[s].workspace
        /\ c.subscriptions = presence[s].subscriptions \union {channel}
    BY <2>2 DEF Connections
  <2> HIDE DEF c
  <2>5. \A x \in Sockets : x # s => presence'[x] = presence[x]
    BY <2>1 DEF RealtimeInv
  <2>6. presence'[s] = c /\ Present(s)  BY <1>2, <2>1 DEF RealtimeInv, Subscribe
  <2>7. ListensInScope'
    BY <1>0, <2>1, <2>2, <2>3, <2>4, <2>5, <2>6 DEF RealtimeInv, ListensInScope, Present, AllowedChannel
  <2> QED  BY <2>1, <2>3, <2>7 DEF RealtimeInv
<1>3. ASSUME NEW s \in Sockets, TransportEnds(s) \/ CloseHandled(s)
      PROVE  Goal
  BY <1>3 DEF TransportEnds, CloseHandled, RealtimeInv, ListensInScope, Present
<1>4. ASSUME ClockTicks
      PROVE  Goal
  BY <1>4 DEF ClockTicks, RealtimeInv, ListensInScope, Present
<1> HIDE DEF Goal
<1> QED  BY <1>1, <1>2, <1>3, <1>4 DEF RealtimeNext

LEMMA RealtimeAlways == Spec => []RealtimeInv
<1>1. Init => RealtimeInv
  BY DEF Init, RealtimeInit, RealtimeInv, ListensInScope, Present
<1>2. RealtimeInv /\ [Next]_allVars => RealtimeInv'
  <2> SUFFICES ASSUME RealtimeInv, [Next]_allVars  PROVE RealtimeInv'  OBVIOUS
  <2>1. CASE UNCHANGED realtimeVars
    BY <2>1 DEF realtimeVars, RealtimeInv, ListensInScope, Present
  <2>2. CASE RealtimeActs
    BY <2>2, RealtimeStep DEF RealtimeActs
  <2> QED  BY <2>1, <2>2, SceneSteps
<1> QED  BY <1>1, <1>2, PTL DEF Spec

(* No connection ever listens outside the tenant and workspace it was authenticated for, *)
(* and every open socket is present.                                                     *)
THEOREM ConnectionsStayInScope == Spec => []ListensInScope
<1>1. RealtimeInv => ListensInScope  BY DEF RealtimeInv
<1> QED  BY <1>1, RealtimeAlways, PTL
-----------------------------------------------------------------------------
(* PlatformBootstrap: whoever holds the tenant's row is alone and what it has read of the *)
(* administrator is still so.                                                             *)
Administrators ==
  [status : {"none", "pending_verification", "active", "suspended"},
   passwords : {0, 1}, grants : {0, 1}]

BootInv ==
  /\ boot \in [Boots -> [step : {"idle", "failed"}, attempt : {1, 2}]
                        \union [step : {"read", "done"}, attempt : {1, 2}, read : Administrators]]
  /\ admin \in Administrators
  /\ \A b, c \in Boots : Holds(b) /\ Holds(c) => b = c
  /\ \A b \in Boots : Holds(b) => boot[b].read = admin
  /\ OneAdministrator

LEMMA BootStep ==
  ASSUME BootInv, BootNext
  PROVE  BootInv'
<1> DEFINE Idle1 == [step : {"idle", "failed"}, attempt : {1, 2}]
           Read1 == [step : {"read", "done"}, attempt : {1, 2}, read : Administrators]
           Goal == BootInv'
<1> SUFFICES Goal  OBVIOUS
<1>0. \A x \in Idle1 : x.step \notin {"read", "done"} /\ x.attempt \in {1, 2}
  OBVIOUS
<1>a. \A b \in Boots : (boot[b].step \in {"read", "done"} => boot[b] \in Read1) /\ boot[b].attempt \in {1, 2}
  BY DEF BootInv
(* A step of one run, whatever row it leaves. *)
<1>1. ASSUME NEW b \in Boots, NEW row \in Idle1 \union Read1, boot' = [boot EXCEPT ![b] = row],
             admin' = admin, ~(row.step = "done"),
             row.step = "read" => row.read = admin /\ \A c \in Boots : ~Holds(c)
      PROVE  Goal
  <2>1. \A c \in Boots : c # b => boot'[c] = boot[c]  BY <1>1 DEF BootInv
  <2>2. boot'[b] = row  BY <1>1 DEF BootInv
  <2>3. boot' \in [Boots -> Idle1 \union Read1]  BY <1>1 DEF BootInv
  <2> HIDE DEF Idle1, Read1
  <2>4. \A c, d \in Boots : Holds(c)' /\ Holds(d)' => c = d
    BY <1>1, <2>1, <2>2 DEF Holds, BootInv
  <2>5. \A c \in Boots : Holds(c)' => boot'[c].read = admin'
    BY <1>1, <2>1, <2>2 DEF Holds, BootInv
  <2>6. OneAdministrator'  BY <1>1, <2>1, <2>2 DEF OneAdministrator, BootInv
  <2> QED  BY <1>1, <2>3, <2>4, <2>5, <2>6 DEF BootInv, Idle1, Read1
(* The run that holds the row commits what it has read, and is done or runs again. *)
<1>2. ASSUME NEW b \in Boots, Holds(b), NEW row \in Idle1 \union Read1,
             boot' = [boot EXCEPT ![b] = row], admin' = Bootstrapped(boot[b].read),
             row.step # "read", row.step = "done" => row.read = boot[b].read
      PROVE  Goal
  <2>0. boot[b].read = admin /\ admin \in Administrators  BY <1>2 DEF BootInv
  <2>1. /\ admin' \in Administrators /\ admin'.passwords = 1 /\ admin'.grants = 1
        /\ admin.status = "suspended" => admin'.status = "suspended"
    BY <1>2, <2>0 DEF Bootstrapped, Missing, Administrators
  <2>2. \A c \in Boots : c # b => boot'[c] = boot[c]  BY <1>2 DEF BootInv
  <2>3. boot'[b] = row  BY <1>2 DEF BootInv
  <2>4. boot' \in [Boots -> Idle1 \union Read1]  BY <1>2 DEF BootInv
  <2> HIDE DEF Idle1, Read1
  <2>5. \A c \in Boots : ~Holds(c)'
    BY <1>2, <2>2, <2>3 DEF Holds, BootInv
  <2>6. OneAdministrator'
    <3> SUFFICES ASSUME NEW c \in Boots, boot'[c].step = "done", boot'[c].read.status = "suspended"
                 PROVE  admin'.status = "suspended"
      BY <2>1 DEF OneAdministrator
    <3>1. CASE c = b  BY <1>2, <2>0, <2>1, <2>3, <3>1
    <3>2. CASE c # b  BY <2>1, <2>2, <3>2 DEF BootInv, OneAdministrator
    <3> QED  BY <3>1, <3>2
  <2> QED  BY <2>1, <2>4, <2>5, <2>6 DEF BootInv, Idle1, Read1
<1>3. ASSUME NEW b \in Boots
      PROVE  \E row \in Idle1 : Again(b) => boot' = [boot EXCEPT ![b] = row]
  <2> DEFINE row == IF boot[b].attempt = 1 THEN [step |-> "idle", attempt |-> 2]
                    ELSE [step |-> "failed", attempt |-> 2]
  <2>1. row \in Idle1 /\ (Again(b) => boot' = [boot EXCEPT ![b] = row])  BY DEF Again
  <2> QED  BY <2>1
<1>4. ASSUME NEW b \in Boots, BootReads(b)  PROVE Goal
  <2> DEFINE row == [step |-> "read", attempt |-> boot[b].attempt, read |-> admin]
  <2>1. row \in Read1 /\ row.step = "read" /\ row.read = admin  BY <1>a DEF BootInv
  <2>2. boot' = [boot EXCEPT ![b] = row] /\ admin' = admin /\ \A c \in Boots : ~Holds(c)
    BY <1>4 DEF BootReads
  <2> HIDE DEF row, Goal, Idle1, Read1
  <2> QED  BY <1>1, <2>1, <2>2
<1>5. ASSUME NEW b \in Boots, BootCommits(b)  PROVE Goal
  <2> DEFINE row == [step |-> "done", attempt |-> boot[b].attempt, read |-> boot[b].read]
  <2>1. row \in Read1 /\ row.step = "done" /\ row.read = boot[b].read
    BY <1>5, <1>a DEF BootCommits, Holds
  <2>2. boot' = [boot EXCEPT ![b] = row] /\ admin' = Bootstrapped(boot[b].read) /\ Holds(b)
    BY <1>5 DEF BootCommits, Seeds
  <2> HIDE DEF row, Goal, Idle1, Read1
  <2> QED  BY <1>2, <2>1, <2>2
<1>6. ASSUME NEW b \in Boots, BootCommitLost(b)  PROVE Goal
  <2>1. PICK row \in Idle1 : boot' = [boot EXCEPT ![b] = row]  BY <1>3, <1>6 DEF BootCommitLost
  <2>2. row.step \notin {"read", "done"}  BY <1>0
  <2>3. admin' = Bootstrapped(boot[b].read) /\ Holds(b)  BY <1>6 DEF BootCommitLost, Seeds
  <2> HIDE DEF Goal, Idle1, Read1
  <2> QED  BY <1>2, <2>1, <2>2, <2>3
<1>7. ASSUME NEW b \in Boots, BootFails(b)  PROVE Goal
  <2>1. PICK row \in Idle1 : boot' = [boot EXCEPT ![b] = row]  BY <1>3, <1>7 DEF BootFails
  <2>2. row.step \notin {"read", "done"}  BY <1>0
  <2>3. admin' = admin  BY <1>7 DEF BootFails
  <2> HIDE DEF Goal, Idle1, Read1
  <2> QED  BY <1>1, <2>1, <2>2, <2>3
<1>8. ASSUME OperatorsEnable  PROVE Goal
  BY <1>8 DEF OperatorsEnable, BootInv, OneAdministrator, Holds
<1> HIDE DEF Goal
<1> QED  BY <1>4, <1>5, <1>6, <1>7, <1>8 DEF BootNext

LEMMA BootAlways == Spec => []BootInv
<1>1. Init => BootInv
  BY DEF Init, BootInit, BootInv, OneAdministrator, Holds, NotRunning, Administrators
<1>2. BootInv /\ [Next]_allVars => BootInv'
  <2> SUFFICES ASSUME BootInv, [Next]_allVars  PROVE BootInv'  OBVIOUS
  <2>1. CASE UNCHANGED bootVars
    BY <2>1 DEF bootVars, BootInv, OneAdministrator, Holds
  <2>2. CASE BootActs
    BY <2>2, BootStep DEF BootActs
  <2> QED  BY <2>1, <2>2, SceneSteps
<1> QED  BY <1>1, <1>2, PTL DEF Spec

(* However many runs of the bootstrap overlap, fail or are repeated, the administrator has *)
(* one password and one grant, and who was suspended is not made active.                   *)
THEOREM AdministratorStaysOne == Spec => []OneAdministrator
<1>1. BootInv => OneAdministrator  BY DEF BootInv
<1> QED  BY <1>1, BootAlways, PTL
-----------------------------------------------------------------------------
(* PlatformBootstrap: the manifest. *)
LEMMA ManifestModules ==
  /\ DOMAIN CommerceModules =
       {"tenants", "marketplace", "seller_kyc", "catalog", "orders", "payments", "wallets",
        "accounting", "tax", "invoicing", "erp_odoo", "medusa_commerce", "logistics"}
  /\ DOMAIN ServiceModules =
       {"support", "notifications", "marketing", "storefront_builder", "cms", "ai", "security",
        "integrations", "reports", "backup", "localization", "themes", "plugins"}
  /\ DOMAIN Dependencies = DOMAIN CommerceModules \union DOMAIN ServiceModules
<1>1. DOMAIN CommerceModules =
        {"tenants", "marketplace", "seller_kyc", "catalog", "orders", "payments", "wallets",
         "accounting", "tax", "invoicing", "erp_odoo", "medusa_commerce", "logistics"}
  BY DEF CommerceModules
<1>2. DOMAIN ServiceModules =
        {"support", "notifications", "marketing", "storefront_builder", "cms", "ai", "security",
         "integrations", "reports", "backup", "localization", "themes", "plugins"}
  BY DEF ServiceModules
<1> QED  BY <1>1, <1>2 DEF Dependencies

(* Where enabling what can be enabled gets stuck, everything is enabled: in six rounds *)
(* every module has had its dependencies enabled.                                      *)
LEMMA EveryModuleWithinReach ==
  ASSUME NEW on, on \subseteq DOMAIN Dependencies, EnabledAfterRound(on) = on
  PROVE  on = DOMAIN Dependencies
<1>1. \A m \in DOMAIN Dependencies : Dependencies[m] \subseteq on => m \in on
  BY DEF EnabledAfterRound
<1>2. \A m \in DOMAIN CommerceModules : CommerceModules[m] \subseteq on => m \in on
  BY <1>1, ManifestModules DEF Dependencies
<1>3. \A m \in DOMAIN ServiceModules : ServiceModules[m] \subseteq on => m \in on
  BY <1>1, ManifestModules DEF Dependencies
<1>4. "tenants" \in on
  BY <1>2, ManifestModules DEF CommerceModules
<1>5. /\ "security" \in on /\ "marketing" \in on /\ "themes" \in on /\ "notifications" \in on
      /\ "ai" \in on /\ "reports" \in on /\ "backup" \in on /\ "localization" \in on
  BY <1>3, <1>4, ManifestModules DEF ServiceModules
<1>6. /\ "support" \in on /\ "storefront_builder" \in on /\ "integrations" \in on
  BY <1>3, <1>5, ManifestModules DEF ServiceModules
<1>7. /\ "cms" \in on /\ "plugins" \in on
  BY <1>3, <1>6, ManifestModules DEF ServiceModules
<1>8. /\ "marketplace" \in on /\ "catalog" \in on /\ "orders" \in on /\ "payments" \in on
      /\ "erp_odoo" \in on /\ "medusa_commerce" \in on
  BY <1>2, <1>4, ManifestModules DEF CommerceModules
<1>9. /\ "seller_kyc" \in on /\ "wallets" \in on /\ "accounting" \in on /\ "logistics" \in on
  BY <1>2, <1>5, <1>8, ManifestModules DEF CommerceModules
<1>10. "tax" \in on
  BY <1>2, <1>9, ManifestModules DEF CommerceModules
<1>11. "invoicing" \in on
  BY <1>2, <1>9, <1>10, ManifestModules DEF CommerceModules
<1> QED  BY <1>4, <1>5, <1>6, <1>7, <1>8, <1>9, <1>10, <1>11, ManifestModules

LEMMA ManifestPlugins ==
  /\ DOMAIN PluginNeeds =
       {"whatsapp_business", "smtp_email", "sms_gateway", "push_notifications", "stripe_payments",
        "iyzico_payments", "paypal_payments", "cargo_provider", "invoice_export", "xml_importer",
        "csv_importer", "barcode_qr_tools", "product_feed_google", "product_feed_meta",
        "analytics_connector", "ai_content_assistant", "ai_seo_assistant", "fraud_rules",
        "loyalty_points", "affiliate_tracking", "live_chat", "chatbot", "print_center",
        "odoo_accounting_bridge", "medusa_catalog_bridge", "medusa_order_bridge"}
  /\ \A p \in DOMAIN PluginNeeds : PluginRequirements[p] = {"plugins"} \union PluginNeeds[p]
BY DEF PluginNeeds, PluginRequirements

(* What themes and plugins require are modules of the manifest. *)
LEMMA RequirementsAreModules ==
  /\ \A needed \in ThemeRequirements : needed \subseteq DOMAIN Dependencies
  /\ \A p \in DOMAIN PluginNeeds : PluginRequirements[p] \subseteq DOMAIN Dependencies
<1>1. \A needed \in ThemeRequirements : needed \subseteq DOMAIN Dependencies
  BY ManifestModules DEF ThemeRequirements
<1>2. ASSUME NEW p \in DOMAIN PluginNeeds  PROVE PluginNeeds[p] \subseteq DOMAIN Dependencies
  <2> DEFINE ManifestKeys == DOMAIN Dependencies
  <2>1. /\ PluginNeeds["whatsapp_business"] \subseteq ManifestKeys
        /\ PluginNeeds["smtp_email"] \subseteq ManifestKeys
        /\ PluginNeeds["sms_gateway"] \subseteq ManifestKeys
        /\ PluginNeeds["push_notifications"] \subseteq ManifestKeys
        /\ PluginNeeds["stripe_payments"] \subseteq ManifestKeys
        /\ PluginNeeds["iyzico_payments"] \subseteq ManifestKeys
        /\ PluginNeeds["paypal_payments"] \subseteq ManifestKeys
        /\ PluginNeeds["cargo_provider"] \subseteq ManifestKeys
        /\ PluginNeeds["invoice_export"] \subseteq ManifestKeys
        /\ PluginNeeds["xml_importer"] \subseteq ManifestKeys
        /\ PluginNeeds["csv_importer"] \subseteq ManifestKeys
        /\ PluginNeeds["barcode_qr_tools"] \subseteq ManifestKeys
        /\ PluginNeeds["product_feed_google"] \subseteq ManifestKeys
        /\ PluginNeeds["product_feed_meta"] \subseteq ManifestKeys
        /\ PluginNeeds["analytics_connector"] \subseteq ManifestKeys
        /\ PluginNeeds["ai_content_assistant"] \subseteq ManifestKeys
        /\ PluginNeeds["ai_seo_assistant"] \subseteq ManifestKeys
        /\ PluginNeeds["fraud_rules"] \subseteq ManifestKeys
        /\ PluginNeeds["loyalty_points"] \subseteq ManifestKeys
        /\ PluginNeeds["affiliate_tracking"] \subseteq ManifestKeys
        /\ PluginNeeds["live_chat"] \subseteq ManifestKeys
        /\ PluginNeeds["chatbot"] \subseteq ManifestKeys
        /\ PluginNeeds["print_center"] \subseteq ManifestKeys
        /\ PluginNeeds["odoo_accounting_bridge"] \subseteq ManifestKeys
        /\ PluginNeeds["medusa_catalog_bridge"] \subseteq ManifestKeys
        /\ PluginNeeds["medusa_order_bridge"] \subseteq ManifestKeys
    BY ManifestModules DEF PluginNeeds
  <2> HIDE DEF ManifestKeys
  <2>2. PluginNeeds[p] \subseteq ManifestKeys  BY <2>1, ManifestPlugins
  <2> QED  BY <2>2 DEF ManifestKeys
<1> QED  BY <1>1, <1>2, ManifestPlugins, ManifestModules

(* A provider's module is among what its plugin requires. *)
LEMMA ProvidersServed ==
  \A pair \in ProviderRequirements : pair[1] # "none" =>
    pair[1] \in DOMAIN PluginNeeds /\ pair[2] \in PluginRequirements[pair[1]]
<1>1. \A pair \in ProviderRequirements : pair[1] # "none" =>
        pair[1] \in DOMAIN PluginNeeds /\ pair[2] \in PluginNeeds[pair[1]]
  <2>1. /\ "ai" \in PluginNeeds["ai_content_assistant"]
        /\ "logistics" \in PluginNeeds["cargo_provider"]
        /\ "invoicing" \in PluginNeeds["invoice_export"]
        /\ "payments" \in PluginNeeds["iyzico_payments"]
        /\ "accounting" \in PluginNeeds["odoo_accounting_bridge"]
        /\ "payments" \in PluginNeeds["paypal_payments"]
        /\ "notifications" \in PluginNeeds["sms_gateway"]
        /\ "notifications" \in PluginNeeds["smtp_email"]
        /\ "payments" \in PluginNeeds["stripe_payments"]
        /\ "notifications" \in PluginNeeds["whatsapp_business"]
    BY DEF PluginNeeds
  <2> QED  BY <2>1, ManifestPlugins DEF ProviderRequirements
<1> QED  BY <1>1, ManifestPlugins

(* The manifest is what DemoMode assumes of it: what is enabled from the first is closed *)
(* under dependencies, and so is that with the modules that demo mode enables.           *)
LEMMA ManifestClosed ==
  /\ \A m \in EnabledAtBootstrap : Dependencies[m] \subseteq EnabledAtBootstrap
  /\ \A m \in {"marketplace", "seller_kyc", "themes", "catalog", "orders"} :
       Dependencies[m] \subseteq {"marketplace", "seller_kyc", "themes", "catalog", "orders"}
                                \union EnabledAtBootstrap
<1>1. /\ Dependencies["tenants"] = {} /\ Dependencies["erp_odoo"] = {"tenants"}
      /\ Dependencies["medusa_commerce"] = {"tenants"} /\ Dependencies["marketplace"] = {"tenants"}
      /\ Dependencies["seller_kyc"] = {"marketplace", "security"}
      /\ Dependencies["catalog"] = {"tenants"} /\ Dependencies["orders"] = {"tenants"}
  BY ManifestModules DEF Dependencies, CommerceModules
<1>2. /\ Dependencies["ai"] = {"tenants"} /\ Dependencies["security"] = {}
      /\ Dependencies["localization"] = {"tenants"} /\ Dependencies["themes"] = {}
  BY ManifestModules DEF Dependencies, ServiceModules
<1> QED  BY <1>1, <1>2 DEF EnabledAtBootstrap

(* The flags are of modules of the manifest. *)
FlagsOfManifest == modulesOn = Unseeded \/ modulesOn \subseteq DOMAIN Dependencies

LEMMA FlagsAlwaysOfManifest == Spec => []FlagsOfManifest
<1>1. Init => FlagsOfManifest  BY DEF Init, BootInit, FlagsOfManifest
<1>2. FlagsOfManifest /\ [Next]_allVars => FlagsOfManifest'
  <2> SUFFICES ASSUME FlagsOfManifest, [Next]_allVars  PROVE FlagsOfManifest'  OBVIOUS
  <2>1. CASE UNCHANGED bootVars
    BY <2>1 DEF bootVars, FlagsOfManifest
  <2>2. CASE BootActs
    <3>1. ASSUME NEW b \in Boots, Seeds(b)  PROVE FlagsOfManifest'
      <4>1. EnabledAtBootstrap \subseteq DOMAIN Dependencies
        BY ManifestModules DEF EnabledAtBootstrap
      <4> QED  BY <3>1, <4>1 DEF Seeds, FlagsOfManifest
    <3>2. ASSUME modulesOn' = modulesOn  PROVE FlagsOfManifest'
      BY <3>2 DEF FlagsOfManifest
    <3>3. CASE OperatorsEnable
      BY <3>3 DEF OperatorsEnable, EnabledAfterRound, FlagsOfManifest
    <3> QED
      BY <2>2, <3>1, <3>2, <3>3
         DEF BootActs, BootNext, BootReads, BootCommits, BootCommitLost, BootFails
  <2> QED  BY <2>1, <2>2, SceneSteps
<1> QED  BY <1>1, <1>2, PTL DEF Spec

(* Whatever runs fail or repeat, from the flags that bootstrap writes operators who enable *)
(* what they may reach all 26 modules, and with them what every theme and plugin requires; *)
(* and a plugin whose requirements are met finds its provider's module enabled.            *)
THEOREM ManifestStaysWithinReach == Spec => []ManifestWithinReach
<1>1. FlagsOfManifest => ManifestWithinReach
  <2> SUFFICES ASSUME FlagsOfManifest, modulesOn # Unseeded  PROVE ManifestWithinReach
    BY DEF ManifestWithinReach
  <2>1. EnabledAfterRound(modulesOn) = modulesOn => modulesOn = DOMAIN Dependencies
    BY EveryModuleWithinReach DEF FlagsOfManifest
  <2>2. \A pair \in ProviderRequirements :
          pair[1] # "none" /\ PluginRequirements[pair[1]] \subseteq modulesOn => pair[2] \in modulesOn
    BY ProvidersServed
  <2> QED  BY <2>1, <2>2, RequirementsAreModules DEF ManifestWithinReach
<1> QED  BY <1>1, FlagsAlwaysOfManifest, PTL
-----------------------------------------------------------------------------
(* What requests of the catalog and the vault do to the table of work. *)
Alone == \A q, r \in Requests : work[q] # Idle /\ work[r] # Idle => q = r

LEMMA WorkBegun ==
  ASSUME NEW S, work \in [Requests -> S], NEW r \in Requests, NEW read \in S, Begins(r, read)
  PROVE  /\ work' \in [Requests -> S] /\ overlap' = overlap
         /\ work'[r] = read /\ \A q \in Requests : q # r => work'[q] = work[q]
         /\ ~overlap => Alone' /\ \A q \in Requests : work[q] = Idle
  BY DEF Begins, Free, Alone

LEMMA WorkGoesOn ==
  ASSUME NEW S, work \in [Requests -> S], NEW r \in Requests, NEW read \in S, GoesOn(r, read)
  PROVE  /\ work' \in [Requests -> S] /\ overlap' = overlap
         /\ work'[r] = read /\ \A q \in Requests : q # r => work'[q] = work[q]
  BY DEF GoesOn

LEMMA WorkEnded ==
  ASSUME NEW S, Idle \in S, work \in [Requests -> S], NEW r \in Requests, Ends(r)
  PROVE  /\ work' \in [Requests -> S] /\ overlap' = overlap
         /\ work'[r] = Idle /\ \A q \in Requests : q # r => work'[q] = work[q]
         /\ Alone => Alone'
         /\ Alone /\ work[r] # Idle => \A q \in Requests : work'[q] = Idle
  BY DEF Ends, Alone

LEMMA BusyRow == \A r \in Requests : work[r].op # "idle" => work[r] # Idle
  BY DEF Idle
-----------------------------------------------------------------------------
(* IntegrationVault: an update carries a payload with its own summary, a row under test  *)
(* is not deleted, and without overlap it is the row the test has read.                  *)
VaultWork ==
  {Idle}
  \union [op : {"create"}, key : Credentials, body : Payloads]
  \union [op : {"update"}, key : Credentials, payload : Payloads, mask : Payloads]
  \union [op : {"test"}, key : Credentials, payload : Payloads, valid : BOOLEAN]
  \union [op : {"policy"}, key : Providers, fallback : Providers \union {Unset},
          retries : (0 .. MaxRetries) \union {NaN}]

VaultRowsInv ==
  /\ credential \in [Credentials -> CredentialRow \union {Unset}]
  /\ policy \in [Providers -> [retries : 0 .. MaxRetries, fallback : Providers \union {Unset}]]
  /\ VaultSpeaksOfStored

VaultReadsInv ==
  /\ work \in [Requests -> VaultWork]
  /\ overlap \in BOOLEAN
  /\ \A r \in Requests :
       /\ work[r].op = "update" => work[r].mask = work[r].payload
       /\ work[r].op = "test" => Stored(work[r].key)
       /\ work[r].op = "policy" => work[r].fallback # work[r].key
       /\ ~overlap /\ work[r].op = "test" => work[r].payload = credential[work[r].key].payload
  /\ ~overlap => Alone

VaultInv == VaultRowsInv /\ (scene = "vault" => VaultReadsInv)

LEMMA VaultShapes ==
  ASSUME VaultReadsInv, NEW r \in Requests
  PROVE  /\ work[r].op = "create" => work[r].key \in Credentials /\ work[r].body \in Payloads
         /\ work[r].op = "update" => /\ work[r].key \in Credentials /\ work[r].payload \in Payloads
                                     /\ work[r].mask \in Payloads
         /\ work[r].op = "test" => work[r].key \in Credentials /\ work[r].payload \in Payloads
         /\ work[r].op = "policy" => /\ work[r].key \in Providers
                                     /\ work[r].fallback \in Providers \union {Unset}
                                     /\ work[r].retries \in (0 .. MaxRetries) \union {NaN}
<1>1. work[r] \in VaultWork  BY DEF VaultReadsInv
<1> QED  BY <1>1 DEF VaultWork, Idle

(* A request reads. *)
LEMMA VaultBegins ==
  ASSUME VaultRowsInv, VaultReadsInv, NEW r \in Requests, NEW read \in VaultWork, VaultReads(r, read),
         read.op = "update" => read.mask = read.payload,
         read.op = "test" => Stored(read.key) /\ read.payload = credential[read.key].payload,
         read.op = "policy" => read.fallback # read.key
  PROVE  VaultRowsInv' /\ VaultReadsInv'
<1>1. Begins(r, read) /\ UNCHANGED vaultRows  BY DEF VaultReads
<1>2. credential' = credential /\ accepted' = accepted /\ policy' = policy  BY <1>1 DEF vaultRows
<1>3. /\ work' \in [Requests -> VaultWork] /\ overlap' = overlap
      /\ work'[r] = read /\ \A q \in Requests : q # r => work'[q] = work[q]
      /\ ~overlap => Alone' /\ \A q \in Requests : work[q] = Idle
  BY <1>1, WorkBegun DEF VaultReadsInv
<1>4. VaultRowsInv'  BY <1>2, <1>3 DEF VaultRowsInv, VaultSpeaksOfStored, Stored
<1>5. VaultReadsInv'  BY <1>2, <1>3 DEF VaultReadsInv, Stored
<1> QED  BY <1>4, <1>5

(* A request writes a credential's row and ends; a row is never set to Unset. *)
LEMMA VaultWrites ==
  ASSUME VaultRowsInv, VaultReadsInv, NEW r \in Requests, Ends(r), work[r] # Idle,
         NEW k \in Credentials, NEW row \in CredentialRow,
         credential' = [credential EXCEPT ![k] = row], policy' = policy,
         row.mask = row.payload,
         row.status = "invalid" => row.error = "credential_schema_invalid",
         ~overlap /\ row.error # Unset => row.judged = row.payload
  PROVE  VaultRowsInv' /\ VaultReadsInv'
<1>1. Idle \in VaultWork  BY DEF VaultWork
<1>2. /\ work' \in [Requests -> VaultWork] /\ overlap' = overlap
      /\ work'[r] = Idle /\ \A q \in Requests : q # r => work'[q] = work[q]
      /\ Alone => Alone'
      /\ Alone => \A q \in Requests : work'[q] = Idle
  BY <1>1, WorkEnded DEF VaultReadsInv
<1>3. row # Unset  BY VaultAssumption
<1>4. credential'[k] = row /\ \A c \in Credentials : c # k => credential'[c] = credential[c]
  BY DEF VaultRowsInv
<1>5. VaultSpeaksOfStored'
  <2>1. ASSUME NEW c \in Credentials, Stored(c)'
        PROVE  /\ credential'[c].mask = credential'[c].payload
               /\ credential'[c].status = "invalid" => credential'[c].error = "credential_schema_invalid"
               /\ ~overlap' /\ credential'[c].error # Unset =>
                    credential'[c].judged = credential'[c].payload
    BY <2>1, <1>2, <1>4 DEF VaultRowsInv, VaultSpeaksOfStored, Stored
  <2> QED  BY <2>1 DEF VaultRowsInv, VaultSpeaksOfStored
<1>6. VaultRowsInv'  BY <1>5 DEF VaultRowsInv
<1>7. \A c \in Credentials : credential[c] # Unset => credential'[c] # Unset  BY <1>3, <1>4
<1>8. VaultReadsInv'
  <2>1. ASSUME NEW q \in Requests
        PROVE  /\ work'[q].op = "update" => work'[q].mask = work'[q].payload
               /\ work'[q].op = "test" => credential'[work'[q].key] # Unset
               /\ work'[q].op = "policy" => work'[q].fallback # work'[q].key
               /\ ~overlap => work'[q].op # "test"
    <3>1. CASE q = r  BY <1>2, <3>1 DEF Idle
    <3>2. CASE q # r
      <4>1. work[q].op = "test" => work[q].key \in Credentials  BY VaultShapes
      <4>2. ~overlap => work'[q] = Idle  BY <1>2 DEF VaultReadsInv
      <4> QED  BY <1>2, <1>7, <3>2, <4>1, <4>2 DEF VaultReadsInv, Idle, Stored
    <3> QED  BY <3>1, <3>2
  <2>2. ~overlap' => Alone'  BY <1>2 DEF VaultReadsInv
  <2>3. overlap' \in BOOLEAN /\ work' \in [Requests -> VaultWork]  BY <1>2 DEF VaultReadsInv
  <2> QED  BY <2>1, <2>2, <2>3, <1>2 DEF VaultReadsInv, Stored
<1> QED  BY <1>6, <1>8

(* What ends a request or runs at once without storing a payload. *)
LEMMA VaultOthers ==
  ASSUME VaultRowsInv, VaultReadsInv, NEW r \in Requests,
         \/ PolicyUpdate(r) \/ VaultAbort(r)
         \/ \E c \in Credentials : CredentialDelete(r, c)
         \/ \E payloads \in Schemas : SchemaReplaced(r, payloads)
  PROVE  VaultRowsInv' /\ VaultReadsInv'
<1> DEFINE Goal == VaultRowsInv' /\ VaultReadsInv'
<1>0. Idle \in VaultWork  BY DEF VaultWork
<1>1. ASSUME Ends(r), work[r] # Idle, credential' = credential
      PROVE  VaultReadsInv'
  <2>1. /\ work' \in [Requests -> VaultWork] /\ overlap' = overlap
        /\ work'[r] = Idle /\ \A q \in Requests : q # r => work'[q] = work[q]
        /\ Alone => Alone'
        /\ Alone => \A q \in Requests : work'[q] = Idle
    BY <1>0, <1>1, WorkEnded DEF VaultReadsInv
  <2> QED  BY <1>1, <2>1 DEF VaultReadsInv, Stored, Idle
<1>2. ASSUME PolicyUpdate(r)  PROVE Goal
  <2> DEFINE k == work[r].key
             row == [retries |-> work[r].retries, fallback |-> work[r].fallback]
  <2>1. /\ work[r].op = "policy" /\ work[r].retries # NaN /\ Ends(r)
        /\ policy' = [policy EXCEPT ![k] = row] /\ credential' = credential
    BY <1>2 DEF PolicyUpdate
  <2>2. /\ k \in Providers /\ row.retries \in 0 .. MaxRetries
        /\ row.fallback \in Providers \union {Unset} /\ row.fallback # k
    BY <2>1, VaultShapes DEF VaultReadsInv
  <2>3. VaultReadsInv'  BY <1>1, <2>1, BusyRow
  <2>4. overlap' = overlap  BY <2>1 DEF Ends
  <2>5. \A p \in Providers : policy'[p] = IF p = k THEN row ELSE policy[p]
    BY <2>1 DEF VaultRowsInv
  <2>6. policy' \in [Providers -> [retries : 0 .. MaxRetries, fallback : Providers \union {Unset}]]
    BY <2>1, <2>2 DEF VaultRowsInv
  <2> HIDE DEF row
  <2>7. VaultRowsInv'
    BY <2>1, <2>2, <2>4, <2>5, <2>6 DEF VaultRowsInv, VaultSpeaksOfStored, Stored
  <2> QED  BY <2>3, <2>7
<1>3. ASSUME VaultAbort(r)  PROVE Goal
  <2>1. /\ work[r] # Idle /\ Ends(r) /\ credential' = credential /\ policy' = policy
        /\ overlap' = overlap
    BY <1>3 DEF VaultAbort, Aborts, vaultRows, Ends
  <2>2. VaultRowsInv'  BY <2>1 DEF VaultRowsInv, VaultSpeaksOfStored, Stored
  <2> QED  BY <1>1, <2>1, <2>2
<1>4. ASSUME NEW c \in Credentials, CredentialDelete(r, c)  PROVE Goal
  <2>1. /\ credential' = [credential EXCEPT ![c] = Unset] /\ policy' = policy
        /\ work' = work /\ overlap' = overlap
        /\ \A q \in Requests : work[q].op = "test" => work[q].key # c
    BY <1>4 DEF CredentialDelete, AtOnce, UnderTest
  <2>2. VaultRowsInv'  BY <2>1 DEF VaultRowsInv, VaultSpeaksOfStored, Stored
  <2>3. VaultReadsInv'
    <3>1. ASSUME NEW q \in Requests, work[q].op = "test"
          PROVE  credential'[work[q].key] = credential[work[q].key]
      BY <3>1, <2>1, VaultShapes DEF VaultRowsInv
    <3> QED  BY <2>1, <3>1 DEF VaultReadsInv, Stored, Alone
  <2> QED  BY <2>2, <2>3
<1>5. ASSUME NEW payloads \in Schemas, SchemaReplaced(r, payloads)  PROVE Goal
  BY <1>5 DEF SchemaReplaced, AtOnce, VaultRowsInv, VaultReadsInv, VaultSpeaksOfStored, Stored, Alone
<1> HIDE DEF Goal
<1>6. Goal  BY <1>2, <1>3, <1>4, <1>5
<1> QED  BY <1>6 DEF Goal

LEMMA VaultReaders ==
  ASSUME VaultRowsInv, VaultReadsInv, NEW r \in Requests,
         \/ \E c \in Credentials, body \in Payloads : CredentialCreateBegin(r, c, body)
         \/ \E c \in Credentials, body \in Payloads \union {Unset} : CredentialUpdateBegin(r, c, body)
         \/ \E c \in Credentials : CredentialTestBegin(r, c)
         \/ \E p \in Providers, n \in RetryCounts \union {Unset}, f \in Providers \union {Unset} :
              PolicyUpdateBegin(r, p, n, f)
  PROVE  VaultRowsInv' /\ VaultReadsInv'
<1> DEFINE Goal == VaultRowsInv' /\ VaultReadsInv'
<1>0. \A c \in Credentials : Stored(c) => credential[c] \in CredentialRow
  BY DEF Stored, VaultRowsInv
<1>1. ASSUME NEW c \in Credentials, NEW body \in Payloads, CredentialCreateBegin(r, c, body)
      PROVE  Goal
  <2> DEFINE read == [op |-> "create", key |-> c, body |-> body]
  <2>1. read \in VaultWork /\ read.op = "create"  BY DEF VaultWork
  <2>2. VaultReads(r, read)  BY <1>1 DEF CredentialCreateBegin
  <2> HIDE DEF read
  <2> QED  BY <2>1, <2>2, VaultBegins
<1>2. ASSUME NEW c \in Credentials, NEW body \in Payloads \union {Unset}, CredentialUpdateBegin(r, c, body)
      PROVE  Goal
  <2> DEFINE payload == IF body = Unset THEN credential[c].payload ELSE body
             mask == IF body = Unset THEN credential[c].mask ELSE body
             read == [op |-> "update", key |-> c, payload |-> payload, mask |-> mask]
  <2>1. payload \in Payloads /\ mask \in Payloads /\ mask = payload
    BY <1>0, <1>2 DEF CredentialUpdateBegin, CredentialRow, VaultRowsInv, VaultSpeaksOfStored
  <2>2. VaultReads(r, read)  BY <1>2 DEF CredentialUpdateBegin
  <2> HIDE DEF payload, mask
  <2>3. read \in VaultWork /\ read.op = "update" /\ read.mask = read.payload  BY <2>1 DEF VaultWork
  <2> HIDE DEF read
  <2> QED  BY <2>2, <2>3, VaultBegins
<1>3. ASSUME NEW c \in Credentials, CredentialTestBegin(r, c)
      PROVE  Goal
  <2> DEFINE valid == credential[c].payload \in accepted
             read == [op |-> "test", key |-> c, payload |-> credential[c].payload, valid |-> valid]
  <2>1. credential[c].payload \in Payloads /\ Stored(c)
    BY <1>0, <1>3 DEF CredentialTestBegin, CredentialRow
  <2>2. VaultReads(r, read)  BY <1>3 DEF CredentialTestBegin
  <2>3. valid \in BOOLEAN  OBVIOUS
  <2> HIDE DEF valid
  <2>4. read \in VaultWork  BY <2>1, <2>3 DEF VaultWork
  <2>5. read.op = "test" /\ read.key = c /\ read.payload = credential[c].payload  OBVIOUS
  <2> HIDE DEF read
  <2> QED  BY <2>1, <2>2, <2>4, <2>5, VaultBegins
<1>4. ASSUME NEW p \in Providers, NEW n \in RetryCounts \union {Unset},
             NEW f \in Providers \union {Unset}, PolicyUpdateBegin(r, p, n, f)
      PROVE  Goal
  <2> DEFINE retries == IF n = Unset THEN policy[p].retries ELSE n
             read == [op |-> "policy", key |-> p, fallback |-> f, retries |-> retries]
  <2>1. retries \in (0 .. MaxRetries) \union {NaN} /\ f # p
    BY <1>4 DEF PolicyUpdateBegin, VaultRowsInv
  <2>2. VaultReads(r, read)  BY <1>4 DEF PolicyUpdateBegin
  <2> HIDE DEF retries
  <2>3. read \in VaultWork /\ read.op = "policy" /\ read.fallback # read.key  BY <2>1 DEF VaultWork
  <2> HIDE DEF read
  <2> QED  BY <2>2, <2>3, VaultBegins
<1> HIDE DEF Goal
<1>5. Goal  BY <1>1, <1>2, <1>3, <1>4
<1> QED  BY <1>5 DEF Goal

LEMMA VaultWriters ==
  ASSUME VaultRowsInv, VaultReadsInv, NEW r \in Requests,
         \/ CredentialCreate(r) \/ CredentialUpdate(r)
         \/ CredentialFoundInvalid(r) \/ CredentialFoundValid(r)
  PROVE  VaultRowsInv' /\ VaultReadsInv'
<1> DEFINE Goal == VaultRowsInv' /\ VaultReadsInv'
           k == work[r].key
           old == credential[k]
<1>0. k \in Credentials /\ Stored(k) => old \in CredentialRow
  BY DEF Stored, VaultRowsInv
<1>1. ASSUME CredentialCreate(r)  PROVE Goal
  <2> DEFINE row == [payload |-> work[r].body, mask |-> work[r].body, status |-> "configured",
                     test |-> Unset, error |-> Unset, judged |-> Unset]
  <2>1. /\ work[r].op = "create" /\ credential' = [credential EXCEPT ![k] = row]
        /\ Ends(r) /\ policy' = policy
    BY <1>1 DEF CredentialCreate
  <2>2. k \in Credentials /\ work[r].body \in Payloads  BY <2>1, VaultShapes
  <2>3. row \in CredentialRow  BY <2>2 DEF CredentialRow
  <2>4. row.mask = row.payload /\ row.status = "configured" /\ row.error = Unset  OBVIOUS
  <2> HIDE DEF row, k
  <2> QED  BY <2>1, <2>2, <2>3, <2>4, BusyRow, VaultWrites
<1>2. ASSUME CredentialUpdate(r)  PROVE Goal
  <2> DEFINE row == [old EXCEPT !.payload = work[r].payload, !.mask = work[r].mask,
                                !.status = "configured", !.error = Unset]
  <2>1. /\ work[r].op = "update" /\ Stored(k) /\ credential' = [credential EXCEPT ![k] = row]
        /\ Ends(r) /\ policy' = policy
    BY <1>2 DEF CredentialUpdate
  <2>2. /\ k \in Credentials /\ work[r].payload \in Payloads /\ work[r].mask = work[r].payload
        /\ old \in CredentialRow
    BY <1>0, <2>1, VaultShapes DEF VaultReadsInv
  <2> HIDE DEF old
  <2>3. row \in CredentialRow  BY <2>2 DEF CredentialRow
  <2>4. row.mask = row.payload /\ row.status = "configured" /\ row.error = Unset
    BY <2>2 DEF CredentialRow
  <2> HIDE DEF row, k
  <2> QED  BY <2>1, <2>2, <2>3, <2>4, BusyRow, VaultWrites
<1>3. ASSUME work[r].op = "test", Ends(r), policy' = policy,
             NEW status \in {"configured", "invalid"},
             NEW test \in {"config_invalid", "adapter_not_configured"},
             NEW error \in {"credential_schema_invalid", "network_adapter_not_configured"},
             status = "invalid" => error = "credential_schema_invalid",
             credential' = [credential EXCEPT ![k] =
               [Judged(r) EXCEPT !.status = status, !.test = test, !.error = error]]
      PROVE  Goal
  <2> DEFINE a1 == [old EXCEPT !.judged = work[r].payload]
             row == [a1 EXCEPT !.status = status, !.test = test, !.error = error]
  <2>1. credential' = [credential EXCEPT ![k] = row]  BY <1>3 DEF Judged
  <2>2. /\ k \in Credentials /\ old \in CredentialRow /\ work[r].payload \in Payloads
        /\ old.mask = old.payload /\ (~overlap => work[r].payload = old.payload)
    BY <1>0, <1>3, VaultShapes DEF VaultReadsInv, VaultRowsInv, VaultSpeaksOfStored
  <2> HIDE DEF old
  <2>3. /\ a1 \in CredentialRow /\ a1.mask = old.mask /\ a1.payload = old.payload
        /\ a1.judged = work[r].payload
    BY <2>2 DEF CredentialRow
  <2> HIDE DEF a1
  <2>4. row \in CredentialRow  BY <2>3 DEF CredentialRow
  <2>5. /\ row.mask = a1.mask /\ row.payload = a1.payload /\ row.judged = a1.judged
        /\ row.status = status /\ row.error = error
    BY <2>3 DEF CredentialRow
  <2>6. /\ row.mask = row.payload
        /\ row.status = "invalid" => row.error = "credential_schema_invalid"
        /\ ~overlap /\ row.error # Unset => row.judged = row.payload
    BY <1>3, <2>2, <2>3, <2>5
  <2>7. Ends(r) /\ work[r] # Idle /\ policy' = policy  BY <1>3, BusyRow
  <2> HIDE DEF row, k
  <2> QED  BY <2>1, <2>2, <2>4, <2>6, <2>7, VaultWrites
<1>4. ASSUME CredentialFoundInvalid(r)  PROVE Goal
  <2>1. /\ work[r].op = "test" /\ Ends(r) /\ policy' = policy
        /\ credential' = [credential EXCEPT ![k] =
             [Judged(r) EXCEPT !.status = "invalid", !.test = "config_invalid",
                               !.error = "credential_schema_invalid"]]
    BY <1>4 DEF CredentialFoundInvalid
  <2> HIDE DEF Goal, k
  <2> QED  BY <1>3, <2>1
<1>5. ASSUME CredentialFoundValid(r)  PROVE Goal
  <2>1. /\ work[r].op = "test" /\ Ends(r) /\ policy' = policy
        /\ credential' = [credential EXCEPT ![k] =
             [Judged(r) EXCEPT !.status = "configured", !.test = "adapter_not_configured",
                               !.error = "network_adapter_not_configured"]]
    BY <1>5 DEF CredentialFoundValid
  <2> HIDE DEF Goal, k
  <2> QED  BY <1>3, <2>1
<1> HIDE DEF Goal
<1>6. Goal  BY <1>1, <1>2, <1>4, <1>5
<1> QED  BY <1>6 DEF Goal

LEMMA VaultAlways == Spec => []VaultInv
<1>1. Init => VaultInv
  <2> SUFFICES ASSUME Init  PROVE VaultInv  OBVIOUS
  <2>1. VaultRowsInv
    BY VaultAssumption DEF Init, VaultInit, VaultRowsInv, VaultSpeaksOfStored, Stored
  <2>2. VaultReadsInv
    BY DEF Init, RequestsInit, VaultReadsInv, VaultWork, Idle, Alone
  <2> QED  BY <2>1, <2>2 DEF VaultInv
<1>2. VaultInv /\ [Next]_allVars => VaultInv'
  <2> SUFFICES ASSUME VaultInv, [Next]_allVars  PROVE VaultInv'  OBVIOUS
  <2>1. CASE VaultActs
    <3>1. VaultRowsInv /\ VaultReadsInv /\ VaultNext  BY <2>1 DEF VaultActs, VaultInv
    <3>2. PICK r \in Requests :
            \/ \E c \in Credentials, body \in Payloads : CredentialCreateBegin(r, c, body)
            \/ \E c \in Credentials, body \in Payloads \union {Unset} : CredentialUpdateBegin(r, c, body)
            \/ \E c \in Credentials : CredentialDelete(r, c) \/ CredentialTestBegin(r, c)
            \/ CredentialCreate(r) \/ CredentialUpdate(r)
            \/ CredentialFoundInvalid(r) \/ CredentialFoundValid(r)
            \/ \E p \in Providers, n \in RetryCounts \union {Unset}, f \in Providers \union {Unset} :
                 PolicyUpdateBegin(r, p, n, f)
            \/ PolicyUpdate(r)
            \/ VaultAbort(r)
            \/ \E payloads \in Schemas : SchemaReplaced(r, payloads)
      BY <3>1 DEF VaultNext
    <3>3. VaultRowsInv' /\ VaultReadsInv'
      BY <3>1, <3>2, VaultOthers, VaultReaders, VaultWriters
    <3> QED  BY <3>3 DEF VaultInv
  <2>2. CASE UNCHANGED vaultRows /\ (scene = "vault" => UNCHANGED requests)
    <3>1. scene' = scene  BY SceneSteps
    <3>2. overlap' = overlap  BY OverlapStays
    <3>3. VaultRowsInv'
      BY <2>2, <3>2 DEF vaultRows, VaultInv, VaultRowsInv, VaultSpeaksOfStored, Stored
    <3>4. scene = "vault" => VaultReadsInv'
      BY <2>2 DEF vaultRows, requests, VaultInv, VaultReadsInv, Stored, Alone
    <3> QED  BY <3>1, <3>3, <3>4 DEF VaultInv
  <2> QED  BY <2>1, <2>2, SceneSteps
<1> QED  BY <1>1, <1>2, PTL DEF Spec

(* What the vault shows of a credential is about the payload it stores, and policies stay *)
(* inside their bounds.                                                                   *)
THEOREM VaultStaysTruthful == Spec => []VaultSpeaksOfStored
<1>1. VaultInv => VaultSpeaksOfStored  BY DEF VaultInv, VaultRowsInv
<1> QED  BY <1>1, VaultAlways, PTL
-----------------------------------------------------------------------------
(* CatalogProducts: what a request writes was checked when it was read, and what it was   *)
(* checked against only grows, but for the category a cleanup deletes.  Without overlap   *)
(* the module is enabled and the seller approved until the request is done.               *)
CatalogWork ==
  {Idle}
  \union [op : {"write"}, product : Products, row : ProductRow]
  \union [op : {"submit", "approve", "reject", "archive", "health"}, product : Products]
  \union [op : {"variants"}, product : Products, announced : Nat]
  \union [op : {"snapshot"}, product : Products, announced : Nat, carried : SUBSET Variants]
  \union [op : {"variant"}, variant : Variants, stock : Products \X Stocks]
  \union [op : {"category"}, category : Categories, above : Categories \union {Nobody},
          new : BOOLEAN, moved : BOOLEAN]

CatalogTypes ==
  /\ product \in [Products -> ProductRow \union {Nobody}]
  /\ stock \in [Variants -> (Products \X Stocks) \union {Nobody}]
  /\ parent \in [Categories -> Categories \union {Nobody, "absent"}]
  /\ cleaned \in SUBSET Categories

(* Jobs are of products that exist, and products are never deleted. *)
JobsOfProducts == \A j \in syncJobs : j.product \in Created

CatalogRowsInv ==
  /\ CatalogTypes
  /\ JobsOfProducts
  /\ ProductTellsTruth
  /\ CategoriesHoldTogether

(* What a request has read decides what it will write. *)
ReadsHold ==
  \A r \in Requests :
    /\ work[r].op = "write" =>
         /\ work[r].row.category \in Known \union {Nobody} \union cleaned
         /\ product[work[r].product] = Nobody =>
              work[r].row = Draft(work[r].row.seller, work[r].row.category)
    /\ work[r].op \in {"submit", "approve", "reject", "archive", "health", "variants", "snapshot"} =>
         work[r].product \in Created
    /\ work[r].op = "variant" /\ stock[work[r].variant] # Nobody =>
         stock[work[r].variant][1] = work[r].stock[1]
    /\ \A p \in Products : work[r].op = "variants" /\ work[r].product = p =>
         work[r].announced <= Cardinality(VariantsOf(p))
    /\ work[r].op = "snapshot" => work[r].announced <= Cardinality(work[r].carried)
    /\ work[r].op = "category" => work[r].above # work[r].category

(* Of a variant that does not exist there is one request. *)
VariantsCreatedOnce ==
  \A q, r \in Requests :
    work[q].op = "variant" /\ work[r].op = "variant" /\ work[q].variant = work[r].variant
      /\ stock[work[q].variant] = Nobody => q = r

SerialReads ==
  \A r \in Requests :
    /\ work[r] # Idle => catalogOn
    /\ work[r].op = "write" => work[r].row.seller = Nobody \/ sellerApproved
    /\ \A c \in Categories : work[r].op = "category" /\ work[r].category = c /\ ~work[r].new =>
         work[r].moved \/ work[r].above = parent[c] \/ Children(c) = {}

CatalogReadsInv ==
  /\ work \in [Requests -> CatalogWork]
  /\ overlap \in BOOLEAN
  /\ ReadsHold
  /\ VariantsCreatedOnce
  /\ ~overlap => Alone /\ SerialReads

CatalogInv == CatalogRowsInv /\ (scene \in {"products", "categories"} => CatalogReadsInv)

(* The rows the handlers write. *)
LEMMA DraftRow ==
  ASSUME NEW s \in Sellers, NEW c \in Categories \union {Nobody}
  PROVE  /\ Draft(s, c) \in ProductRow
         /\ Draft(s, c).seller = s /\ Draft(s, c).category = c
         /\ Draft(s, c).moderation = "pending_review" /\ ~Draft(s, c).reason
         /\ Draft(s, c).sync = "not_synced"
  BY DEF Draft, ProductRow

(* What a request has read, as its row of work says it. *)
LEMMA CatalogShapes ==
  ASSUME work \in [Requests -> CatalogWork], NEW r \in Requests
  PROVE  /\ work[r].op = "write" => work[r].product \in Products /\ work[r].row \in ProductRow
         /\ work[r].op \in {"submit", "approve", "reject", "archive", "health"} =>
              work[r].product \in Products
         /\ work[r].op = "variants" => work[r].product \in Products /\ work[r].announced \in Nat
         /\ work[r].op = "snapshot" => /\ work[r].product \in Products /\ work[r].announced \in Nat
                                       /\ work[r].carried \in SUBSET Variants
         /\ work[r].op = "variant" => /\ work[r].variant \in Variants
                                      /\ work[r].stock \in Products \X Stocks
         /\ work[r].op = "category" => /\ work[r].category \in Categories
                                       /\ work[r].above \in Categories \union {Nobody}
                                       /\ work[r].above # "absent"
<1>1. work[r] \in CatalogWork  OBVIOUS
<1>2. "absent" \notin Categories \union {Nobody}  BY CatalogAssumption
<1> QED  BY <1>1, <1>2 DEF CatalogWork, Idle

LEMMA RowsAreNot ==
  /\ \A row \in ProductRow : row # Nobody
  /\ \A s \in Products \X Stocks : s # Nobody
  /\ Nobody \notin Categories /\ "absent" \notin Categories /\ Nobody # "absent"
  BY CatalogAssumption

(* Variants are never deleted: those of a product grow. *)
LEMMA VariantsGrow ==
  ASSUME CatalogTypes, \A v \in Variants : stock[v] # Nobody =>
                          stock'[v] # Nobody /\ stock'[v][1] = stock[v][1],
         NEW p \in Products
  PROVE  /\ Cardinality(VariantsOf(p)) \in Nat
         /\ Cardinality(VariantsOf(p)) <= Cardinality(VariantsOf(p)')
<1>1. VariantsOf(p) \subseteq VariantsOf(p)' /\ VariantsOf(p)' \subseteq Variants
  BY DEF VariantsOf
<1>2. IsFiniteSet(VariantsOf(p)')  BY <1>1, CatalogAssumption, FS_Subset
<1> QED  BY <1>1, <1>2, FS_Subset, FS_CardinalityType

(* When no table changes, the invariant of the tables stands. *)
LEMMA CatalogRowsKept ==
  ASSUME CatalogRowsInv, UNCHANGED catalogRows, cleaned' = cleaned, subtreesMoved' = subtreesMoved,
         overlap' = overlap
  PROVE  CatalogRowsInv'
<1>1. product' = product /\ stock' = stock /\ parent' = parent /\ syncJobs' = syncJobs
  BY DEF catalogRows
<1>2. Known' = Known /\ Created' = Created  BY <1>1 DEF Known, Created
<1>3. ProductTellsTruth'  BY <1>1, <1>2 DEF CatalogRowsInv, ProductTellsTruth
<1>4. CategoriesHoldTogether'
  BY <1>1, <1>2 DEF CatalogRowsInv, CategoriesHoldTogether, Forest
<1> QED  BY <1>1, <1>2, <1>3, <1>4 DEF CatalogRowsInv, CatalogTypes, JobsOfProducts

(* A request reads, the module being enabled. *)
LEMMA CatalogBegins ==
  ASSUME CatalogRowsInv, CatalogReadsInv, NEW r \in Requests, NEW read \in CatalogWork,
         Mutation(r, read),
         read.op = "write" =>
           /\ read.row.category \in Known \union {Nobody} \union cleaned
           /\ product[read.product] = Nobody => read.row = Draft(read.row.seller, read.row.category)
           /\ read.row.seller = Nobody \/ sellerApproved,
         read.op \in {"submit", "approve", "reject", "archive", "health"} => read.product \in Created,
         read.op = "variant" =>
           /\ stock[read.variant] # Nobody => stock[read.variant][1] = read.stock[1]
           /\ stock[read.variant] = Nobody =>
                \A q \in Requests : work[q].op = "variant" => work[q].variant # read.variant,
         read.op \notin {"variants", "snapshot"},
         read.op = "category" =>
           /\ read.above # read.category
           /\ \A c \in Categories : read.category = c /\ ~read.new =>
                read.moved \/ read.above = parent[c] \/ Children(c) = {}
  PROVE  CatalogRowsInv' /\ CatalogReadsInv'
<1>1. /\ catalogOn /\ Begins(r, read)
      /\ product' = product /\ stock' = stock /\ parent' = parent /\ syncJobs' = syncJobs
      /\ catalogOn' = catalogOn /\ sellerApproved' = sellerApproved
      /\ subtreesMoved' = subtreesMoved /\ cleaned' = cleaned
  BY DEF Mutation, catalogRows, catalogRest
<1>2. /\ work' \in [Requests -> CatalogWork] /\ overlap' = overlap
      /\ work'[r] = read /\ \A q \in Requests : q # r => work'[q] = work[q]
      /\ ~overlap => Alone' /\ \A q \in Requests : work[q] = Idle
  BY <1>1, WorkBegun DEF CatalogReadsInv
<1>3. CatalogRowsInv'  BY <1>1, <1>2, CatalogRowsKept DEF Mutation
<1>4. Known' = Known /\ Created' = Created /\ \A p \in Products : VariantsOf(p)' = VariantsOf(p)
  BY <1>1 DEF Known, Created, VariantsOf
<1>5. ReadsHold'
  <2> SUFFICES ASSUME NEW q \in Requests
               PROVE  /\ work'[q].op = "write" =>
                           /\ work'[q].row.category \in Known' \union {Nobody} \union cleaned'
                           /\ product'[work'[q].product] = Nobody =>
                                work'[q].row = Draft(work'[q].row.seller, work'[q].row.category)
                      /\ work'[q].op \in {"submit", "approve", "reject", "archive", "health",
                                          "variants", "snapshot"} => work'[q].product \in Created'
                      /\ work'[q].op = "variant" /\ stock'[work'[q].variant] # Nobody =>
                           stock'[work'[q].variant][1] = work'[q].stock[1]
                      /\ \A p \in Products : work'[q].op = "variants" /\ work'[q].product = p =>
                           work'[q].announced <= Cardinality(VariantsOf(p)')
                      /\ work'[q].op = "snapshot" =>
                           work'[q].announced <= Cardinality(work'[q].carried)
                      /\ work'[q].op = "category" => work'[q].above # work'[q].category
    BY DEF ReadsHold, Draft
  <2>1. CASE q = r  BY <1>1, <1>2, <1>4, <2>1
  <2>2. CASE q # r
    <3> DEFINE w == work[q]
    <3>0. work'[q] = w  BY <1>2, <2>2
    <3>1. /\ w.op = "write" =>
               /\ w.row.category \in Known \union {Nobody} \union cleaned
               /\ product[w.product] = Nobody => w.row = Draft(w.row.seller, w.row.category)
          /\ w.op \in {"submit", "approve", "reject", "archive", "health", "variants", "snapshot"} =>
               w.product \in Created
          /\ w.op = "variant" /\ stock[w.variant] # Nobody => stock[w.variant][1] = w.stock[1]
          /\ \A p \in Products : w.op = "variants" /\ w.product = p =>
               w.announced <= Cardinality(VariantsOf(p))
          /\ w.op = "snapshot" => w.announced <= Cardinality(w.carried)
          /\ w.op = "category" => w.above # w.category
      BY DEF CatalogReadsInv, ReadsHold
    <3> HIDE DEF w
    <3> QED  BY <1>1, <1>4, <3>0, <3>1
  <2> QED  BY <2>1, <2>2
<1>6. VariantsCreatedOnce'
  BY <1>1, <1>2 DEF VariantsCreatedOnce, CatalogReadsInv
<1>7. ~overlap => SerialReads'
  <2> SUFFICES ASSUME ~overlap  PROVE SerialReads'  OBVIOUS
  <2>1. \A q \in Requests : q # r => work'[q] = Idle  BY <1>2
  <2>2. \A c \in Categories : Children(c)' = Children(c)  BY <1>1 DEF Children
  <2> QED  BY <1>1, <1>2, <2>1, <2>2 DEF SerialReads, Idle
<1>8. CatalogReadsInv'  BY <1>2, <1>5, <1>6, <1>7 DEF CatalogReadsInv
<1> QED  BY <1>3, <1>8

(* What the reads of requests rest on only grows, but for the category a cleanup deletes: *)
(* a request that writes and ends leaves the reads of the others standing.                *)
LEMMA CatalogEnds ==
  ASSUME CatalogTypes, CatalogReadsInv, NEW r \in Requests, Ends(r), work[r] # Idle,
         product' \in [Products -> ProductRow \union {Nobody}],
         \A p \in Created : product'[p] # Nobody,
         \A v \in Variants : stock[v] # Nobody =>
           stock'[v] # Nobody /\ stock'[v][1] = stock[v][1],
         \A v \in Variants : stock[v] = Nobody /\ stock'[v] # Nobody =>
           work[r].op = "variant" /\ work[r].variant = v,
         Known \subseteq Known', cleaned' = cleaned
  PROVE  CatalogReadsInv'
<1>0. Idle \in CatalogWork  BY DEF CatalogWork
<1>1. /\ work' \in [Requests -> CatalogWork] /\ overlap' = overlap
      /\ work'[r] = Idle /\ \A q \in Requests : q # r => work'[q] = work[q]
      /\ Alone => Alone'
      /\ Alone => \A q \in Requests : work'[q] = Idle
  BY <1>0, WorkEnded DEF CatalogReadsInv
<1>2. \A p \in Products : product'[p] = Nobody => product[p] = Nobody  BY DEF Created
<1>3. Created \subseteq Created'  BY DEF Created
<1>4. ASSUME NEW q \in Requests, q # r, work[q].op = "variant", stock'[work[q].variant] # Nobody
      PROVE  stock'[work[q].variant][1] = work[q].stock[1]
  <2>1. work[q].variant \in Variants  BY <1>4, CatalogShapes DEF CatalogReadsInv
  <2>2. CASE stock[work[q].variant] # Nobody
    BY <1>4, <2>1, <2>2 DEF CatalogReadsInv, ReadsHold
  <2>3. CASE stock[work[q].variant] = Nobody
    BY <1>4, <2>1, <2>3 DEF CatalogReadsInv, VariantsCreatedOnce
  <2> QED  BY <2>2, <2>3
<1>5. \A p \in Products : /\ Cardinality(VariantsOf(p)) \in Nat
                          /\ Cardinality(VariantsOf(p)) <= Cardinality(VariantsOf(p)')
                          /\ Cardinality(VariantsOf(p)') \in Nat
  <2>1. \A p \in Products : VariantsOf(p)' \subseteq Variants  BY DEF VariantsOf
  <2> QED  BY <2>1, VariantsGrow, CatalogAssumption, FS_Subset, FS_CardinalityType
<1>6. ReadsHold'
  <2> SUFFICES ASSUME NEW q \in Requests
               PROVE  /\ work'[q].op = "write" =>
                           /\ work'[q].row.category \in Known' \union {Nobody} \union cleaned'
                           /\ product'[work'[q].product] = Nobody =>
                                work'[q].row = Draft(work'[q].row.seller, work'[q].row.category)
                      /\ work'[q].op \in {"submit", "approve", "reject", "archive", "health",
                                          "variants", "snapshot"} => work'[q].product \in Created'
                      /\ work'[q].op = "variant" /\ stock'[work'[q].variant] # Nobody =>
                           stock'[work'[q].variant][1] = work'[q].stock[1]
                      /\ \A p \in Products : work'[q].op = "variants" /\ work'[q].product = p =>
                           work'[q].announced <= Cardinality(VariantsOf(p)')
                      /\ work'[q].op = "snapshot" =>
                           work'[q].announced <= Cardinality(work'[q].carried)
                      /\ work'[q].op = "category" => work'[q].above # work'[q].category
    BY DEF ReadsHold, Draft
  <2>1. CASE q = r  BY <1>1, <2>1 DEF Idle
  <2>2. CASE q # r
    <3> DEFINE w == work[q]
    <3>0. work'[q] = w  BY <1>1, <2>2
    <3>1. /\ w.op = "write" =>
               /\ w.row.category \in Known' \union {Nobody} \union cleaned'
               /\ product'[w.product] = Nobody => w.row = Draft(w.row.seller, w.row.category)
          /\ w.op \in {"submit", "approve", "reject", "archive", "health", "variants", "snapshot"} =>
               w.product \in Created'
      BY <1>2, <1>3, CatalogShapes DEF CatalogReadsInv, ReadsHold
    <3>2. w.op = "variant" /\ stock'[w.variant] # Nobody => stock'[w.variant][1] = w.stock[1]
      BY <1>4, <2>2
    <3>3. ASSUME NEW p \in Products, w.op = "variants", w.product = p
          PROVE  w.announced <= Cardinality(VariantsOf(p)')
      BY <1>5, <3>3, CatalogShapes DEF CatalogReadsInv, ReadsHold
    <3>4. /\ w.op = "snapshot" => w.announced <= Cardinality(w.carried)
          /\ w.op = "category" => w.above # w.category
      BY DEF CatalogReadsInv, ReadsHold
    <3> HIDE DEF w
    <3> QED  BY <3>0, <3>1, <3>2, <3>3, <3>4
  <2> QED  BY <2>1, <2>2
<1>7. VariantsCreatedOnce'
  <2> SUFFICES ASSUME NEW p \in Requests, NEW q \in Requests, work'[p].op = "variant",
                      work'[q].op = "variant", work'[p].variant = work'[q].variant,
                      stock'[work'[p].variant] = Nobody
               PROVE  p = q
    BY DEF VariantsCreatedOnce
  <2>1. p # r /\ q # r  BY <1>1 DEF Idle
  <2>2. work'[p] = work[p] /\ work'[q] = work[q]  BY <1>1, <2>1
  <2>3. work[p].variant \in Variants  BY <2>2, CatalogShapes DEF CatalogReadsInv
  <2>4. stock[work[p].variant] = Nobody  BY <2>2, <2>3
  <2> QED  BY <2>2, <2>4 DEF CatalogReadsInv, VariantsCreatedOnce
<1>8. ~overlap => Alone' /\ SerialReads'
  BY <1>1 DEF CatalogReadsInv, SerialReads, Idle
<1> QED  BY <1>1, <1>6, <1>7, <1>8 DEF CatalogReadsInv

LEMMA CatalogReaders ==
  ASSUME CatalogRowsInv, CatalogReadsInv, NEW r \in Requests,
         \/ \E p \in Products, s \in Sellers, c \in Categories \union {Nobody} :
              ProductCreateBegin(r, p, s, c) \/ ProductUpdateBegin(r, p, s, c)
         \/ \E p \in Products :
              \/ ProductSubmitBegin(r, p) \/ SyncBegin(r, p)
              \/ \E verdict \in {"approve", "reject", "archive"} : ProductModerationBegin(r, p, verdict)
         \/ \E v \in Variants, q \in Stocks :
              VariantUpdateBegin(r, v, q) \/ \E p \in Products : VariantCreateBegin(r, p, v, q)
         \/ \E c \in Categories, above \in Categories \union {Nobody} :
              CategoryCreateBegin(r, c, above) \/ CategoryUpdateBegin(r, c, above)
  PROVE  CatalogRowsInv' /\ CatalogReadsInv'
<1> DEFINE Goal == CatalogRowsInv' /\ CatalogReadsInv'
<1>0. \A p \in Created : p \in Products /\ product[p] \in ProductRow /\ product[p] # Nobody
  BY DEF Created, CatalogRowsInv, CatalogTypes
<1>w. ASSUME NEW p \in Products, NEW row \in ProductRow,
             Mutation(r, [op |-> "write", product |-> p, row |-> row]),
             row.category \in Known \union {Nobody}, row.seller = Nobody \/ sellerApproved,
             product[p] = Nobody => row = Draft(row.seller, row.category)
      PROVE  Goal
  <2> DEFINE read == [op |-> "write", product |-> p, row |-> row]
  <2>1. read \in CatalogWork  BY DEF CatalogWork
  <2>2. read.op = "write" /\ read.row = row /\ read.product = p  OBVIOUS
  <2>3. Mutation(r, read)  BY <1>w
  <2> HIDE DEF read, Goal
  <2>4. /\ read.row.category \in Known \union {Nobody} \union cleaned
        /\ product[read.product] = Nobody => read.row = Draft(read.row.seller, read.row.category)
        /\ read.row.seller = Nobody \/ sellerApproved
    BY <1>w, <2>2
  <2>5. Goal  BY <2>1, <2>2, <2>3, <2>4, CatalogBegins DEF Goal
  <2> QED  BY <2>5
<1>1. ASSUME NEW p \in Products, NEW s \in Sellers, NEW c \in Categories \union {Nobody},
             ProductCreateBegin(r, p, s, c)
      PROVE  Goal
  <2> DEFINE row == Draft(s, c)
  <2>1. row \in ProductRow /\ row.seller = s /\ row.category = c  BY DraftRow
  <2>2. /\ Mutation(r, [op |-> "write", product |-> p, row |-> row])
        /\ s = Nobody \/ sellerApproved
        /\ c \in Known \union {Nobody}
    BY <1>1 DEF ProductCreateBegin, SellerAcceptable, CategoryAcceptable
  <2>3. row = Draft(row.seller, row.category)  BY <2>1
  <2> HIDE DEF row, Goal
  <2> QED  BY <1>w, <2>1, <2>2, <2>3
<1>2. ASSUME NEW p \in Products, NEW s \in Sellers, NEW c \in Categories \union {Nobody},
             ProductUpdateBegin(r, p, s, c)
      PROVE  Goal
  <2> DEFINE old == product[p]
             row == [old EXCEPT !.seller = s, !.category = c]
  <2>1. /\ Mutation(r, [op |-> "write", product |-> p, row |-> row])
        /\ s = Nobody \/ sellerApproved
        /\ c \in Known \union {Nobody} /\ p \in Created
    BY <1>2 DEF ProductUpdateBegin, SellerAcceptable, CategoryAcceptable
  <2>2. old \in ProductRow /\ product[p] # Nobody  BY <1>0, <2>1
  <2> HIDE DEF old
  <2> DEFINE sold == [old EXCEPT !.seller = s]
  <2>3. row = [sold EXCEPT !.category = c]  OBVIOUS
  <2>4. sold \in ProductRow /\ sold.seller = s  BY <2>2 DEF ProductRow
  <2> HIDE DEF row, sold, Goal
  <2>5. row \in ProductRow /\ row.seller = s /\ row.category = c  BY <2>3, <2>4 DEF ProductRow
  <2> QED  BY <1>w, <2>1, <2>2, <2>5
<1>3. ASSUME NEW p \in Products, NEW op \in {"submit", "approve", "reject", "archive", "health"},
             p \in Created, Mutation(r, [op |-> op, product |-> p])
      PROVE  Goal
  <2> DEFINE read == [op |-> op, product |-> p]
  <2>1. read \in CatalogWork /\ read.op = op /\ read.product = p  BY DEF CatalogWork
  <2>2. Mutation(r, read)  BY <1>3
  <2> HIDE DEF read
  <2> QED  BY <1>3, <2>1, <2>2, CatalogBegins
<1>4. ASSUME NEW v \in Variants, NEW n \in Stocks, VariantUpdateBegin(r, v, n)
      PROVE  Goal
  <2> DEFINE row == [stock[v] EXCEPT ![2] = n]
             read == [op |-> "variant", variant |-> v, stock |-> row]
  <2>1. Mutation(r, read) /\ stock[v] # Nobody  BY <1>4 DEF VariantUpdateBegin
  <2>2. stock[v] \in Products \X Stocks  BY <2>1 DEF CatalogRowsInv, CatalogTypes
  <2>3. row \in Products \X Stocks /\ row[1] = stock[v][1]  BY <2>2
  <2> HIDE DEF row
  <2>4. read \in CatalogWork  BY <2>3 DEF CatalogWork
  <2>5. read.op = "variant" /\ read.variant = v /\ read.stock = row  OBVIOUS
  <2> HIDE DEF read
  <2> QED  BY <2>1, <2>3, <2>4, <2>5, CatalogBegins
<1>5. ASSUME NEW v \in Variants, NEW n \in Stocks, NEW p \in Products, VariantCreateBegin(r, p, v, n)
      PROVE  Goal
  <2> DEFINE read == [op |-> "variant", variant |-> v, stock |-> <<p, n>>]
  <2>1. /\ Mutation(r, read) /\ stock[v] = Nobody
        /\ \A q \in Requests : work[q].op = "variant" => work[q].variant # v
    BY <1>5 DEF VariantCreateBegin
  <2>2. read \in CatalogWork  BY DEF CatalogWork
  <2>3. read.op = "variant" /\ read.variant = v  OBVIOUS
  <2> HIDE DEF read
  <2> QED  BY <2>1, <2>2, <2>3, CatalogBegins
<1>6. ASSUME NEW c \in Categories, NEW above \in Categories \union {Nobody},
             CategoryCreateBegin(r, c, above)
      PROVE  Goal
  <2> DEFINE read == [op |-> "category", category |-> c, above |-> above,
                      new |-> TRUE, moved |-> FALSE]
  <2>1. Mutation(r, read) /\ c \notin Known /\ above \in Known \union {Nobody}
    BY <1>6 DEF CategoryCreateBegin, CategoryAcceptable
  <2>2. read \in CatalogWork  BY DEF CatalogWork
  <2>3. read.op = "category" /\ read.category = c /\ read.above = above /\ read.new  OBVIOUS
  <2>4. above # c  BY <2>1, RowsAreNot
  <2> HIDE DEF read
  <2> QED  BY <2>1, <2>2, <2>3, <2>4, CatalogBegins
<1>7. ASSUME NEW c \in Categories, NEW above \in Categories \union {Nobody},
             CategoryUpdateBegin(r, c, above)
      PROVE  Goal
  <2> DEFINE moved == above # parent[c] /\ Children(c) # {}
             read == [op |-> "category", category |-> c, above |-> above,
                      new |-> FALSE, moved |-> moved]
  <2>1. Mutation(r, read) /\ above # c  BY <1>7 DEF CategoryUpdateBegin
  <2>2. moved \in BOOLEAN /\ (moved \/ above = parent[c] \/ Children(c) = {})  OBVIOUS
  <2> HIDE DEF moved
  <2>3. read \in CatalogWork  BY <2>2 DEF CatalogWork
  <2>4. read.op = "category" /\ read.category = c /\ read.above = above /\ read.moved = moved
    OBVIOUS
  <2> HIDE DEF read
  <2> QED  BY <2>1, <2>2, <2>3, <2>4, CatalogBegins
<1> HIDE DEF Goal
<1>8. Goal
  BY <1>1, <1>2, <1>3, <1>4, <1>5, <1>6, <1>7 DEF ProductSubmitBegin, SyncBegin, ProductModerationBegin
<1> QED  BY <1>8 DEF Goal

(* A product is written; what it says of itself is one story again. *)
LEMMA ProductWritten ==
  ASSUME CatalogRowsInv, CatalogReadsInv, NEW r \in Requests, Ends(r), work[r] # Idle,
         NEW p \in Products, NEW row \in ProductRow, product' = [product EXCEPT ![p] = row],
         UNCHANGED <<stock, parent, syncJobs, catalogRest>>,
         row.moderation = "approved" => row.status \in {"active", "archived"},
         row.moderation = "rejected" => row.status \in {"inactive", "archived"},
         row.reason <=> row.moderation = "rejected",
         row.sync = "queued" <=> p \in Created /\ product[p].sync = "queued",
         row.category \in Known \union {Nobody} \union cleaned
  PROVE  CatalogRowsInv' /\ CatalogReadsInv'
<1>1. /\ stock' = stock /\ parent' = parent /\ syncJobs' = syncJobs /\ cleaned' = cleaned
      /\ subtreesMoved' = subtreesMoved
  BY DEF catalogRest
<1>2. overlap' = overlap  BY DEF Ends
<1>3. /\ product' \in [Products -> ProductRow \union {Nobody}]
      /\ product'[p] = row /\ \A q \in Products : q # p => product'[q] = product[q]
  BY DEF CatalogRowsInv, CatalogTypes
<1>4. row # Nobody  BY RowsAreNot
<1>5. Created' = Created \union {p}  BY <1>3, <1>4 DEF Created
<1>6. \A q \in Created : product'[q] # Nobody  BY <1>3, <1>4 DEF Created
<1>7. JobsOfProducts'  BY <1>1, <1>5 DEF CatalogRowsInv, JobsOfProducts
<1>8. row.sync = "queued" <=> \E j \in syncJobs : j.product = p
  BY DEF CatalogRowsInv, JobsOfProducts, ProductTellsTruth
<1>9. ProductTellsTruth'
  <2> SUFFICES ASSUME NEW q \in Created'
               PROVE  /\ product'[q].moderation = "approved" => product'[q].status \in {"active", "archived"}
                      /\ product'[q].moderation = "rejected" => product'[q].status \in {"inactive", "archived"}
                      /\ product'[q].reason <=> product'[q].moderation = "rejected"
                      /\ product'[q].sync = "queued" <=> \E j \in syncJobs' : j.product = q
    BY <1>1 DEF ProductTellsTruth, CatalogRowsInv
  <2>1. CASE q = p  BY <1>1, <1>3, <1>8, <2>1
  <2>2. CASE q # p
    <3> DEFINE old == product[q]
    <3>1. product'[q] = old /\ q \in Created  BY <1>3, <1>5, <2>2 DEF Created
    <3>2. /\ old.moderation = "approved" => old.status \in {"active", "archived"}
          /\ old.moderation = "rejected" => old.status \in {"inactive", "archived"}
          /\ old.reason <=> old.moderation = "rejected"
          /\ old.sync = "queued" <=> \E j \in syncJobs : j.product = q
      BY <3>1, Zenon DEF CatalogRowsInv, ProductTellsTruth
    <3> HIDE DEF old
    <3> QED  BY <1>1, <3>1, <3>2
  <2> QED  BY <2>1, <2>2
<1>10. CategoriesHoldTogether'
  <2>1. Known' = Known /\ (Forest => Forest')  BY <1>1 DEF Known, Forest
  <2>2. \A q \in Created' : product'[q].category \in Known' \union {Nobody} \union cleaned'
    BY <1>1, <1>3, <1>5, <2>1 DEF Created, CatalogRowsInv, CategoriesHoldTogether
  <2> QED  BY <1>1, <1>2, <2>1, <2>2 DEF CatalogRowsInv, CategoriesHoldTogether
<1>11. CatalogRowsInv'
  BY <1>1, <1>3, <1>7, <1>9, <1>10 DEF CatalogRowsInv, CatalogTypes
<1>12. Known \subseteq Known'  BY <1>1 DEF Known
<1>13. CatalogReadsInv'
  BY <1>1, <1>3, <1>6, <1>12, CatalogEnds DEF CatalogRowsInv
<1> QED  BY <1>11, <1>13

(* INSERT or UPDATE of a product, and the four steps of its moderation. *)
LEMMA ProductWriters ==
  ASSUME CatalogRowsInv, CatalogReadsInv, NEW r \in Requests,
         \/ ProductWrite(r)
         \/ ProductSubmit(r) \/ ProductApprove(r) \/ ProductReject(r) \/ ProductArchive(r)
  PROVE  CatalogRowsInv' /\ CatalogReadsInv'
<1> DEFINE Goal == CatalogRowsInv' /\ CatalogReadsInv'
           p == work[r].product
           old == product[p]
<1>0. ASSUME p \in Created
      PROVE  /\ p \in Products /\ old \in ProductRow /\ old # Nobody
             /\ old.moderation = "approved" => old.status \in {"active", "archived"}
             /\ old.moderation = "rejected" => old.status \in {"inactive", "archived"}
             /\ old.reason <=> old.moderation = "rejected"
             /\ old.category \in Known \union {Nobody} \union cleaned
  <2>1. p \in Products /\ old \in ProductRow /\ old # Nobody
    BY <1>0 DEF Created, CatalogRowsInv, CatalogTypes
  <2>2. /\ old.moderation = "approved" => old.status \in {"active", "archived"}
        /\ old.moderation = "rejected" => old.status \in {"inactive", "archived"}
        /\ old.reason <=> old.moderation = "rejected"
    BY <1>0, Zenon DEF CatalogRowsInv, ProductTellsTruth
  <2>3. old.category \in Known \union {Nobody} \union cleaned
    BY <1>0 DEF CatalogRowsInv, CategoriesHoldTogether
  <2> QED  BY <2>1, <2>2, <2>3
<1>1. ASSUME work[r].op = "write", NEW row \in ProductRow, product' = [product EXCEPT ![p] = row],
             Ends(r), UNCHANGED <<stock, parent, syncJobs, catalogRest>>,
             row.category \in Known \union {Nobody} \union cleaned,
             p \notin Created => row = Draft(row.seller, row.category),
             p \in Created => /\ row.status = old.status /\ row.moderation = old.moderation
                              /\ row.reason = old.reason /\ row.sync = old.sync
      PROVE  Goal
  <2>1. p \in Products /\ work[r] # Idle
    BY <1>1, CatalogShapes, BusyRow DEF CatalogReadsInv
  <2>2. /\ row.moderation = "approved" => row.status \in {"active", "archived"}
        /\ row.moderation = "rejected" => row.status \in {"inactive", "archived"}
        /\ row.reason <=> row.moderation = "rejected"
        /\ row.sync = "queued" <=> p \in Created /\ product[p].sync = "queued"
    <3>1. CASE p \in Created  BY <1>0, <1>1, <3>1
    <3>2. CASE p \notin Created
      <4>1. /\ row.moderation = "pending_review" /\ row.reason = FALSE
            /\ row.sync = "not_synced"
        BY <1>1, <3>2 DEF Draft
      <4> QED  BY <4>1, <3>2
    <3> QED  BY <3>1, <3>2
  <2> HIDE DEF p, old, Goal
  <2>3. Goal  BY <1>1, <2>1, <2>2, ProductWritten DEF Goal, old
  <2> QED  BY <2>3
<1>2. ASSUME ProductWrite(r)  PROVE Goal
  <2> DEFINE read == work[r].row
  <2>1. /\ work[r].op = "write" /\ Ends(r)
        /\ product' = [product EXCEPT ![p] =
             IF @ = Nobody THEN read ELSE [@ EXCEPT !.seller = read.seller, !.category = read.category]]
        /\ UNCHANGED <<stock, parent, syncJobs, catalogRest>>
    BY <1>2 DEF ProductWrite
  <2>2. p \in Products /\ read \in ProductRow  BY <2>1, CatalogShapes DEF CatalogReadsInv
  <2>3. /\ read.category \in Known \union {Nobody} \union cleaned
        /\ old = Nobody => read = Draft(read.seller, read.category)
    BY <2>1 DEF CatalogReadsInv, ReadsHold
  <2>4. CASE old = Nobody
    <3>1. p \notin Created  BY <2>4 DEF Created
    <3>2. product' = [product EXCEPT ![p] = read]  BY <2>1, <2>4
    <3> HIDE DEF p, old, read, Goal
    <3> QED  BY <1>1, <2>1, <2>2, <2>3, <2>4, <3>1, <3>2
  <2>5. CASE old # Nobody
    <3>1. p \in Created  BY <2>2, <2>5 DEF Created
    <3>2. old \in ProductRow  BY <1>0, <3>1
    <3> DEFINE sold == [old EXCEPT !.seller = read.seller]
               row == [sold EXCEPT !.category = read.category]
    <3>3. product' = [product EXCEPT ![p] = row]
      <4>1. row = [old EXCEPT !.seller = read.seller, !.category = read.category]  OBVIOUS
      <4>2. product' = [product EXCEPT ![p] =
                          [old EXCEPT !.seller = read.seller, !.category = read.category]]
        BY <2>1, <2>5
      <4> HIDE DEF row, sold, old
      <4> QED  BY <4>1, <4>2, Zenon
    <3> HIDE DEF old
    <3>a. read.seller \in Sellers /\ read.category \in Categories \union {Nobody}
      BY <2>2 DEF ProductRow
    <3>4. /\ sold \in ProductRow /\ sold.status = old.status /\ sold.moderation = old.moderation
          /\ sold.reason = old.reason /\ sold.sync = old.sync
      BY <3>2, <3>a DEF ProductRow
    <3> HIDE DEF sold
    <3>5. /\ row \in ProductRow /\ row.status = sold.status /\ row.moderation = sold.moderation
          /\ row.reason = sold.reason /\ row.sync = sold.sync /\ row.category = read.category
      BY <3>4, <3>a DEF ProductRow
    <3> HIDE DEF row, p, read, Goal
    <3> QED  BY <1>1, <2>1, <2>3, <3>1, <3>3, <3>4, <3>5
  <2> QED  BY <2>4, <2>5
(* A moderation step writes the row it finds. *)
<1>3. ASSUME work[r].op \in {"submit", "approve", "reject", "archive"},
             NEW row \in ProductRow, product' = [product EXCEPT ![p] = row], Ends(r),
             UNCHANGED <<stock, parent, syncJobs, catalogRest>>,
             row.moderation = "approved" => row.status \in {"active", "archived"},
             row.moderation = "rejected" => row.status \in {"inactive", "archived"},
             row.reason <=> row.moderation = "rejected",
             row.sync = old.sync, row.category = old.category
      PROVE  Goal
  <2>1. p \in Created /\ work[r] # Idle
    BY <1>3, BusyRow DEF CatalogReadsInv, ReadsHold
  <2>2. p \in Products /\ row.category \in Known \union {Nobody} \union cleaned
    BY <1>0, <1>3, <2>1
  <2> HIDE DEF p, Goal
  <2>3. row.sync = "queued" <=> p \in Created /\ product[p].sync = "queued"
    BY <1>3, <2>1
  <2> HIDE DEF old
  <2>4. Goal  BY <1>3, <2>1, <2>2, <2>3, ProductWritten DEF Goal
  <2> QED  BY <2>4
<1>4. ASSUME NEW op \in {"submit", "approve", "reject", "archive"}, NEW row,
             ProductModerated(r, op, row)
      PROVE  /\ work[r].op = op /\ product' = [product EXCEPT ![p] = row] /\ Ends(r)
             /\ UNCHANGED <<stock, parent, syncJobs, catalogRest>>
             /\ p \in Created
  BY <1>4 DEF ProductModerated, CatalogReadsInv, ReadsHold
<1>5. ASSUME ProductSubmit(r)  PROVE Goal
  <2> DEFINE judged == [old EXCEPT !.moderation = "pending_review"]
             row == [judged EXCEPT !.reason = FALSE]
  <2>0. row = [old EXCEPT !.moderation = "pending_review", !.reason = FALSE]  OBVIOUS
  <2>1. ProductModerated(r, "submit", row)
    BY <1>5, <2>0 DEF ProductSubmit, Moderated
  <2> HIDE DEF row
  <2>2. /\ work[r].op = "submit" /\ product' = [product EXCEPT ![p] = row] /\ Ends(r)
        /\ UNCHANGED <<stock, parent, syncJobs, catalogRest>> /\ p \in Created
    BY <1>4, <2>1
  <2>3. old \in ProductRow  BY <1>0, <2>2
  <2> HIDE DEF old, p, Goal
  <2>4. /\ judged \in ProductRow /\ judged.moderation = "pending_review"
        /\ judged.sync = old.sync /\ judged.category = old.category
    BY <2>3 DEF ProductRow
  <2> HIDE DEF judged
  <2>5. /\ row \in ProductRow /\ row.moderation = judged.moderation /\ row.reason = FALSE
        /\ row.sync = judged.sync /\ row.category = judged.category
    BY <2>4 DEF ProductRow, row
  <2> QED  BY <1>3, <2>2, <2>4, <2>5
<1>6. ASSUME ProductApprove(r)  PROVE Goal
  <2> DEFINE sold == [old EXCEPT !.status = "active"]
             judged == [sold EXCEPT !.moderation = "approved"]
             row == [judged EXCEPT !.reason = FALSE]
  <2>0. row = [old EXCEPT !.status = "active", !.moderation = "approved", !.reason = FALSE]
    OBVIOUS
  <2>1. ProductModerated(r, "approve", row)
    BY <1>6, <2>0 DEF ProductApprove, Moderated
  <2> HIDE DEF row
  <2>2. /\ work[r].op = "approve" /\ product' = [product EXCEPT ![p] = row] /\ Ends(r)
        /\ UNCHANGED <<stock, parent, syncJobs, catalogRest>> /\ p \in Created
    BY <1>4, <2>1
  <2>3. old \in ProductRow  BY <1>0, <2>2
  <2> HIDE DEF old, p, Goal
  <2>4. /\ sold \in ProductRow /\ sold.status = "active"
        /\ sold.sync = old.sync /\ sold.category = old.category
    BY <2>3 DEF ProductRow
  <2> HIDE DEF sold
  <2>5. /\ judged \in ProductRow /\ judged.moderation = "approved" /\ judged.status = "active"
        /\ judged.sync = sold.sync /\ judged.category = sold.category
    BY <2>4 DEF ProductRow
  <2> HIDE DEF judged
  <2>6. /\ row \in ProductRow /\ row.moderation = "approved" /\ row.status = "active"
        /\ row.reason = FALSE /\ row.sync = judged.sync /\ row.category = judged.category
    BY <2>5 DEF ProductRow, row
  <2> QED  BY <1>3, <2>2, <2>4, <2>5, <2>6
<1>7. ASSUME ProductReject(r)  PROVE Goal
  <2> DEFINE sold == [old EXCEPT !.status = "inactive"]
             judged == [sold EXCEPT !.moderation = "rejected"]
             row == [judged EXCEPT !.reason = TRUE]
  <2>0. row = [old EXCEPT !.status = "inactive", !.moderation = "rejected", !.reason = TRUE]
    OBVIOUS
  <2>1. ProductModerated(r, "reject", row)
    BY <1>7, <2>0 DEF ProductReject, Moderated
  <2> HIDE DEF row
  <2>2. /\ work[r].op = "reject" /\ product' = [product EXCEPT ![p] = row] /\ Ends(r)
        /\ UNCHANGED <<stock, parent, syncJobs, catalogRest>> /\ p \in Created
    BY <1>4, <2>1
  <2>3. old \in ProductRow  BY <1>0, <2>2
  <2> HIDE DEF old, p, Goal
  <2>4. /\ sold \in ProductRow /\ sold.status = "inactive"
        /\ sold.sync = old.sync /\ sold.category = old.category
    BY <2>3 DEF ProductRow
  <2> HIDE DEF sold
  <2>5. /\ judged \in ProductRow /\ judged.moderation = "rejected" /\ judged.status = "inactive"
        /\ judged.sync = sold.sync /\ judged.category = sold.category
    BY <2>4 DEF ProductRow
  <2> HIDE DEF judged
  <2>6. /\ row \in ProductRow /\ row.moderation = "rejected" /\ row.status = "inactive"
        /\ row.reason = TRUE /\ row.sync = judged.sync /\ row.category = judged.category
    BY <2>5 DEF ProductRow, row
  <2> QED  BY <1>3, <2>2, <2>4, <2>5, <2>6
<1>8. ASSUME ProductArchive(r)  PROVE Goal
  <2> DEFINE row == [old EXCEPT !.status = "archived"]
  <2>1. ProductModerated(r, "archive", row)
    BY <1>8 DEF ProductArchive, Moderated
  <2> HIDE DEF row
  <2>2. /\ work[r].op = "archive" /\ product' = [product EXCEPT ![p] = row] /\ Ends(r)
        /\ UNCHANGED <<stock, parent, syncJobs, catalogRest>> /\ p \in Created
    BY <1>4, <2>1
  <2>3. old \in ProductRow /\ (old.reason <=> old.moderation = "rejected")  BY <1>0, <2>2
  <2> HIDE DEF old, p, Goal
  <2>4. /\ row \in ProductRow /\ row.moderation = old.moderation /\ row.status = "archived"
        /\ row.reason = old.reason /\ row.sync = old.sync /\ row.category = old.category
    BY <2>3 DEF ProductRow, row
  <2> QED  BY <1>3, <2>2, <2>3, <2>4
<1> HIDE DEF Goal
<1>9. Goal  BY <1>2, <1>5, <1>6, <1>7, <1>8
<1> QED  BY <1>9 DEF Goal

(* A request that goes on after a read of the synchronisation. *)
LEMMA CatalogGoesOn ==
  ASSUME CatalogRowsInv, CatalogReadsInv, NEW r \in Requests, NEW read \in CatalogWork,
         GoesOn(r, read), UNCHANGED <<catalogRows, catalogRest>>, work[r] # Idle,
         read.op \in {"variants", "snapshot"}, read.product \in Created,
         \A p \in Products : read.op = "variants" /\ read.product = p =>
           read.announced <= Cardinality(VariantsOf(p)),
         read.op = "snapshot" => read.announced <= Cardinality(read.carried)
  PROVE  CatalogRowsInv' /\ CatalogReadsInv'
<1>1. /\ product' = product /\ stock' = stock /\ parent' = parent /\ syncJobs' = syncJobs
      /\ catalogOn' = catalogOn /\ sellerApproved' = sellerApproved
      /\ subtreesMoved' = subtreesMoved /\ cleaned' = cleaned
  BY DEF catalogRows, catalogRest
<1>2. /\ work' \in [Requests -> CatalogWork] /\ overlap' = overlap
      /\ work'[r] = read /\ \A q \in Requests : q # r => work'[q] = work[q]
  BY WorkGoesOn DEF CatalogReadsInv
<1>3. CatalogRowsInv'  BY <1>1, <1>2, CatalogRowsKept
<1>4. Known' = Known /\ Created' = Created /\ \A p \in Products : VariantsOf(p)' = VariantsOf(p)
  BY <1>1 DEF Known, Created, VariantsOf
<1>5. ReadsHold'
  <2> SUFFICES ASSUME NEW q \in Requests
               PROVE  /\ work'[q].op = "write" =>
                           /\ work'[q].row.category \in Known' \union {Nobody} \union cleaned'
                           /\ product'[work'[q].product] = Nobody =>
                                work'[q].row = Draft(work'[q].row.seller, work'[q].row.category)
                      /\ work'[q].op \in {"submit", "approve", "reject", "archive", "health",
                                          "variants", "snapshot"} => work'[q].product \in Created'
                      /\ work'[q].op = "variant" /\ stock'[work'[q].variant] # Nobody =>
                           stock'[work'[q].variant][1] = work'[q].stock[1]
                      /\ \A p \in Products : work'[q].op = "variants" /\ work'[q].product = p =>
                           work'[q].announced <= Cardinality(VariantsOf(p)')
                      /\ work'[q].op = "snapshot" =>
                           work'[q].announced <= Cardinality(work'[q].carried)
                      /\ work'[q].op = "category" => work'[q].above # work'[q].category
    BY DEF ReadsHold, Draft
  <2>1. CASE q = r  BY <1>1, <1>2, <1>4, <2>1
  <2>2. CASE q # r
    <3> DEFINE w == work[q]
    <3>0. work'[q] = w  BY <1>2, <2>2
    <3>1. /\ w.op = "write" =>
               /\ w.row.category \in Known \union {Nobody} \union cleaned
               /\ product[w.product] = Nobody => w.row = Draft(w.row.seller, w.row.category)
          /\ w.op \in {"submit", "approve", "reject", "archive", "health", "variants", "snapshot"} =>
               w.product \in Created
          /\ w.op = "variant" /\ stock[w.variant] # Nobody => stock[w.variant][1] = w.stock[1]
          /\ \A p \in Products : w.op = "variants" /\ w.product = p =>
               w.announced <= Cardinality(VariantsOf(p))
          /\ w.op = "snapshot" => w.announced <= Cardinality(w.carried)
          /\ w.op = "category" => w.above # w.category
      BY DEF CatalogReadsInv, ReadsHold
    <3> HIDE DEF w
    <3> QED  BY <1>1, <1>4, <3>0, <3>1
  <2> QED  BY <2>1, <2>2
<1>6. VariantsCreatedOnce'
  BY <1>1, <1>2 DEF VariantsCreatedOnce, CatalogReadsInv
<1>7. ASSUME ~overlap  PROVE Alone' /\ SerialReads'
  <2>1. \A q \in Requests : q # r => work'[q] = Idle
    BY <1>2, <1>7 DEF CatalogReadsInv, Alone
  <2>2. Alone'  BY <2>1 DEF Alone
  <2>3. \A q \in Requests : work'[q].op \notin {"write", "category"}  BY <1>2, <2>1 DEF Idle
  <2>4. catalogOn'  BY <1>1, <1>7 DEF CatalogReadsInv, SerialReads
  <2> QED  BY <2>2, <2>3, <2>4 DEF SerialReads
<1>8. CatalogReadsInv'  BY <1>2, <1>5, <1>6, <1>7 DEF CatalogReadsInv
<1> QED  BY <1>3, <1>8

(* A step between requests: what they rest on still stands. *)
LEMMA CatalogStands ==
  ASSUME CatalogReadsInv, NEW r \in Requests, AtOnce(r), product' = product, stock' = stock,
         Known \union cleaned \subseteq Known' \union cleaned'
  PROVE  CatalogReadsInv'
<1>1. work' = work /\ overlap' = overlap /\ (~overlap => \A q \in Requests : work[q] = Idle)
  BY DEF AtOnce, Free
<1>2. Created' = Created /\ \A p \in Products : VariantsOf(p)' = VariantsOf(p)
  BY DEF Created, VariantsOf
<1>3. ReadsHold'  BY <1>1, <1>2 DEF ReadsHold, CatalogReadsInv, Draft
<1>4. VariantsCreatedOnce'  BY <1>1 DEF VariantsCreatedOnce, CatalogReadsInv
<1>5. ~overlap => Alone' /\ SerialReads'  BY <1>1 DEF Alone, SerialReads, Idle
<1> QED  BY <1>1, <1>3, <1>4, <1>5 DEF CatalogReadsInv

LEMMA VariantWriter ==
  ASSUME CatalogRowsInv, CatalogReadsInv, NEW r \in Requests, VariantWrite(r)
  PROVE  CatalogRowsInv' /\ CatalogReadsInv'
<1> DEFINE v == work[r].variant
           s == work[r].stock
<1>1. /\ work[r].op = "variant" /\ stock' = [stock EXCEPT ![v] = s] /\ Ends(r)
      /\ product' = product /\ parent' = parent /\ syncJobs' = syncJobs
      /\ cleaned' = cleaned /\ subtreesMoved' = subtreesMoved
  BY DEF VariantWrite, catalogRest
<1>2. v \in Variants /\ s \in Products \X Stocks /\ work[r] # Idle
  BY <1>1, CatalogShapes, BusyRow DEF CatalogReadsInv
<1>3. stock[v] # Nobody => stock[v][1] = s[1]  BY <1>1 DEF CatalogReadsInv, ReadsHold
<1>4. s # Nobody  BY <1>2, RowsAreNot
<1>5. overlap' = overlap  BY <1>1 DEF Ends
<1> HIDE DEF s
<1>6. /\ stock' \in [Variants -> (Products \X Stocks) \union {Nobody}]
      /\ stock'[v] = s /\ \A u \in Variants : u # v => stock'[u] = stock[u]
  BY <1>1, <1>2 DEF CatalogRowsInv, CatalogTypes
<1>7. Created' = Created /\ Known' = Known /\ (Forest => Forest')
  BY <1>1 DEF Created, Known, Forest
<1>8. ProductTellsTruth'  BY <1>1, <1>7 DEF ProductTellsTruth, CatalogRowsInv
<1>9. CategoriesHoldTogether'
  BY <1>1, <1>5, <1>7 DEF CategoriesHoldTogether, CatalogRowsInv
<1>10. CatalogRowsInv'
  BY <1>1, <1>6, <1>7, <1>8, <1>9 DEF CatalogRowsInv, CatalogTypes, JobsOfProducts
<1>11. \A u \in Variants : stock[u] # Nobody => stock'[u] # Nobody /\ stock'[u][1] = stock[u][1]
  BY <1>3, <1>4, <1>6
<1>12. \A u \in Variants : stock[u] = Nobody /\ stock'[u] # Nobody =>
         work[r].op = "variant" /\ work[r].variant = u
  BY <1>1, <1>6
<1>13. \A p \in Created : product'[p] # Nobody  BY <1>1 DEF Created
<1>14. CatalogTypes /\ product' \in [Products -> ProductRow \union {Nobody}]
  BY <1>1 DEF CatalogRowsInv, CatalogTypes
<1> HIDE DEF v
<1>15. CatalogReadsInv'
  BY <1>1, <1>2, <1>7, <1>11, <1>12, <1>13, <1>14, CatalogEnds
<1> QED  BY <1>10, <1>15

(* The snapshot becomes a job, and its product says so. *)
LEMMA SyncSteps ==
  ASSUME CatalogRowsInv, CatalogReadsInv, NEW r \in Requests,
         SyncReadsProduct(r) \/ SyncReadsVariants(r) \/ SyncQueued(r)
  PROVE  CatalogRowsInv' /\ CatalogReadsInv'
<1> DEFINE Goal == CatalogRowsInv' /\ CatalogReadsInv'
           p == work[r].product
<1>0. \A q \in Products : /\ VariantsOf(q) \in SUBSET Variants
                          /\ Cardinality(VariantsOf(q)) \in Nat
  <2>1. \A q \in Products : VariantsOf(q) \in SUBSET Variants  BY DEF VariantsOf
  <2> QED  BY <2>1, CatalogAssumption, FS_Subset, FS_CardinalityType
<1>1. ASSUME SyncReadsProduct(r)  PROVE Goal
  <2> DEFINE read == [op |-> "variants", product |-> p, announced |-> Cardinality(VariantsOf(p))]
  <2>1. work[r].op = "health" /\ GoesOn(r, read) /\ UNCHANGED <<catalogRows, catalogRest>>
    BY <1>1 DEF SyncReadsProduct
  <2>2. p \in Created /\ p \in Products /\ work[r] # Idle
    BY <2>1, BusyRow DEF CatalogReadsInv, ReadsHold, Created
  <2>3. read \in CatalogWork  BY <1>0, <2>2 DEF CatalogWork
  <2>4. /\ read.op = "variants" /\ read.product = p
        /\ read.announced = Cardinality(VariantsOf(p)) /\ read.announced <= read.announced
    BY <1>0, <2>2
  <2>5. \A q \in Products : read.op = "variants" /\ read.product = q =>
          read.announced <= Cardinality(VariantsOf(q))
    BY <2>4
  <2> HIDE DEF read, p, Goal
  <2>6. Goal  BY <2>1, <2>2, <2>3, <2>4, <2>5, CatalogGoesOn DEF Goal
  <2> QED  BY <2>6
<1>2. ASSUME SyncReadsVariants(r)  PROVE Goal
  <2> DEFINE read == [op |-> "snapshot", product |-> p, announced |-> work[r].announced,
                      carried |-> VariantsOf(p)]
  <2>1. work[r].op = "variants" /\ GoesOn(r, read) /\ UNCHANGED <<catalogRows, catalogRest>>
    BY <1>2 DEF SyncReadsVariants
  <2>2. p \in Created /\ p \in Products /\ work[r] # Idle /\ work[r].announced \in Nat
    BY <2>1, BusyRow, CatalogShapes DEF CatalogReadsInv, ReadsHold, Created
  <2>3. work[r].announced <= Cardinality(VariantsOf(p))
    BY <2>1, <2>2 DEF CatalogReadsInv, ReadsHold
  <2>4. read \in CatalogWork  BY <1>0, <2>2 DEF CatalogWork
  <2>5. /\ read.op = "snapshot" /\ read.product = p
        /\ read.announced <= Cardinality(read.carried)
    BY <2>3
  <2> HIDE DEF read, p, Goal
  <2>6. Goal  BY <2>1, <2>2, <2>4, <2>5, CatalogGoesOn DEF Goal
  <2> QED  BY <2>6
<1>3. ASSUME SyncQueued(r)  PROVE Goal
  <2> DEFINE old == product[p]
             row == [old EXCEPT !.sync = "queued"]
             job == [job |-> Cardinality(syncJobs), product |-> p,
                     announced |-> work[r].announced, carried |-> work[r].carried]
  <2>1. /\ work[r].op = "snapshot" /\ syncJobs' = syncJobs \union {job} /\ Ends(r)
        /\ product' = [product EXCEPT ![p] = row]
        /\ stock' = stock /\ parent' = parent /\ cleaned' = cleaned
        /\ subtreesMoved' = subtreesMoved
    BY <1>3 DEF SyncQueued, Queued, catalogRest
  <2>2. p \in Created /\ p \in Products /\ work[r] # Idle
    BY <2>1, BusyRow DEF CatalogReadsInv, ReadsHold, Created
  <2>3. old \in ProductRow /\ old # Nobody
    BY <2>2 DEF Created, CatalogRowsInv, CatalogTypes
  <2>4. /\ old.moderation = "approved" => old.status \in {"active", "archived"}
        /\ old.moderation = "rejected" => old.status \in {"inactive", "archived"}
        /\ old.reason <=> old.moderation = "rejected"
    BY <2>2, Zenon DEF CatalogRowsInv, ProductTellsTruth
  <2>5. old.category \in Known \union {Nobody} \union cleaned
    BY <2>2 DEF CatalogRowsInv, CategoriesHoldTogether
  <2>6. job.product = p /\ job.announced <= Cardinality(job.carried)
    BY <2>1 DEF CatalogReadsInv, ReadsHold
  <2>7. overlap' = overlap  BY <2>1 DEF Ends
  <2> HIDE DEF old, job
  <2>8. /\ row \in ProductRow /\ row.sync = "queued" /\ row.moderation = old.moderation
        /\ row.status = old.status /\ row.reason = old.reason /\ row.category = old.category
    BY <2>3 DEF ProductRow
  <2> HIDE DEF row, p
  <2>9. /\ product' \in [Products -> ProductRow \union {Nobody}]
        /\ product'[p] = row /\ \A q \in Products : q # p => product'[q] = product[q]
    BY <2>1, <2>2, <2>8 DEF CatalogRowsInv, CatalogTypes
  <2>10. row # Nobody  BY <2>8, RowsAreNot
  <2>11. Created' = Created /\ Known' = Known /\ (Forest => Forest')
    BY <2>1, <2>2, <2>9, <2>10 DEF Created, Known, Forest
  <2>12. JobsOfProducts'
    BY <2>1, <2>2, <2>6, <2>11 DEF JobsOfProducts, CatalogRowsInv
  <2>13. ASSUME NEW q \in Created
         PROVE  /\ product'[q].moderation = "approved" => product'[q].status \in {"active", "archived"}
                /\ product'[q].moderation = "rejected" => product'[q].status \in {"inactive", "archived"}
                /\ product'[q].reason <=> product'[q].moderation = "rejected"
                /\ product'[q].sync = "queued" <=> \E j \in syncJobs' : j.product = q
    <3>1. CASE q = p
      <4>1. \E j \in syncJobs' : j.product = q  BY <2>1, <2>6, <3>1
      <4> QED  BY <2>4, <2>8, <2>9, <3>1, <4>1
    <3>2. CASE q # p
      <4> DEFINE other == product[q]
      <4>1. product'[q] = other  BY <2>9, <3>2 DEF Created
      <4>2. /\ other.moderation = "approved" => other.status \in {"active", "archived"}
            /\ other.moderation = "rejected" => other.status \in {"inactive", "archived"}
            /\ other.reason <=> other.moderation = "rejected"
            /\ other.sync = "queued" <=> \E j \in syncJobs : j.product = q
        BY Zenon DEF CatalogRowsInv, ProductTellsTruth
      <4>3. (\E j \in syncJobs' : j.product = q) <=> \E j \in syncJobs : j.product = q
        BY <2>1, <2>6, <3>2
      <4> HIDE DEF other
      <4> QED  BY <4>1, <4>2, <4>3
    <3> QED  BY <3>1, <3>2
  <2>14. \A j \in syncJobs' : j.announced <= Cardinality(j.carried)
    BY <2>1, <2>6 DEF CatalogRowsInv, ProductTellsTruth
  <2>15. ProductTellsTruth'  BY <2>11, <2>13, <2>14 DEF ProductTellsTruth
  <2>16. \A q \in Created : product'[q].category \in Known \union {Nobody} \union cleaned
    BY <2>5, <2>8, <2>9 DEF Created, CatalogRowsInv, CategoriesHoldTogether
  <2>17. CategoriesHoldTogether'
    BY <2>1, <2>7, <2>11, <2>16 DEF CatalogRowsInv, CategoriesHoldTogether
  <2>18. CatalogRowsInv'
    BY <2>1, <2>9, <2>12, <2>15, <2>17 DEF CatalogRowsInv, CatalogTypes
  <2>19. \A q \in Created : product'[q] # Nobody  BY <2>9, <2>10 DEF Created
  <2>20. CatalogReadsInv'
    BY <2>1, <2>2, <2>9, <2>11, <2>19, CatalogEnds DEF CatalogRowsInv
  <2> QED  BY <2>18, <2>20
<1> HIDE DEF Goal
<1>4. Goal  BY <1>1, <1>2, <1>3
<1> QED  BY <1>4 DEF Goal

LEMMA CategoryWriter ==
  ASSUME CatalogRowsInv, CatalogReadsInv, NEW r \in Requests, CategoryWrite(r)
  PROVE  CatalogRowsInv' /\ CatalogReadsInv'
<1> DEFINE c == work[r].category
           above == work[r].above
           moved == work[r].moved
<1>1. /\ work[r].op = "category" /\ Ends(r) /\ parent' = [parent EXCEPT ![c] = above]
      /\ product' = product /\ stock' = stock /\ syncJobs' = syncJobs /\ cleaned' = cleaned
      /\ work[r].new <=> c \notin Known
      /\ above \in Known \union {Nobody}
      /\ subtreesMoved' = (subtreesMoved \/ moved)
  BY DEF CategoryWrite, CategoryAcceptable
<1>2. c \in Categories /\ work[r] # Idle  BY <1>1, CatalogShapes, BusyRow DEF CatalogReadsInv
<1>3. above # c  BY <1>1 DEF CatalogReadsInv, ReadsHold
<1>4. ASSUME ~overlap, c \in Known, ~moved
      PROVE  above = parent[c] \/ Children(c) = {}
  BY <1>1, <1>2, <1>4 DEF CatalogReadsInv, SerialReads
<1>5. overlap' = overlap  BY <1>1 DEF Ends
<1> HIDE DEF c, above, moved
<1>6. /\ parent' \in [Categories -> Categories \union {Nobody, "absent"}]
      /\ parent'[c] = above /\ \A d \in Categories : d # c => parent'[d] = parent[d]
  BY <1>1, <1>2 DEF CatalogRowsInv, CatalogTypes, Known
<1>7. above # "absent"  BY <1>1, RowsAreNot DEF Known
<1>8. Known' = Known \union {c} /\ Created' = Created
  BY <1>1, <1>2, <1>6, <1>7 DEF Known, Created
<1>9. \A d \in Known' : parent'[d] \in Known' \union {Nobody}
  BY <1>1, <1>2, <1>6, <1>8 DEF Known, CatalogRowsInv, CategoriesHoldTogether
<1>10. ASSUME ~overlap, ~subtreesMoved'
       PROVE  Forest'
  <2>1. ~moved /\ Forest
    BY <1>1, <1>10 DEF CatalogRowsInv, CategoriesHoldTogether
  <2> SUFFICES ASSUME NEW S \in SUBSET Known', S # {}
               PROVE  \E d \in S : parent'[d] \notin S
    BY DEF Forest
  <2>0. S \subseteq Categories  BY DEF Known
  <2>2. CASE c \notin S
    <3>1. PICK d \in S : parent[d] \notin S  BY <1>8, <2>1, <2>2 DEF Forest
    <3> QED  BY <1>6, <2>0, <2>2, <3>1
  <2>3. CASE c \in S /\ S \ {c} = {}  BY <1>3, <1>6, <2>3
  <2>4. CASE c \in S /\ S \ {c} # {}
    <3>1. S \ {c} \in SUBSET Known  BY <1>8
    <3>2. PICK d \in S \ {c} : parent[d] \notin S \ {c}  BY <2>1, <2>4, <3>1 DEF Forest
    <3>3. d \in Categories /\ parent'[d] = parent[d]  BY <1>6, <2>0, <3>2
    <3>4. CASE parent[d] # c  BY <3>2, <3>3, <3>4
    <3>5. CASE parent[d] = c
      <4>1. d \in Children(c)  BY <3>3, <3>5 DEF Children
      <4>2. d \in Known /\ parent[d] \in Known \union {Nobody}
        BY <3>1, <3>2 DEF CatalogRowsInv, CategoriesHoldTogether
      <4>3. c \in Known  BY <1>2, <3>5, <4>2, RowsAreNot
      <4>4. above = parent[c]  BY <1>4, <1>10, <2>1, <4>1, <4>3
      <4>5. S \in SUBSET Known  BY <1>8, <4>3
      <4>6. PICK e \in S : parent[e] \notin S  BY <2>1, <4>5 DEF Forest
      <4>7. parent'[e] = parent[e]  BY <1>6, <2>0, <4>4
      <4> QED  BY <4>6, <4>7
    <3> QED  BY <3>4, <3>5
  <2> QED  BY <2>2, <2>3, <2>4
<1>11. CategoriesHoldTogether'
  BY <1>1, <1>5, <1>8, <1>9, <1>10 DEF CatalogRowsInv, CategoriesHoldTogether
<1>12. ProductTellsTruth'  BY <1>1, <1>8 DEF ProductTellsTruth, CatalogRowsInv
<1>13. CatalogRowsInv'
  BY <1>1, <1>6, <1>8, <1>11, <1>12 DEF CatalogRowsInv, CatalogTypes, JobsOfProducts
<1>14. /\ \A p \in Created : product'[p] # Nobody
       /\ product' \in [Products -> ProductRow \union {Nobody}] /\ CatalogTypes
  BY <1>1 DEF Created, CatalogRowsInv, CatalogTypes
<1>15. CatalogReadsInv'  BY <1>1, <1>2, <1>8, <1>14, CatalogEnds
<1> QED  BY <1>13, <1>15

(* A demo cleanup takes a category away: its children become roots. *)
LEMMA CategoryCleaner ==
  ASSUME CatalogRowsInv, CatalogReadsInv, NEW r \in Requests, NEW c \in Categories,
         CategoryCleaned(r, c)
  PROVE  CatalogRowsInv' /\ CatalogReadsInv'
<1>1. /\ AtOnce(r) /\ c \in Known /\ cleaned = {} /\ cleaned' = {c}
      /\ parent' = [d \in Categories |->
                      IF d = c THEN "absent" ELSE IF parent[d] = c THEN Nobody ELSE parent[d]]
      /\ product' = product /\ stock' = stock /\ syncJobs' = syncJobs
      /\ subtreesMoved' = subtreesMoved
  BY DEF CategoryCleaned
<1>2. overlap' = overlap  BY <1>1 DEF AtOnce
<1>3. Created' = Created  BY <1>1 DEF Created
<1>4. Known' = Known \ {c}  BY <1>1, RowsAreNot DEF Known
<1>5. \A d \in Known' : parent'[d] \in Known' \union {Nobody}
  BY <1>1, <1>4 DEF Known, CatalogRowsInv, CategoriesHoldTogether
<1>6. Forest => Forest'
  <2> SUFFICES ASSUME Forest, NEW S \in SUBSET Known', S # {}
               PROVE  \E d \in S : parent'[d] \notin S
    BY DEF Forest
  <2>1. S \in SUBSET Known /\ S \subseteq Categories /\ c \notin S  BY <1>4 DEF Known
  <2>2. PICK d \in S : parent[d] \notin S  BY <2>1 DEF Forest
  <2> QED  BY <1>1, <2>1, <2>2, RowsAreNot
<1>7. CategoriesHoldTogether'
  BY <1>1, <1>2, <1>3, <1>4, <1>5, <1>6 DEF CatalogRowsInv, CategoriesHoldTogether
<1>8. ProductTellsTruth'  BY <1>1, <1>3 DEF ProductTellsTruth, CatalogRowsInv
<1>9. CatalogTypes'  BY <1>1 DEF CatalogRowsInv, CatalogTypes
<1>10. CatalogRowsInv'
  BY <1>1, <1>3, <1>7, <1>8, <1>9 DEF CatalogRowsInv, JobsOfProducts
<1>11. CatalogReadsInv'  BY <1>1, <1>4, CatalogStands
<1> QED  BY <1>10, <1>11

LEMMA CatalogStep ==
  ASSUME CatalogRowsInv, CatalogReadsInv, CatalogNext
  PROVE  CatalogRowsInv' /\ CatalogReadsInv'
<1> DEFINE Goal == CatalogRowsInv' /\ CatalogReadsInv'
<1>1. ASSUME NEW r \in Requests,
             \/ \E p \in Products, s \in Sellers, c \in Categories \union {Nobody} :
                  ProductCreateBegin(r, p, s, c) \/ ProductUpdateBegin(r, p, s, c)
             \/ \E p \in Products :
                  \/ ProductSubmitBegin(r, p) \/ SyncBegin(r, p)
                  \/ \E verdict \in {"approve", "reject", "archive"} : ProductModerationBegin(r, p, verdict)
             \/ \E v \in Variants, q \in Stocks :
                  VariantUpdateBegin(r, v, q) \/ \E p \in Products : VariantCreateBegin(r, p, v, q)
             \/ \E c \in Categories, above \in Categories \union {Nobody} :
                  CategoryCreateBegin(r, c, above) \/ CategoryUpdateBegin(r, c, above)
      PROVE  Goal
  <2> HIDE DEF Goal
  <2>1. Goal  BY <1>1, CatalogReaders DEF Goal
  <2> QED  BY <2>1
<1>2. ASSUME NEW r \in Requests,
             \/ ProductWrite(r)
             \/ ProductSubmit(r) \/ ProductApprove(r) \/ ProductReject(r) \/ ProductArchive(r)
      PROVE  Goal
  BY <1>2, ProductWriters
<1>3. ASSUME NEW r \in Requests, VariantWrite(r)  PROVE Goal
  BY <1>3, VariantWriter
<1>4. ASSUME NEW r \in Requests, CategoryWrite(r)  PROVE Goal
  BY <1>4, CategoryWriter
<1>5. ASSUME NEW r \in Requests, NEW c \in Categories, CategoryCleaned(r, c)  PROVE Goal
  BY <1>5, CategoryCleaner
<1>6. ASSUME NEW r \in Requests, SyncReadsProduct(r) \/ SyncReadsVariants(r) \/ SyncQueued(r)
      PROVE  Goal
  BY <1>6, SyncSteps
<1>7. ASSUME NEW r \in Requests, CatalogAbort(r)  PROVE Goal
  <2>1. /\ work[r] # Idle /\ Ends(r) /\ overlap' = overlap
        /\ product' = product /\ stock' = stock /\ parent' = parent
        /\ cleaned' = cleaned /\ subtreesMoved' = subtreesMoved /\ UNCHANGED catalogRows
    BY <1>7 DEF CatalogAbort, Aborts, Ends, catalogRows, catalogRest
  <2>2. CatalogRowsInv'  BY <2>1, CatalogRowsKept
  <2>3. /\ product' \in [Products -> ProductRow \union {Nobody}] /\ CatalogTypes
        /\ \A p \in Created : product'[p] # Nobody /\ Known \subseteq Known'
    BY <2>1 DEF CatalogRowsInv, CatalogTypes, Created, Known
  <2>4. Known \subseteq Known'  BY <2>1 DEF Known
  <2>5. CatalogReadsInv'  BY <2>1, <2>3, <2>4, CatalogEnds
  <2> QED  BY <2>2, <2>5
<1>8. ASSUME NEW r \in Requests, ModuleSwitched(r) \/ SellerReviewed(r)  PROVE Goal
  <2>1. /\ AtOnce(r) /\ overlap' = overlap /\ UNCHANGED catalogRows
        /\ cleaned' = cleaned /\ subtreesMoved' = subtreesMoved
        /\ product' = product /\ stock' = stock /\ parent' = parent
    BY <1>8 DEF ModuleSwitched, SellerReviewed, AtOnce, catalogRows
  <2>2. CatalogRowsInv'  BY <2>1, CatalogRowsKept
  <2>3. Known' = Known  BY <2>1 DEF Known
  <2>4. CatalogReadsInv'  BY <2>1, <2>3, CatalogStands
  <2> QED  BY <2>2, <2>4
<1> HIDE DEF Goal
<1>9. Goal
  BY <1>1, <1>2, <1>3, <1>4, <1>5, <1>6, <1>7, <1>8 DEF CatalogNext
<1> QED  BY <1>9 DEF Goal

LEMMA CatalogStarts == Init => CatalogInv
<1> SUFFICES ASSUME Init  PROVE CatalogInv  OBVIOUS
<1>1. /\ product = [p \in Products |-> Nobody] /\ stock = [v \in Variants |-> Nobody]
      /\ parent \in [Categories -> {"absent", Nobody}] /\ syncJobs = {} /\ cleaned = {}
      /\ work = [r \in Requests |-> Idle] /\ overlap \in BOOLEAN
  BY DEF Init, CatalogInit, RequestsInit
<1>2. Created = {} /\ \A c \in Known : parent[c] = Nobody /\ c # Nobody
  BY <1>1, RowsAreNot DEF Created, Known
<1>3. Forest  BY <1>2 DEF Forest
<1>4. CatalogRowsInv
  BY <1>1, <1>2, <1>3 DEF CatalogRowsInv, CatalogTypes, JobsOfProducts, ProductTellsTruth,
     CategoriesHoldTogether
<1>5. /\ ReadsHold /\ VariantsCreatedOnce /\ Alone /\ SerialReads
      /\ work \in [Requests -> CatalogWork]
  BY <1>1 DEF ReadsHold, VariantsCreatedOnce, Alone, SerialReads, CatalogWork, Idle
<1> QED  BY <1>1, <1>4, <1>5 DEF CatalogInv, CatalogReadsInv

LEMMA CatalogAlways == Spec => []CatalogInv
<1>1. CatalogInv /\ [Next]_allVars => CatalogInv'
  <2> SUFFICES ASSUME CatalogInv, [Next]_allVars  PROVE CatalogInv'  OBVIOUS
  <2>1. CASE CatalogActs
    <3>1. CatalogRowsInv /\ CatalogReadsInv /\ CatalogNext
      BY <2>1 DEF CatalogActs, CatalogInv
    <3>2. CatalogRowsInv' /\ CatalogReadsInv'  BY <3>1, CatalogStep
    <3> QED  BY <3>2 DEF CatalogInv
  <2>2. CASE UNCHANGED catalogState /\ (scene \in {"products", "categories"} => UNCHANGED requests)
    <3>1. scene' = scene /\ overlap' = overlap  BY SceneSteps, OverlapStays
    <3>2. /\ UNCHANGED catalogRows /\ product' = product /\ stock' = stock /\ parent' = parent
          /\ cleaned' = cleaned /\ subtreesMoved' = subtreesMoved
          /\ catalogOn' = catalogOn /\ sellerApproved' = sellerApproved
      BY <2>2 DEF catalogState, catalogRows, catalogRest
    <3>3. CatalogRowsInv'  BY <3>1, <3>2, CatalogRowsKept DEF CatalogInv
    <3>4. ASSUME scene \in {"products", "categories"}
          PROVE  CatalogReadsInv'
      <4>1. work' = work /\ CatalogReadsInv  BY <2>2, <3>4 DEF requests, CatalogInv
      <4>2. /\ Created' = Created /\ \A p \in Products : VariantsOf(p)' = VariantsOf(p)
            /\ Known' = Known /\ \A c \in Categories : Children(c)' = Children(c)
        BY <3>2 DEF Created, VariantsOf, Known, Children
      <4>3. ReadsHold'  BY <3>2, <4>1, <4>2 DEF ReadsHold, CatalogReadsInv, Draft
      <4>4. VariantsCreatedOnce'  BY <3>2, <4>1 DEF VariantsCreatedOnce, CatalogReadsInv
      <4>5. ~overlap => Alone' /\ SerialReads'
        BY <3>2, <4>1, <4>2 DEF Alone, SerialReads, CatalogReadsInv
      <4> QED  BY <3>1, <4>1, <4>3, <4>4, <4>5 DEF CatalogReadsInv
    <3> QED  BY <3>1, <3>3, <3>4 DEF CatalogInv
  <2> QED  BY <2>1, <2>2, SceneSteps
<1> QED  BY <1>1, CatalogStarts, PTL DEF Spec

(* What a product says of itself is one story, however writing, moderation and             *)
(* synchronisation interleave, and no job carries fewer variants than it announces.        *)
THEOREM ProductsStayTruthful == Spec => []ProductTellsTruth
<1>1. CatalogInv => ProductTellsTruth  BY DEF CatalogInv, CatalogRowsInv
<1> QED  BY <1>1, CatalogAlways, PTL

(* References of the catalog resolve, and the categories are a forest until one with       *)
(* children is moved.                                                                      *)
THEOREM CategoriesStayTogether == Spec => []CategoriesHoldTogether
<1>1. CatalogInv => CategoriesHoldTogether  BY DEF CatalogInv, CatalogRowsInv
<1> QED  BY <1>1, CatalogAlways, PTL

(* With requests one at a time nothing is written while the module is disabled, and no     *)
(* product is left with a seller that is not approved.                                     *)
THEOREM CatalogStaysGated == Spec => CatalogGated
<1> DEFINE Gated ==
       /\ catalogRows' # catalogRows => catalogOn \/ cleaned' # cleaned
       /\ \A p \in Products : product'[p] # Nobody /\ product'[p] # product[p]
            /\ (product[p] = Nobody \/ product[p].seller # product'[p].seller)
            => product'[p].seller = Nobody \/ sellerApproved
<1>1. ASSUME CatalogInv, [Next]_allVars, ~overlap
      PROVE  Gated
  <2>1. CASE UNCHANGED catalogState  BY <2>1 DEF catalogState, catalogRows
  <2>2. CASE CatalogActs
    <3>1. CatalogTypes /\ CatalogReadsInv /\ SerialReads /\ CatalogNext
      BY <1>1, <2>2 DEF CatalogActs, CatalogInv, CatalogReadsInv, CatalogRowsInv
    <3>2. ASSUME UNCHANGED catalogRows  PROVE Gated
      BY <3>2 DEF catalogRows
    <3>3. ASSUME NEW r \in Requests, work[r] # Idle, product' = product  PROVE Gated
      BY <3>1, <3>3 DEF SerialReads
    <3>4. ASSUME NEW r \in Requests, NEW op \in {"submit", "approve", "reject", "archive", "snapshot"},
                 NEW row, work[r].op = op, product' = [product EXCEPT ![work[r].product] = row],
                 row.seller = product[work[r].product].seller
          PROVE  Gated
      <4>1. catalogOn  BY <3>1, <3>4, BusyRow DEF SerialReads
      <4>2. work[r].product \in Created  BY <3>1, <3>4 DEF CatalogReadsInv, ReadsHold
      <4> HIDE DEF Gated
      <4>3. Gated  BY <3>1, <3>4, <4>1, <4>2 DEF Gated, Created, CatalogTypes
      <4> QED  BY <4>3
    <3>5. ASSUME NEW r \in Requests, ProductWrite(r)  PROVE Gated
      <4> DEFINE p == work[r].product
                 read == work[r].row
      <4>1. /\ catalogOn /\ (read.seller = Nobody \/ sellerApproved) /\ p \in Products
            /\ read \in ProductRow
        BY <3>1, <3>5, BusyRow, CatalogShapes DEF ProductWrite, SerialReads, CatalogReadsInv
      <4>2. product' = [product EXCEPT ![p] =
              IF @ = Nobody THEN read ELSE [@ EXCEPT !.seller = read.seller, !.category = read.category]]
        BY <3>5 DEF ProductWrite
      <4>3. \A q \in Products : q # p => product'[q] = product[q]  BY <3>1, <4>2 DEF CatalogTypes
      <4>4. product'[p].seller = read.seller
        <5>1. CASE product[p] = Nobody  BY <3>1, <4>1, <4>2, <5>1 DEF CatalogTypes
        <5>2. CASE product[p] # Nobody
          <6> DEFINE old == product[p]
                     sold == [old EXCEPT !.seller = read.seller]
                     row == [sold EXCEPT !.category = read.category]
          <6>1. old \in ProductRow  BY <3>1, <4>1, <5>2 DEF CatalogTypes
          <6>2. row = [old EXCEPT !.seller = read.seller, !.category = read.category]  OBVIOUS
          <6> HIDE DEF old, row
          <6>3. product'[p] = row  BY <3>1, <4>1, <4>2, <5>2, <6>2 DEF CatalogTypes, old
          <6>4. sold \in ProductRow /\ sold.seller = read.seller  BY <4>1, <6>1 DEF ProductRow
          <6> HIDE DEF sold
          <6>5. row.seller = sold.seller  BY <6>4 DEF ProductRow, row
          <6> QED  BY <6>3, <6>4, <6>5
        <5> QED  BY <5>1, <5>2
      <4> HIDE DEF p, read
      <4> QED  BY <4>1, <4>3, <4>4
    <3>6. ASSUME NEW r \in Requests,
                 ProductSubmit(r) \/ ProductApprove(r) \/ ProductReject(r) \/ ProductArchive(r)
          PROVE  Gated
      <4> DEFINE old == product[work[r].product]
      <4>1. PICK op \in {"submit", "approve", "reject", "archive"} : work[r].op = op
        BY <3>6 DEF ProductSubmit, ProductApprove, ProductReject, ProductArchive, ProductModerated
      <4>2. old \in ProductRow
        BY <3>1, <4>1 DEF CatalogReadsInv, ReadsHold, Created, CatalogTypes
      <4>3. /\ [old EXCEPT !.moderation = "pending_review", !.reason = FALSE].seller = old.seller
            /\ [old EXCEPT !.status = "active", !.moderation = "approved", !.reason = FALSE].seller
                 = old.seller
            /\ [old EXCEPT !.status = "inactive", !.moderation = "rejected", !.reason = TRUE].seller
                 = old.seller
            /\ [old EXCEPT !.status = "archived"].seller = old.seller
        BY <4>2 DEF ProductRow
      <4>4. PICK row : /\ product' = [product EXCEPT ![work[r].product] = row]
                       /\ row.seller = old.seller
        BY <3>6, <4>3, Zenon DEF ProductSubmit, ProductApprove, ProductReject, ProductArchive,
           ProductModerated, Moderated
      <4> HIDE DEF Gated
      <4> QED  BY <3>4, <4>1, <4>4
    <3>7. ASSUME NEW r \in Requests, SyncQueued(r)  PROVE Gated
      <4> DEFINE old == product[work[r].product]
                 row == [old EXCEPT !.sync = "queued"]
      <4>1. work[r].op = "snapshot" /\ product' = [product EXCEPT ![work[r].product] = row]
        BY <3>7 DEF SyncQueued, Queued
      <4>2. old \in ProductRow
        BY <3>1, <4>1 DEF CatalogReadsInv, ReadsHold, Created, CatalogTypes
      <4>3. row.seller = old.seller  BY <4>2 DEF ProductRow
      <4> HIDE DEF Gated, row
      <4> QED  BY <3>4, <4>1, <4>3
    <3>8. ASSUME NEW r \in Requests, VariantWrite(r) \/ CategoryWrite(r)  PROVE Gated
      <4>1. work[r] # Idle /\ product' = product
        BY <3>8, BusyRow DEF VariantWrite, CategoryWrite
      <4> HIDE DEF Gated
      <4> QED  BY <3>3, <4>1
    <3>9. ASSUME NEW r \in Requests, NEW c \in Categories, CategoryCleaned(r, c)  PROVE Gated
      BY <3>9 DEF CategoryCleaned
    <3>10. ASSUME NEW r \in Requests, NEW read, Mutation(r, read)  PROVE UNCHANGED catalogRows
      BY <3>10 DEF Mutation
    <3>11. ASSUME NEW r \in Requests,
                  \/ SyncReadsProduct(r) \/ SyncReadsVariants(r)
                  \/ CatalogAbort(r) \/ ModuleSwitched(r) \/ SellerReviewed(r)
           PROVE  UNCHANGED catalogRows
      BY <3>11 DEF SyncReadsProduct, SyncReadsVariants, CatalogAbort, ModuleSwitched, SellerReviewed
    <3> HIDE DEF Gated
    <3>12. PICK r \in Requests :
             \/ UNCHANGED catalogRows
             \/ ProductWrite(r)
             \/ ProductSubmit(r) \/ ProductApprove(r) \/ ProductReject(r) \/ ProductArchive(r)
             \/ VariantWrite(r) \/ CategoryWrite(r) \/ SyncQueued(r)
             \/ \E c \in Categories : CategoryCleaned(r, c)
      BY <3>1, <3>10, <3>11, Zenon DEF CatalogNext, ProductCreateBegin, ProductUpdateBegin,
         ProductSubmitBegin, ProductModerationBegin, VariantCreateBegin, VariantUpdateBegin,
         CategoryCreateBegin, CategoryUpdateBegin, SyncBegin
    <3> QED  BY <3>2, <3>5, <3>6, <3>7, <3>8, <3>9, <3>12
  <2> QED  BY <1>1, <2>1, <2>2, SceneSteps
<1>2. ASSUME CatalogInv, [Next]_allVars
      PROVE  [~overlap => Gated]_catalogVars
  <2> HIDE DEF Gated
  <2> QED  BY <1>1, <1>2
<1> QED  BY <1>2, CatalogAlways, PTL DEF Spec, CatalogGated
-----------------------------------------------------------------------------
(* RequestPipeline: of one key, what was admitted at each instant (a) against its bucket   *)
(* (count c, end r) at time n.  Nothing is admitted after the bucket ends without a new    *)
(* one, the window that runs has admitted its count up to the limit, and windows that      *)
(* reach into it had room for no more than the limit before it began.                      *)
Instants == 0 .. MaxNow
Span(from, to) == {t \in Instants : from <= t /\ t < to}
UpToLimit(c) == IF c < Limit THEN c ELSE Limit

Fits(a, n, c, r) ==
  /\ \A t \in Instants : t >= r \/ t > n => a[t] = 0
  /\ r <= n + Window
  /\ c = 0 => r = 0
  /\ c > 0 => \E s \in Instants :
       /\ r = s + Window /\ s <= n
       /\ Total(a, Span(s, r)) = UpToLimit(c)
       /\ \A t \in Instants : s < t + Window => Total(a, Span(t, s)) <= Limit
  /\ \A t \in Instants : Total(a, Span(t, t + Window)) <= 2 * Limit

(* AdmittedDuring is a sum over a span. *)
LEMMA AdmittedIsTotal ==
  ASSUME NEW k, NEW from, NEW to
  PROVE  AdmittedDuring(k, from, to) = Total(admitted[k], Span(from, to))
  BY DEF AdmittedDuring, SumFunctionOnSet, FoldFunctionOnSet, MapThenFoldSet, Total, Span, Instants

LEMMA SpanSums ==
  ASSUME NEW a \in [Instants -> Nat], NEW R \in SUBSET Instants, NEW S \in SUBSET Instants
  PROVE  /\ Total(a, R) \in Nat /\ Total(a, {}) = 0
         /\ (\A x \in R \ S : a[x] = 0) => Total(a, R) <= Total(a, S)
         /\ Total(a, R \union S) <= Total(a, R) + Total(a, S)
<1>1. \A U \in SUBSET Instants : IsFiniteSet(U) /\ (\A x \in U : a[x] \in Nat) /\ Total(a, U) \in Nat
  <2>1. IsFiniteSet(Instants)  BY PipelineAssumption, FS_Interval DEF Instants
  <2>2. \A U \in SUBSET Instants : IsFiniteSet(U) /\ \A x \in U : a[x] \in Nat
    BY <2>1, FS_Subset
  <2> QED  BY <2>2, TotalStep
<1>2. Total(a, {}) = 0  BY <1>1, TotalStep
<1>3. ASSUME \A x \in R \ S : a[x] = 0
      PROVE  Total(a, R) <= Total(a, S)
  <2> DEFINE P == R \cap S
  <2>1. P \in SUBSET Instants /\ P \in SUBSET R /\ P \in SUBSET S /\ \A x \in R \ P : a[x] = 0
    BY <1>3
  <2> HIDE DEF P
  <2>2. Total(a, P) = Total(a, R)  BY <1>1, <2>1, TotalGrows
  <2>3. Total(a, P) <= Total(a, S)  BY <1>1, <2>1, TotalGrows
  <2> QED  BY <2>2, <2>3
<1>4. Total(a, R \union S) <= Total(a, R) + Total(a, S)
  <2> DEFINE T == R \union S
  <2>1. T \in SUBSET Instants /\ R \in SUBSET T /\ S \in SUBSET T /\ T = R \union S  OBVIOUS
  <2> HIDE DEF T
  <2>2. Total(a, T) <= Total(a, R) + Total(a, S)  BY <1>1, <2>1, TotalCovers
  <2> QED  BY <2>2 DEF T
<1> QED  BY <1>1, <1>2, <1>3, <1>4

LEMMA SpanBumped ==
  ASSUME NEW a \in [Instants -> Nat], NEW n \in Instants, NEW R \in SUBSET Instants
  PROVE  LET a1 == [a EXCEPT ![n] = @ + 1] IN
         /\ a1 \in [Instants -> Nat]
         /\ Total(a1, R) = IF n \in R THEN Total(a, R) + 1 ELSE Total(a, R)
<1> DEFINE a1 == [a EXCEPT ![n] = @ + 1]
<1>0. IsFiniteSet(Instants)  BY PipelineAssumption, FS_Interval DEF Instants
<1>1. IsFiniteSet(R)  BY <1>0, FS_Subset
<1>2. a1 \in [Instants -> Nat] /\ \A x \in R : a[x] \in Nat /\ a1[x] = IF x = n THEN a[x] + 1 ELSE a[x]
  OBVIOUS
<1> HIDE DEF a1
<1>3. Total(a1, R) = IF n \in R THEN Total(a, R) + 1 ELSE Total(a, R)
  BY <1>1, <1>2, TotalBumped
<1> QED  BY <1>2, <1>3 DEF a1

(* A key asks when its bucket has ended: a new window begins. *)
LEMMA FitsReplaced ==
  ASSUME NEW a \in [Instants -> Nat], NEW n \in Instants, NEW c \in Nat, NEW r \in Nat,
         Fits(a, n, c, r), r <= n
  PROVE  Fits([a EXCEPT ![n] = @ + 1], n, 1, n + Window)
<1> DEFINE b == [a EXCEPT ![n] = @ + 1]
<1>0. /\ n \in Nat /\ Window \in Nat /\ Window >= 1 /\ Limit \in Nat /\ Limit >= 1
      /\ \A t \in Instants : t \in Nat
      /\ \A from, to : Span(from, to) \in SUBSET Instants
  BY PipelineAssumption DEF Instants, Span
<1>1. b \in [Instants -> Nat] /\ b[n] = a[n] + 1 /\ \A t \in Instants : t # n => b[t] = a[t]
  OBVIOUS
<1>2. \A R \in SUBSET Instants :
        Total(b, R) = IF n \in R THEN Total(a, R) + 1 ELSE Total(a, R)
  BY SpanBumped
<1> HIDE DEF b
<1>3. \A t \in Instants : t >= n + Window \/ t > n => b[t] = 0
  BY <1>0, <1>1 DEF Fits
<1>4. Total(b, Span(n, n + Window)) = 1
  <2>1. \A x \in Span(n, n + Window) \ {} : a[x] = 0  BY <1>0 DEF Fits, Span
  <2>2. Total(a, Span(n, n + Window)) = 0  BY <1>0, <2>1, SpanSums
  <2>3. n \in Span(n, n + Window)  BY <1>0 DEF Span
  <2> QED  BY <1>0, <1>2, <2>2, <2>3
<1>5. ASSUME NEW t \in Instants, n < t + Window
      PROVE  Total(b, Span(t, n)) <= Limit
  <2>1. n \notin Span(t, n)  BY <1>0 DEF Span
  <2>2. Total(b, Span(t, n)) = Total(a, Span(t, n))  BY <1>0, <1>2, <2>1
  <2>3. CASE c = 0
    <3>1. \A x \in Span(t, n) \ {} : a[x] = 0  BY <1>0, <2>3 DEF Fits, Span
    <3>2. Total(a, Span(t, n)) <= 0 /\ Total(a, Span(t, n)) \in Nat
      BY <1>0, <3>1, SpanSums
    <3> QED  BY <1>0, <2>2, <3>2
  <2>4. CASE c # 0
    <3>1. PICK s \in Instants : /\ r = s + Window /\ s <= n
                                /\ Total(a, Span(s, r)) = UpToLimit(c)
      BY <2>4 DEF Fits
    <3>2. \A x \in Span(t, n) \ Span(s, r) : a[x] = 0
      BY <1>0, <1>5, <3>1 DEF Fits, Span
    <3>3. Total(a, Span(t, n)) <= Total(a, Span(s, r)) /\ Total(a, Span(t, n)) \in Nat
      BY <1>0, <3>2, SpanSums
    <3>4. UpToLimit(c) <= Limit /\ UpToLimit(c) \in Nat  BY <1>0 DEF UpToLimit
    <3> QED  BY <1>0, <2>2, <3>1, <3>3, <3>4
  <2> QED  BY <2>3, <2>4
<1>6. ASSUME NEW t \in Instants
      PROVE  Total(b, Span(t, t + Window)) <= 2 * Limit
  <2>1. CASE n \notin Span(t, t + Window)
    BY <1>0, <1>2, <2>1 DEF Fits
  <2>2. CASE n \in Span(t, t + Window)
    <3> DEFINE R == Span(t, n)
               S == Span(n, n + Window)
    <3>1. n < t + Window /\ t <= n  BY <2>2 DEF Span
    <3>2. \A x \in Span(t, t + Window) \ (R \union S) : b[x] = 0
      BY <1>0, <3>1 DEF Span
    <3>3. R \union S \in SUBSET Instants  BY <1>0
    <3>4. Total(b, R) <= Limit /\ Total(b, S) = 1  BY <1>4, <1>5, <3>1
    <3> HIDE DEF R, S
    <3>5. Total(b, Span(t, t + Window)) <= Total(b, R \union S)
      BY <1>0, <1>1, <3>2, <3>3, SpanSums
    <3>6. R \in SUBSET Instants /\ S \in SUBSET Instants  BY <3>3
    <3>7. /\ Total(b, R \union S) <= Total(b, R) + Total(b, S)
          /\ Total(b, R) \in Nat /\ Total(b, S) \in Nat
      BY <1>1, <3>6, SpanSums
    <3>8. Total(b, R \union S) \in Nat /\ Total(b, Span(t, t + Window)) \in Nat
      BY <1>0, <1>1, <3>3, SpanSums
    <3> QED  BY <1>0, <3>4, <3>5, <3>7, <3>8
  <2> QED  BY <2>1, <2>2
<1>7. UpToLimit(1) = 1  BY <1>0 DEF UpToLimit
<1>8. Fits(b, n, 1, n + Window)
  BY <1>0, <1>3, <1>4, <1>5, <1>6, <1>7 DEF Fits
<1> QED  BY <1>8 DEF b

(* A key asks while its bucket runs: the request is counted, and admitted up to the limit. *)
LEMMA FitsCounted ==
  ASSUME NEW a \in [Instants -> Nat], NEW n \in Instants, NEW c \in Nat, NEW r \in Nat,
         Fits(a, n, c, r), n < r
  PROVE  /\ c >= Limit => Fits(a, n, c + 1, r)
         /\ c < Limit => Fits([a EXCEPT ![n] = @ + 1], n, c + 1, r)
<1> DEFINE b == [a EXCEPT ![n] = @ + 1]
<1>0. /\ n \in Nat /\ Window \in Nat /\ Window >= 1 /\ Limit \in Nat /\ Limit >= 1
      /\ \A t \in Instants : t \in Nat
      /\ \A from, to : Span(from, to) \in SUBSET Instants
  BY PipelineAssumption DEF Instants, Span
<1>1. b \in [Instants -> Nat] /\ b[n] = a[n] + 1 /\ \A t \in Instants : t # n => b[t] = a[t]
  OBVIOUS
<1>2. \A R \in SUBSET Instants :
        Total(b, R) = IF n \in R THEN Total(a, R) + 1 ELSE Total(a, R)
  BY SpanBumped
<1> HIDE DEF b
<1>3. c > 0  BY <1>0 DEF Fits
<1>4. PICK s \in Instants :
        /\ r = s + Window /\ s <= n
        /\ Total(a, Span(s, r)) = UpToLimit(c)
        /\ \A t \in Instants : s < t + Window => Total(a, Span(t, s)) <= Limit
  BY <1>3 DEF Fits
<1>5. ASSUME c >= Limit  PROVE Fits(a, n, c + 1, r)
  <2>1. UpToLimit(c + 1) = UpToLimit(c)  BY <1>0, <1>5 DEF UpToLimit
  <2>2. \E u \in Instants :
          /\ r = u + Window /\ u <= n
          /\ Total(a, Span(u, r)) = UpToLimit(c + 1)
          /\ \A t \in Instants : u < t + Window => Total(a, Span(t, u)) <= Limit
    BY <1>4, <2>1
  <2> QED  BY <2>2 DEF Fits
<1>6. ASSUME c < Limit  PROVE Fits(b, n, c + 1, r)
  <2>1. Total(b, Span(s, r)) = c + 1
    <3>1. n \in Span(s, r)  BY <1>0, <1>4 DEF Span
    <3>2. Total(a, Span(s, r)) = c  BY <1>0, <1>4, <1>6 DEF UpToLimit
    <3> QED  BY <1>0, <1>2, <3>1, <3>2
  <2>2. UpToLimit(c + 1) = c + 1  BY <1>0, <1>6 DEF UpToLimit
  <2>3. ASSUME NEW t \in Instants, s < t + Window
        PROVE  Total(b, Span(t, s)) <= Limit
    <3>1. n \notin Span(t, s)  BY <1>0, <1>4 DEF Span
    <3> QED  BY <1>0, <1>2, <1>4, <2>3, <3>1
  <2>4. \A t \in Instants : t >= r \/ t > n => b[t] = 0
    BY <1>0, <1>1 DEF Fits
  <2>5. ASSUME NEW t \in Instants
        PROVE  Total(b, Span(t, t + Window)) <= 2 * Limit
    <3>1. CASE n \notin Span(t, t + Window)
      BY <1>0, <1>2, <3>1 DEF Fits
    <3>2. CASE n \in Span(t, t + Window)
      <4> DEFINE R == Span(t, s)
                 S == Span(s, r)
      <4>1. n < t + Window /\ t <= n /\ s < t + Window  BY <1>0, <1>4, <3>2 DEF Span
      <4>2. \A x \in Span(t, t + Window) \ (R \union S) : b[x] = 0
        BY <1>0, <2>4 DEF Span
      <4>3. R \union S \in SUBSET Instants  BY <1>0
      <4>4. Total(b, R) <= Limit /\ Total(b, S) = c + 1  BY <2>1, <2>3, <4>1
      <4> HIDE DEF R, S
      <4>5. Total(b, Span(t, t + Window)) <= Total(b, R \union S)
        BY <1>0, <1>1, <4>2, <4>3, SpanSums
      <4>6. R \in SUBSET Instants /\ S \in SUBSET Instants  BY <4>3
      <4>7. /\ Total(b, R \union S) <= Total(b, R) + Total(b, S)
            /\ Total(b, R) \in Nat /\ Total(b, S) \in Nat
        BY <1>1, <4>6, SpanSums
      <4>8. Total(b, R \union S) \in Nat /\ Total(b, Span(t, t + Window)) \in Nat
        BY <1>0, <1>1, <4>3, SpanSums
      <4> QED  BY <1>0, <1>6, <4>4, <4>5, <4>7, <4>8
    <3> QED  BY <3>1, <3>2
  <2>6. \E u \in Instants :
          /\ r = u + Window /\ u <= n
          /\ Total(b, Span(u, r)) = UpToLimit(c + 1)
          /\ \A t \in Instants : u < t + Window => Total(b, Span(t, u)) <= Limit
    BY <1>4, <2>1, <2>2, <2>3
  <2>7. r <= n + Window /\ c + 1 > 0 /\ c + 1 # 0  BY <1>0 DEF Fits
  <2> QED  BY <2>4, <2>5, <2>6, <2>7 DEF Fits
<1> QED  BY <1>5, <1>6 DEF b

LimiterInv ==
  /\ now \in Instants
  /\ bucket \in [Keys -> [count : Nat, resetAt : Nat]]
  /\ admitted \in [Keys -> [Instants -> Nat]]
  /\ \A k \in Keys : Fits(admitted[k], now, bucket[k].count, bucket[k].resetAt)

(* A check that reports http_429 has seen a full window. *)
Outcomes == {"none", "ok", "http_429", "failed"}
FailedForAReason ==
  /\ check \in [Checks -> [attempt : Nat, result : Outcomes]]
  /\ \A c \in Checks : check[c].result = "http_429" =>
       \E t \in Instants : Total(admitted[Self], Span(t, t + Window)) >= Limit

PipelineInv == LimiterInv /\ FailedForAReason

LEMMA LimiterStep ==
  ASSUME LimiterInv, NEW k \in Keys, PassesLimiter(k)
  PROVE  /\ LimiterInv'
         /\ \A j \in Keys : \A R \in SUBSET Instants : Total(admitted[j], R) <= Total(admitted'[j], R)
         /\ ~Allowed(k) => \E t \in Instants : Total(admitted'[k], Span(t, t + Window)) >= Limit
<1> DEFINE a == admitted[k]
           b == [a EXCEPT ![now] = @ + 1]
           c == bucket[k].count
           r == bucket[k].resetAt
<1>0. /\ now \in Instants /\ now \in Nat /\ now' = now /\ Limit \in Nat /\ Limit >= 1 /\ Window \in Nat
      /\ a \in [Instants -> Nat] /\ c \in Nat /\ r \in Nat /\ bucket[k] \in [count : Nat, resetAt : Nat]
      /\ bucket[k] = [count |-> c, resetAt |-> r]
      /\ Fits(a, now, c, r)
  BY PipelineAssumption DEF LimiterInv, PassesLimiter, Instants
<1>1. /\ bucket' = [bucket EXCEPT ![k] = IF @.count > Limit /\ ~Expired(k) THEN @ ELSE Counted(k)]
      /\ admitted' = IF Allowed(k) THEN [admitted EXCEPT ![k][now] = @ + 1] ELSE admitted
      /\ Expired(k) <=> r <= now
  BY DEF PassesLimiter, Expired
<1>2. /\ Counted(k).count = IF r <= now THEN 1 ELSE c + 1
      /\ Counted(k).resetAt = IF r <= now THEN now + Window ELSE r
      /\ Counted(k) \in [count : Nat, resetAt : Nat]
  BY <1>0 DEF Counted, Expired
<1>3. Allowed(k) <=> r <= now \/ c < Limit
  BY <1>0, <1>2 DEF Allowed
<1>4. /\ b \in [Instants -> Nat]
      /\ \A R \in SUBSET Instants :
           Total(b, R) = (IF now \in R THEN Total(a, R) + 1 ELSE Total(a, R)) /\ Total(a, R) \in Nat
  <2>1. b \in [Instants -> Nat]  BY <1>0
  <2> SUFFICES ASSUME NEW R \in SUBSET Instants
               PROVE  /\ Total(b, R) = (IF now \in R THEN Total(a, R) + 1 ELSE Total(a, R))
                      /\ Total(a, R) \in Nat
    BY <2>1
  <2> HIDE DEF a
  <2>2. Total(a, R) \in Nat  BY <1>0, SpanSums
  <2>3. Total(b, R) = IF now \in R THEN Total(a, R) + 1 ELSE Total(a, R)
    BY <1>0, SpanBumped
  <2> QED  BY <2>2, <2>3
<1>5. /\ admitted'[k] = IF Allowed(k) THEN b ELSE a
      /\ \A j \in Keys : j # k => admitted'[j] = admitted[j]
  BY <1>1 DEF LimiterInv
<1>6. \A j \in Keys : j # k => bucket'[j] = bucket[j]  BY <1>1 DEF LimiterInv
<1>7. /\ r <= now => bucket'[k].count = 1 /\ bucket'[k].resetAt = now + Window
      /\ r > now /\ c > Limit => bucket'[k] = bucket[k]
      /\ r > now /\ c <= Limit => bucket'[k].count = c + 1 /\ bucket'[k].resetAt = r
  BY <1>0, <1>1, <1>2 DEF LimiterInv
<1>8. /\ bucket' \in [Keys -> [count : Nat, resetAt : Nat]]
      /\ admitted' \in [Keys -> [Instants -> Nat]]
  <2>1. admitted' = admitted \/ admitted' = [admitted EXCEPT ![k] = b]  BY <1>1
  <2> HIDE DEF b
  <2> QED  BY <1>1, <1>2, <1>4, <2>1 DEF LimiterInv
<1>9. Fits(admitted'[k], now, bucket'[k].count, bucket'[k].resetAt)
  <2>1. CASE r <= now
    <3>1. Fits(b, now, 1, now + Window)  BY <1>0, <2>1, FitsReplaced
    <3> HIDE DEF a, b, c, r
    <3> QED  BY <1>3, <1>5, <1>7, <2>1, <3>1
  <2>2. CASE r > now /\ c > Limit
    <3>1. ~Allowed(k)  BY <1>0, <1>3, <2>2
    <3>2. admitted'[k] = a /\ bucket'[k].count = c /\ bucket'[k].resetAt = r
      BY <1>5, <1>7, <2>2, <3>1
    <3> HIDE DEF a, b, c, r
    <3> QED  BY <1>0, <3>2
  <2>3. CASE r > now /\ c <= Limit
    <3>0. now < r  BY <1>0, <2>3
    <3>1. /\ c >= Limit => Fits(a, now, c + 1, r)
          /\ c < Limit => Fits(b, now, c + 1, r)
      BY <1>0, <3>0, FitsCounted
    <3> HIDE DEF a, b, c, r
    <3>2. CASE c < Limit
      BY <1>3, <1>5, <1>7, <2>3, <3>1, <3>2
    <3>3. CASE c >= Limit
      <4>1. ~Allowed(k)  BY <1>0, <1>3, <2>3, <3>3
      <4> QED  BY <1>5, <1>7, <2>3, <3>1, <3>3, <4>1
    <3> QED  BY <1>0, <3>2, <3>3
  <2> QED  BY <1>0, <2>1, <2>2, <2>3
<1>10. LimiterInv'
  BY <1>0, <1>5, <1>6, <1>8, <1>9 DEF LimiterInv
<1>11. \A j \in Keys : \A R \in SUBSET Instants : Total(admitted[j], R) <= Total(admitted'[j], R)
  <2> SUFFICES ASSUME NEW j \in Keys, NEW R \in SUBSET Instants
               PROVE  Total(admitted[j], R) <= Total(admitted'[j], R)
    OBVIOUS
  <2>1. Total(admitted[j], R) \in Nat
    <3>1. admitted[j] \in [Instants -> Nat]  BY DEF LimiterInv
    <3> QED  BY <3>1, SpanSums
  <2>2. CASE admitted'[j] = admitted[j]  BY <2>1, <2>2
  <2>3. CASE j = k /\ admitted'[k] = b
    <3>1. Total(b, R) = (IF now \in R THEN Total(a, R) + 1 ELSE Total(a, R)) /\ Total(a, R) \in Nat
      BY <1>4
    <3>2. Total(a, R) <= Total(b, R)  BY <3>1
    <3> HIDE DEF b
    <3> QED  BY <2>3, <3>2
  <2> QED  BY <1>5, <2>2, <2>3
<1>12. ASSUME ~Allowed(k)
       PROVE  \E t \in Instants : Total(admitted'[k], Span(t, t + Window)) >= Limit
  <2>1. r > now /\ c >= Limit /\ admitted'[k] = a  BY <1>0, <1>3, <1>5, <1>12
  <2>2. c > 0  BY <1>0, <2>1
  <2>3. PICK s \in Instants : r = s + Window /\ Total(a, Span(s, r)) = UpToLimit(c)
    BY <1>0, <2>2 DEF Fits
  <2>4. UpToLimit(c) = Limit  BY <1>0, <2>1 DEF UpToLimit
  <2> HIDE DEF a, c, r
  <2>5. Total(admitted'[k], Span(s, s + Window)) = Limit  BY <2>1, <2>3, <2>4
  <2> QED  BY <1>0, <2>5
<1> QED  BY <1>10, <1>11, <1>12

(* An attempt ends with its outcome reported or with the check as it was, one further. *)
LEMMA OutcomeReported ==
  ASSUME check \in [Checks -> [attempt : Nat, result : Outcomes]], NEW c \in Checks,
         NEW outcome \in {"ok", "http_429", "failed"}, Reports(c, outcome)
  PROVE  /\ check' \in [Checks -> [attempt : Nat, result : Outcomes]]
         /\ \A d \in Checks : d # c => check'[d] = check[d]
         /\ check'[c].result \in {check[c].result, outcome}
<1> DEFINE old == check[c]
           next == old.attempt + 1
           row == IF outcome # "ok" /\ old.attempt < Attempts THEN [old EXCEPT !.attempt = next]
                  ELSE [old EXCEPT !.result = outcome]
<1>1. check' = [check EXCEPT ![c] = row]
  <2>1. check' = [check EXCEPT ![c] =
           IF outcome # "ok" /\ check[c].attempt < Attempts
             THEN [check[c] EXCEPT !.attempt = check[c].attempt + 1]
           ELSE [check[c] EXCEPT !.result = outcome]]
    BY Zenon DEF Reports
  <2> QED  BY <2>1, Zenon
<1>2. old \in [attempt : Nat, result : Outcomes]  OBVIOUS
<1> HIDE DEF old
<1>3. row \in [attempt : Nat, result : Outcomes] /\ row.result \in {old.result, outcome}
  BY <1>2 DEF Outcomes
<1> HIDE DEF row
<1> QED  BY <1>1, <1>3 DEF old

LEMMA PipelineStep ==
  ASSUME PipelineInv, PipelineNext
  PROVE  PipelineInv'
<1> DEFINE Goal == PipelineInv'
           Full(t) == Total(admitted[Self], Span(t, t + Window)) >= Limit
<1> SUFFICES Goal  OBVIOUS
<1>0. \A from, to : Span(from, to) \in SUBSET Instants  BY DEF Span
<1>1. ASSUME NEW k \in Keys, PassesLimiter(k)
      PROVE  /\ LimiterInv'
             /\ \A t \in Instants : Total(admitted[Self], Span(t, t + Window)) >= Limit =>
                  Total(admitted'[Self], Span(t, t + Window)) >= Limit
  <2>1. LimiterInv /\ Self \in Keys  BY DEF PipelineInv, Keys
  <2>2. /\ LimiterInv'
        /\ \A j \in Keys : \A R \in SUBSET Instants : Total(admitted[j], R) <= Total(admitted'[j], R)
    BY <1>1, <2>1, LimiterStep
  <2>3. \A R \in SUBSET Instants : Total(admitted[Self], R) \in Nat /\ Total(admitted'[Self], R) \in Nat
    <3>1. admitted[Self] \in [Instants -> Nat] /\ admitted'[Self] \in [Instants -> Nat]
      BY <2>1, <2>2 DEF LimiterInv
    <3> QED  BY <3>1, SpanSums
  <2>4. ASSUME NEW t \in Instants, Total(admitted[Self], Span(t, t + Window)) >= Limit
        PROVE  Total(admitted'[Self], Span(t, t + Window)) >= Limit
    <3> DEFINE R == Span(t, t + Window)
    <3>1. R \in SUBSET Instants  BY <1>0
    <3> HIDE DEF R
    <3>2. Total(admitted[Self], R) <= Total(admitted'[Self], R)  BY <2>1, <2>2, <3>1
    <3>3. Total(admitted[Self], R) \in Nat /\ Total(admitted'[Self], R) \in Nat  BY <2>3, <3>1
    <3>4. Limit \in Nat  BY PipelineAssumption
    <3> QED  BY <2>4, <3>2, <3>3, <3>4 DEF R
  <2> QED  BY <2>2, <2>4
<1>2. ASSUME NEW k \in Clients, RequestArrives(k)  PROVE Goal
  <2>1. k \in Keys /\ PassesLimiter(k) /\ check' = check  BY <1>2 DEF RequestArrives, Keys
  <2>2. FailedForAReason'  BY <1>1, <2>1 DEF FailedForAReason, PipelineInv
  <2> QED  BY <1>1, <2>1, <2>2 DEF PipelineInv
<1>3. ASSUME NEW k \in Clients, NEW c \in Checks, MatrixRequested(k, c)  PROVE Goal
  <2>1. /\ k \in Keys /\ PassesLimiter(k)
        /\ check' = [check EXCEPT ![c] = [attempt |-> 1, result |-> "none"]]
    BY <1>3 DEF MatrixRequested, Keys
  <2>2. /\ check' \in [Checks -> [attempt : Nat, result : Outcomes]]
        /\ \A d \in Checks : check'[d].result = "http_429" => check[d].result = "http_429"
    BY <2>1 DEF FailedForAReason, PipelineInv, Outcomes
  <2>3. FailedForAReason'  BY <1>1, <2>1, <2>2 DEF FailedForAReason, PipelineInv
  <2> QED  BY <1>1, <2>1, <2>3 DEF PipelineInv
<1>4. ASSUME NEW c \in Checks, SelfProbe(c)  PROVE Goal
  <2>0. Self \in Keys  BY DEF Keys
  <2>1. CASE PassesLimiter(Self) /\ \E outcome \in {IF Allowed(Self) THEN "ok" ELSE "http_429", "failed"} :
                                      Reports(c, outcome)
    <3>1. PICK outcome \in {"ok", "http_429", "failed"} :
            Reports(c, outcome) /\ (outcome = "http_429" => ~Allowed(Self))
      BY <2>1
    <3>2. /\ check' \in [Checks -> [attempt : Nat, result : Outcomes]]
          /\ \A d \in Checks : d # c => check'[d] = check[d]
          /\ check'[c].result \in {check[c].result, outcome}
      BY <3>1, OutcomeReported DEF FailedForAReason, PipelineInv
    <3>3. ASSUME ~Allowed(Self)
          PROVE  \E t \in Instants : Total(admitted'[Self], Span(t, t + Window)) >= Limit
      BY <2>0, <2>1, <3>3, LimiterStep DEF PipelineInv
    <3>4. ASSUME NEW d \in Checks, check'[d].result = "http_429"
          PROVE  \E t \in Instants : Total(admitted'[Self], Span(t, t + Window)) >= Limit
      <4>1. CASE check[d].result = "http_429"
        BY <1>1, <2>0, <2>1, <4>1 DEF FailedForAReason, PipelineInv
      <4>2. CASE check[d].result # "http_429"
        <5>1. ~Allowed(Self)  BY <3>1, <3>2, <3>4, <4>2
        <5> QED  BY <3>3, <5>1
      <4> QED  BY <4>1, <4>2
    <3>5. FailedForAReason'  BY <3>2, <3>4 DEF FailedForAReason
    <3> QED  BY <1>1, <2>0, <2>1, <3>5 DEF PipelineInv
  <2>2. CASE /\ UNCHANGED <<now, bucket, admitted>>
             /\ \E outcome \in {"ok", "failed"} : Reports(c, outcome)
    <3>1. PICK outcome \in {"ok", "failed"} : Reports(c, outcome)  BY <2>2
    <3>2. /\ check' \in [Checks -> [attempt : Nat, result : Outcomes]]
          /\ \A d \in Checks : d # c => check'[d] = check[d]
          /\ check'[c].result \in {check[c].result, outcome}
      BY <3>1, OutcomeReported DEF FailedForAReason, PipelineInv
    <3>3. \A d \in Checks : check'[d].result = "http_429" => check[d].result = "http_429"
      BY <3>1, <3>2
    <3> QED  BY <2>2, <3>2, <3>3 DEF PipelineInv, LimiterInv, FailedForAReason
  <2> QED  BY <1>4, <2>1, <2>2 DEF SelfProbe
<1>5. ASSUME NEW c \in Checks, MatrixAnswered(c)  PROVE Goal
  <2>1. /\ check' = [check EXCEPT ![c] = NotChecking]
        /\ now' = now /\ bucket' = bucket /\ admitted' = admitted
    BY <1>5 DEF MatrixAnswered
  <2>2. /\ check' \in [Checks -> [attempt : Nat, result : Outcomes]]
        /\ \A d \in Checks : check'[d].result = "http_429" => check[d].result = "http_429"
    BY <2>1 DEF FailedForAReason, PipelineInv, Outcomes, NotChecking
  <2> QED  BY <2>1, <2>2 DEF PipelineInv, LimiterInv, FailedForAReason
<1>6. ASSUME TimePasses  PROVE Goal
  <2>1. /\ now' = now + 1 /\ now' \in Instants /\ now \in Instants
        /\ bucket' = bucket /\ admitted' = admitted /\ check' = check
    BY <1>6, PipelineAssumption DEF TimePasses, PipelineInv, LimiterInv, Instants
  <2>2. ASSUME NEW k \in Keys
        PROVE  Fits(admitted[k], now + 1, bucket[k].count, bucket[k].resetAt)
    <3>1. Fits(admitted[k], now, bucket[k].count, bucket[k].resetAt) /\ bucket[k].resetAt \in Nat
      BY DEF PipelineInv, LimiterInv
    <3>2. now \in Nat /\ Window \in Nat /\ \A t \in Instants : t \in Nat
      BY <2>1, PipelineAssumption DEF Instants
    <3> QED  BY <3>1, <3>2 DEF Fits
  <2> QED  BY <2>1, <2>2 DEF PipelineInv, LimiterInv, FailedForAReason
<1> HIDE DEF Goal
<1> QED  BY <1>2, <1>3, <1>4, <1>5, <1>6 DEF PipelineNext

LEMMA PipelineAlways == Spec => []PipelineInv
<1>1. Init => PipelineInv
  <2> SUFFICES ASSUME Init  PROVE PipelineInv  OBVIOUS
  <2>1. /\ now = 0 /\ bucket = [k \in Keys |-> NoBucket]
        /\ admitted = [k \in Keys |-> [t \in Instants |-> 0]]
        /\ check = [c \in Checks |-> NotChecking] /\ 0 \in Instants
    BY PipelineAssumption DEF Init, PipelineInit, Instants
  <2> DEFINE z == [t \in Instants |-> 0]
  <2>2. z \in [Instants -> Nat] /\ \A t \in Instants : z[t] = 0  OBVIOUS
  <2> HIDE DEF z
  <2>3. \A R \in SUBSET Instants : Total(z, R) = 0
    <3> SUFFICES ASSUME NEW R \in SUBSET Instants  PROVE Total(z, R) = 0  OBVIOUS
    <3>1. Total(z, R) <= Total(z, {}) /\ Total(z, R) \in Nat /\ Total(z, {}) = 0
      BY <2>2, SpanSums
    <3> QED  BY <3>1
  <2>4. Fits(z, 0, 0, 0)
    <3>1. \A from, to : Span(from, to) \in SUBSET Instants  BY DEF Span
    <3> QED  BY <2>2, <2>3, <3>1, PipelineAssumption DEF Fits
  <2>5. LimiterInv
    BY <2>1, <2>2, <2>4 DEF LimiterInv, NoBucket, z
  <2>6. FailedForAReason  BY <2>1 DEF FailedForAReason, NotChecking, Outcomes
  <2> QED  BY <2>5, <2>6 DEF PipelineInv
<1>2. PipelineInv /\ [Next]_allVars => PipelineInv'
  <2> SUFFICES ASSUME PipelineInv, [Next]_allVars  PROVE PipelineInv'  OBVIOUS
  <2>1. CASE UNCHANGED pipelineVars
    BY <2>1 DEF pipelineVars, PipelineInv, LimiterInv, FailedForAReason
  <2>2. CASE PipelineActs
    BY <2>2, PipelineStep DEF PipelineActs
  <2> QED  BY <2>1, <2>2, SceneSteps
<1> QED  BY <1>1, <1>2, PTL DEF Spec

(* Of one key no window of the code's length admits more than twice the limit, the window  *)
(* that runs admits what it counts up to the limit, and the gateway reports that it        *)
(* refused its own probe only when its own probes had filled a window.                     *)
THEOREM LimiterStaysBounded == Spec => []LimiterBounds
<1>1. ASSUME PipelineInv  PROVE LimiterBounds
  <2>0. /\ now \in Nat /\ Window \in Nat /\ Limit \in Nat /\ \A t \in Instants : t \in Nat
        /\ Self \in Keys
    BY <1>1, PipelineAssumption DEF PipelineInv, LimiterInv, Instants, Keys
  <2>1. ASSUME NEW k \in Keys
        PROVE  /\ ~Expired(k) => AdmittedDuring(k, bucket[k].resetAt - Window, bucket[k].resetAt)
                                  = (IF bucket[k].count < Limit THEN bucket[k].count ELSE Limit)
               /\ \A t \in 0 .. MaxNow : AdmittedDuring(k, t, t + Window) <= 2 * Limit
               /\ bucket[k].resetAt <= now + Window
    <3> DEFINE r == bucket[k].resetAt
               c == bucket[k].count
    <3>1. Fits(admitted[k], now, c, r) /\ c \in Nat /\ r \in Nat
      BY <1>1 DEF PipelineInv, LimiterInv
    <3>2. \A t \in Instants : AdmittedDuring(k, t, t + Window) <= 2 * Limit
      BY <3>1, AdmittedIsTotal DEF Fits
    <3>3. ASSUME ~Expired(k)
          PROVE  AdmittedDuring(k, r - Window, r) = UpToLimit(c)
      <4>1. c > 0  BY <2>0, <3>1, <3>3 DEF Fits, Expired
      <4>2. PICK s \in Instants : r = s + Window /\ Total(admitted[k], Span(s, r)) = UpToLimit(c)
        BY <3>1, <4>1 DEF Fits
      <4>3. r - Window = s  BY <2>0, <3>1, <4>2
      <4> HIDE DEF r, c
      <4> QED  BY <4>2, <4>3, AdmittedIsTotal
    <3>4. r <= now + Window  BY <3>1 DEF Fits
    <3> QED  BY <3>2, <3>3, <3>4 DEF UpToLimit, Instants
  <2>2. ASSUME NEW c \in Checks, check[c].result = "http_429"
        PROVE  \E t \in 0 .. MaxNow : AdmittedDuring(Self, t, t + Window) >= Limit
    BY <1>1, <2>2, AdmittedIsTotal DEF PipelineInv, FailedForAReason, Instants
  <2> QED  BY <2>1, <2>2 DEF LimiterBounds
<1> QED  BY <1>1, PipelineAlways, PTL
-----------------------------------------------------------------------------
(* ConnectionPool: what a handler may ask for.  A transaction begins with one connection, *)
(* goes on with no other, and ends the handler unless it is a demo seed or cleanup.       *)
PhaseRow == [asks : Nat, does : {"query", "begin", "commit"}]

Regular(h) ==
  /\ h \in Seq(PhaseRow) /\ Len(h) >= 1
  /\ \A i \in 1 .. Len(h) :
       /\ h[i].does = "begin" => h[i].asks = 1 /\ i < Len(h) /\ h[i + 1].does = "commit"
       /\ h[i].does = "commit" => h[i].asks = 0 /\ (i = Len(h) \/ h = DemoWrites)

Joins(S, a, b, c) ==
  /\ c \in Seq(S) /\ Len(c) = Len(a) + Len(b)
  /\ \A i \in 1 .. Len(a) : c[i] = a[i]
  /\ \A i \in 1 .. Len(b) : c[Len(a) + i] = b[i]

LEMMA Joined ==
  ASSUME NEW S, NEW a \in Seq(S), NEW b \in Seq(S)
  PROVE  Joins(S, a, b, a \o b)
BY DEF Joins

LEMMA ReadsRegular ==
  ASSUME NEW counts \in Seq(Nat)
  PROVE  /\ Reads(counts) \in Seq(PhaseRow) /\ Len(Reads(counts)) = Len(counts)
         /\ \A i \in 1 .. Len(counts) : Reads(counts)[i] = Query(counts[i])
         /\ \A i \in 1 .. Len(counts) : Reads(counts)[i].does = "query"
<1>1. DOMAIN counts = 1 .. Len(counts) /\ Len(counts) \in Nat /\ \A i \in 1 .. Len(counts) : counts[i] \in Nat
  OBVIOUS
<1>2. Reads(counts) = [i \in 1 .. Len(counts) |-> Query(counts[i])]
  BY <1>1 DEF Reads
<1>3. \A i \in 1 .. Len(counts) : Query(counts[i]) \in PhaseRow /\ Query(counts[i]).does = "query"
  BY <1>1 DEF Query, PhaseRow
<1> QED  BY <1>1, <1>2, <1>3

LEMMA WritesRegular ==
  ASSUME NEW counts \in Seq(Nat)
  PROVE  Regular(Reads(counts) \o Transaction)
<1> DEFINE reads == Reads(counts)
           n == Len(counts)
           h == reads \o Transaction
<1>1. /\ reads \in Seq(PhaseRow) /\ Len(reads) = n /\ n \in Nat
      /\ \A i \in 1 .. n : reads[i].does = "query"
  BY ReadsRegular
<1>2. /\ Transaction \in Seq(PhaseRow) /\ Len(Transaction) = 2
      /\ Transaction[1].does = "begin" /\ Transaction[1].asks = 1
      /\ Transaction[2].does = "commit" /\ Transaction[2].asks = 0
  BY DEF Transaction, PhaseRow
<1> HIDE DEF reads, n
<1>j. Joins(PhaseRow, reads, Transaction, h)
  BY <1>1, <1>2, Joined
<1> HIDE DEF h
<1>3. h \in Seq(PhaseRow) /\ Len(h) = n + 2
  BY <1>1, <1>2, <1>j DEF Joins
<1>4. /\ \A i \in 1 .. n : h[i] = reads[i]
      /\ h[n + 1] = Transaction[1] /\ h[n + 2] = Transaction[2]
  BY <1>1, <1>2, <1>j DEF Joins
<1>5. \A i \in 1 .. Len(h) : i \in 1 .. n \/ i = n + 1 \/ i = n + 2
  BY <1>1, <1>3
<1>6. \A i \in 1 .. n : h[i].does = "query"
  BY <1>1, <1>4
<1>7. Regular(h)
  BY <1>1, <1>2, <1>3, <1>4, <1>5, <1>6 DEF Regular
<1> QED  BY <1>7 DEF h, reads

LEMMA DemoWritesRegular == Regular(DemoWrites)
<1> DEFINE h == DemoWrites
<1>1. /\ <<1>> \in Seq(Nat) /\ Len(<<1>>) = 1 /\ <<4>> \in Seq(Nat) /\ Len(<<4>>) = 1
  OBVIOUS
<1>2. /\ Reads(<<1>>) \in Seq(PhaseRow) /\ Len(Reads(<<1>>)) = 1 /\ Reads(<<1>>)[1].does = "query"
      /\ Reads(<<4>>) \in Seq(PhaseRow) /\ Len(Reads(<<4>>)) = 1 /\ Reads(<<4>>)[1].does = "query"
  <2>1. ASSUME NEW counts \in Seq(Nat), Len(counts) = 1
        PROVE  /\ Reads(counts) \in Seq(PhaseRow) /\ Len(Reads(counts)) = 1
               /\ Reads(counts)[1].does = "query"
    BY <2>1, ReadsRegular
  <2> QED  BY <1>1, <2>1
<1>3. /\ Transaction \in Seq(PhaseRow) /\ Len(Transaction) = 2
      /\ Transaction[1].does = "begin" /\ Transaction[1].asks = 1
      /\ Transaction[2].does = "commit" /\ Transaction[2].asks = 0
  BY DEF Transaction, PhaseRow
<1> DEFINE a == Reads(<<1>>)
           b == Reads(<<4>>)
<1> HIDE DEF a, b
<1>4. h = (a \o Transaction) \o b
  BY DEF DemoWrites, a, b
<1>5. a \in Seq(PhaseRow) /\ Len(a) = 1 /\ a[1].does = "query" /\ b \in Seq(PhaseRow) /\ Len(b) = 1 /\ b[1].does = "query"
  BY <1>2 DEF a, b
<1> DEFINE c == a \o Transaction
<1>a. Joins(PhaseRow, a, Transaction, c)
  BY <1>3, <1>5, Joined
<1> HIDE DEF c
<1>c. c \in Seq(PhaseRow) /\ Len(c) = 3 /\ c[1] = a[1] /\ c[2] = Transaction[1] /\ c[3] = Transaction[2]
  BY <1>a, <1>3, <1>5 DEF Joins
<1>b. Joins(PhaseRow, c, b, h)
  BY <1>4, <1>c, <1>5, Joined DEF c
<1> HIDE DEF h
<1>6. h \in Seq(PhaseRow) /\ Len(h) = 4
  BY <1>c, <1>b, <1>5 DEF Joins
<1>7. h[1] = a[1] /\ h[2] = Transaction[1] /\ h[3] = Transaction[2] /\ h[4] = b[1]
  BY <1>c, <1>b, <1>5 DEF Joins
<1>8. \A i \in 1 .. Len(h) : i \in {1, 2, 3, 4}
  BY <1>6
<1>9. h = DemoWrites  BY DEF h
<1>10. Regular(h)
  BY <1>3, <1>5, <1>6, <1>7, <1>8, <1>9 DEF Regular
<1> QED  BY <1>10, <1>9

LEMMA HandlersRegular == \A h \in Handlers : Regular(h)
<1>1. ASSUME NEW counts \in Seq(Nat), Len(counts) >= 1
      PROVE  Regular(Reads(counts))
  <2> DEFINE h == Reads(counts)
  <2>1. h \in Seq(PhaseRow) /\ Len(h) = Len(counts) /\ \A i \in 1 .. Len(h) : h[i].does = "query"
    BY ReadsRegular
  <2> HIDE DEF h
  <2>2. Regular(h)  BY <1>1, <2>1 DEF Regular
  <2> QED  BY <2>2 DEF h
<1> DEFINE Good(S) == \A counts \in S : counts \in Seq(Nat) /\ Len(counts) >= 1
<1>2. ProviderRows \in Nat /\ 3 * ProviderRows \in Nat  BY PoolAssumption
<1>3. Good(SessionReads) /\ Good(ActivityReads) /\ Good(ResetRequests) /\ Good(ModuleReads)
  BY DEF SessionReads, ActivityReads, ResetRequests, ModuleReads
<1>4. Good(PluginReads) /\ Good(ProviderReads) /\ Good(CredentialReads) /\ Good(ProviderHealthReads)
  BY <1>2 DEF PluginReads, ProviderReads, CredentialReads, ProviderHealthReads
<1>5. Good(ProviderEventReads) /\ Good(SellerReads) /\ Good(KycReads) /\ Good(ProductReads)
  BY DEF ProviderEventReads, SellerReads, KycReads, ProductReads
<1>6. Good(VariantReads) /\ Good(CategoryReads) /\ Good(ProductEventReads) /\ Good(OrderReads)
  BY DEF VariantReads, CategoryReads, ProductEventReads, OrderReads
<1>7. Good(OrderItemReads) /\ Good(OrderEventReads) /\ Good(RefundReads) /\ Good(OrderJobReads)
  BY DEF OrderItemReads, OrderEventReads, RefundReads, OrderJobReads
<1>8. Good(ThemeReads) /\ Good(TenantThemeReads) /\ Good(ThemeEventReads) /\ Good(TenantReads)
  BY DEF ThemeReads, TenantThemeReads, ThemeEventReads, TenantReads
<1>9. Good(WorkspaceReads) /\ Good(ControlCenterReads) /\ Good(RuntimeReads) /\ Good(BridgeReads)
  BY DEF WorkspaceReads, ControlCenterReads, RuntimeReads, BridgeReads
<1>10. Good(DemoReads) /\ Good(OdooReads) /\ Good(AiReads)
  BY DEF DemoReads, OdooReads, AiReads
<1>11. \A h \in PlainHandlers : Regular(h)
  <2> SUFFICES ASSUME NEW h \in PlainHandlers  PROVE Regular(h)  OBVIOUS
  <2>1. PICK counts : h = Reads(counts) /\ counts \in Seq(Nat) /\ Len(counts) >= 1
    BY <1>3, <1>4, <1>5, <1>6, <1>7, <1>8, <1>9, <1>10 DEF PlainHandlers
  <2> QED  BY <1>1, <2>1
<1>12. \A h \in WriteHandlers : Regular(h)
  <2>1. <<>> \in Seq(Nat) /\ <<1>> \in Seq(Nat) /\ <<1, 1>> \in Seq(Nat) /\ <<1, 1, 1>> \in Seq(Nat)
    OBVIOUS
  <2> QED  BY <2>1, WritesRegular DEF WriteHandlers
<1>13. \A h \in RefusedHandlers : Regular(h)
  <2>1. /\ <<1, 1, 1>> \in Seq(Nat) /\ Len(<<1, 1, 1>>) >= 1
        /\ <<1, 1, 1, 1>> \in Seq(Nat) /\ Len(<<1, 1, 1, 1>>) >= 1
    OBVIOUS
  <2> QED  BY <1>1, <2>1 DEF RefusedHandlers
<1> QED  BY <1>11, <1>12, <1>13, DemoWritesRegular DEF Handlers

(* How many of the first n places of a queue are a request's. *)
Served(q, n) == [r \in Requests |-> Cardinality({i \in 1 .. n : q[i] = r})]

LEMMA ServedStep ==
  ASSUME NEW q, NEW n \in Nat
  PROVE  \A r \in Requests : /\ Served(q, n)[r] \in Nat /\ Served(q, 0)[r] = 0
                             /\ Served(q, n + 1)[r] =
                                  IF r = q[n + 1] THEN Served(q, n)[r] + 1 ELSE Served(q, n)[r]
<1> SUFFICES ASSUME NEW r \in Requests
             PROVE  /\ Served(q, n)[r] \in Nat /\ Served(q, 0)[r] = 0
                    /\ Served(q, n + 1)[r] =
                         IF r = q[n + 1] THEN Served(q, n)[r] + 1 ELSE Served(q, n)[r]
  OBVIOUS
<1> DEFINE P(m) == {i \in 1 .. m : q[i] = r}
<1>1. \A m : Served(q, m)[r] = Cardinality(P(m))  BY DEF Served
<1>2. P(0) = {} /\ n + 1 \notin P(n) /\ P(n) \subseteq 1 .. n  OBVIOUS
<1>3. P(n + 1) = IF r = q[n + 1] THEN P(n) \union {n + 1} ELSE P(n)  OBVIOUS
<1> HIDE DEF P
<1>4. IsFiniteSet(1 .. n)  BY FS_Interval
<1>5. IsFiniteSet(P(n))  BY <1>2, <1>4, FS_Subset
<1>6. Cardinality(P(n)) \in Nat  BY <1>5, FS_CardinalityType
<1>7. Cardinality(P(n) \union {n + 1}) = Cardinality(P(n)) + 1
  BY <1>2, <1>5, FS_AddElement
<1>8. Cardinality({}) = 0  BY FS_EmptySet
<1> QED  BY <1>1, <1>2, <1>3, <1>6, <1>7, <1>8

(* Every place is somebody's: what is served adds up to the places handed out. *)
LEMMA ServedSums ==
  ASSUME NEW q \in Seq(Requests), NEW n \in 0 .. Len(q)
  PROVE  Total(Served(q, n), Requests) = n
<1> DEFINE B == {m \in Nat : m <= Len(q) /\ Total(Served(q, m), Requests) # m}
<1>0. IsFiniteSet(Requests) /\ Len(q) \in Nat  BY PoolAssumption
<1>1. B = {}
  <2> SUFFICES ASSUME B # {}  PROVE FALSE  OBVIOUS
  <2>1. PICK m \in B : \A k \in Nat : k < m => k \notin B
    <3>1. B \subseteq Nat  OBVIOUS
    <3> HIDE DEF B
    <3> QED  BY <3>1, SmallestNumber
  <2>2. m \in Nat /\ m <= Len(q) /\ Total(Served(q, m), Requests) # m  OBVIOUS
  <2>3. CASE m = 0
    <3>1. \A r \in Requests : Served(q, 0)[r] \in Nat /\ Served(q, 0)[r] = 0  BY ServedStep
    <3>2. {} \in SUBSET Requests /\ \A r \in Requests \ {} : Served(q, 0)[r] = 0  BY <3>1
    <3>3. Total(Served(q, 0), {}) = Total(Served(q, 0), Requests)
      BY <1>0, <3>1, <3>2, TotalGrows
    <3>4. Total(Served(q, 0), {}) = 0
      <4>1. IsFiniteSet({})  BY FS_EmptySet
      <4> QED  BY <4>1, TotalStep
    <3> QED  BY <2>2, <2>3, <3>3, <3>4
  <2>4. CASE m # 0
    <3> DEFINE k == m - 1
    <3>1. k \in Nat /\ k < m /\ k + 1 = m /\ k <= Len(q) /\ m \in 1 .. Len(q)
      BY <1>0, <2>2, <2>4
    <3>2. Total(Served(q, k), Requests) = k
      BY <2>1, <3>1
    <3>3. q[m] \in Requests  BY <3>1
    <3> HIDE DEF k, B
    <3>4. \A r \in Requests : /\ Served(q, k)[r] \in Nat
                              /\ Served(q, m)[r] = IF r = q[m] THEN Served(q, k)[r] + 1
                                                   ELSE Served(q, k)[r]
      BY <3>1, ServedStep
    <3> DEFINE g == Served(q, k)
               h == Served(q, m)
               y == q[m]
    <3>5. y \in Requests /\ \A r \in Requests : g[r] \in Nat /\ h[r] = IF r = y THEN g[r] + 1 ELSE g[r]
      BY <3>3, <3>4
    <3> HIDE DEF g, h, y
    <3>6. Total(h, Requests) = Total(g, Requests) + 1  BY <1>0, <3>5, TotalBumped
    <3> QED  BY <2>2, <3>1, <3>2, <3>6 DEF g, h
  <2> QED  BY <2>3, <2>4
<1> QED  BY <1>1, <1>0
-----------------------------------------------------------------------------
PoolRow ==
  [handler : Handlers \union {<<>>}, at : Nat, running : Nat, kept : BOOLEAN,
   committed : BOOLEAN, answer : {"none", "ok", "error"}]

Queues(q, r) == \E i \in 1 .. Len(q) : q[i] = r
QueuesOnce(q, r) == \A i, j \in 1 .. Len(q) : q[i] = r /\ q[j] = r => i = j

Does(row) == row.handler[row.at].does

(* Who keeps a connection does not wait for another, and a write that committed is over, *)
(* or its handler is of the demo.                                                        *)
Behaves(row, r, q) ==
  /\ row.answer = "none" => row.handler \in Handlers /\ row.at \in 1 .. Len(row.handler)
  /\ row.kept =>
       /\ row.answer = "none" /\ Does(row) \in {"begin", "commit"}
       /\ row.running = 0 /\ ~Queues(q, r)
  /\ row.answer = "none" /\ Does(row) = "begin" =>
       /\ row.running <= 1 /\ QueuesOnce(q, r)
       /\ row.running = 1 => ~row.kept /\ ~Queues(q, r)
       /\ row.running = 0 /\ ~Queues(q, r) => row.kept
  /\ row.answer = "none" /\ Does(row) = "commit" => row.running = 0 /\ ~Queues(q, r)
  /\ row.committed /\ row.handler # DemoWrites =>
       /\ row.answer \in {"none", "ok"} /\ row.running = 0 /\ ~Queues(q, r) /\ ~row.kept
       /\ row.answer = "none" => row.at = Len(row.handler)

Running(rows) == Total([r \in Requests |-> rows[r].running], Requests)
Kept(rows) == Cardinality({r \in Requests : rows[r].kept})

PoolInv ==
  /\ free \in Nat /\ waiting \in Seq(Requests) /\ progress \in [Requests -> PoolRow]
  /\ waiting # <<>> => free = 0
  /\ free + Running(progress) + Kept(progress) = PoolMax
  /\ \A r \in Requests : Behaves(progress[r], r, waiting)

LEMMA InUse ==
  ASSUME NEW rows \in [Requests -> PoolRow]
  PROVE  Running(rows) \in Nat /\ Kept(rows) \in Nat
<1>0. IsFiniteSet(Requests)  BY PoolAssumption
<1> DEFINE g == [r \in Requests |-> rows[r].running]
           K == {r \in Requests : rows[r].kept}
<1>1. \A r \in Requests : g[r] \in Nat  BY DEF PoolRow
<1>2. K \subseteq Requests  OBVIOUS
<1> HIDE DEF g, K
<1>3. Total(g, Requests) \in Nat  BY <1>0, <1>1, TotalStep
<1>4. Cardinality(K) \in Nat  BY <1>0, <1>2, FS_Subset, FS_CardinalityType
<1> QED  BY <1>3, <1>4 DEF g, K, Running, Kept

(* Connections go to the head of the queue. *)
LEMMA HandedOut ==
  ASSUME NEW rows \in [Requests -> PoolRow], NEW c \in Nat, NEW q \in Seq(Requests),
         \A r \in Requests : Behaves(rows[r], r, q),
         c + Running(rows) + Kept(rows) = PoolMax,
         HandOut(rows, c, q)
  PROVE  PoolInv'
<1> DEFINE n == IF Len(q) < c THEN Len(q) ELSE c
           s == Served(q, n)
           new == [r \in Requests |-> [rows[r] EXCEPT !.running = @ + s[r]]]
           rest == SubSeq(q, n + 1, Len(q))
<1>0. IsFiniteSet(Requests) /\ Len(q) \in Nat  BY PoolAssumption
<1>1. n \in 0 .. Len(q) /\ n \in Nat /\ n <= c /\ n <= Len(q) /\ (n < Len(q) => n = c)  BY <1>0
<1>2. progress' = new /\ free' = c - n /\ waiting' = rest
  BY DEF HandOut, Served
<1> HIDE DEF n
<1>3. /\ \A r \in Requests : s[r] \in Nat
      /\ Total(s, Requests) = n
  BY <1>1, ServedStep, ServedSums
<1>4. rest \in Seq(Requests) /\ Len(rest) = Len(q) - n /\ \A i \in 1 .. Len(rest) : rest[i] = q[n + i]
  BY <1>0, <1>1
<1>5. \A r \in Requests : s[r] = Cardinality({i \in 1 .. n : q[i] = r})  BY DEF Served
<1> HIDE DEF s, rest
<1>6. \A r \in Requests : rows[r] \in PoolRow  OBVIOUS
<1>7. ASSUME NEW r \in Requests
      PROVE  /\ new[r] \in PoolRow /\ new[r].running = rows[r].running + s[r]
             /\ new[r].handler = rows[r].handler /\ new[r].at = rows[r].at
             /\ new[r].kept = rows[r].kept /\ new[r].committed = rows[r].committed
             /\ new[r].answer = rows[r].answer
  <2> DEFINE old == rows[r]
             more == s[r]
  <2>1. old \in PoolRow /\ more \in Nat /\ new[r] = [old EXCEPT !.running = @ + more]
    BY <1>3, <1>6
  <2> DEFINE sum == old.running + more
             row == [old EXCEPT !.running = sum]
  <2>a. sum \in Nat /\ row = [old EXCEPT !.running = @ + more]  BY <2>1 DEF PoolRow
  <2>b. row.running = sum
    <3> HIDE DEF sum
    <3> QED  BY <2>1 DEF PoolRow
  <2>c. row \in PoolRow
    <3> HIDE DEF sum
    <3> QED  BY <2>1, <2>a DEF PoolRow
  <2>2. row \in PoolRow /\ row.running = old.running + more
    BY <2>b, <2>c
  <2>3. /\ row.handler = old.handler /\ row.at = old.at /\ row.kept = old.kept
        /\ row.committed = old.committed /\ row.answer = old.answer
    BY <2>1, Zenon DEF PoolRow
  <2>4. new[r] = row /\ old = rows[r] /\ more = s[r]  BY <2>1, <2>a
  <2> HIDE DEF old, more, new, row
  <2> QED  BY <2>2, <2>3, <2>4, Zenon
<1>8. new \in [Requests -> PoolRow]  BY <1>7
<1>9. Running(new) = Running(rows) + n
  <2> DEFINE a == [r \in Requests |-> new[r].running]
             z == [r \in Requests |-> 0]
             b == [r \in Requests |-> rows[r].running]
  <2>1. \A r \in Requests : a[r] \in Nat /\ z[r] \in Nat /\ b[r] \in Nat /\ s[r] \in Nat
    BY <1>3, <1>6, <1>7 DEF PoolRow
  <2>2. \A r \in Requests : a[r] + z[r] = b[r] + s[r]
    <3> SUFFICES ASSUME NEW r \in Requests  PROVE a[r] + z[r] = b[r] + s[r]  OBVIOUS
    <3>1. a[r] = new[r].running /\ z[r] = 0 /\ b[r] = rows[r].running  OBVIOUS
    <3>2. new[r].running = rows[r].running + s[r]  BY <1>7
    <3> HIDE DEF a, z, b, new
    <3> QED  BY <2>1, <3>1, <3>2
  <2>3. {} \in SUBSET Requests /\ \A r \in Requests \ {} : z[r] = 0  OBVIOUS
  <2> HIDE DEF a, b, z, new
  <2>4. Total(a, Requests) + Total(z, Requests) = Total(b, Requests) + Total(s, Requests)
    BY <1>0, <2>1, <2>2, TotalLinear
  <2>5. Total(z, Requests) = 0
    <3>1. Total(z, {}) = Total(z, Requests)  BY <1>0, <2>1, <2>3, TotalGrows
    <3>2. IsFiniteSet({})  BY FS_EmptySet
    <3> QED  BY <3>1, <3>2, TotalStep
  <2>6. Total(a, Requests) \in Nat /\ Total(b, Requests) \in Nat  BY <1>0, <2>1, TotalStep
  <2> QED  BY <1>1, <1>3, <2>4, <2>5, <2>6 DEF a, b, Running
<1>10. Kept(new) = Kept(rows)
  <2>1. {r \in Requests : new[r].kept} = {r \in Requests : rows[r].kept}  BY <1>7
  <2> QED  BY <2>1 DEF Kept
<1>11. ASSUME NEW r \in Requests
       PROVE  Behaves(new[r], r, rest)
  <2> DEFINE P == {i \in 1 .. n : q[i] = r}
  <2>1. Queues(rest, r) => Queues(q, r)
    BY <1>0, <1>1, <1>4 DEF Queues
  <2>2. ~Queues(q, r) => s[r] = 0
    <3>1. ~Queues(q, r) => P = {}  BY <1>0, <1>1 DEF Queues
    <3>2. Cardinality({}) = 0  BY FS_EmptySet
    <3> QED  BY <1>5, <3>1, <3>2
  <2>3. QueuesOnce(q, r) => QueuesOnce(rest, r)
    <3> SUFFICES ASSUME QueuesOnce(q, r), NEW i \in 1 .. Len(rest), NEW j \in 1 .. Len(rest),
                        rest[i] = r, rest[j] = r
                 PROVE  i = j
      BY DEF QueuesOnce
    <3>1. q[n + i] = r /\ q[n + j] = r  BY <1>4
    <3>2. n + i \in 1 .. Len(q) /\ n + j \in 1 .. Len(q)  BY <1>0, <1>1, <1>4
    <3>3. n + i = n + j  BY <3>1, <3>2 DEF QueuesOnce
    <3> QED  BY <1>1, <3>3
  <2>4. ASSUME QueuesOnce(q, r), Queues(q, r)
        PROVE  (s[r] = 1 /\ ~Queues(rest, r)) \/ (s[r] = 0 /\ Queues(rest, r))
    <3>1. PICK p \in 1 .. Len(q) : q[p] = r /\ \A i \in 1 .. Len(q) : q[i] = r => i = p
      BY <2>4 DEF Queues, QueuesOnce
    <3>2. CASE p <= n
      <4>1. P = {p}  BY <1>0, <1>1, <3>1, <3>2
      <4>2. s[r] = 1  BY <1>5, <4>1, FS_Singleton
      <4>3. ~Queues(rest, r)  BY <1>0, <1>1, <1>4, <3>1, <3>2 DEF Queues
      <4> QED  BY <4>2, <4>3
    <3>3. CASE p > n
      <4>1. P = {}  BY <1>0, <1>1, <3>1, <3>3
      <4>2. s[r] = 0  BY <1>5, <4>1, FS_EmptySet
      <4>3. p - n \in 1 .. Len(rest) /\ rest[p - n] = r
        BY <1>0, <1>1, <1>4, <3>1, <3>3
      <4> QED  BY <4>2, <4>3 DEF Queues
    <3> QED  BY <1>1, <3>2, <3>3
  <2> DEFINE old == rows[r]
             row == new[r]
  <2>5. /\ Behaves(old, r, q) /\ old \in PoolRow /\ row \in PoolRow
        /\ row.running = old.running + s[r] /\ s[r] \in Nat
        /\ row.handler = old.handler /\ row.at = old.at /\ row.kept = old.kept
        /\ row.committed = old.committed /\ row.answer = old.answer
    BY <1>3, <1>6, <1>7
  <2>6. Does(row) = Does(old)  BY <2>5 DEF Does
  <2> HIDE DEF old, row, new
  <2>7. old.running \in Nat  BY <2>5 DEF PoolRow
  <2>8. Behaves(row, r, rest)
    BY <2>1, <2>2, <2>3, <2>4, <2>5, <2>6, <2>7 DEF Behaves
  <2> QED  BY <2>8 DEF row
<1>12. rest # <<>> => c - n = 0
  <2>1. rest # <<>> => Len(rest) # 0  BY <1>4
  <2> QED  BY <1>0, <1>1, <1>4, <2>1
<1>13. c - n \in Nat /\ c - n + Running(new) + Kept(new) = PoolMax
  BY <1>1, <1>9, <1>10, InUse, PoolAssumption
<1> HIDE DEF new
<1>14. \A r \in Requests : Behaves(new[r], r, rest)  BY <1>11 DEF new
<1> QED  BY <1>2, <1>4, <1>8, <1>12, <1>13, <1>14 DEF PoolInv, Running, Kept

One(b) == IF b THEN 1 ELSE 0

(* One request's row is replaced. *)
Replaced(rows, r, row, then) ==
  /\ then \in [Requests -> PoolRow] /\ then[r] = row
  /\ \A x \in Requests : x # r => then[x] = rows[x]
  /\ Running(then) + rows[r].running = Running(rows) + row.running
  /\ Kept(then) + One(rows[r].kept) = Kept(rows) + One(row.kept)

LEMMA RowReplaced ==
  ASSUME NEW rows \in [Requests -> PoolRow], NEW r \in Requests, NEW row \in PoolRow
  PROVE  Replaced(rows, r, row, [rows EXCEPT ![r] = row])
<1> DEFINE then == [rows EXCEPT ![r] = row]
<1>a. then = [rows EXCEPT ![r] = row]  OBVIOUS
<1> HIDE DEF then
<1>0. IsFiniteSet(Requests)  BY PoolAssumption
<1>1. /\ then \in [Requests -> PoolRow] /\ then[r] = row
      /\ \A x \in Requests : x # r => then[x] = rows[x]
  BY <1>a
<1>2. Running(then) + rows[r].running = Running(rows) + row.running
  <2> DEFINE g == [x \in Requests |-> rows[x].running]
             h == [x \in Requests |-> then[x].running]
             S == Requests \ {r}
  <2>1. \A x \in Requests : g[x] \in Nat /\ h[x] \in Nat  BY <1>1 DEF PoolRow
  <2>2. \A x \in S : g[x] = h[x]  BY <1>1
  <2>3. g[r] = rows[r].running /\ h[r] = row.running  BY <1>1
  <2>4. IsFiniteSet(S) /\ S \subseteq Requests  BY <1>0, FS_Subset
  <2> HIDE DEF g, h
  <2>5. Total(g, Requests) = g[r] + Total(g, S) /\ Total(h, Requests) = h[r] + Total(h, S)
    BY <1>0, <2>1, TotalWithout
  <2> HIDE DEF S
  <2>6. Total(g, S) = Total(h, S) /\ Total(g, S) \in Nat
    BY <2>1, <2>2, <2>4, TotalSame, TotalStep
  <2>7. g[r] \in Nat /\ h[r] \in Nat  BY <2>1
  <2>8. Running(rows) = Total(g, Requests) /\ Running(then) = Total(h, Requests)
    BY DEF Running, g, h
  <2> QED  BY <2>3, <2>5, <2>6, <2>7, <2>8
<1>3. Kept(then) + One(rows[r].kept) = Kept(rows) + One(row.kept)
  <2> DEFINE K == {x \in Requests : rows[x].kept}
             L == {x \in Requests : then[x].kept}
             R == K \ {r}
  <2>1. R = L \ {r}  BY <1>1
  <2>2. r \in K <=> rows[r].kept  OBVIOUS
  <2>3. r \in L <=> row.kept  BY <1>1, Zenon
  <2>4. IsFiniteSet(K) /\ IsFiniteSet(L) /\ IsFiniteSet(R)
    <3>1. K \subseteq Requests /\ L \subseteq Requests /\ R \subseteq Requests  OBVIOUS
    <3> HIDE DEF K, L, R
    <3> QED  BY <1>0, <3>1, FS_Subset
  <2>5. (r \in K => K = R \union {r}) /\ (r \notin K => K = R)  OBVIOUS
  <2>6. (r \in L => L = R \union {r}) /\ (r \notin L => L = R)  BY <2>1
  <2>7. r \notin R  OBVIOUS
  <2> HIDE DEF R, K, L
  <2>8. Cardinality(R \union {r}) = Cardinality(R) + 1 /\ Cardinality(R) \in Nat
    BY <2>4, <2>7, FS_AddElement, FS_CardinalityType
  <2>9. Cardinality(K) = Cardinality(R) + (IF r \in K THEN 1 ELSE 0)
    <3>1. CASE r \in K
      <4>1. K = R \union {r}  BY <2>5, <3>1
      <4>2. Cardinality(K) = Cardinality(R \union {r})  BY <4>1, Zenon
      <4> QED  BY <2>8, <3>1, <4>2
    <3>2. CASE r \notin K
      <4>1. K = R  BY <2>5, <3>2
      <4>2. Cardinality(K) = Cardinality(R)  BY <4>1, Zenon
      <4> QED  BY <2>8, <3>2, <4>2
    <3> QED  BY <3>1, <3>2
  <2>10. Cardinality(L) = Cardinality(R) + (IF r \in L THEN 1 ELSE 0)
    <3>1. CASE r \in L
      <4>1. L = R \union {r}  BY <2>6, <3>1
      <4>2. Cardinality(L) = Cardinality(R \union {r})  BY <4>1, Zenon
      <4> QED  BY <2>8, <3>1, <4>2
    <3>2. CASE r \notin L
      <4>1. L = R  BY <2>6, <3>2
      <4>2. Cardinality(L) = Cardinality(R)  BY <4>1, Zenon
      <4> QED  BY <2>8, <3>2, <4>2
    <3> QED  BY <3>1, <3>2
  <2>11. One(rows[r].kept) = IF r \in K THEN 1 ELSE 0  BY <2>2, Zenon DEF One
  <2>12. One(row.kept) = IF r \in L THEN 1 ELSE 0  BY <2>3, Zenon DEF One
  <2>13. Kept(rows) = Cardinality(K) /\ Kept(then) = Cardinality(L)  BY DEF Kept, K, L
  <2> QED  BY <2>8, <2>9, <2>10, <2>11, <2>12, <2>13
<1> QED  BY <1>1, <1>2, <1>3 DEF Replaced, then

LEMMA WaitsQueues == ASSUME PoolInv  PROVE \A r : Waits(r) <=> Queues(waiting, r)
<1>1. waiting \in Seq(Requests)  BY DEF PoolInv
<1>2. DOMAIN waiting = 1 .. Len(waiting)  BY <1>1
<1> QED  BY <1>2 DEF Waits, Queues

(* A row is replaced, and nothing is handed out. *)
LEMMA RowSet ==
  ASSUME PoolInv, NEW r \in Requests, NEW row \in PoolRow,
         progress' = [progress EXCEPT ![r] = row], free' = free, waiting' = waiting,
         Behaves(row, r, waiting),
         progress[r].running + One(progress[r].kept) = row.running + One(row.kept)
  PROVE  PoolInv'
<1> DEFINE then == [progress EXCEPT ![r] = row]
<1>1. progress \in [Requests -> PoolRow] /\ progress[r] \in PoolRow  BY DEF PoolInv
<1>a. then = [progress EXCEPT ![r] = row]  OBVIOUS
<1>r. Replaced(progress, r, row, then)  BY <1>1, RowReplaced
<1> HIDE DEF then
<1>2. /\ then \in [Requests -> PoolRow] /\ then[r] = row
      /\ \A x \in Requests : x # r => then[x] = progress[x]
      /\ Running(then) + progress[r].running = Running(progress) + row.running
      /\ Kept(then) + One(progress[r].kept) = Kept(progress) + One(row.kept)
  BY <1>r DEF Replaced
<1>3. progress' = then  BY <1>a
<1>4. \A x \in Requests : Behaves(then[x], x, waiting)
  BY <1>2 DEF PoolInv
<1>5. /\ progress[r].running \in Nat /\ row.running \in Nat
      /\ One(progress[r].kept) \in Nat /\ One(row.kept) \in Nat
      /\ Running(then) \in Nat /\ Kept(then) \in Nat
      /\ Running(progress) \in Nat /\ Kept(progress) \in Nat
  BY <1>1, <1>2, InUse DEF PoolRow, One
<1>6. free \in Nat /\ free + Running(progress) + Kept(progress) = PoolMax  BY DEF PoolInv
<1>7. free + Running(then) + Kept(then) = PoolMax
  BY <1>2, <1>5, <1>6
<1> QED  BY <1>2, <1>3, <1>4, <1>7 DEF PoolInv, Running, Kept

(* Connections come back. *)
LEMMA Returned ==
  ASSUME PoolInv, NEW r \in Requests, NEW row \in PoolRow, NEW m \in Nat,
         GiveBack(row, r, m), Behaves(row, r, waiting),
         progress[r].running + One(progress[r].kept) = row.running + One(row.kept) + m
  PROVE  PoolInv'
<1> DEFINE then == [progress EXCEPT ![r] = row]
<1>1. progress \in [Requests -> PoolRow] /\ progress[r] \in PoolRow  BY DEF PoolInv
<1>a. then = [progress EXCEPT ![r] = row]  OBVIOUS
<1>r. Replaced(progress, r, row, then)  BY <1>1, RowReplaced
<1> HIDE DEF then
<1>2. /\ then \in [Requests -> PoolRow] /\ then[r] = row
      /\ \A x \in Requests : x # r => then[x] = progress[x]
      /\ Running(then) + progress[r].running = Running(progress) + row.running
      /\ Kept(then) + One(progress[r].kept) = Kept(progress) + One(row.kept)
  BY <1>r DEF Replaced
<1>3. HandOut(then, free + m, waiting)  BY DEF GiveBack, then
<1>4. \A x \in Requests : Behaves(then[x], x, waiting)
  BY <1>2 DEF PoolInv
<1>5. /\ progress[r].running \in Nat /\ row.running \in Nat
      /\ One(progress[r].kept) \in Nat /\ One(row.kept) \in Nat
      /\ Running(then) \in Nat /\ Kept(then) \in Nat
      /\ Running(progress) \in Nat /\ Kept(progress) \in Nat
  BY <1>1, <1>2, InUse DEF PoolRow, One
<1>6. free \in Nat /\ free + Running(progress) + Kept(progress) = PoolMax  BY DEF PoolInv
<1>7. free + m \in Nat /\ (free + m) + Running(then) + Kept(then) = PoolMax
  BY <1>2, <1>5, <1>6
<1>8. waiting \in Seq(Requests)  BY DEF PoolInv
<1> QED  BY <1>2, <1>3, <1>4, <1>7, <1>8, HandedOut

(* A request at rest asks for the connections of a phase. *)
LEMMA Asked ==
  ASSUME PoolInv, NEW r \in Requests, NEW row \in PoolRow, NEW m \in Nat,
         AskFor(row, r, m), progress[r].running = 0, ~Queues(waiting, r),
         row.running = 0, row.kept = progress[r].kept, row.answer = "none",
         row.handler \in Handlers, row.at \in 1 .. Len(row.handler),
         m = row.handler[row.at].asks, row.kept => Does(row) = "commit",
         row.committed => row.handler = DemoWrites
  PROVE  PoolInv'
<1> DEFINE then == [progress EXCEPT ![r] = row]
           more == [i \in 1 .. m |-> r]
           q == waiting \o more
<1>1. progress \in [Requests -> PoolRow] /\ progress[r] \in PoolRow  BY DEF PoolInv
<1>a. then = [progress EXCEPT ![r] = row]  OBVIOUS
<1>r. Replaced(progress, r, row, then)  BY <1>1, RowReplaced
<1> HIDE DEF then
<1>2. /\ then \in [Requests -> PoolRow] /\ then[r] = row
      /\ \A x \in Requests : x # r => then[x] = progress[x]
      /\ Running(then) + progress[r].running = Running(progress) + row.running
      /\ Kept(then) + One(progress[r].kept) = Kept(progress) + One(row.kept)
  BY <1>r DEF Replaced
<1>3. HandOut(then, free, q)  BY DEF AskFor, then
<1>4. waiting \in Seq(Requests) /\ Len(waiting) \in Nat  BY DEF PoolInv
<1>5. more \in Seq(Requests) /\ Len(more) = m /\ \A i \in 1 .. m : more[i] = r  OBVIOUS
<1> HIDE DEF more
<1>j. Joins(Requests, waiting, more, q)  BY <1>4, <1>5, Joined
<1> HIDE DEF q
<1>6. /\ q \in Seq(Requests) /\ Len(q) = Len(waiting) + m
      /\ \A i \in 1 .. Len(waiting) : q[i] = waiting[i]
      /\ \A i \in 1 .. Len(q) : i > Len(waiting) => q[i] = r
  <2>1. /\ q \in Seq(Requests) /\ Len(q) = Len(waiting) + m
        /\ \A i \in 1 .. Len(waiting) : q[i] = waiting[i]
        /\ \A i \in 1 .. m : q[Len(waiting) + i] = r
    BY <1>5, <1>j DEF Joins
  <2>2. ASSUME NEW i \in 1 .. Len(q), i > Len(waiting)  PROVE q[i] = r
    <3> DEFINE k == i - Len(waiting)
    <3>1. k \in 1 .. m /\ Len(waiting) + k = i  BY <1>4, <2>1, <2>2
    <3> HIDE DEF k
    <3> QED  BY <2>1, <3>1
  <2> QED  BY <2>1, <2>2
<1>7. ASSUME NEW x \in Requests, x # r
      PROVE  Queues(q, x) = Queues(waiting, x) /\ QueuesOnce(q, x) = QueuesOnce(waiting, x)
  <2>1. ASSUME NEW i \in 1 .. Len(q), q[i] = x  PROVE i \in 1 .. Len(waiting)
    <3>1. ~(i > Len(waiting))  BY <1>6, <1>7, <2>1
    <3> QED  BY <1>4, <1>6, <3>1
  <2>2. \A i \in 1 .. Len(waiting) : i \in 1 .. Len(q)  BY <1>4, <1>6
  <2>3. Queues(q, x) <=> Queues(waiting, x)  BY <1>6, <2>1, <2>2 DEF Queues
  <2>4. QueuesOnce(q, x) <=> QueuesOnce(waiting, x)  BY <1>6, <2>1, <2>2 DEF QueuesOnce
  <2> QED  BY <2>3, <2>4 DEF Queues, QueuesOnce
<1>8. \A x \in Requests : x # r => Behaves(then[x], x, q)
  BY <1>2, <1>7 DEF PoolInv, Behaves
<1>9. Behaves(row, r, q)
  <2>1. Regular(row.handler)  BY HandlersRegular
  <2>2. Does(row) = "commit" => m = 0  BY <2>1 DEF Regular, Does
  <2>3. Does(row) = "begin" => m = 1  BY <2>1 DEF Regular, Does
  <2>4. m = 0 => ~Queues(q, r)  BY <1>4, <1>6 DEF Queues
  <2>5. m = 1 => QueuesOnce(q, r) /\ Queues(q, r)
    <3> SUFFICES ASSUME m = 1  PROVE QueuesOnce(q, r) /\ Queues(q, r)  OBVIOUS
    <3>1. \A i \in 1 .. Len(q) : q[i] = r => i = Len(waiting) + 1
      BY <1>4, <1>6 DEF Queues
    <3>2. Len(waiting) + 1 \in 1 .. Len(q) /\ q[Len(waiting) + 1] = r  BY <1>4, <1>6
    <3> QED  BY <3>1, <3>2 DEF Queues, QueuesOnce
  <2> QED  BY <2>2, <2>3, <2>4, <2>5 DEF Behaves
<1>10. \A x \in Requests : Behaves(then[x], x, q)  BY <1>2, <1>8, <1>9
<1>11. /\ Running(then) \in Nat /\ Kept(then) \in Nat
       /\ Running(progress) \in Nat /\ Kept(progress) \in Nat /\ One(row.kept) \in Nat
       /\ One(progress[r].kept) = One(row.kept)
  BY <1>1, <1>2, InUse DEF One
<1>12. free \in Nat /\ free + Running(progress) + Kept(progress) = PoolMax  BY DEF PoolInv
<1>13. free + Running(then) + Kept(then) = PoolMax
  BY <1>2, <1>11, <1>12
<1> QED  BY <1>2, <1>3, <1>6, <1>10, <1>12, <1>13, HandedOut

LEMMA PoolStep ==
  ASSUME PoolInv, PoolNext
  PROVE  PoolInv'
<1> DEFINE Goal == PoolInv'
<1> SUFFICES Goal  OBVIOUS
<1>0. /\ progress \in [Requests -> PoolRow] /\ waiting \in Seq(Requests) /\ free \in Nat
      /\ \A r \in Requests : progress[r] \in PoolRow /\ Behaves(progress[r], r, waiting)
      /\ \A r : Waits(r) <=> Queues(waiting, r)
  BY WaitsQueues DEF PoolInv
<1>1. ASSUME NEW r \in Requests, NEW handler \in Handlers, Arrives(r, handler)  PROVE Goal
  <2> DEFINE row == [Over EXCEPT !.handler = handler, !.at = 1, !.answer = "none"]
             m == handler[1].asks
  <2>1. /\ AskFor(row, r, m) /\ progress[r].running = 0 /\ ~Waits(r) /\ progress[r].answer # "none"
    BY <1>1 DEF Arrives
  <2>2. progress[r].kept = FALSE  BY <1>0, <2>1 DEF Behaves, PoolRow
  <2>3. Regular(handler)  BY HandlersRegular
  <2>4. 1 \in 1 .. Len(handler) /\ m \in Nat
    <3>1. handler \in Seq(PhaseRow) /\ Len(handler) >= 1  BY <2>3 DEF Regular
    <3>2. 1 \in 1 .. Len(handler) /\ handler[1] \in PhaseRow  BY <3>1
    <3> QED  BY <3>2 DEF PhaseRow
  <2> HIDE DEF m
  <2>5. row \in PoolRow
    <3>1. Over \in PoolRow  BY DEF Over, PoolRow
    <3> QED  BY <3>1 DEF PoolRow
  <2>6. /\ row.running = 0 /\ row.kept = FALSE /\ row.committed = FALSE /\ row.answer = "none"
        /\ row.handler = handler /\ row.at = 1
    BY DEF Over
  <2>7. m = row.handler[row.at].asks  BY DEF m
  <2> HIDE DEF row, Goal
  <2>8. PoolInv'  BY <1>0, <2>1, <2>2, <2>4, <2>5, <2>6, <2>7, Asked
  <2> QED  BY <2>8 DEF Goal
<1>2. ASSUME NEW r \in Requests, QueryDone(r)  PROVE Goal
  <2> DEFINE old == progress[r]
             less == old.running - 1
             c == [old EXCEPT !.running = less]
             held == [c EXCEPT !.kept = TRUE]
  <2>1. old \in PoolRow /\ old.running > 0 /\ Behaves(old, r, waiting)  BY <1>0, <1>2 DEF QueryDone
  <2>2. less \in Nat /\ old.running \in Nat /\ less + 1 = old.running  BY <2>1 DEF PoolRow
  <2>3. old.kept = FALSE  BY <2>1 DEF Behaves, PoolRow
  <2>4. Phase(r).does = Does(old)  BY DEF Phase, Does
  <2>5. \/ old.answer = "none" /\ Does(old) = "begin" /\ free' = free /\ waiting' = waiting
           /\ progress' = [progress EXCEPT ![r] = held]
        \/ ~(old.answer = "none" /\ Does(old) = "begin") /\ GiveBack(c, r, 1)
    BY <1>2, <2>4 DEF QueryDone
  <2> HIDE DEF less, old, Goal
  <2>6. /\ c \in PoolRow /\ c.running = less /\ c.kept = FALSE /\ c.handler = old.handler
        /\ c.at = old.at /\ c.answer = old.answer
    BY <2>1, <2>2, <2>3 DEF PoolRow
  <2>7. c.committed = old.committed  BY <2>1, Zenon DEF PoolRow
  <2> HIDE DEF c
  <2>8. /\ held \in PoolRow /\ held.running = less /\ held.kept = TRUE /\ held.handler = old.handler
        /\ held.at = old.at /\ held.answer = old.answer
    BY <2>6 DEF PoolRow
  <2>9. held.committed = old.committed  BY <2>6, <2>7, Zenon DEF PoolRow
  <2>10. Does(c) = Does(old) /\ Does(held) = Does(old)  BY <2>6, <2>8 DEF Does
  <2> HIDE DEF held
  <2>11. old = progress[r]  BY DEF old
  <2>12. CASE old.answer = "none" /\ Does(old) = "begin" /\ free' = free /\ waiting' = waiting
              /\ progress' = [progress EXCEPT ![r] = held]
    <3>1. old.running = 1 /\ less = 0 /\ ~Queues(waiting, r) /\ QueuesOnce(waiting, r)
          /\ ~(old.committed /\ old.handler # DemoWrites)
      BY <2>1, <2>2, <2>12 DEF Behaves
    <3>2. Behaves(held, r, waiting)  BY <2>1, <2>8, <2>9, <2>10, <2>12, <3>1 DEF Behaves
    <3>3. One(held.kept) = 1 /\ One(old.kept) = 0  BY <2>3, <2>8 DEF One
    <3>4. old.running + One(old.kept) = held.running + One(held.kept)
      BY <2>8, <3>1, <3>3
    <3>5. PoolInv'  BY <2>8, <2>11, <2>12, <3>2, <3>4, RowSet
    <3> QED  BY <3>5 DEF Goal
  <2>13. CASE ~(old.answer = "none" /\ Does(old) = "begin") /\ GiveBack(c, r, 1)
    <3>1. Behaves(c, r, waiting)
      BY <2>1, <2>2, <2>3, <2>6, <2>7, <2>10, <2>13 DEF Behaves
    <3>2. One(c.kept) = 0 /\ One(old.kept) = 0  BY <2>3, <2>6 DEF One
    <3>3. old.running + One(old.kept) = c.running + One(c.kept) + 1
      BY <2>2, <2>6, <3>2
    <3>4. PoolInv'  BY <2>6, <2>11, <2>13, <3>1, <3>3, Returned
    <3> QED  BY <3>4 DEF Goal
  <2> QED  BY <2>5, <2>12, <2>13
<1>3. ASSUME NEW r \in Requests, Committed(r)  PROVE Goal
  <2> DEFINE old == progress[r]
             row == [old EXCEPT !.kept = FALSE, !.committed = TRUE]
  <2>1. /\ old \in PoolRow /\ old.running = 0 /\ Behaves(old, r, waiting) /\ ~Queues(waiting, r)
        /\ old.answer = "none" /\ old.kept /\ GiveBack(row, r, 1)
    BY <1>0, <1>3 DEF Committed, Ready
  <2>2. Does(old) = "commit"  BY <1>3 DEF Committed, Phase, Does
  <2>3. old.handler \in Handlers /\ old.at \in 1 .. Len(old.handler)  BY <2>1 DEF Behaves
  <2>4. old.at = Len(old.handler) \/ old.handler = DemoWrites
    BY <2>2, <2>3, HandlersRegular DEF Regular, Does
  <2>a. old = progress[r]  OBVIOUS
  <2> HIDE DEF old, Goal
  <2>5. /\ row \in PoolRow /\ row.running = 0 /\ row.kept = FALSE /\ row.handler = old.handler
        /\ row.at = old.at /\ row.answer = "none"
    BY <2>1 DEF PoolRow
  <2>6. Does(row) = Does(old)  BY <2>5 DEF Does
  <2> HIDE DEF row
  <2>7. Behaves(row, r, waiting)  BY <2>1, <2>2, <2>3, <2>4, <2>5, <2>6 DEF Behaves
  <2>8. One(row.kept) = 0 /\ One(old.kept) = 1  BY <2>1, <2>5, Zenon DEF One
  <2>9. old.running + One(old.kept) = row.running + One(row.kept) + 1
    <3>1. old.running = 0 /\ row.running = 0  BY <2>1, <2>5
    <3> QED  BY <2>8, <3>1
  <2>10. PoolInv'  BY <2>a, <2>1, <2>5, <2>7, <2>9, Returned
  <2> QED  BY <2>10 DEF Goal
<1>4. ASSUME NEW r \in Requests, Continues(r)  PROVE Goal
  <2> DEFINE old == progress[r]
             next == old.at + 1
             row == [old EXCEPT !.at = next]
             m == old.handler[next].asks
  <2>1. /\ old \in PoolRow /\ old.running = 0 /\ Behaves(old, r, waiting) /\ ~Queues(waiting, r)
        /\ old.answer = "none" /\ old.at < Len(old.handler) /\ AskFor(row, r, m)
        /\ Does(old) = "commit" => ~old.kept
    BY <1>0, <1>4 DEF Continues, Ready, Phase, Does
  <2>2. old.handler \in Handlers /\ old.at \in 1 .. Len(old.handler)  BY <2>1 DEF Behaves
  <2>3. Regular(old.handler)  BY <2>2, HandlersRegular
  <2>4. next \in 1 .. Len(old.handler) /\ next \in Nat /\ m \in Nat
    <3>1. old.handler \in Seq(PhaseRow) /\ old.at < Len(old.handler)  BY <2>1, <2>3 DEF Regular
    <3>2. next \in 1 .. Len(old.handler) /\ next \in Nat  BY <2>2, <3>1
    <3> HIDE DEF next
    <3>3. old.handler[next] \in PhaseRow  BY <3>1, <3>2
    <3> QED  BY <3>2, <3>3 DEF PhaseRow
  <2>5. old.kept => Does(old) = "begin"  BY <2>1 DEF Behaves
  <2>6. Does(old) = "begin" => old.handler[next].does = "commit"
    BY <2>2, <2>3 DEF Regular, Does
  <2>7. old.committed => old.handler = DemoWrites  BY <2>1, <2>2 DEF Behaves
  <2>a. old = progress[r] /\ m = old.handler[next].asks  OBVIOUS
  <2> HIDE DEF old, m, Goal
  <2>8. /\ row \in PoolRow /\ row.running = 0 /\ row.handler = old.handler
        /\ row.at = next /\ row.answer = "none"
    <3> HIDE DEF next
    <3> QED  BY <2>1, <2>4 DEF PoolRow
  <2>9. row.kept = old.kept /\ row.committed = old.committed  BY <2>1, Zenon DEF PoolRow
  <2>10. Does(row) = old.handler[next].does  BY <2>8 DEF Does
  <2>11. row.kept => Does(row) = "commit"  BY <2>5, <2>6, <2>9, <2>10
  <2>12. row.committed => row.handler = DemoWrites  BY <2>7, <2>8, <2>9
  <2>13. m = row.handler[row.at].asks  BY <2>a, <2>8
  <2>14. row.handler \in Handlers /\ row.at \in 1 .. Len(row.handler)  BY <2>2, <2>4, <2>8
  <2> HIDE DEF row, next
  <2>15. PoolInv'
    BY <2>a, <2>1, <2>4, <2>8, <2>9, <2>11, <2>12, <2>13, <2>14, Asked
  <2> QED  BY <2>15 DEF Goal
<1>5. ASSUME NEW r \in Requests, AnswersOk(r)  PROVE Goal
  <2> DEFINE old == progress[r]
             row == [old EXCEPT !.answer = "ok"]
  <2>1. /\ old \in PoolRow /\ old.running = 0 /\ Behaves(old, r, waiting) /\ ~Queues(waiting, r)
        /\ ~old.kept /\ progress' = [progress EXCEPT ![r] = row]
        /\ free' = free /\ waiting' = waiting
    BY <1>0, <1>5 DEF AnswersOk, Ready
  <2>a. old = progress[r]  OBVIOUS
  <2> HIDE DEF old, Goal
  <2>2. row \in PoolRow /\ row.running = 0 /\ row.answer = "ok"  BY <2>1 DEF PoolRow
  <2>3. row.kept = old.kept  BY <2>1, Zenon DEF PoolRow
  <2> HIDE DEF row
  <2>4. Behaves(row, r, waiting)  BY <2>1, <2>2, <2>3 DEF Behaves
  <2>5. old.running + One(old.kept) = row.running + One(row.kept)
    <3>1. One(row.kept) = One(old.kept)  BY <2>3, Zenon
    <3> QED  BY <2>1, <2>2, <3>1
  <2>6. PoolInv'  BY <2>a, <2>1, <2>2, <2>4, <2>5, RowSet
  <2> QED  BY <2>6 DEF Goal
<1>6. ASSUME NEW r \in Requests, Throws(r)  PROVE Goal
  <2> DEFINE old == progress[r]
             n == IF old.kept THEN 1 ELSE 0
             k == IF old.running > 0 THEN 1 ELSE 0
             less == old.running - k
             answer == IF old.answer = "none" THEN "error" ELSE old.answer
             row == [old EXCEPT !.running = less, !.kept = FALSE, !.answer = answer]
  <2>1. /\ old \in PoolRow /\ Behaves(old, r, waiting)
        /\ old.running > 0 \/ old.kept
        /\ GiveBack(row, r, n + k)
    BY <1>0, <1>6 DEF Throws
  <2>2. /\ old.running \in Nat /\ less \in Nat /\ k \in Nat /\ less + k = old.running
    BY <2>1 DEF PoolRow
  <2>3. answer \in {"ok", "error"}  BY <2>1 DEF PoolRow
  <2>4. n \in Nat /\ n = One(old.kept)  BY DEF One
  <2>5. ~(old.committed /\ old.handler # DemoWrites)  BY <2>1 DEF Behaves
  <2>a. old = progress[r]  OBVIOUS
  <2> HIDE DEF old, n, k, less, answer, Goal
  <2>6. /\ row \in PoolRow /\ row.running = less /\ row.kept = FALSE /\ row.answer = answer
        /\ row.handler = old.handler
    BY <2>1, <2>2, <2>3 DEF PoolRow
  <2>7. row.committed = old.committed  BY <2>1, Zenon DEF PoolRow
  <2> HIDE DEF row
  <2>8. Behaves(row, r, waiting)  BY <2>3, <2>5, <2>6, <2>7 DEF Behaves
  <2>9. old.running + One(old.kept) = row.running + One(row.kept) + (n + k)
    <3>1. One(row.kept) = 0  BY <2>6 DEF One
    <3> QED  BY <2>2, <2>4, <2>6, <3>1
  <2> DEFINE m == n + k
  <2>b. m \in Nat /\ GiveBack(row, r, m) /\ old.running + One(old.kept) = row.running + One(row.kept) + m
    BY <2>1, <2>2, <2>4, <2>9
  <2> HIDE DEF m
  <2>10. PoolInv'  BY <2>a, <2>b, <2>6, <2>8, Returned
  <2> QED  BY <2>10 DEF Goal
<1>7. ASSUME TimesOut  PROVE Goal
  <2> DEFINE r == Head(waiting)
             q == Tail(waiting)
             old == progress[r]
             answer == IF old.answer = "none" THEN "error" ELSE old.answer
             row == [old EXCEPT !.kept = FALSE, !.answer = answer]
             then == [progress EXCEPT ![r] = row]
  <2>1. /\ r \in Requests /\ r = waiting[1] /\ 1 \in 1 .. Len(waiting)
        /\ q \in Seq(Requests) /\ Len(q) = Len(waiting) - 1 /\ Len(waiting) \in Nat
        /\ \A i \in 1 .. Len(q) : q[i] = waiting[i + 1]
    BY <1>0, <1>7 DEF TimesOut
  <2>2. Queues(waiting, r)  BY <2>1 DEF Queues
  <2> HIDE DEF q
  <2>3. old \in PoolRow /\ Behaves(old, r, waiting)  BY <1>0, <2>1
  <2>4. old.kept = FALSE /\ ~(old.committed /\ old.handler # DemoWrites)
    BY <2>2, <2>3 DEF Behaves, PoolRow
  <2>5. HandOut([progress EXCEPT ![r].kept = FALSE, ![r].answer = IF @ = "none" THEN "error" ELSE @],
                free + (IF old.kept THEN 1 ELSE 0), q)
    BY <1>7 DEF TimesOut, q
  <2>6. [progress EXCEPT ![r].kept = FALSE, ![r].answer = IF @ = "none" THEN "error" ELSE @] = then
    <3> HIDE DEF r
    <3>1. progress \in [Requests -> PoolRow] /\ old \in PoolRow  BY <1>0, <2>3
    <3> DEFINE one == [old EXCEPT !.kept = FALSE]
               a == [progress EXCEPT ![r] = one]
    <3>2. a[r] = one /\ one.answer = old.answer  BY <2>1, <3>1 DEF PoolRow
    <3>3. [a EXCEPT ![r] = [one EXCEPT !.answer = answer]] = then
      <4>1. [one EXCEPT !.answer = answer] = row  OBVIOUS
      <4> DEFINE x == [one EXCEPT !.answer = answer]
      <4>2. [a EXCEPT ![r] = row] = then
        <5> HIDE DEF row, one
        <5> QED  BY <2>1, <3>1
      <4> QED  BY <4>1, <4>2, Zenon
    <3>4. [progress EXCEPT ![r].kept = FALSE, ![r].answer = IF @ = "none" THEN "error" ELSE @]
            = [a EXCEPT ![r] = [one EXCEPT !.answer = answer]]
      BY <2>1, <3>1, <3>2
    <3> QED  BY <3>3, <3>4, Zenon
  <2>7. free + (IF old.kept THEN 1 ELSE 0) = free  BY <1>0, <2>4
  <2>8. HandOut(then, free, q)
    <3> DEFINE p == [progress EXCEPT ![r].kept = FALSE, ![r].answer = IF @ = "none" THEN "error" ELSE @]
               f == free + (IF old.kept THEN 1 ELSE 0)
    <3>1. HandOut(p, f, q) /\ p = then /\ f = free  BY <2>5, <2>6, <2>7
    <3> HIDE DEF p, f, then
    <3> QED  BY <3>1
  <2>9. answer \in {"ok", "error"}  BY <2>3 DEF PoolRow
  <2>a. old = progress[r]  OBVIOUS
  <2> HIDE DEF r, old, answer, Goal
  <2>10. /\ row \in PoolRow /\ row.kept = FALSE /\ row.answer = answer
         /\ row.handler = old.handler /\ row.running = old.running
    BY <2>3, <2>9 DEF PoolRow
  <2>11. row.committed = old.committed  BY <2>3, Zenon DEF PoolRow
  <2> HIDE DEF row
  <2>12. Replaced(progress, r, row, then)  BY <1>0, <2>1, <2>10, RowReplaced
  <2> HIDE DEF then
  <2>13. Behaves(row, r, q)  BY <2>4, <2>9, <2>10, <2>11 DEF Behaves
  <2>14. ASSUME NEW x \in Requests, x # r
         PROVE  Behaves(then[x], x, q)
    <3>1. then[x] = progress[x] /\ Behaves(progress[x], x, waiting)  BY <1>0, <2>12, <2>14 DEF Replaced
    <3>2. Queues(q, x) => Queues(waiting, x)
      <4> SUFFICES ASSUME NEW i \in 1 .. Len(q), q[i] = x  PROVE Queues(waiting, x)  BY DEF Queues
      <4>1. i + 1 \in 1 .. Len(waiting) /\ waiting[i + 1] = x  BY <2>1
      <4> QED  BY <4>1 DEF Queues
    <3>3. Queues(waiting, x) => Queues(q, x)
      <4> SUFFICES ASSUME NEW i \in 1 .. Len(waiting), waiting[i] = x  PROVE Queues(q, x)  BY DEF Queues
      <4>1. i # 1  BY <2>1, <2>14
      <4> DEFINE j == i - 1
      <4>2. j \in 1 .. Len(q) /\ i = j + 1  BY <2>1, <4>1
      <4>3. q[j] = x  BY <2>1, <4>2
      <4> QED  BY <4>2, <4>3 DEF Queues
    <3>4. QueuesOnce(waiting, x) => QueuesOnce(q, x)
      <4> SUFFICES ASSUME QueuesOnce(waiting, x), NEW i \in 1 .. Len(q), NEW j \in 1 .. Len(q),
                          q[i] = x, q[j] = x
                   PROVE  i = j
        BY DEF QueuesOnce
      <4>1. i + 1 \in 1 .. Len(waiting) /\ j + 1 \in 1 .. Len(waiting)  BY <2>1
      <4>2. waiting[i + 1] = x /\ waiting[j + 1] = x  BY <2>1
      <4>3. i + 1 = j + 1  BY <4>1, <4>2 DEF QueuesOnce
      <4> QED  BY <4>3
    <3>5. Behaves(progress[x], x, q)  BY <3>1, <3>2, <3>3, <3>4 DEF Behaves
    <3> QED  BY <3>1, <3>5
  <2>15. \A x \in Requests : Behaves(then[x], x, q)
    BY <2>12, <2>13, <2>14 DEF Replaced
  <2>16. free + Running(then) + Kept(then) = PoolMax
    <3>1. One(row.kept) = 0 /\ One(old.kept) = 0  BY <2>4, <2>10 DEF One
    <3>2. /\ Running(then) + old.running = Running(progress) + row.running
          /\ Kept(then) + One(old.kept) = Kept(progress) + One(row.kept)
          /\ then \in [Requests -> PoolRow]
      BY <2>a, <2>12 DEF Replaced
    <3>3. Running(then) \in Nat /\ Kept(then) \in Nat /\ Running(progress) \in Nat /\ Kept(progress) \in Nat
      BY <1>0, <3>2, InUse
    <3>4. old.running \in Nat  BY <2>3 DEF PoolRow
    <3>5. Running(then) = Running(progress) /\ Kept(then) = Kept(progress)
      BY <2>10, <3>1, <3>2, <3>3, <3>4
    <3> QED  BY <3>5 DEF PoolInv
  <2>17. then \in [Requests -> PoolRow]  BY <2>12 DEF Replaced
  <2>18. PoolInv'  BY <1>0, <2>1, <2>8, <2>15, <2>16, <2>17, HandedOut
  <2> QED  BY <2>18 DEF Goal
<1> HIDE DEF Goal
<1> QED  BY <1>1, <1>2, <1>3, <1>4, <1>5, <1>6, <1>7 DEF PoolNext

LEMMA PoolStarts == PoolInit => PoolInv
<1> SUFFICES ASSUME PoolInit  PROVE PoolInv  OBVIOUS
<1>0. IsFiniteSet(Requests) /\ PoolMax \in Nat  BY PoolAssumption
<1>1. free = PoolMax /\ waiting = <<>> /\ progress = [r \in Requests |-> Over]  BY DEF PoolInit
<1>2. Over \in PoolRow  BY DEF Over, PoolRow
<1>3. \A r \in Requests : Behaves(progress[r], r, waiting)
  BY <1>1 DEF Behaves, Over, Queues
<1>4. Kept(progress) = 0
  <2>1. {r \in Requests : progress[r].kept} = {}  BY <1>1 DEF Over
  <2> QED  BY <2>1, FS_EmptySet DEF Kept
<1>5. Running(progress) = 0
  <2> DEFINE g == [r \in Requests |-> progress[r].running]
  <2>1. \A r \in Requests : g[r] \in Nat /\ g[r] = 0  BY <1>1 DEF Over
  <2>2. {} \in SUBSET Requests /\ \A r \in Requests \ {} : g[r] = 0  BY <2>1
  <2> HIDE DEF g
  <2>3. Total(g, {}) = Total(g, Requests)  BY <1>0, <2>1, <2>2, TotalGrows
  <2>4. Total(g, {}) = 0
    <3>1. IsFiniteSet({})  BY FS_EmptySet
    <3> QED  BY <3>1, TotalStep
  <2> QED  BY <2>3, <2>4 DEF Running, g
<1> QED  BY <1>0, <1>1, <1>2, <1>3, <1>4, <1>5 DEF PoolInv

(* MapThenSumSet over the requests adds up what they run. *)
LEMMA RunningIsTotal ==
  ASSUME progress \in [Requests -> PoolRow]
  PROVE  MapThenSumSet(LAMBDA r : progress[r].running, Requests) = Running(progress)
<1> DEFINE S == Requests
           g == [r \in Requests |-> progress[r].running]
           OfRows(h) == h = [t \in SUBSET S |-> IF t = {} THEN 0
                               ELSE progress[First(t)].running + h[t \ {First(t)}]]
           h0 == CHOOSE h : OfRows(h)
<1>1. IsFiniteSet(S) /\ \A x \in S : g[x] \in Nat /\ g[x] = progress[x].running
  BY PoolAssumption DEF PoolRow
<1>2. MapThenSumSet(LAMBDA r : progress[r].running, Requests) = h0[S]
  BY DEF MapThenSumSet, MapThenFoldSet, First
<1>3. \A t \in SUBSET S : t # {} => g[First(t)] = progress[First(t)].running
  BY <1>1, FirstIn
<1> HIDE DEF S, g
<1>4. \A h : OfRows(h) <=> Solves(h, g, S)
  BY <1>3 DEF Solves
<1> HIDE DEF OfRows
<1>5. \E h : OfRows(h)
  BY <1>1, <1>4, TotalSolves
<1>6. OfRows(h0)
  BY <1>5
<1> HIDE DEF h0
<1>7. h0[S] = Total(g, S)
  BY <1>1, <1>4, <1>6, TotalSolves
<1> QED BY <1>2, <1>7 DEF S, g, Running

LEMMA PoolInvServes == PoolInv => PoolServes
<1> SUFFICES ASSUME PoolInv  PROVE PoolServes  OBVIOUS
<1>0. /\ progress \in [Requests -> PoolRow] /\ free \in Nat
      /\ \A r \in Requests : progress[r] \in PoolRow /\ Behaves(progress[r], r, waiting)
      /\ \A r : Waits(r) <=> Queues(waiting, r)
      /\ IsFiniteSet(Requests) /\ PoolMax \in Nat /\ PoolMax > 0
      /\ free + Running(progress) + Kept(progress) = PoolMax
  BY WaitsQueues, PoolAssumption DEF PoolInv
<1>1. free + MapThenSumSet(LAMBDA r : progress[r].running, Requests)
       + Cardinality({r \in Requests : progress[r].kept}) = PoolMax
  BY <1>0, RunningIsTotal DEF Kept
<1>2. ASSUME waiting # <<>>
      PROVE  /\ free = 0
             /\ \E r \in Requests : progress[r].running > 0 \/ (progress[r].kept /\ ~Waits(r))
  <2>1. free = 0  BY <1>2 DEF PoolInv
  <2>2. SUFFICES ASSUME \A r \in Requests : ~(progress[r].running > 0) /\ ~(progress[r].kept /\ ~Waits(r))
                 PROVE  FALSE
    BY <2>1
  <2>3. \A r \in Requests : progress[r].running = 0
    <3> SUFFICES ASSUME NEW r \in Requests  PROVE progress[r].running = 0  OBVIOUS
    <3>1. progress[r].running \in Nat  BY <1>0 DEF PoolRow
    <3>2. ~(progress[r].running > 0)  BY <2>2
    <3> QED  BY <3>1, <3>2
  <2>4. \A r \in Requests : ~progress[r].kept  BY <1>0, <2>2 DEF Behaves
  <2>5. Kept(progress) = 0
    <3>1. {r \in Requests : progress[r].kept} = {}  BY <2>4
    <3> QED  BY <3>1, FS_EmptySet DEF Kept
  <2>6. Running(progress) = 0
    <3> DEFINE g == [r \in Requests |-> progress[r].running]
    <3>1. \A r \in Requests : g[r] \in Nat /\ g[r] = 0
      <4> SUFFICES ASSUME NEW r \in Requests  PROVE g[r] \in Nat /\ g[r] = 0  OBVIOUS
      <4>1. g[r] = progress[r].running /\ progress[r].running = 0  BY <2>3
      <4> HIDE DEF g
      <4> QED  BY <4>1
    <3>2. {} \in SUBSET Requests /\ \A r \in Requests \ {} : g[r] = 0  BY <3>1
    <3> HIDE DEF g
    <3>3. Total(g, {}) = Total(g, Requests)  BY <1>0, <3>1, <3>2, TotalGrows
    <3>4. Total(g, {}) = 0
      <4>1. IsFiniteSet({})  BY FS_EmptySet
      <4> QED  BY <4>1, TotalStep
    <3> QED  BY <3>3, <3>4 DEF Running, g
  <2> QED  BY <1>0, <2>1, <2>5, <2>6
<1>3. ASSUME NEW r \in Requests
      PROVE  /\ progress[r].answer # "none" => ~progress[r].kept
             /\ progress[r].answer = "error" /\ progress[r].committed => progress[r].handler = DemoWrites
  BY <1>0 DEF Behaves
<1> QED  BY <1>1, <1>2, <1>3 DEF PoolServes

LEMMA PoolAlways == Spec => []PoolInv
<1>1. Init => PoolInv  BY PoolStarts DEF Init
<1>2. PoolInv /\ [Next]_allVars => PoolInv'
  <2> SUFFICES ASSUME PoolInv, [Next]_allVars  PROVE PoolInv'  OBVIOUS
  <2>1. CASE UNCHANGED poolVars
    BY <2>1 DEF poolVars, PoolInv, Running, Kept
  <2>2. CASE PoolActs
    BY <2>2, PoolStep DEF PoolActs
  <2> QED  BY <2>1, <2>2, SceneSteps
<1> QED  BY <1>1, <1>2, PTL DEF Spec

(* Whichever handlers meet in a pool of any size: nobody waits while a connection is free *)
(* or all are held by who waits, no connection is lost, and an error after a COMMIT is    *)
(* only a demo seed's or cleanup's.                                                       *)
THEOREM PoolAlwaysServes == Spec => []PoolServes
BY PoolInvServes, PoolAlways, PTL
-----------------------------------------------------------------------------
(* AdminPanels: what the panels have in common. *)
Plans == {<<>>, <<"list">>, <<"detail">>, <<"list", "detail">>}

Sound(p, c) ==
  /\ c.done \in Plans /\ c.refused \in {<<>>, <<"detail">>}
  /\ c.alters => c.carries \/ c.done \in {<<"list">>, <<"list", "detail">>}
  /\ ~p.details => c.done \in {<<>>, <<"list">>} /\ c.refused = <<>>
  /\ p.selects /\ p.details /\ c.done = <<"list">> => c.on = "selected"

(* What a handler fetches first, and what is left then. *)
LEMMA PlanSteps ==
  /\ Head(<<"list">>) = "list" /\ Tail(<<"list">>) = <<>>
  /\ Head(<<"detail">>) = "detail" /\ Tail(<<"detail">>) = <<>>
  /\ Head(<<"list", "detail">>) = "list" /\ Tail(<<"list", "detail">>) = <<"detail">>
  /\ <<>> # <<"list">> /\ <<>> # <<"detail">> /\ <<>> # <<"list", "detail">>
  /\ <<"list">> # <<"detail">> /\ <<"list">> # <<"list", "detail">>
  /\ <<"detail">> # <<"list", "detail">>
OBVIOUS

LEMMA PanelsSound == \A p \in Panels : \A c \in p.changes : Sound(p, c)
<1> DEFINE Law(p) == \A c \in p.changes : Sound(p, c)
<1>1. Law(ModulePanel)
  <2>1. ModulePanel.details /\ ModulePanel.changes = {Change("any", TRUE, <<"list", "detail">>, <<"detail">>),
                                    Change("selected", FALSE, <<"detail">>, <<>>)}
    BY DEF ModulePanel, Panel
  <2>2. Sound(ModulePanel, Change("any", TRUE, <<"list", "detail">>, <<"detail">>))
    BY <2>1, PlanSteps DEF Change, Sound, Plans
  <2>3. Sound(ModulePanel, Change("selected", FALSE, <<"detail">>, <<>>))
    BY <2>1, PlanSteps DEF Change, Sound, Plans
  <2> QED  BY <2>1, <2>2, <2>3
<1>2. Law(PluginPanel)
  <2>1. PluginPanel.details /\ PluginPanel.changes = {Change("any", TRUE, <<"list", "detail">>, <<"detail">>),
                                    Change("selected", FALSE, <<"detail">>, <<>>)}
    BY DEF PluginPanel, Panel
  <2>2. Sound(PluginPanel, Change("any", TRUE, <<"list", "detail">>, <<"detail">>))
    BY <2>1, PlanSteps DEF Change, Sound, Plans
  <2>3. Sound(PluginPanel, Change("selected", FALSE, <<"detail">>, <<>>))
    BY <2>1, PlanSteps DEF Change, Sound, Plans
  <2> QED  BY <2>1, <2>2, <2>3
<1>3. Law(VaultPanel)
  <2>1. VaultPanel.details /\ VaultPanel.changes = {Change("selected", TRUE, <<"list">>, <<>>),
                                    Change("selected", TRUE, <<"list", "detail">>, <<>>)}
    BY DEF VaultPanel, Panel
  <2>2. Sound(VaultPanel, Change("selected", TRUE, <<"list">>, <<>>))
    BY <2>1, PlanSteps DEF Change, Sound, Plans
  <2>3. Sound(VaultPanel, Change("selected", TRUE, <<"list", "detail">>, <<>>))
    BY <2>1, PlanSteps DEF Change, Sound, Plans
  <2> QED  BY <2>1, <2>2, <2>3
<1>4. Law(OnboardingPanel)
  <2>1. OnboardingPanel.details /\ OnboardingPanel.changes = {Change("any", TRUE, <<"list", "detail">>, <<>>),
                                    Change("selected", TRUE, <<"list", "detail">>, <<>>)}
    BY DEF OnboardingPanel, Panel
  <2>2. Sound(OnboardingPanel, Change("any", TRUE, <<"list", "detail">>, <<>>))
    BY <2>1, PlanSteps DEF Change, Sound, Plans
  <2>3. Sound(OnboardingPanel, Change("selected", TRUE, <<"list", "detail">>, <<>>))
    BY <2>1, PlanSteps DEF Change, Sound, Plans
  <2> QED  BY <2>1, <2>2, <2>3
<1>5. Law(KycPanel)
  BY PlanSteps DEF KycPanel, Panel, Change, Sound, Plans
<1>6. Law(ThemePanel)
  BY PlanSteps DEF ThemePanel, Panel, Change, Sound, Plans
<1>7. Law(DemoPanel)
  BY PlanSteps DEF DemoPanel, Panel, Change, Sound, Plans
<1>8. Law(NewTenantPage)
  BY PlanSteps DEF NewTenantPage, Panel, Change, Sound, Plans
<1>9. Law(ListPanel)
  BY PlanSteps DEF ListPanel, Panel, Change, Sound, Plans
<1> HIDE DEF Law
<1>10. \A p \in Panels : Law(p)
  BY <1>1, <1>2, <1>3, <1>4, <1>5, <1>6, <1>7, <1>8, <1>9
     DEF Panels, SellerDetailPanel, CatalogProductsPanel, CatalogProductDetailPanel,
         CatalogCategoriesPanel, OrderOperationsPanel, OrderDetailPanel, OrderReturnsPanel,
         OrderRefundsPanel
<1> QED  BY <1>10 DEF Law

(* What a handler under way is: of a change, or of a load. *)
ChangeCall(c, p) ==
  /\ c.to = "change" /\ c.change \in p.changes
  /\ {"to", "row", "change", "stage"} \subseteq DOMAIN c
LoadCall(c, p) ==
  /\ c.to \in {"list", "detail"} /\ c.rest \in {<<>>, <<"detail">>}
  /\ c.to = "detail" => c.rest = <<>> /\ p.details
  /\ ~p.details => c.rest = <<>>
  /\ {"to", "row", "rest", "stage"} \subseteq DOMAIN c

(* How the one call of an operator who waits stands to what is shown. *)
Settles(c, p, rows, fresh, chosen, detail) ==
  /\ c.to = "change" =>
       /\ detail \in {NoRow, chosen}
       /\ c.change.on = "selected" => c.row = chosen
       /\ c.stage # "served" => fresh
       /\ c.stage = "served" /\ c.ok => c.rows = rows /\ (~c.change.alters => fresh)
       /\ c.stage = "served" /\ ~c.ok => fresh
  /\ c.to = "list" =>
       /\ c.rest = <<>> => detail = NoRow \/ detail = (IF p.selects THEN c.row ELSE chosen)
       /\ c.stage = "served" /\ c.ok => c.rows = rows
  /\ c.to = "detail" => c.row = chosen /\ fresh

(* Nothing thrown, no load refused; the rows shown, but for what refused changes altered. *)
Calm == missed \intersect {"change", "load"} = {}
Fresh == "rows" \in missed \/ list = stored

PanelsInv ==
  /\ panel \in Panels
  /\ call = [t \in Calls |-> call[t]]
  /\ \A t \in Calls : call[t] = NoCall \/ ChangeCall(call[t], panel) \/ LoadCall(call[t], panel)
  /\ ~panel.details => detailOf = NoRow
  /\ ~panel.keyed => \A t, u \in Calls : Changing(t) /\ Changing(u) => t = u
  /\ ~panel.keyed => \A t \in Calls : Changing(t) => busy # NoRow
  /\ busy # NoRow /\ ~(\E t \in Calls : Changing(t)) => "change" \in missed
  /\ habit = "patient" => \A t, u \in Calls : call[t] # NoCall /\ call[u] # NoCall => t = u
  /\ habit = "patient" /\ Calm =>
       /\ Quiet => Fresh /\ detailOf \in {NoRow, selected}
       /\ \A t \in Calls : call[t] # NoCall =>
            Settles(call[t], panel, stored, Fresh, selected, detailOf)

(* A step of one handler: what has to be shown of the call it leaves. *)
LEMMA CallReplaced ==
  ASSUME PanelsInv, NEW t \in Calls, NEW new,
         call' = [call EXCEPT ![t] = new], panel' = panel, habit' = habit,
         new = NoCall \/ ChangeCall(new, panel) \/ LoadCall(new, panel),
         habit = "patient" => \A u \in Calls : u # t => call[u] = NoCall,
         ~panel.details => detailOf' = NoRow,
         ~panel.keyed /\ new.to = "change" =>
           /\ busy' # NoRow
           /\ \A u \in Calls : u # t => ~Changing(u),
         ~panel.keyed => \A u \in Calls : u # t /\ Changing(u) => busy' # NoRow,
         busy' # NoRow /\ new.to # "change" /\ (\A u \in Calls : u # t => ~Changing(u)) =>
           "change" \in missed',
         habit = "patient" /\ Calm' /\ new = NoCall =>
           Fresh' /\ detailOf' \in {NoRow, selected'},
         habit = "patient" /\ Calm' /\ new # NoCall =>
           Settles(new, panel, stored', Fresh', selected', detailOf')
  PROVE  PanelsInv'
<1>1. /\ call'[t] = new /\ \A u \in Calls : u # t => call'[u] = call[u]
      /\ call' = [u \in Calls |-> call'[u]]
  BY DEF PanelsInv
<1>2. /\ panel' \in Panels
      /\ \A u \in Calls : call'[u] = NoCall \/ ChangeCall(call'[u], panel') \/ LoadCall(call'[u], panel')
  BY <1>1 DEF PanelsInv
<1>3. ~panel'.details => detailOf' = NoRow  OBVIOUS
<1>4. ~panel'.keyed => \A u, v \in Calls : call'[u].to = "change" /\ call'[v].to = "change" => u = v
  BY <1>1 DEF PanelsInv, Changing
<1>5. ~panel'.keyed => \A u \in Calls : call'[u].to = "change" => busy' # NoRow
  BY <1>1 DEF PanelsInv, Changing
<1>6. busy' # NoRow /\ ~(\E u \in Calls : call'[u].to = "change") => "change" \in missed'
  BY <1>1 DEF PanelsInv, Changing
<1>7. habit' = "patient" => \A u, v \in Calls : call'[u] # NoCall /\ call'[v] # NoCall => u = v
  BY <1>1 DEF PanelsInv
<1>8. ASSUME habit' = "patient", Calm'
      PROVE  /\ (\A u \in Calls : call'[u] = NoCall) => Fresh' /\ detailOf' \in {NoRow, selected'}
             /\ \A u \in Calls : call'[u] # NoCall =>
                  Settles(call'[u], panel', stored', Fresh', selected', detailOf')
  BY <1>1, <1>8
<1> QED
  BY <1>1, <1>2, <1>3, <1>4, <1>5, <1>6, <1>7, <1>8 DEF PanelsInv, Changing, Quiet, NoCall

(* An operator who waits has one handler under way. *)
LEMMA OneCall ==
  ASSUME PanelsInv, NEW t \in Calls, call[t] # NoCall \/ MayClick(t)
  PROVE  habit = "patient" => \A u \in Calls : u # t => call[u] = NoCall
BY DEF PanelsInv, MayClick, Quiet

LEMMA NoCallIsNone == NoCall.to = "none"
BY DEF NoCall

(* What is fetched next. *)
LEMMA NextLoad ==
  ASSUME NEW what \in {"list", "detail"}, NEW row, NEW rest \in {<<>>, <<"detail">>}
  PROVE  LET c == Load(what, row, rest) IN
         /\ c.to = what /\ c.row = row /\ c.rest = rest /\ c.stage = "sent" /\ c # NoCall
         /\ {"to", "row", "rest", "stage"} \subseteq DOMAIN c
<1> DEFINE c == Load(what, row, rest)
<1>1. /\ c.to = what /\ c.row = row /\ c.rest = rest /\ c.stage = "sent"
      /\ {"to", "row", "rest", "stage"} \subseteq DOMAIN c
  BY DEF Load
<1> HIDE DEF c
<1>2. c # NoCall  BY <1>1, NoCallIsNone
<1> QED  BY <1>1, <1>2 DEF c

LEMMA PanelsStep ==
  ASSUME PanelsInv, PanelsNext
  PROVE  PanelsInv'
<1> DEFINE Goal == PanelsInv'
<1> SUFFICES Goal  OBVIOUS
<1>0. /\ panel \in Panels /\ \A c \in panel.changes : Sound(panel, c)
      /\ \A t \in Calls : call[t] = NoCall \/ ChangeCall(call[t], panel) \/ LoadCall(call[t], panel)
  BY PanelsSound DEF PanelsInv
<1>1. ASSUME NEW row \in Rows, SelectRow(row)  PROVE Goal
  BY <1>1, NoCallIsNone DEF SelectRow, PanelsInv, Changing, Quiet, Calm, Fresh
<1>2. ASSUME NEW t \in Calls, NEW row \in Rows, ClickRow(t, row)  PROVE Goal
  <2> DEFINE new == Load("detail", row, <<>>)
  <2>1. /\ call' = [call EXCEPT ![t] = new] /\ panel' = panel /\ habit' = habit
        /\ MayClick(t) /\ panel.details /\ selected' = row /\ call[t] = NoCall
        /\ busy' = busy /\ missed' = missed /\ list' = list /\ stored' = stored /\ detailOf' = detailOf
    BY <1>2 DEF ClickRow, MayClick
  <2>2. /\ new.to = "detail" /\ new.row = row /\ new.rest = <<>> /\ new.stage = "sent" /\ new # NoCall
        /\ {"to", "row", "rest", "stage"} \subseteq DOMAIN new
    BY NextLoad
  <2> HIDE DEF new, Goal
  <2>3. LoadCall(new, panel)  BY <2>1, <2>2 DEF LoadCall
  <2>4. habit = "patient" => \A u \in Calls : u # t => call[u] = NoCall  BY <2>1, OneCall
  <2>5. ~Changing(t)  BY <2>1, NoCallIsNone DEF Changing
  <2>6. ~panel.keyed => \A u \in Calls : u # t /\ Changing(u) => busy' # NoRow
    BY <2>1 DEF PanelsInv
  <2>7. busy' # NoRow /\ new.to # "change" /\ (\A u \in Calls : u # t => ~Changing(u)) =>
           "change" \in missed'
    BY <2>1, <2>5 DEF PanelsInv
  <2>8. habit = "patient" /\ Calm' => Fresh'
    BY <2>1 DEF PanelsInv, MayClick, Calm, Fresh
  <2>9. habit = "patient" /\ Calm' =>
          Settles(new, panel, stored', Fresh', selected', detailOf')
    BY <2>1, <2>2, <2>8 DEF Settles
  <2>10. PanelsInv'
    BY <2>1, <2>2, <2>3, <2>4, <2>6, <2>7, <2>9, CallReplaced
  <2> QED  BY <2>10 DEF Goal
<1>3. ASSUME NEW t \in Calls, NEW row \in Rows, NEW change \in panel.changes,
             ClickChange(t, row, change)
      PROVE  Goal
  <2> DEFINE new == [to |-> "change", row |-> row, change |-> change, stage |-> "sent"]
  <2>1. /\ call' = [call EXCEPT ![t] = new] /\ panel' = panel /\ habit' = habit
        /\ MayClick(t) /\ call[t] = NoCall /\ EnabledFor(row) /\ busy' = row
        /\ change.on = "selected" => row = selected
        /\ missed' = missed /\ list' = list /\ stored' = stored /\ detailOf' = detailOf
        /\ selected' = selected
    BY <1>3 DEF ClickChange, MayClick
  <2>2. /\ new.to = "change" /\ new.row = row /\ new.change = change /\ new.stage = "sent"
        /\ {"to", "row", "change", "stage"} \subseteq DOMAIN new
    OBVIOUS
  <2> HIDE DEF new, Goal
  <2>3. ChangeCall(new, panel) /\ new # NoCall  BY <2>2, NoCallIsNone DEF ChangeCall
  <2>4. habit = "patient" => \A u \in Calls : u # t => call[u] = NoCall  BY <2>1, OneCall
  <2>5. busy' # NoRow  BY <2>1, PanelsAssumption
  <2>6. ~panel.keyed => \A u \in Calls : ~Changing(u)
    BY <2>1 DEF EnabledFor, PanelsInv
  <2>7. habit = "patient" /\ Calm' => Fresh' /\ detailOf \in {NoRow, selected}
    BY <2>1 DEF PanelsInv, MayClick, Calm, Fresh
  <2>8. habit = "patient" /\ Calm' =>
          Settles(new, panel, stored', Fresh', selected', detailOf')
    BY <2>1, <2>2, <2>7 DEF Settles
  <2>9. ~panel.details => detailOf' = NoRow  BY <2>1 DEF PanelsInv
  <2>10. PanelsInv'
    BY <2>1, <2>2, <2>3, <2>4, <2>5, <2>6, <2>8, <2>9, CallReplaced
  <2> QED  BY <2>10 DEF Goal
<1>4. ASSUME NEW t \in Calls, ClickRefresh(t)  PROVE Goal
  <2> DEFINE new == Load("list", selected, <<>>)
  <2>1. /\ call' = [call EXCEPT ![t] = new] /\ panel' = panel /\ habit' = habit
        /\ MayClick(t) /\ selected' = selected /\ call[t] = NoCall
        /\ busy' = busy /\ missed' = missed /\ list' = list /\ stored' = stored /\ detailOf' = detailOf
    BY <1>4 DEF ClickRefresh, MayClick
  <2>2. /\ new.to = "list" /\ new.row = selected /\ new.rest = <<>> /\ new.stage = "sent"
        /\ new # NoCall /\ {"to", "row", "rest", "stage"} \subseteq DOMAIN new
    BY NextLoad
  <2> HIDE DEF new, Goal
  <2>3. LoadCall(new, panel)  BY <2>1, <2>2 DEF LoadCall
  <2>4. habit = "patient" => \A u \in Calls : u # t => call[u] = NoCall  BY <2>1, OneCall
  <2>5. ~Changing(t)  BY <2>1, NoCallIsNone DEF Changing
  <2>6. ~panel.keyed => \A u \in Calls : u # t /\ Changing(u) => busy' # NoRow
    BY <2>1 DEF PanelsInv
  <2>7. busy' # NoRow /\ new.to # "change" /\ (\A u \in Calls : u # t => ~Changing(u)) =>
           "change" \in missed'
    BY <2>1, <2>5 DEF PanelsInv
  <2>8. habit = "patient" /\ Calm' => detailOf \in {NoRow, selected}
    BY <2>1 DEF PanelsInv, MayClick, Calm
  <2>9. habit = "patient" /\ Calm' =>
          Settles(new, panel, stored', Fresh', selected', detailOf')
    BY <2>1, <2>2, <2>8 DEF Settles
  <2>10. ~panel.details => detailOf' = NoRow  BY <2>1 DEF PanelsInv
  <2>11. PanelsInv'
    BY <2>1, <2>2, <2>3, <2>4, <2>6, <2>7, <2>9, <2>10, CallReplaced
  <2> QED  BY <2>11 DEF Goal
<1>5. ASSUME NEW t \in Calls, Serve(t)  PROVE Goal
  <2> DEFINE old == call[t]
  <2>1. PICK ok \in BOOLEAN, altered \in BOOLEAN :
          /\ altered => Changing(t) /\ old.change.alters
          /\ ok /\ Changing(t) /\ old.change.alters => altered
          /\ stored' = IF altered THEN stored + 1 ELSE stored
          /\ missed' = IF altered /\ ~ok THEN missed \union {"rows"} ELSE missed
          /\ call' = [call EXCEPT ![t] =
               [f \in DOMAIN old \union {"ok", "rows"} |->
                  CASE f = "stage" -> "served" [] f = "ok" -> ok [] f = "rows" -> stored'
                    [] OTHER -> old[f]]]
    BY <1>5 DEF Serve
  <2> DEFINE new == [f \in DOMAIN old \union {"ok", "rows"} |->
                      CASE f = "stage" -> "served" [] f = "ok" -> ok [] f = "rows" -> stored'
                        [] OTHER -> old[f]]
  <2>2. /\ old # NoCall /\ old.stage = "sent" /\ panel' = panel /\ habit' = habit /\ list' = list
        /\ selected' = selected /\ detailOf' = detailOf /\ busy' = busy
    BY <1>5 DEF Serve
  <2>3. (Changing(t) <=> old.to = "change") /\ call' = [call EXCEPT ![t] = new] /\ old = call[t]
    BY <2>1 DEF Changing
  <2>4. ChangeCall(old, panel) \/ LoadCall(old, panel)  BY <1>0, <2>2
  <2> HIDE DEF old, Goal
  <2>5. /\ "to" \in DOMAIN old /\ "row" \in DOMAIN old /\ "stage" \in DOMAIN old
        /\ old.to = "change" => "change" \in DOMAIN old
        /\ old.to # "change" => "rest" \in DOMAIN old
    BY <2>4 DEF ChangeCall, LoadCall
  <2>6. /\ new.to = old.to /\ new.row = old.row /\ new.stage = "served" /\ new.rows = stored'
        /\ old.to = "change" => new.change = old.change
        /\ old.to # "change" => new.rest = old.rest
        /\ DOMAIN old \subseteq DOMAIN new
    BY <2>5
  <2>7. new.ok <=> ok  BY Zenon
  <2> HIDE DEF new
  <2>8. /\ ChangeCall(new, panel) \/ LoadCall(new, panel)
        /\ new # NoCall
    BY <2>4, <2>6, NoCallIsNone DEF ChangeCall, LoadCall
  <2>9. habit = "patient" => \A u \in Calls : u # t => call[u] = NoCall  BY <2>2, <2>3, OneCall
  <2>10. ~panel.details => detailOf' = NoRow  BY <2>2 DEF PanelsInv
  <2>11. ~panel.keyed /\ new.to = "change" =>
           /\ busy' # NoRow
           /\ \A u \in Calls : u # t => ~Changing(u)
    BY <2>2, <2>3, <2>6 DEF PanelsInv
  <2>12. ~panel.keyed => \A u \in Calls : u # t /\ Changing(u) => busy' # NoRow
    BY <2>2 DEF PanelsInv
  <2>13. busy' # NoRow /\ new.to # "change" /\ (\A u \in Calls : u # t => ~Changing(u)) =>
           "change" \in missed'
    BY <2>1, <2>2, <2>3, <2>6 DEF PanelsInv
  <2>14. ASSUME habit = "patient", Calm'
         PROVE  Settles(new, panel, stored', Fresh', selected', detailOf')
    <3>0. missed \subseteq missed'  BY <2>1
    <3>1. Settles(old, panel, stored, Fresh, selected, detailOf)
      <4>1. Calm  BY <2>14, <3>0 DEF Calm
      <4> QED  BY <2>2, <2>3, <2>14, <4>1 DEF PanelsInv
    <3>2. ~altered => stored' = stored /\ (Fresh => Fresh')
      BY <2>1, <2>2, <3>0 DEF Fresh
    <3>3. altered /\ ~ok => Fresh'  BY <2>1 DEF Fresh
    <3>4. CASE old.to = "change"
      <4>1. (altered => new.change.alters) /\ (ok /\ new.change.alters => altered)
        BY <2>1, <2>3, <2>6, <3>4, Zenon
      <4> QED  BY <2>2, <2>6, <2>7, <3>1, <3>2, <3>3, <3>4, <4>1 DEF Settles
    <3>5. CASE old.to # "change"
      <4>1. ~altered  BY <2>1, <2>3, <3>5
      <4> QED  BY <2>2, <2>6, <2>7, <3>1, <3>2, <3>5, <4>1 DEF Settles
    <3> QED  BY <3>4, <3>5
  <2>15. PanelsInv'
    BY <2>2, <2>3, <2>8, <2>9, <2>10, <2>11, <2>12, <2>13, <2>14, CallReplaced
  <2> QED  BY <2>15 DEF Goal
<1>6. ASSUME NEW t \in Calls, ChangeAnswered(t)  PROVE Goal
  <2> DEFINE old == call[t]
             change == old.change
             rest == IF old.ok THEN change.done ELSE change.refused
             new == IF rest = <<>> THEN NoCall ELSE Load(Head(rest), old.row, Tail(rest))
             opens == rest # <<>> /\ Head(rest) = "detail"
  <2>1. /\ old # NoCall /\ old.stage = "served" /\ old.to = "change" /\ busy' = NoRow
        /\ call' = [call EXCEPT ![t] = new] /\ Changing(t) /\ old = call[t]
        /\ selected' = IF opens THEN old.row ELSE selected
        /\ list' = IF old.ok /\ change.carries THEN old.rows ELSE list
        /\ panel' = panel /\ habit' = habit /\ stored' = stored /\ detailOf' = detailOf
        /\ missed' = IF old.ok /\ change.carries THEN missed \ {"rows"} ELSE missed
    BY <1>6 DEF ChangeAnswered, Answered, Changing, GoOn, SelectedNext, Shown
  <2>2. ChangeCall(old, panel) /\ Sound(panel, change)
    BY <1>0, <2>1, NoCallIsNone DEF ChangeCall, LoadCall
  <2>3. /\ change.done \in Plans /\ change.refused \in {<<>>, <<"detail">>}
        /\ rest \in Plans /\ (~panel.details => rest \in {<<>>, <<"list">>})
    BY <2>2 DEF Sound, Plans
  <2> HIDE DEF old, change, rest, Goal
  <2>4. \/ rest = <<>> /\ new = NoCall /\ ~opens
        \/ rest = <<"list">> /\ new = Load("list", old.row, <<>>) /\ ~opens
        \/ rest = <<"detail">> /\ new = Load("detail", old.row, <<>>) /\ opens
        \/ rest = <<"list", "detail">> /\ new = Load("list", old.row, <<"detail">>) /\ ~opens
    BY <2>3, PlanSteps DEF Plans
  <2> HIDE DEF new, opens
  <2>5. \/ new = NoCall
        \/ /\ new.to \in {"list", "detail"} /\ new.row = old.row /\ new.stage = "sent"
           /\ new # NoCall /\ {"to", "row", "rest", "stage"} \subseteq DOMAIN new
           /\ \/ rest = <<"list">> /\ new.to = "list" /\ new.rest = <<>>
              \/ rest = <<"detail">> /\ new.to = "detail" /\ new.rest = <<>>
              \/ rest = <<"list", "detail">> /\ new.to = "list" /\ new.rest = <<"detail">>
    BY <2>4, NextLoad
  <2>6. new = NoCall \/ LoadCall(new, panel)
    BY <2>3, <2>5, PlanSteps DEF LoadCall
  <2>7. new.to # "change"  BY <2>5, NoCallIsNone
  <2>8. habit = "patient" => \A u \in Calls : u # t => call[u] = NoCall  BY <2>1, OneCall
  <2>9. ~panel.details => detailOf' = NoRow  BY <2>1 DEF PanelsInv
  <2>10. ~panel.keyed => \A u \in Calls : u # t => ~Changing(u)
    BY <2>1 DEF PanelsInv
  <2>11. ASSUME habit = "patient", Calm'
         PROVE  /\ new = NoCall => Fresh' /\ detailOf' \in {NoRow, selected'}
                /\ new # NoCall => Settles(new, panel, stored', Fresh', selected', detailOf')
    <3>0. Calm  BY <2>1, <2>11 DEF Calm
    <3>1. Settles(old, panel, stored, Fresh, selected, detailOf)
      BY <2>1, <2>11, <3>0 DEF PanelsInv
    <3>2. /\ detailOf \in {NoRow, selected}
          /\ change.on = "selected" => old.row = selected
          /\ old.ok => old.rows = stored /\ (~change.alters => Fresh)
          /\ ~old.ok => Fresh
      BY <2>1, <3>1 DEF Settles, change
    <3>3. rest \notin {<<"list">>, <<"list", "detail">>} => Fresh'
      <4>1. CASE old.ok
        <5>1. rest = change.done  BY <4>1 DEF rest
        <5>2. rest \notin {<<"list">>, <<"list", "detail">>} => ~change.alters \/ change.carries
          BY <2>2, <5>1 DEF Sound
        <5> QED  BY <2>1, <3>2, <4>1, <5>2 DEF Fresh
      <4>2. CASE ~old.ok
        BY <2>1, <3>2, <4>2 DEF Fresh
      <4> QED  BY <4>1, <4>2
    <3>4. rest = <<"list">> => detailOf = NoRow \/ detailOf = (IF panel.selects THEN old.row ELSE selected)
      <4> SUFFICES ASSUME rest = <<"list">>, panel.selects, detailOf # NoRow
                   PROVE  detailOf = old.row
        BY <3>2
      <4>1. panel.details  BY <2>9, <2>1
      <4>2. rest = change.done  BY <2>3, PlanSteps DEF rest
      <4>3. change.on = "selected"  BY <2>2, <4>1, <4>2 DEF Sound
      <4> QED  BY <3>2, <4>3
    <3>5. CASE rest = <<>>
      <4>1. new = NoCall /\ selected' = selected  BY <2>1, <2>4, <3>5, PlanSteps
      <4>2. Fresh'  BY <3>3, <3>5, PlanSteps
      <4> QED  BY <2>1, <3>2, <4>1, <4>2
    <3>6. CASE rest = <<"list">>
      <4>1. new.to = "list" /\ new.rest = <<>> /\ new.row = old.row /\ new # NoCall /\ selected' = selected
            /\ new.stage = "sent"
        BY <2>1, <2>4, <3>6, PlanSteps, NextLoad
      <4> QED  BY <2>1, <3>4, <3>6, <4>1 DEF Settles
    <3>7. CASE rest = <<"detail">>
      <4>1. new.to = "detail" /\ new.row = old.row /\ new # NoCall /\ selected' = old.row
        BY <2>1, <2>4, <3>7, PlanSteps, NextLoad
      <4>2. Fresh'  BY <3>3, <3>7, PlanSteps
      <4> QED  BY <2>1, <4>1, <4>2 DEF Settles
    <3>8. CASE rest = <<"list", "detail">>
      <4>1. new.to = "list" /\ new.rest = <<"detail">> /\ new # NoCall /\ new.stage = "sent"
        BY <2>1, <2>4, <3>8, PlanSteps, NextLoad
      <4> QED  BY <4>1, PlanSteps DEF Settles
    <3> QED  BY <2>3, <3>5, <3>6, <3>7, <3>8 DEF Plans
  <2>12. /\ ~panel.keyed /\ new.to = "change" =>
              busy' # NoRow /\ \A u \in Calls : u # t => ~Changing(u)
         /\ ~panel.keyed => \A u \in Calls : u # t /\ Changing(u) => busy' # NoRow
         /\ busy' # NoRow /\ new.to # "change" /\ (\A u \in Calls : u # t => ~Changing(u)) =>
              "change" \in missed'
    BY <2>1, <2>7, <2>10
  <2>13. PanelsInv'
    BY <2>1, <2>6, <2>8, <2>9, <2>11, <2>12, CallReplaced
  <2> QED  BY <2>13 DEF Goal
<1>7. ASSUME NEW t \in Calls, ListAnswered(t)  PROVE Goal
  <2> DEFINE old == call[t]
             rest == old.rest
             new == IF rest = <<>> THEN NoCall ELSE Load(Head(rest), old.row, Tail(rest))
             opens == rest # <<>> /\ Head(rest) = "detail"
  <2>1. /\ old # NoCall /\ old.stage = "served" /\ old.to = "list" /\ busy' = busy
        /\ call' = [call EXCEPT ![t] = new] /\ ~Changing(t) /\ old = call[t]
        /\ selected' = IF opens THEN old.row ELSE IF old.ok /\ panel.selects THEN old.row ELSE selected
        /\ list' = IF old.ok THEN old.rows ELSE list
        /\ panel' = panel /\ habit' = habit /\ stored' = stored /\ detailOf' = detailOf
        /\ missed' = IF old.ok THEN missed \ {"rows"} ELSE missed \union {"load"}
    BY <1>7 DEF ListAnswered, Answered, Changing, GoOn, SelectedNext, Shown
  <2>2. LoadCall(old, panel)  BY <1>0, <2>1, NoCallIsNone DEF ChangeCall, LoadCall
  <2>3. rest \in {<<>>, <<"detail">>} /\ (~panel.details => rest = <<>>)
    BY <2>2 DEF LoadCall
  <2>a. rest = old.rest  OBVIOUS
  <2> HIDE DEF old, rest, Goal
  <2>4. \/ rest = <<>> /\ new = NoCall /\ ~opens
        \/ rest = <<"detail">> /\ new = Load("detail", old.row, <<>>) /\ opens
    BY <2>3, PlanSteps
  <2> HIDE DEF new, opens
  <2>5. \/ new = NoCall
        \/ /\ new.to = "detail" /\ new.row = old.row /\ new.rest = <<>> /\ new.stage = "sent"
           /\ new # NoCall /\ {"to", "row", "rest", "stage"} \subseteq DOMAIN new
           /\ rest = <<"detail">>
    BY <2>4, NextLoad
  <2>6. new = NoCall \/ LoadCall(new, panel)
    BY <2>3, <2>5, PlanSteps DEF LoadCall
  <2>7. new.to # "change"  BY <2>5, NoCallIsNone
  <2>8. habit = "patient" => \A u \in Calls : u # t => call[u] = NoCall  BY <2>1, OneCall
  <2>9. ~panel.details => detailOf' = NoRow  BY <2>1 DEF PanelsInv
  <2>10. /\ ~panel.keyed => \A u \in Calls : u # t /\ Changing(u) => busy' # NoRow
         /\ busy' # NoRow /\ new.to # "change" /\ (\A u \in Calls : u # t => ~Changing(u)) =>
              "change" \in missed'
    BY <2>1 DEF PanelsInv
  <2>11. ASSUME habit = "patient", Calm'
         PROVE  /\ new = NoCall => Fresh' /\ detailOf' \in {NoRow, selected'}
                /\ new # NoCall => Settles(new, panel, stored', Fresh', selected', detailOf')
    <3>1. old.ok /\ Calm  BY <2>1, <2>11 DEF Calm
    <3>2. Settles(old, panel, stored, Fresh, selected, detailOf)
      BY <2>1, <2>11, <3>1 DEF PanelsInv
    <3>3. /\ rest = <<>> => detailOf = NoRow \/ detailOf = (IF panel.selects THEN old.row ELSE selected)
          /\ old.rows = stored
      BY <2>a, <2>1, <3>1, <3>2 DEF Settles
    <3>4. Fresh'  BY <2>1, <3>1, <3>3 DEF Fresh
    <3>5. CASE rest = <<>>
      <4>1. new = NoCall /\ selected' = (IF panel.selects THEN old.row ELSE selected)
        BY <2>1, <2>4, <3>1, <3>5, PlanSteps
      <4> QED  BY <2>1, <3>3, <3>4, <3>5, <4>1
    <3>6. CASE rest = <<"detail">>
      <4>1. new.to = "detail" /\ new.row = old.row /\ new # NoCall /\ selected' = old.row
        BY <2>1, <2>4, <3>6, PlanSteps, NextLoad
      <4> QED  BY <2>1, <3>4, <4>1 DEF Settles
    <3> QED  BY <2>3, <3>5, <3>6
  <2>12. PanelsInv'
    BY <2>1, <2>6, <2>7, <2>8, <2>9, <2>10, <2>11, CallReplaced
  <2> QED  BY <2>12 DEF Goal
<1>8. ASSUME NEW t \in Calls, DetailAnswered(t)  PROVE Goal
  <2> DEFINE old == call[t]
             rest == old.rest
  <2>1. /\ old # NoCall /\ old.stage = "served" /\ old.to = "detail" /\ busy' = busy
        /\ call' = [call EXCEPT ![t] = IF rest = <<>> THEN NoCall
                                       ELSE Load(Head(rest), old.row, Tail(rest))]
        /\ ~Changing(t) /\ old = call[t]
        /\ selected' = selected /\ list' = list
        /\ panel' = panel /\ habit' = habit /\ stored' = stored
        /\ detailOf' = IF old.ok THEN old.row ELSE detailOf
        /\ missed' = IF old.ok THEN missed ELSE missed \union {"load"}
    BY <1>8 DEF DetailAnswered, Answered, Changing, GoOn
  <2>2. rest = <<>> /\ panel.details
    BY <1>0, <2>1, NoCallIsNone DEF ChangeCall, LoadCall
  <2>3. call' = [call EXCEPT ![t] = NoCall]  BY <2>1, <2>2
  <2> HIDE DEF old, rest, Goal
  <2>4. habit = "patient" => \A u \in Calls : u # t => call[u] = NoCall  BY <2>1, OneCall
  <2>5. /\ ~panel.keyed => \A u \in Calls : u # t /\ Changing(u) => busy' # NoRow
        /\ busy' # NoRow /\ (\A u \in Calls : u # t => ~Changing(u)) => "change" \in missed'
    BY <2>1 DEF PanelsInv
  <2>6. ASSUME habit = "patient", Calm'
        PROVE  Fresh' /\ detailOf' \in {NoRow, selected'}
    <3>1. old.ok /\ Calm /\ (Fresh => Fresh')  BY <2>1, <2>6 DEF Calm, Fresh
    <3>2. Settles(old, panel, stored, Fresh, selected, detailOf)
      BY <2>1, <2>6, <3>1 DEF PanelsInv
    <3> QED  BY <2>1, <3>1, <3>2 DEF Settles
  <2>7. PanelsInv'
    BY <2>1, <2>2, <2>3, <2>4, <2>5, <2>6, NoCallIsNone, CallReplaced
  <2> QED  BY <2>7 DEF Goal
<1>9. ASSUME NEW t \in Calls, FetchThrows(t)  PROVE Goal
  <2>1. /\ call[t] # NoCall /\ busy' = busy /\ call' = [call EXCEPT ![t] = NoCall]
        /\ panel' = panel /\ habit' = habit /\ detailOf' = detailOf
        /\ missed' = missed \union {IF Changing(t) THEN "change" ELSE "load"}
    BY <1>9 DEF FetchThrows
  <2> HIDE DEF Goal
  <2>2. habit = "patient" => \A u \in Calls : u # t => call[u] = NoCall  BY <2>1, OneCall
  <2>3. /\ ~panel.keyed => \A u \in Calls : u # t /\ Changing(u) => busy' # NoRow
        /\ busy' # NoRow /\ (\A u \in Calls : u # t => ~Changing(u)) => "change" \in missed'
        /\ ~panel.details => detailOf' = NoRow
    BY <2>1 DEF PanelsInv
  <2>4. ~Calm'  BY <2>1 DEF Calm
  <2>5. PanelsInv'
    BY <2>1, <2>2, <2>3, <2>4, NoCallIsNone, CallReplaced
  <2> QED  BY <2>5 DEF Goal
<1> HIDE DEF Goal
<1> QED  BY <1>1, <1>2, <1>3, <1>4, <1>5, <1>6, <1>7, <1>8, <1>9 DEF PanelsNext

LEMMA PanelsStart == PanelsInit => PanelsInv
BY NoCallIsNone DEF PanelsInit, PanelsInv, Changing, Calm, Fresh

LEMMA PanelsInvRest == PanelsInv => PanelsComeToRest
BY DEF PanelsInv, PanelsComeToRest, Calm, Fresh

LEMMA PanelsAlways == Spec => []PanelsInv
<1>1. Init => PanelsInv  BY PanelsStart DEF Init
<1>2. PanelsInv /\ [Next]_allVars => PanelsInv'
  <2> SUFFICES ASSUME PanelsInv, [Next]_allVars  PROVE PanelsInv'  OBVIOUS
  <2>1. CASE UNCHANGED panelVars
    BY <2>1 DEF panelVars, PanelsInv, Changing, Quiet, Calm, Fresh
  <2>2. CASE PanelsAct
    BY <2>2, PanelsStep DEF PanelsAct
  <2> QED  BY <2>1, <2>2, SceneSteps
<1> QED  BY <1>1, <1>2, PTL DEF Spec

(* Every panel, over any rows and with any number of handlers under way: one change at a *)
(* time where one flag disables the buttons, buttons that come back, and for an operator *)
(* who waits the details of the selected row and the server's rows, but for what refused  *)
(* changes altered.                                                                      *)
THEOREM PanelsAlwaysComeToRest == Spec => []PanelsComeToRest
BY PanelsInvRest, PanelsAlways, PTL
=============================================================================
