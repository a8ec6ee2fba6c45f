-------------------------- MODULE PlatformManifest --------------------------
(***************************************************************************)
(* What scripts/platform-bootstrap.ts puts into the registry: the modules  *)
(* with their dependencies, and what themes, plugins and integration       *)
(* providers require of them.  Themes and providers that require the same  *)
(* are not told apart.                                                     *)
(***************************************************************************)

(* coreModules, first half: commerce, finance, operations. *)
CommerceModules ==
  [tenants |-> {},                   marketplace |-> {"tenants"},
   seller_kyc |-> {"marketplace", "security"},
   catalog |-> {"tenants"},          orders |-> {"tenants"},
   payments |-> {"tenants"},         wallets |-> {"payments"},
   accounting |-> {"erp_odoo"},      tax |-> {"accounting"},
   invoicing |-> {"accounting", "tax"},
   erp_odoo |-> {"tenants"},         medusa_commerce |-> {"tenants"},
   logistics |-> {"orders"}]

\* Mutant: themes come to depend on cms, which depends on them.
ServiceModulesCyclic ==
  [support |-> {"notifications"},    notifications |-> {"tenants"},
   marketing |-> {},                 storefront_builder |-> {"themes"},
   cms |-> {"storefront_builder"},   ai |-> {"tenants"},
   security |-> {},                  integrations |-> {"security"},
   reports |-> {"tenants"},          backup |-> {"tenants"},
   localization |-> {"tenants"},     themes |-> {"cms"},
   plugins |-> {"integrations"}]

(* coreModules, second half: communication, content, platform. *)
ServiceModules ==
  [support |-> {"notifications"},    notifications |-> {"tenants"},
   marketing |-> {},                 storefront_builder |-> {"themes"},
   cms |-> {"storefront_builder"},   ai |-> {"tenants"},
   security |-> {},                  integrations |-> {"security"},
   reports |-> {"tenants"},          backup |-> {"tenants"},
   localization |-> {"tenants"},     themes |-> {},
   plugins |-> {"integrations"}]

Dependencies ==
  [m \in DOMAIN CommerceModules \union DOMAIN ServiceModules |->
    IF m \in DOMAIN CommerceModules THEN CommerceModules[m] ELSE ServiceModules[m]]

(* The modules inserted with is_enabled = true; a row that exists keeps its flag. *)
EnabledAtBootstrap ==
  {"tenants", "erp_odoo", "medusa_commerce", "ai", "security", "localization"}

(* coreThemeSeeds: the distinct requiredModules. *)
ThemeRequirements ==
  {{"themes"}} \union
  {{"themes", m} : m \in {"catalog", "cms", "orders", "marketplace", "logistics",
                          "payments", "localization"}} \union
  {{"themes", "catalog", m} : m \in {"logistics", "orders", "integrations"}} \union
  {{"themes", "localization", "catalog"}, {"themes", "payments", "notifications"}}

(* corePluginSeeds: requiredModules besides "plugins", which all of them require. *)
PluginNeeds ==
  [whatsapp_business |-> {"notifications", "integrations"},
   smtp_email |-> {"notifications"},     sms_gateway |-> {"notifications"},
   push_notifications |-> {"notifications"},
   stripe_payments |-> {"payments"},     iyzico_payments |-> {"payments", "localization"},
   paypal_payments |-> {"payments", "localization"},
   cargo_provider |-> {"logistics"},     invoice_export |-> {"invoicing", "accounting"},
   xml_importer |-> {"catalog"},         csv_importer |-> {"catalog"},
   barcode_qr_tools |-> {"catalog"},     product_feed_google |-> {"catalog", "marketing"},
   product_feed_meta |-> {"catalog", "marketing"},
   analytics_connector |-> {"reports"},  ai_content_assistant |-> {"ai", "cms"},
   ai_seo_assistant |-> {"ai", "cms"},   fraud_rules |-> {"security", "orders"},
   loyalty_points |-> {"marketing", "wallets"},
   affiliate_tracking |-> {"marketing"}, live_chat |-> {"support", "notifications"},
   chatbot |-> {"support", "ai"},        print_center |-> {"orders"},
   odoo_accounting_bridge |-> {"erp_odoo", "accounting"},
   medusa_catalog_bridge |-> {"medusa_commerce", "catalog"},
   medusa_order_bridge |-> {"medusa_commerce", "orders"}]

(* coreProviderSeeds: the distinct pairs of required plugin and required module. *)
ProviderRequirements ==
  {<<"none", m>> : m \in {"ai", "localization", "notifications", "payments"}} \union
  {<<"ai_content_assistant", "ai">>, <<"cargo_provider", "logistics">>,
   <<"invoice_export", "invoicing">>, <<"iyzico_payments", "payments">>,
   <<"odoo_accounting_bridge", "accounting">>, <<"paypal_payments", "payments">>,
   <<"sms_gateway", "notifications">>, <<"smtp_email", "notifications">>,
   <<"stripe_payments", "payments">>, <<"whatsapp_business", "notifications">>}

PluginRequirements == [p \in DOMAIN PluginNeeds |-> {"plugins"} \union PluginNeeds[p]]
=============================================================================
