--------------------------- MODULE TopologySeeds ---------------------------
(***************************************************************************)
(* The tables that generation starts from: the capability hierarchy, the   *)
(* capabilities that integrations need, and the four logistics skeletons   *)
(* with their mutation rules.  Every skeleton is a chain of steps.         *)
(***************************************************************************)
EXTENDS TopologyGeneration

\* _DEFAULT_HIERARCHY: the parent of a capability, "" for none.
Parent(c) ==
  CASE c \in {"data_read", "data_write", "api_call"} -> "io_capability"
    [] c \in {"db_read"} -> "data_read"
    [] c \in {"transform", "validate"} -> "processing"
    [] c = "parse" -> "transform"
    [] c \in {"ml_inference", "statistics"} -> "analysis"
    [] c \in {"http_request", "webhook", "queue_publish"} -> "integration"
    [] OTHER -> ""

Capabilities ==
  {"data_read", "data_write", "api_call", "db_read", "transform", "validate", "parse",
   "ml_inference", "statistics", "http_request", "processing", "notification", "human_review",
   "integration"}

\* expand_capabilities of one capability; no chain is longer than three.
DefaultTaxonomy ==
  LET Up(S) == S \cup ({Parent(c) : c \in S} \ {""})
  IN  [c \in Capabilities |-> Up(Up({c}))]

\* _INTEGRATION_CAPABILITY_MAP
IntegrationCapability ==
  [i \in {"tms", "wms", "carrier_api", "email", "erp", "customs_db", "webhook", "queue"} |->
     CASE i \in {"tms", "wms"} -> "api_call" [] i = "carrier_api" -> "http_request"
       [] i = "email" -> "integration" [] i \in {"erp", "customs_db"} -> "db_read"
       [] i = "webhook" -> "webhook" [] i = "queue" -> "queue_publish"]

----------------------------------------------------------------------------
Condition(field, op, value) == {[field |-> field, op |-> op, value |-> value]}
Insert(type, target, new, final) ==
  [type |-> type, target |-> target, new |-> new, final |-> final, field |-> "none"]

ComplianceGateRule(after) ==
  [id |-> "compliance_gate", priority |-> 100, when |-> Condition("compliance", "eq", "strict"),
   acts |-> <<Insert("insert_after", after, "compliance_verify", FALSE)>>]

HumanApprovalRule(after) ==
  [id |-> "human_approval", priority |-> 90, when |-> Condition("human", "eq", TRUE),
   acts |-> <<Insert("insert_after", after, "human_approve", FALSE)>>]

\* Without the second action the graph would have a final step in its middle.
NotifyOnly(final) == <<Insert("insert_after", final, "email_notify", TRUE)>>
NotifyActions(final) ==
  NotifyOnly(final) \o
    <<[type |-> "modify_field", target |-> final, field |-> "is_final", final |-> FALSE, new |-> "none"]>>
EmailNotifyRule(final) ==
  [id |-> "email_notify", priority |-> 50, when |-> Condition("integrations", "in", "email"),
   acts |-> NotifyActions(final)]

CarrierApiAdapterRule(before) ==
  [id |-> "carrier_adapter", priority |-> 70, when |-> Condition("integrations", "in", "carrier_api"),
   acts |-> <<Insert("insert_before", before, "carrier_adapter", FALSE)>>]

\* rule_wms_adapter and rule_customs_db_adapter add a capability to a step.
CapabilityRule(id, target, integration) ==
  [id |-> id, priority |-> 70, when |-> Condition("integrations", "in", integration),
   acts |-> <<[type |-> "modify_field", target |-> target, field |-> "required_capabilities",
               final |-> FALSE, new |-> "none"]>>]

----------------------------------------------------------------------------
\* A chain of the named steps.
Chain(ids) ==
  LET At(s) == CHOOSE i \in DOMAIN ids : ids[i] = s
  IN  [s \in {ids[i] : i \in DOMAIN ids} |->
         [deps |-> IF At(s) = 1 THEN {} ELSE {ids[At(s) - 1]},
          entry |-> At(s) = 1, final |-> At(s) = Len(ids)]]

Skeleton(class, ids, caps, rules, patterns) ==
  [id |-> class, class |-> class, enabled |-> TRUE, steps |-> Chain(ids), caps |-> caps,
   rules |-> rules, patterns |-> patterns]

ShipmentExceptionSkeleton ==
  Skeleton("shipment_exception", <<"intake", "classify", "decide", "execute", "verify", "notify">>,
           {"data_read", "parse", "processing", "ml_inference", "validate", "http_request", "data_write",
            "notification"},
           <<ComplianceGateRule("decide"), HumanApprovalRule("decide"), EmailNotifyRule("notify")>>,
           {"verification_gate", "retry_wrapper"})

OrderFulfillmentSkeleton ==
  Skeleton("order_fulfillment",
           <<"intake", "validate", "check_inventory", "allocate", "pick_pack", "ship", "confirm">>,
           {"data_read", "parse", "validate", "db_read", "api_call", "processing", "data_write",
            "http_request", "notification"},
           <<HumanApprovalRule("allocate"), ComplianceGateRule("allocate"), EmailNotifyRule("confirm"),
             CapabilityRule("wms_adapter", "check_inventory", "wms")>>,
           {"verification_gate", "fan_out_fan_in"})

CarrierSelectionSkeleton ==
  Skeleton("carrier_selection", <<"intake", "collect_rates", "score_carriers", "select", "book">>,
           {"data_read", "parse", "http_request", "api_call", "processing", "statistics", "validate",
            "data_write"},
           <<ComplianceGateRule("score_carriers"), CarrierApiAdapterRule("collect_rates"),
             EmailNotifyRule("book")>>,
           {"retry_wrapper"})

CustomsComplianceSkeleton ==
  Skeleton("customs_compliance",
           <<"intake", "extract_docs", "classify_goods", "compliance_check", "approve", "submit">>,
           {"data_read", "parse", "ml_inference", "processing", "validate", "db_read", "human_review",
            "http_request", "data_write"},
           <<ComplianceGateRule("compliance_check"), HumanApprovalRule("compliance_check"),
             EmailNotifyRule("submit"), CapabilityRule("customs_db_adapter", "compliance_check", "customs_db")>>,
           {"verification_gate", "human_approval"})

LogisticsSeeds ==
  {ShipmentExceptionSkeleton, OrderFulfillmentSkeleton, CarrierSelectionSkeleton,
   CustomsComplianceSkeleton}
=============================================================================
