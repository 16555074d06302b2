----------------------------- MODULE SaleTemplate -----------------------------
(***************************************************************************)
(* The template of the sale of an apartment                                *)
(* (templates/apartment-sale/definition.ts): its three variants share the  *)
(* parties, the unit, the price and the notices, and have a proof of       *)
(* ownership, taxes, penalties and attachments of their own.  The variables*)
(* that derivedClauseVariable (resolver.ts) gives a text are at the end.   *)
(***************************************************************************)
EXTENDS LegalTemplate, TLC

Sale == {"preliminary_sale", "registrable_sale", "inherited_sale"}
Utilities == {"electricity", "water", "gas"}

(* partyFields: heirs sell, and are sold to, in person. *)
SaleParty(p, v) ==
    LET heirs  == v = "inherited_sale"
        type   == p \o "_party_type"
        person == IF heirs THEN Always ELSE Is(type, "individual")
        firm   == IF heirs THEN Never ELSE Is(type, "company")
        emails == AllOf({On("sale_email_notices_enabled"), On("sale_notice_use_party_emails")})
    IN  (IF heirs THEN {} ELSE Must(Radio({"individual", "company"}), Always, {type}))
        \cup Must(Text, person, {p \o "_name", p \o "_nationality", p \o "_national_id",
                  p \o "_address"})
        \cup Must(Radio({"national_id", "passport"}), person, {p \o "_identity_document_type"})
        \cup May(Text, person, {p \o "_id_issuer"}) \cup May(Date, person, {p \o "_id_issue_date"})
        \cup Must(Text, Always, {p \o "_phone"})
        \cup MayWhen(Text, person, emails, {p \o "_email"})
        \cup (IF heirs THEN {} ELSE
              Must(Text, firm, {p \o "_company_name", p \o "_company_legal_form",
                   p \o "_commercial_register", p \o "_tax_card", p \o "_legal_representative",
                   p \o "_representative_capacity", p \o "_company_address"})
              \cup MayWhen(Text, firm, emails, {p \o "_company_email"}))

(* unitSteps, with meterFields *)
SoldUnit ==
    Must(Text, Always, {"sale_unit_governorate", "sale_unit_city", "sale_unit_district",
         "sale_unit_street", "sale_floor_number", "sale_unit_number", "sale_kitchen_description"})
    \cup May(Text, Always, {"sale_compound_name", "sale_plot_number", "sale_adjacency_number",
             "sale_building_number", "sale_building_name"})
    \cup Must(Counted, Always, {"sale_unit_area"})
    \cup Must(Number, Always, {"sale_bedrooms_count", "sale_reception_count",
              "sale_bathrooms_count", "sale_balconies_count"})
    \cup Must(Options({}), Always, {"sale_finishing_level"})
    \cup UNION {LET m == "sale_" \o u \o "_meter"
                    metered == Is(m \o "_exists", "yes")
                IN  Must(Radio({"yes", "no"}), Always, {m \o "_exists"})
                    \cup Must(Text, metered, {m})
                    \cup Must(Choice({"independent", "shared"}), metered, {m \o "_type"})
                    \cup May(Text, metered, {m \o "_reading"}) : u \in Utilities}
    \cup Must(Text, Always, {"sale_" \o d \o "_boundary" : d \in {"north", "south", "east", "west"}})

(* preliminaryOwnership, registrableOwnership and inheritedOwnership: the  *)
(* title, and what proves a title of that kind.                            *)
SoldTitle(v) ==
    LET by(k, x, keys) == Must(Text, Is(k, x), keys)
        on(k, x, key) == Must(Date, Is(k, x), {key})
        year(k, x, key) == Must(Counted, Is(k, x), {key})
    IN CASE v = "preliminary_sale" ->
            LET k == "preliminary_ownership_source" IN
            Must(Radio({"preliminary_contract", "custom_contract", "court_judgment", "allocation"}),
                 Always, {k})
            \cup on(k, "preliminary_contract", "preliminary_contract_date")
            \cup on(k, "custom_contract", "custom_contract_date")
            \cup by(k, "court_judgment", {"ownership_judgment_number"})
            \cup year(k, "court_judgment", "ownership_judgment_year")
            \cup by(k, "allocation", {"ownership_allocation_authority"})
            \cup Must(File, Always, {"sale_ownership_documents"})
         [] v = "registrable_sale" ->
            LET k == "registered_title_type" IN
            Must(Radio({"registered_contract", "final_judgment", "allocation", "other"}), Always, {k})
            \cup by(k, "registered_contract", {"registered_deed_number", "registry_office"})
            \cup year(k, "registered_contract", "registered_deed_year")
            \cup by(k, "final_judgment", {"registered_judgment_number", "registered_judgment_court"})
            \cup year(k, "final_judgment", "registered_judgment_year")
            \cup by(k, "allocation", {"registered_allocation_authority"})
            \cup by(k, "other", {"registered_other_title"})
            \cup Must(File, Always, {"sale_ownership_documents"})
         [] v = "inherited_sale" ->
            LET k == "inheritance_disposition_basis" IN
            Must(Text, Always, {"deceased_owner_name", "inheritance_declaration_number",
                 "inheritance_declaration_court", "deceased_title_description"})
            \cup Must(Date, Always, {"inheritance_declaration_date"})
            \cup Must(Radio({"power_of_attorney", "partition_contract", "relinquishment_contract",
                              "sale_from_heirs", "sole_heir", "other"}), Always, {k})
            \cup by(k, "power_of_attorney", {"inheritance_poa_number", "inheritance_poa_office"})
            \cup on(k, "power_of_attorney", "inheritance_poa_date")
            \cup year(k, "power_of_attorney", "inheritance_poa_year")
            \cup on(k, "partition_contract", "inheritance_partition_date")
            \cup on(k, "relinquishment_contract", "inheritance_relinquishment_date")
            \cup on(k, "sale_from_heirs", "inheritance_heirs_sale_date")
            \cup by(k, "other", {"inheritance_other_basis"})
            \cup Must(Flag, Always, {"inheritance_no_minors_ack"})

(* pricePayment *)
SoldPrice(v) ==
    LET parts == Is("sale_payment_plan", "installments")
        rows  == "sale_installment_schedule_rows"
    IN  Must(Counted, Always, {"sale_total_price"})
        \cup Must(Radio({"full", "installments"}), Always, {"sale_payment_plan"})
        \cup Must(Text, Always, {"sale_payment_method"})
        \cup Must(Number, parts, {"sale_down_payment"} \cup
                  IF v = "registrable_sale" THEN {}
                  ELSE {"sale_installment_rescission_compensation_percent"})
        \cup Must(Rows, parts, {rows})
        \cup Must(Text, And(parts, On(rows)), {rows \o ".installment_no", rows \o ".payment_method"})
        \cup Must(Date, And(parts, On(rows)), {rows \o ".due_date"})
        \cup Must(Number, And(parts, On(rows)), {rows \o ".amount"})
        \cup Must(Counted, parts, {"sale_installment_grace_days"})

(* delivery *)
SoldDelivery ==
    Must(Number, Always, {"sale_delivery_delay_daily_compensation"})
    \cup Must(Counted, Always, {"sale_delivery_delay_threshold_days"})
    \cup May(Flag, Always, {"sale_unit_is_occupied"})
    \cup Must(Text, On("sale_unit_is_occupied"), {"sale_occupancy_details"})
    \cup Must(File, On("sale_unit_is_occupied"), {"sale_occupancy_documents"})
    \cup Must(Flag, Always, {"sale_inspection_acknowledged"})

(* preliminarySpecial, registrablePenalty, inheritedPenalty and tax *)
SalePrefix(v) ==
    CASE v = "preliminary_sale" -> "preliminary" [] v = "registrable_sale" -> "registrable"
      [] v = "inherited_sale" -> "inherited"
SaleTerms(v) ==
    LET penalty == SalePrefix(v) \o "_contractual_penalty"
        request == "preliminary_reconciliation"
        submitted == Is(request \o "_status", "submitted")
    IN  May(Flag, Always, {penalty \o "_enabled"})
        \cup Must(Counted, On(penalty \o "_enabled"), {penalty \o "_amount"})
        \cup Must(Text, On(penalty \o "_enabled"), {penalty \o "_trigger"})
        \cup Must(Radio({"seller", "buyer"} \cup IF v = "preliminary_sale" THEN {"shared"} ELSE {}),
                  Always, {SalePrefix(v) \o "_disposition_tax_payer"})
        \cup IF v # "preliminary_sale" THEN {} ELSE
             Must(Radio({"included", "not_included"}), Always, {"preliminary_garage_status"})
             \cup Must(Counted, Always, {"preliminary_hidden_defect_warranty_years"})
             \cup Must(Radio({"none", "submitted"}), Always, {request \o "_status"})
             \cup Must(Text, submitted, {request \o "_request_number"})
             \cup Must(Counted, submitted, {request \o "_request_year"})
             \cup Must(File, submitted, {request \o "_documents"})
             \cup Must(Radio({"seller", "buyer"}), submitted, {request \o "_responsible_party"})

(* legalTiming, notices, jurisdiction and witnesses *)
SaleNotices(v) ==
    LET mail == On("sale_email_notices_enabled")
        chat == On("sale_messaging_enabled")
        witness == {"sale_witness_1", "sale_witness_2"}
    IN  Must(Counted, Always, {"sale_general_breach_cure_days", "sale_force_majeure_notice_days",
             "sale_notice_change_days"}
             \cup IF v = "inherited_sale" THEN {"sale_amicable_settlement_days"} ELSE {})
        \cup May(Flag, Always, {"sale_email_notices_enabled", "sale_messaging_enabled"})
        \cup May(Flag, mail, {"sale_notice_use_party_emails"})
        \cup Must(Text, And(mail, Off("sale_notice_use_party_emails")),
                  {"sale_notice_seller_email", "sale_notice_buyer_email"})
        \cup May(Flag, chat, {"sale_notice_use_party_phones"})
        \cup Must(Text, And(chat, Off("sale_notice_use_party_phones")),
                  {"sale_notice_seller_phone", "sale_notice_buyer_phone"})
        \cup Must(Options({"other"}), Always, {"sale_competent_court"})
        \cup Must(Text, Is("sale_competent_court", "other"), {"sale_competent_court_other"})
        \cup May(Flag, Always, {w \o "_enabled" : w \in witness})
        \cup UNION {Must(Text, On(w \o "_enabled"), {w \o "_name", w \o "_national_id"})
                    : w \in witness}

(* attachments, and the negative certificate of a registrable sale *)
SaleAttachments(v) ==
    Must(File, Always, {"sale_seller_identity_copy", "sale_buyer_identity_copy"}
         \cup IF v # "inherited_sale" THEN {}
              ELSE {"inheritance_declaration_attachment", "deceased_death_certificate",
                    "deceased_title_document", "inheritance_disposition_basis_attachment"})
    \cup May(File, Always, {"sale_utility_receipts", "sale_building_docs", "sale_extra_docs"}
         \cup (IF v = "registrable_sale" THEN {} ELSE {"sale_handover_report"})
         \cup (IF v = "preliminary_sale" THEN {"sale_engineering_docs"} ELSE {}))
    \cup IF v # "registrable_sale" THEN {} ELSE
         May(Flag, Always, {"registrable_negative_certificate_enabled"})
         \cup Must(File, On("registrable_negative_certificate_enabled"),
                   {"registrable_negative_certificate"})

(* createVariant: meta, the parties and the steps above *)
SaleFields(v) ==
    Must(Date, Always, {"contract_date"}) \cup Must(Text, Always, {"sale_contract_city"})
    \cup SaleParty("seller", v) \cup SaleParty("buyer", v) \cup SoldUnit \cup SoldTitle(v)
    \cup SoldPrice(v) \cup SoldDelivery \cup SaleTerms(v) \cup SaleNotices(v)
    \cup SaleAttachments(v)

(* sharedDefaults and the defaults of each variant *)
SaleDefaults(v) ==
    [k \in {p \o "_party_type" : p \in {"seller", "buyer"}} |-> "individual"]
    @@ [k \in {p \o "_nationality" : p \in {"seller", "buyer"}} |-> "x"]
    @@ [k \in {p \o "_identity_document_type" : p \in {"seller", "buyer"}} |-> "national_id"]
    @@ [k \in {"sale_" \o u \o "_meter_exists" : u \in Utilities} |-> "no"]
    @@ [k \in {"sale_notice_use_party_emails", "sale_notice_use_party_phones"} |-> "true"]
    @@ ("sale_competent_court" :> "x")
    @@ [k \in {"sale_contract_copies_count", "sale_general_breach_cure_days",
               "sale_force_majeure_notice_days", "sale_notice_change_days"}
              \cup CASE v = "preliminary_sale" -> {"sale_installment_grace_days"}
                     [] v = "registrable_sale" -> {"sale_delivery_delay_threshold_days"}
                     [] v = "inherited_sale"   -> {"sale_amicable_settlement_days"} |-> "9"]

(* The variables of the articles every sale prints (reviewedSourceClauses) *)
SaleArticles ==
    Article(Always,
        {"contract_date", "sale_seller_party_definition", "sale_buyer_party_definition",
         "sale_unit_number", "sale_floor_number", "sale_unit_street", "sale_unit_district",
         "sale_unit_city", "sale_unit_governorate", "sale_unit_area", "sale_bedrooms_count",
         "sale_reception_count", "sale_bathrooms_count", "sale_balconies_count",
         "sale_kitchen_description", "sale_finishing_level", "sale_north_boundary",
         "sale_south_boundary", "sale_east_boundary", "sale_west_boundary",
         "sale_property_additional_details", "sale_total_price", "sale_total_price_words",
         "sale_payment_method", "sale_delivery_rule_text", "sale_inspection_ack_text",
         "sale_occupancy_status_text"})
SaleClosingArticles ==
    Article(Always,
        {"sale_general_breach_cure_days", "sale_force_majeure_notice_days",
         "sale_notice_change_days", "sale_property_jurisdiction_text", "sale_contract_city",
         "contract_date"})

(* and of the articles of one variant *)
SaleOwnArticles(v) ==
    Article(Always, {SalePrefix(v) \o "_disposition_tax_payer_text"} \cup
        CASE v = "preliminary_sale" ->
               {"preliminary_garage_scope_text", "preliminary_ownership_source",
                "preliminary_ownership_detail", "preliminary_hidden_defect_warranty_years",
                "preliminary_reconciliation_legal_text"}
          [] v = "registrable_sale" ->
               {"registered_title_type", "registrable_ownership_detail",
                "registrable_negative_certificate_text", "sale_contract_copies_count"}
          [] v = "inherited_sale" ->
               {"deceased_owner_name", "inheritance_declaration_number",
                "inheritance_declaration_court", "inheritance_declaration_date",
                "deceased_title_description", "inheritance_disposition_basis",
                "inheritance_disposition_detail", "inheritance_heirs_capacity_text",
                "inherited_contractual_penalty_text", "sale_amicable_settlement_days",
                "sale_contract_copies_count"})

(* conditionalClauses, in the order of orderedSaleClauseKeys *)
SaleConditional(v) ==
    LET delay == {"sale_delivery_delay_daily_compensation", "sale_delivery_delay_threshold_days"}
        parts == Is("sale_payment_plan", "installments")
        percent == "sale_installment_rescission_compensation_percent"
        penalty == SalePrefix(v) \o "_contractual_penalty"
    IN  {Article(Is("sale_payment_plan", "full"), delay),
         Article(parts, delay \cup {"sale_down_payment", "sale_remaining_amount",
                 "sale_installment_schedule_text", "sale_payment_method",
                 "sale_installment_grace_days"}),
         Article(On("sale_email_notices_enabled"), {"sale_email_notices_text"}),
         Article(On("sale_messaging_enabled"), {"sale_messaging_notices_text"})}
        \cup (IF v = "registrable_sale" THEN {} ELSE {Article(And(parts, On(percent)), {percent})})
        \cup (IF v = "inherited_sale" THEN {}
              ELSE {Article(On(penalty \o "_enabled"), {penalty \o "_amount", penalty \o "_trigger"})})
        \cup (IF v # "preliminary_sale" THEN {}
              ELSE {Article(And(Is("preliminary_reconciliation_status", "submitted"),
                                AnyOf({Is("preliminary_reconciliation_responsible_party", p)
                                       : p \in {"seller", "buyer"}})),
                            {"preliminary_reconciliation_request_number",
                             "preliminary_reconciliation_request_year"})})

(* apartmentSaleTemplateDefinition *)
SaleText(v) == {SaleArticles, SaleClosingArticles, SaleOwnArticles(v)} \cup SaleConditional(v)

-------------------------------------------------------------------------------
(* derivedClauseVariable, the variables of a sale. *)

SalePartyText(p) ==
    PartyText("sale_" \o p \o "_party_definition", p, p \o "_tax_card", p \o "_phone")

(* sale_property_additional_details has no text while a meter lacks its    *)
(* number or its type.                                                     *)
SaleUnitText ==
    LET text == "sale_property_additional_details"
        meter(u) == "sale_" \o u \o "_meter"
        known(u) == AnyOf({Off(meter(u) \o "_exists"), Is(meter(u) \o "_exists", "no"),
                           And(Is(meter(u) \o "_exists", "yes"),
                               AllFilled({meter(u), meter(u) \o "_type"}))})
        all == AllOf({known(u) : u \in Utilities})
    IN  Prints(text, all, {})
        \cup Adds(text, all, {"sale_compound_name", "sale_plot_number", "sale_adjacency_number",
                  "sale_building_number", "sale_building_name"})
        \cup UNION {Adds(text, And(all, Is(meter(u) \o "_exists", "no")), {meter(u) \o "_exists"})
                    \cup Adds(text, And(all, Is(meter(u) \o "_exists", "yes")),
                              {meter(u), meter(u) \o "_type", meter(u) \o "_reading"})
                    : u \in Utilities}

(* sale_total_price_words, sale_remaining_amount, the schedule of the      *)
(* installments and sale_delivery_rule_text.  The schedule has no text     *)
(* when a row of it has no positive amount; the number of a row may be     *)
(* missing.                                                                *)
SalePriceText ==
    LET rows == "sale_installment_schedule_rows"
        paid == AllOf({Positive(rows \o ".amount"), Filled(rows \o ".due_date"),
                       Filled(rows \o ".payment_method")})
    IN  Prints("sale_total_price_words", Always, {"sale_total_price"})
        \cup Counts("sale_remaining_amount", Always, "sale_total_price")
        \cup Adds("sale_remaining_amount", Positive("sale_total_price"), {"sale_down_payment"})
        \cup Prints("sale_installment_schedule_text", And(paid, On(rows)),
                    {rows, rows \o ".amount", rows \o ".due_date", rows \o ".payment_method"})
        \cup Adds("sale_installment_schedule_text", And(paid, On(rows)), {rows \o ".installment_no"})
        \cup UNION {Prints("sale_delivery_rule_text", Is("sale_payment_plan", x), {"sale_payment_plan"})
                    : x \in {"full", "installments"}}

(* sale_occupancy_status_text *)
OccupancyText ==
    Prints("sale_occupancy_status_text", Off("sale_unit_is_occupied"), {})
    \cup Prints("sale_occupancy_status_text", On("sale_unit_is_occupied"), {"sale_occupancy_details"})

(* sale_inspection_ack_text and sale_property_jurisdiction_text *)
SaleUnitStateText ==
    OccupancyText
    \cup Prints("sale_inspection_ack_text", Always, {"sale_inspection_acknowledged"})
    \cup OrOther("sale_property_jurisdiction_text", Always, "sale_competent_court",
                 "sale_competent_court_other", {"x", "other"})
    \cup Prints("sale_property_jurisdiction_text",
                AnyOf({Off("sale_competent_court"),
                       And(Is("sale_competent_court", "other"), Missing("sale_competent_court_other"))}),
                {"sale_unit_governorate", "sale_unit_city"})

(* sale_email_notices_text and sale_messaging_notices_text *)
SaleNoticeText ==
    Prints("sale_email_notices_text", Off("sale_email_notices_enabled"), {})
    \cup Contacts("sale_email_notices_text", "sale_email_notices_enabled",
             "sale_notice_use_party_emails", "seller", "buyer", "_email",
             {"sale_notice_seller_email", "sale_notice_buyer_email"}, Nothing)
    \cup Prints("sale_messaging_notices_text", Off("sale_messaging_enabled"), {})
    \cup Prints("sale_messaging_notices_text",
                And(On("sale_messaging_enabled"), On("sale_notice_use_party_phones")),
                {"seller_phone", "buyer_phone"})
    \cup Prints("sale_messaging_notices_text",
                And(On("sale_messaging_enabled"), Off("sale_notice_use_party_phones")),
                {"sale_notice_seller_phone", "sale_notice_buyer_phone"})

(* The tax payer, the garage, the reconciliation, the capacity of the      *)
(* heirs, the negative certificate and the penalty of an inherited sale.   *)
SaleTermText ==
    LET request == "preliminary_reconciliation"
        text == request \o "_legal_text"
        penalty == "inherited_contractual_penalty"
    IN  UNION {UNION {Prints(b \o "_disposition_tax_payer_text", Is(b \o "_disposition_tax_payer", p),
                             {b \o "_disposition_tax_payer"}) : p \in {"seller", "buyer", "shared"}}
               : b \in {"preliminary", "registrable", "inherited"}}
        \cup UNION {Prints("preliminary_garage_scope_text", Is("preliminary_garage_status", x),
                           {"preliminary_garage_status"}) : x \in {"included", "not_included"}}
        \cup Prints(text, Is(request \o "_status", "none"), {request \o "_status"})
        \cup UNION {Prints(text, And(Is(request \o "_status", "submitted"),
                                     Is(request \o "_responsible_party", p)),
                           {request \o "_status", request \o "_request_number",
                            request \o "_request_year", request \o "_responsible_party"})
                    : p \in {"seller", "buyer"}}
        \cup Prints("inheritance_heirs_capacity_text", Always, {"inheritance_no_minors_ack"})
        \cup Prints("registrable_negative_certificate_text", Always, {})
        \cup Prints(penalty \o "_text", Off(penalty \o "_enabled"), {})
        \cup Prints(penalty \o "_text", And(On(penalty \o "_enabled"), Positive(penalty \o "_amount")),
                    {penalty \o "_enabled", penalty \o "_amount", penalty \o "_trigger"})

(* preliminary_ownership_detail, registrable_ownership_detail and          *)
(* inheritance_disposition_detail: the proof that the kind of title asks.  *)
SaleTitleText ==
    LET source(x, keys) == Prints("preliminary_ownership_detail",
                                  Is("preliminary_ownership_source", x), keys)
        title(x, keys)  == Prints("registrable_ownership_detail", Is("registered_title_type", x), keys)
        basis(x, keys)  == Prints("inheritance_disposition_detail",
                                  Is("inheritance_disposition_basis", x), keys)
    IN  source("preliminary_contract", {"preliminary_contract_date"})
        \cup source("custom_contract", {"custom_contract_date"})
        \cup source("court_judgment", {"ownership_judgment_number", "ownership_judgment_year"})
        \cup source("allocation", {"ownership_allocation_authority"})
        \cup title("registered_contract",
                   {"registered_deed_number", "registered_deed_year", "registry_office"})
        \cup title("final_judgment", {"registered_judgment_number", "registered_judgment_year",
                   "registered_judgment_court"})
        \cup title("allocation", {"registered_allocation_authority"})
        \cup title("other", {"registered_other_title"})
        \cup basis("power_of_attorney", {"inheritance_poa_number", "inheritance_poa_year",
                   "inheritance_poa_office", "inheritance_poa_date"})
        \cup basis("partition_contract", {"inheritance_partition_date"})
        \cup basis("relinquishment_contract", {"inheritance_relinquishment_date"})
        \cup basis("sale_from_heirs", {"inheritance_heirs_sale_date"})
        \cup basis("sole_heir", {})
        \cup basis("other", {"inheritance_other_basis"})

SaleRules ==
    SalePartyText("seller") \cup SalePartyText("buyer") \cup SaleUnitText \cup SalePriceText
    \cup SaleUnitStateText \cup SaleNoticeText \cup SaleTermText \cup SaleTitleText
===============================================================================
