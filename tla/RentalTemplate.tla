---------------------------- MODULE RentalTemplate ----------------------------
(***************************************************************************)
(* The rental template (templates/rental/definition.ts): its three         *)
(* variants share their steps but for the one about the property's use.    *)
(* The variables that derivedClauseVariable (resolver.ts) gives a text are *)
(* at the end.                                                             *)
(***************************************************************************)
EXTENDS LegalTemplate, TLC

Lease == {"residential_lease", "commercial_lease", "administrative_lease"}

YesNo == Radio({"yes", "no"})
PaymentMethods ==
    {"cash_receipt", "bank_transfer", "bank_deposit", "electronic_wallet", "instapay", "other"}

(* partyFields *)
LeaseParty(p) ==
    LET person == Is(p \o "_party_type", "individual")
        firm   == Is(p \o "_party_type", "company")
        emails == AllOf({On("rental_email_notices_enabled"), On("rental_notice_use_party_emails")})
        phones == AllOf({On("rental_messaging_enabled"), On("rental_messaging_use_party_phones")})
    IN  Must(Radio({"individual", "company"}), Always, {p \o "_party_type"})
        \cup Must(Text, person, {p \o "_name", p \o "_nationality", p \o "_national_id",
                  p \o "_address", p \o "_phone"})
        \cup Must(Radio({"national_id", "passport"}), person, {p \o "_identity_document_type"})
        \cup May(Text, person, {p \o "_id_issuer"}) \cup May(Date, person, {p \o "_id_issue_date"})
        \cup MayWhen(Text, person, emails, {p \o "_email"})
        \cup Must(Text, firm, {p \o "_company_name", p \o "_company_legal_form",
                  p \o "_commercial_register", p \o "_tax_card", p \o "_legal_representative",
                  p \o "_representative_capacity", p \o "_company_address"})
        \cup MayWhen(Text, firm, phones, {p \o "_company_phone"})
        \cup MayWhen(Text, firm, emails, {p \o "_company_email"})

(* rental_contract_meta and rental_property *)
Meters == {"electricity_meter", "water_meter", "gas_meter"}
LeasedProperty ==
    Must(Date, Always, {"contract_date"})
    \cup Must(Text, Always, {"property_governorate", "property_city",
              "property_district", "property_street", "floor_number", "unit_number"})
    \cup May(Text, Always, {"building_number"})
    \cup Must(Counted, Always, {"property_area"})
    \cup UNION {Must(YesNo, Always, {m \o "_exists"})
                \cup Must(Text, Is(m \o "_exists", "yes"), {m})
                \cup Must(Choice({"independent", "shared"}), Is(m \o "_exists", "yes"), {m \o "_type"})
                \cup May(Text, Is(m \o "_exists", "yes"), {m \o "_reading"}) : m \in Meters}

(* rental_terms and rental_financial *)
LeaseTerms ==
    Must(Counted, Always, {"lease_duration_value", "rent_due_day"})
    \cup Must(Radio({"days", "months", "years"}), Always, {"lease_duration_unit"})
    \cup Must(Date, Always, {"start_date", "end_date", "property_delivery_date"})
    \cup Must(Number, Always, {"deposit_amount", "rent_amount", "holdover_daily_compensation"})
    \cup Must(Radio({"received", "due_later"}), Always, {"deposit_payment_status"})
    \cup Must(Date, Is("deposit_payment_status", "due_later"), {"deposit_due_date"})
    \cup Must(Radio({"x"}), Always, {"rent_period"})
    \cup May(Flag, Always, {"annual_increase_enabled"})

(* rental_notices *)
LeaseNotices ==
    LET mail == On("rental_email_notices_enabled")
        chat == On("rental_messaging_enabled")
    IN  May(Flag, Always, {"rental_email_notices_enabled", "rental_messaging_enabled"})
        \cup May(Flag, mail, {"rental_notice_use_party_emails"})
        \cup Must(Text, And(mail, Off("rental_notice_use_party_emails")),
                  {"rental_notice_landlord_email", "rental_notice_tenant_email"})
        \cup Must(Options({"other"}), chat, {"rental_messaging_channel"})
        \cup Must(Text, And(chat, Is("rental_messaging_channel", "other")),
                  {"rental_messaging_channel_other"})
        \cup May(Flag, chat, {"rental_messaging_use_party_phones"})
        \cup Must(Text, And(chat, Off("rental_messaging_use_party_phones")),
                  {"rental_messaging_landlord_phone", "rental_messaging_tenant_phone"})

(* rental_jurisdiction and rental_witnesses *)
LeaseCourtAndWitnesses ==
    Must(Options({"other"}), Always, {"rental_competent_court"})
    \cup Must(Text, Is("rental_competent_court", "other"), {"rental_competent_court_other"})
    \cup May(Flag, Always, {"rental_witness_1_enabled", "rental_witness_2_enabled"})
    \cup Must(Text, On("rental_witness_1_enabled"),
              {"rental_witness_1_name", "rental_witness_1_national_id"})
    \cup Must(Text, On("rental_witness_2_enabled"),
              {"rental_witness_2_name", "rental_witness_2_national_id"})

(* rental_residential_details *)
ResidentialDetails ==
    Must(Options({}), Always, {"residential_property_type", "residential_finishing_level"})
    \cup May(Text, Always, {"residential_compound_name", "residential_plot_number",
             "residential_adjacency_number", "residential_building_name"})
    \cup Must(Number, Always, {"rooms_count", "reception_count", "bathrooms_count",
              "balconies_count", "late_payment_daily_compensation"})
    \cup Must(Text, Always, {"residential_kitchen_description", "residential_use_purpose"})
    \cup May(Flag, Always, {"residential_is_furnished", "residential_includes_garage",
             "residential_includes_storage", "residential_includes_garden",
             "residential_includes_roof", "residential_includes_service_room",
             "residential_includes_parking", "residential_other_annex_enabled",
             "residential_management_rules_applicable",
             "residential_transfer_ownership_clause_enabled"})
    \cup Must(Text, On("residential_other_annex_enabled"), {"residential_other_annex"})
    \cup Must(YesNo, Always, {"residential_pets_allowed"})
    \cup Must(Number, On("annual_increase_enabled"), {"annual_increase_rate"})
    \cup Must(Rows, Always, {"rental_payment_methods"})
    \cup Must(Choice(PaymentMethods), On("rental_payment_methods"), {"rental_payment_methods.method"})
    \cup Must(Text, And(On("rental_payment_methods"), Is("rental_payment_methods.method", "other")),
              {"rental_payment_methods.details"})
    \cup Must(Counted, Always, {"residential_payment_grace_days"})

(* What the commercial and the administrative step have in common. *)
BusinessLease(b) ==
    LET leave  == On(b \o "_early_termination_enabled")
        checks == On(b \o "_guarantee_checks_enabled")
    IN  May(Text, Always, {b \o "_project_name", b \o "_license_number", b \o "_plot_number"})
        \cup Must(Options({"other"}), Always, {b \o "_site_type"})
        \cup Must(Text, Is(b \o "_site_type", "other"), {b \o "_site_type_other"})
        \cup Must(Text, Always, {b \o "_activity_name"})
        \cup Must(Number, Always, {"late_payment_daily_compensation"})
        \cup Must(Number, On("annual_increase_enabled"), {"annual_increase_rate"})
        \cup Must(Choice(PaymentMethods), Always, {"rental_payment_method"})
        \cup Must(Text, Is("rental_payment_method", "other"), {"rental_payment_method_other"})
        \cup May(Flag, Always, {b \o x : x \in {"_early_termination_enabled", "_safety_enabled",
                 "_guarantee_checks_enabled", "_vat_enabled", "_insurance_enabled",
                 "_signage_enabled", "_legal_fees_enabled"}})
        \cup Must(Counted, leave, {b \o "_early_termination_notice_days"})
        \cup Must(Number, leave, {b \o "_early_termination_compensation"})
        \cup Must(Counted, checks, {b \o "_guarantee_checks_count"})
        \cup Must(Text, checks, {b \o "_guarantee_bank", b \o "_guarantee_check_numbers"})
        \cup Must(Radio({"each", "total"}), checks, {b \o "_guarantee_value_mode"})
        \cup UNION {Must(Number, And(checks, Is(b \o "_guarantee_value_mode", m)),
                         {b \o "_guarantee_" \o m \o "_amount"}) : m \in {"each", "total"}}
        \cup Must(Radio({"x"}), On(b \o "_legal_fees_enabled"), {b \o "_legal_fees_bearer"})

(* rental_commercial_details *)
CommercialDetails ==
    BusinessLease("commercial")
    \cup Must(Options({"other"}), Always, {"commercial_finishing_level"})
    \cup Must(Text, Is("commercial_finishing_level", "other"), {"commercial_finishing_other"})
    \cup Must(YesNo, Always, {"commercial_has_mezzanine", "commercial_has_storage",
              "commercial_has_loading_area", "commercial_includes_garage", "commercial_front_yard",
              "commercial_back_yard", "commercial_service_room", "commercial_toilet"})
    \cup Must(Number, Always, {"commercial_frontage_width"})
    \cup Must(Counted, Always, {"commercial_frontage_count", "commercial_nonpayment_termination_days"})
    \cup May(Flag, Always, {"commercial_other_annex_enabled", "commercial_public_customers_enabled"})
    \cup Must(Text, On("commercial_other_annex_enabled"), {"commercial_other_annex"})

(* rental_administrative_details *)
AdministrativeDetails ==
    BusinessLease("administrative")
    \cup Must(YesNo, Always, {"administrative_meeting_room", "administrative_reception",
              "administrative_storage", "administrative_lift", "administrative_server_room"})
    \cup Must(Number, Always, {"administrative_parking_count"})
    \cup Must(Options({}), Always, {"administrative_ac_system", "administrative_data_network"})
    \cup Must(Choice({"vacant", "furnished", "fully_equipped", "inventory_report"}), Always,
              {"administrative_delivery_condition"})
    \cup Must(Counted, Always, {"administrative_rent_grace_days"})
    \cup May(Flag, Always, {"administrative_visitors_enabled", "administrative_esign_enabled"})

LeaseStep(v) ==
    CASE v = "residential_lease"    -> ResidentialDetails
      [] v = "commercial_lease"     -> CommercialDetails
      [] v = "administrative_lease" -> AdministrativeDetails

(* createRentalVariant: the common steps with the step of the variant. *)
LeaseFields(v) ==
    LeaseParty("landlord") \cup LeaseParty("tenant") \cup LeasedProperty \cup LeaseStep(v)
    \cup LeaseTerms \cup LeaseNotices \cup LeaseCourtAndWitnesses

(* commonRentalDefaults and the defaults of each variant: a box that starts *)
(* ticked or a choice already made.                                         *)
LeaseDefaults(v) ==
    [k \in {p \o "_party_type" : p \in {"landlord", "tenant"}} |-> "individual"]
    @@ [k \in {p \o "_nationality" : p \in {"landlord", "tenant"}} |-> "x"]
    @@ [k \in {p \o "_identity_document_type" : p \in {"landlord", "tenant"}} |-> "national_id"]
    @@ [k \in {m \o "_exists" : m \in Meters} |-> "no"]
    @@ [k \in {"rental_notice_use_party_emails", "rental_messaging_use_party_phones"} |-> "true"]
    @@ [k \in {"contract_copies_count", "annual_increase_rate"} |-> "9"]
    @@ ("deposit_payment_status" :> "received") @@ ("rental_competent_court" :> "x")
    @@ CASE v = "residential_lease" -> "residential_pets_allowed" :> "no"
         [] v = "commercial_lease"  -> "commercial_early_termination_notice_days" :> "9"
         [] v = "administrative_lease" ->
              [k \in {"administrative_rent_grace_days",
                      "administrative_early_termination_notice_days"} |-> "9"]

(* The variables of the articles every lease prints, as the review of the  *)
(* source articles leaves them (reviewedSourceClauses).                    *)
Premises == {"property_street", "property_district", "property_city", "property_governorate",
             "unit_number", "floor_number", "property_area", "rental_property_additional_details"}
LeaseArticles ==
    Article(Always, Premises \cup
        {"contract_date", "rental_landlord_party_definition", "rental_tenant_party_definition",
         "property_delivery_date"})

(* The articles of one variant: its description of the property and the    *)
(* activity.                                                               *)
LeaseOwnArticles(v) ==
    Article(Always,
        CASE v = "residential_lease" ->
               {"residential_property_type", "rooms_count", "reception_count", "bathrooms_count",
                "balconies_count", "residential_kitchen_description", "residential_finishing_level",
                "residential_use_purpose", "residential_pets_text"}
          [] v = "commercial_lease" ->
               {"commercial_activity_name", "commercial_finishing_level",
                "commercial_frontage_width", "commercial_frontage_count"}
          [] v = "administrative_lease" -> {"administrative_activity_name"})

(* The term, the deposit, the rent, the court and the copies; then, in the *)
(* articles the end of the review writes, the handover and the days of     *)
(* grace.                                                                  *)
LeaseTermArticles ==
    Article(Always,
        {"lease_duration_text", "start_date", "end_date", "holdover_daily_compensation",
         "deposit_amount", "deposit_amount_words", "rental_deposit_receipt_text", "rent_period",
         "rent_amount", "rent_amount_words", "rental_property_jurisdiction_text",
         "contract_copies_count"})
LeaseHandoverArticles(v) ==
    Article(Always, {"rental_meter_details_text", "property_delivery_date"} \cup
        CASE v = "residential_lease"    -> {}
          [] v = "commercial_lease"     -> {"commercial_nonpayment_termination_days"}
          [] v = "administrative_lease" -> {"administrative_rent_grace_days"})

(* conditionalClauses, in the order orderedRentalClauseKeys gives them, of *)
(* which only the condition and the variables matter here.                 *)
LeaseConditional(v) ==
    {Article(On("annual_increase_enabled"), {"annual_increase_rate"}),
     Article(On("rental_email_notices_enabled"), {"rental_email_notices_text"}),
     Article(On("rental_messaging_enabled"), {"rental_messaging_notices_text"}),
     Article(Always, {"rent_due_day", "late_payment_daily_compensation"})}
    \cup (IF v = "residential_lease"
          THEN {Article(Always, {"residential_payment_grace_days", "rental_payment_methods"})}
          ELSE LET b == IF v = "commercial_lease" THEN "commercial" ELSE "administrative"
               IN  {Article(Always, {"rental_payment_method_text"}),
                    Article(On(b \o "_early_termination_enabled"),
                            {b \o "_early_termination_notice_days",
                             b \o "_early_termination_compensation"}),
                    Article(On(b \o "_guarantee_checks_enabled"),
                            {b \o "_guarantee_checks_count", b \o "_guarantee_bank",
                             b \o "_guarantee_check_numbers", b \o "_guarantee_value_text"}),
                    Article(On(b \o "_legal_fees_enabled"), {b \o "_legal_fees_bearer"})})

(* rentalTemplateDefinition *)
LeaseText(v) ==
    {LeaseArticles, LeaseOwnArticles(v), LeaseTermArticles, LeaseHandoverArticles(v)}
    \cup LeaseConditional(v)

-------------------------------------------------------------------------------
(* derivedClauseVariable, the variables of a lease. *)

LeasePartyText(p) == PartyText("rental_" \o p \o "_party_definition", p, p \o "_tax_card", p \o "_company_phone")

(* lease_duration_text, the amounts in words, the receipt of the deposit   *)
(* and the method of payment, which of a home are rows: of each it prints  *)
(* whatever its columns hold.                                              *)
LeaseMoneyText ==
    Counts("lease_duration_text", On("lease_duration_unit"), "lease_duration_value")
    \cup Adds("lease_duration_text", Positive("lease_duration_value"), {"lease_duration_unit"})
    \cup Prints("deposit_amount_words", Always, {"deposit_amount"})
    \cup Prints("rent_amount_words", Always, {"rent_amount"})
    \cup Prints("rental_deposit_receipt_text", Is("deposit_payment_status", "received"),
                {"deposit_payment_status"})
    \cup Prints("rental_deposit_receipt_text", Is("deposit_payment_status", "due_later"),
                {"deposit_due_date"})
    \cup OrOther("rental_payment_method_text", Always, "rental_payment_method",
                 "rental_payment_method_other", PaymentMethods)
    \cup Prints("rental_payment_methods", Always, {"rental_payment_methods"})
    \cup Adds("rental_payment_methods", On("rental_payment_methods"),
              {"rental_payment_methods.method", "rental_payment_methods.details"})

(* rental_property_jurisdiction_text: the court that was chosen, or else   *)
(* the one of the property's city.                                         *)
LeaseCourtText ==
    OrOther("rental_property_jurisdiction_text", Always, "rental_competent_court",
            "rental_competent_court_other", {"x", "other"})
    \cup Prints("rental_property_jurisdiction_text",
                AnyOf({Off("rental_competent_court"),
                       And(Is("rental_competent_court", "other"), Missing("rental_competent_court_other"))}),
                {"property_governorate", "property_city"})

(* rental_email_notices_text and rental_messaging_notices_text *)
LeaseNoticeText ==
    Contacts("rental_email_notices_text", "rental_email_notices_enabled",
             "rental_notice_use_party_emails", "landlord", "tenant", "_email",
             {"rental_notice_landlord_email", "rental_notice_tenant_email"}, Nothing)
    \cup Contacts("rental_messaging_notices_text", "rental_messaging_enabled",
             "rental_messaging_use_party_phones", "landlord", "tenant", "_phone",
             {"rental_messaging_landlord_phone", "rental_messaging_tenant_phone"},
             {<<Is("rental_messaging_channel", "other"), {"rental_messaging_channel_other"}>>,
              <<Is("rental_messaging_channel", "x"), {"rental_messaging_channel"}>>})

(* rental_meter_details_text and residential_pets_text *)
LeaseMeterText ==
    LET text == "rental_meter_details_text" IN
    Prints(text, Always, {})
    \cup UNION {Adds(text, Is(m \o "_exists", "no"), {m \o "_exists"})
                \cup Adds(text, Is(m \o "_exists", "yes"), {m, m \o "_type", m \o "_reading"})
                : m \in Meters}
    \cup Prints("residential_pets_text", Always, {"residential_pets_allowed"})

(* rental_property_additional_details.  The code asks no box before it     *)
(* prints the other annex, of a home or of a shop; which of the three kinds*)
(* of property it is, it tells by answers it does not trim.                *)
LeasePropertyText ==
    LET text == "rental_property_additional_details"
        home == On("residential_property_type")
        shop == And(Off("residential_property_type"), On("commercial_activity_name"))
        office == AllOf({Off("residential_property_type"), Off("commercial_activity_name"),
                         On("administrative_activity_name")})
    IN  Prints(text, Always, {}) \cup Adds(text, Always, {"building_number"})
        \cup UNION {Adds(text, Is(m \o "_exists", "no"), {m \o "_exists"})
                    \cup Adds(text, Is(m \o "_exists", "yes"), {m, m \o "_type"})
                    \cup Adds(text, And(Is(m \o "_exists", "yes"), AnyOf({Filled(m), Filled(m \o "_type")})),
                              {m \o "_reading"}) : m \in Meters}
        \cup Adds(text, home, {"residential_compound_name", "residential_plot_number",
                  "residential_adjacency_number", "residential_building_name",
                  "residential_includes_garage", "residential_includes_storage",
                  "residential_includes_garden", "residential_includes_roof",
                  "residential_includes_service_room", "residential_includes_parking",
                  "residential_other_annex", "residential_management_rules_applicable"})
        \cup Adds(text, shop, {"commercial_project_name", "commercial_license_number",
                  "commercial_plot_number", "commercial_has_mezzanine", "commercial_frontage_width",
                  "commercial_frontage_count", "commercial_has_storage",
                  "commercial_has_loading_area", "commercial_other_annex"})
        \cup UNION {Adds(text, And(shop, Is(k, "yes")), {k}) : k \in {"commercial_includes_garage",
                  "commercial_front_yard", "commercial_back_yard", "commercial_service_room",
                  "commercial_toilet"}}
        \cup Adds(text, And(shop, Is("commercial_finishing_level", "other")),
                  {"commercial_finishing_other"})
        \cup Adds(text, office, {"administrative_project_name", "administrative_license_number",
                  "administrative_plot_number", "administrative_meeting_room",
                  "administrative_reception", "administrative_storage", "administrative_lift",
                  "administrative_parking_count", "administrative_server_room",
                  "administrative_ac_system", "administrative_data_network",
                  "administrative_delivery_condition"})
        \cup UNION {Adds(text, And(w[1], Is(w[2], "x")), {w[2]})
                    \cup Adds(text, And(w[1], Is(w[2], "other")), {w[2] \o "_other"})
                    : w \in {<<shop, "commercial_site_type">>, <<office, "administrative_site_type">>}}

(* commercial_guarantee_value_text and administrative_guarantee_value_text *)
GuaranteeText(b) ==
    UNION {Prints(b \o "_guarantee_value_text", Is(b \o "_guarantee_value_mode", m),
                  {b \o "_guarantee_" \o m \o "_amount"}) : m \in {"each", "total"}}

LeaseRules ==
    LeasePartyText("landlord") \cup LeasePartyText("tenant") \cup LeaseMoneyText
    \cup LeaseCourtText \cup LeaseNoticeText \cup LeaseMeterText \cup LeasePropertyText
    \cup GuaranteeText("commercial") \cup GuaranteeText("administrative")
===============================================================================
