------------------------------- MODULE ServerText -------------------------------
(***************************************************************************)
(* The texts the server gives to the variables of an article when it locks *)
(* or issues a contract (derivedClauseValue of                             *)
(* app/Services/TemplateEngineService.php): a second engine beside the one *)
(* that previews the contract.  A variable that has neither a text here nor*)
(* an answer of its own is missing, and a contract with a missing variable *)
(* is not locked (lockSnapshot of ContractController, FinalizeExpired-     *)
(* Contracts).                                                             *)
(***************************************************************************)
EXTENDS RentalTemplate, SaleTemplate, FreelanceTemplate

(* partyDefinition: a party is defined when everything the law asks of it  *)
(* is known.  Some services also require what the representative's         *)
(* authority rests on.                                                     *)
ServerPartyText(var, p, tax, phone, authorityRequired) ==
    LET k(name) == p \o "_" \o name
        company == {k("company_name"), k("company_legal_form"), k("commercial_register"), tax,
                    k("legal_representative"), k("representative_capacity"), k("company_address")}
        person  == {k("name"), k("nationality"), k("identity_document_type"), k("national_id"),
                    k("address"), k("phone")}
        poa     == {k("power_of_attorney_number"), k("power_of_attorney_year"),
                    k("power_of_attorney_office")}
        register == Is(k("authority_basis"), "commercial_register")
        attorney == Is(k("authority_basis"), "power_of_attorney")
        firm  == And(IsFirm(p, TRUE), IF authorityRequired
                                      THEN AnyOf({register, And(attorney, AllFilled(poa))}) ELSE Always)
        known == And(firm, AllFilled(company))
        named == And(IsFirm(p, FALSE), AllFilled(person))
    IN  Prints(var, firm, company)
        \cup Adds(var, And(known, register), {k("authority_basis")})
        \cup AddsAll(var, And(known, attorney), poa)
        \cup Adds(var, known, {phone, k("company_email")})
        \cup Prints(var, IsFirm(p, FALSE), person)
        \cup Adds(var, named, {k("id_issuer"), k("id_issue_date"), k("email")})

(* The parties of every template. *)
ServerParties ==
    UNION {ServerPartyText(s \o "_" \o p \o "_party_definition", s \o "_" \o p,
                           s \o "_" \o p \o "_tax_number", s \o "_" \o p \o "_company_phone",
                           s # "website")
           : s \in {"social", "visual", "website"}, p \in {"client", "provider"}}
    \cup UNION {ServerPartyText("sale_" \o p \o "_party_definition", p, p \o "_tax_card",
                                p \o "_phone", FALSE) : p \in {"seller", "buyer"}}
    \cup UNION {ServerPartyText("rental_" \o p \o "_party_definition", p, p \o "_tax_card",
                                p \o "_company_phone", FALSE) : p \in {"landlord", "tenant"}}

(* The amounts in words and what remains of the price of a sale. *)
ServerAmounts ==
    UNION {Prints(w[1], Always, {w[2]}) :
           w \in {<<"social_fee_words", "social_fee">>,
                  <<"visual_contract_value_words", "visual_contract_value">>,
                  <<"website_total_price_words", "website_total_price">>,
                  <<"sale_total_price_words", "sale_total_price">>,
                  <<"deposit_amount_words", "deposit_amount">>,
                  <<"rent_amount_words", "rent_amount">>}}
    \cup Counts("sale_remaining_amount", Always, "sale_total_price")
    \cup Adds("sale_remaining_amount", Positive("sale_total_price"), {"sale_down_payment"})

(* rental_property_additional_details: the meters are printed whatever was *)
(* answered of their existence.                                            *)
ServerPropertyText ==
    LET text == "rental_property_additional_details"
        home == On("residential_property_type")
        shop == And(Off("residential_property_type"), On("commercial_activity_name"))
        office == AllOf({Off("residential_property_type"), Off("commercial_activity_name"),
                         On("administrative_activity_name")})
    IN  Prints(text, Always, {})
        \cup Adds(text, Always, {"building_number"} \cup Meters \cup {m \o "_type" : m \in Meters})
        \cup Adds(text, home, {"residential_compound_name", "residential_plot_number",
                  "residential_adjacency_number", "residential_building_name",
                  "residential_includes_garage", "residential_includes_storage",
                  "residential_includes_garden", "residential_includes_roof",
                  "residential_includes_service_room", "residential_includes_parking",
                  "residential_other_annex"})
        \cup Adds(text, shop, {"commercial_project_name", "commercial_license_number",
                  "commercial_plot_number", "commercial_has_mezzanine", "commercial_frontage_width",
                  "commercial_frontage_count", "commercial_has_storage",
                  "commercial_has_loading_area"})
        \cup Adds(text, And(shop, Is("commercial_finishing_level", "other")),
                  {"commercial_finishing_other"})
        \cup Adds(text, office, {"administrative_project_name", "administrative_license_number",
                  "administrative_plot_number", "administrative_meeting_room",
                  "administrative_reception", "administrative_storage", "administrative_lift",
                  "administrative_parking_count", "administrative_server_room",
                  "administrative_ac_system", "administrative_data_network",
                  "administrative_delivery_condition"})
        \cup UNION {Adds(text, And(w[1], Is(w[2], "x")), {w[2]})
                    \cup Adds(text, And(w[1], Is(w[2], "other")), {w[2] \o "_other"})
                    : w \in {<<shop, "commercial_site_type">>, <<office, "administrative_site_type">>}}

(* sale_property_additional_details *)
ServerUnitText ==
    LET text == "sale_property_additional_details"
        meters == {"sale_" \o u \o "_meter" : u \in Utilities}
    IN  Prints(text, Always, {})
        \cup Adds(text, Always, {"sale_compound_name", "sale_plot_number", "sale_adjacency_number",
                  "sale_building_number", "sale_building_name"}
                  \cup UNION {{m, m \o "_type", m \o "_reading"} : m \in meters})

(* website_legal_fees_text, and the texts that are worded as in the        *)
(* preview: the proof of ownership, the basis of a disposition by heirs and*)
(* the value of the guarantee.                                             *)
ServerOtherText ==
    LET fees == "website_legal_fees" IN
    Prints(fees \o "_text", Off(fees \o "_enabled"), {})
    \cup OrOther(fees \o "_text", On(fees \o "_enabled"), fees \o "_payer", fees \o "_other",
                 {"x", "other"})
    \cup SaleTitleText \cup GuaranteeText("commercial") \cup GuaranteeText("administrative")

ServerRules ==
    ServerParties \cup ServerAmounts \cup ServerPropertyText \cup ServerUnitText \cup ServerOtherText
===============================================================================
