--------------------------- MODULE FreelanceTemplate ---------------------------
(***************************************************************************)
(* The template of the freelance services                                  *)
(* (templates/freelancer/definition.ts): a visual identity, a website and  *)
(* the management of social media accounts.  Their keys start with the name*)
(* of the service, and they share the parties, the communications and the  *)
(* court.  The variables that derivedClauseVariable (resolver.ts) gives a  *)
(* text are at the end.                                                    *)
(***************************************************************************)
EXTENDS LegalTemplate, TLC

Freelance == {"visual_identity_design", "website_development", "social_media_management"}
(* partyFields *)
PartyFields(s, p) ==
    LET q      == s \o "_" \o p
        person == Is(q \o "_party_type", "individual")
        firm   == Is(q \o "_party_type", "company")
        emails == AllOf({On(s \o "_email_notices_enabled"), On(s \o "_notice_use_party_emails")})
    IN  Must(Radio({"individual", "company"}), Always, {q \o "_party_type"})
        \cup Must(Text, person, {q \o "_name", q \o "_nationality", q \o "_national_id",
                  q \o "_address", q \o "_phone"})
        \cup Must(Radio({"national_id", "passport"}), person, {q \o "_identity_document_type"})
        \cup May(Text, person, {q \o "_id_issuer"}) \cup May(Date, person, {q \o "_id_issue_date"})
        \cup MayWhen(Text, person, emails, {q \o "_email"})
        \cup Must(Text, firm, {q \o "_company_name", q \o "_company_legal_form",
                  q \o "_commercial_register", q \o "_tax_number", q \o "_legal_representative",
                  q \o "_representative_capacity", q \o "_company_address"})
        \cup MayWhen(Text, firm, emails, {q \o "_company_email"})

(* What the party steps of each service make of them: a company has a      *)
(* telephone and names what its representative's authority rests on.       *)
CompanyPhone(s, q) ==
    MayWhen(Text, Is(q \o "_party_type", "company"),
            AllOf({On(s \o "_messaging_apps_enabled"), On(s \o "_messaging_use_party_phones")}),
            {q \o "_company_phone"})
Authority(q) ==
    LET poa == Is(q \o "_authority_basis", "power_of_attorney") IN
    Must(Choice({"commercial_register", "power_of_attorney"}), Is(q \o "_party_type", "company"),
         {q \o "_authority_basis"})
    \cup Must(Text, poa, {q \o "_power_of_attorney_number", q \o "_power_of_attorney_office"})
    \cup Must(Counted, poa, {q \o "_power_of_attorney_year"})

(* visualPartySteps, websitePartySteps (the client of a website is not     *)
(* asked for its representative's authority) and socialPartySteps          *)
VisualParties ==
    UNION {PartyFields("visual", p) \cup CompanyPhone("visual", "visual_" \o p)
           \cup Authority("visual_" \o p) : p \in {"client", "provider"}}
WebsiteParties ==
    UNION {PartyFields("website", p) \cup CompanyPhone("website", "website_" \o p)
           : p \in {"client", "provider"}} \cup Authority("website_provider")
SocialParties ==
    UNION {PartyFields("social", p) \cup CompanyPhone("social", "social_" \o p)
           \cup Authority("social_" \o p) : p \in {"client", "provider"}}

(* The communications, the witnesses and the court of every service. *)
ServiceCommunications(s) ==
    LET mail == On(s \o "_email_notices_enabled")
        chat == On(s \o "_messaging_apps_enabled")
        witness == {s \o "_witness_1", s \o "_witness_2"}
    IN  May(Flag, Always, {s \o "_email_notices_enabled", s \o "_messaging_apps_enabled"})
        \cup May(Flag, mail, {s \o "_notice_use_party_emails"})
        \cup Must(Text, And(mail, Off(s \o "_notice_use_party_emails")),
                  {s \o "_notice_client_email", s \o "_notice_provider_email"})
        \cup May(Flag, chat, {s \o "_messaging_use_party_phones"})
        \cup Must(Text, And(chat, Off(s \o "_messaging_use_party_phones")),
                  {s \o "_messaging_client_number", s \o "_messaging_provider_number"})
        \cup (IF s # "social" THEN Must(Text, chat, {s \o "_messaging_apps"}) ELSE
              Must(Options({"other"}), chat, {"social_messaging_apps"})
              \cup Must(Text, And(chat, Is("social_messaging_apps", "other")),
                        {"social_messaging_apps_other"}))
        \cup May(Flag, Always, {w \o "_enabled" : w \in witness})
        \cup UNION {Must(Text, On(w \o "_enabled"), {w \o "_name", w \o "_national_id"}) : w \in witness}
        \cup Must(Options({"other"}), Always, {s \o "_competent_court"})
        \cup Must(Text, Is(s \o "_competent_court", "other"), {s \o "_competent_court_other"})

(* A payment in full or in instalments, of a list whose amounts no minimum *)
(* is checked of.                                                          *)
ServicePayment(s, shown, schedule) ==
    LET mode == s \o "_payment_mode"
        parts == And(shown, Is(mode, "installments"))
    IN  Must(Radio({"single", "installments"}), shown, {mode})
        \cup Must(Text, And(shown, Is(mode, "single")), {s \o "_single_payment_due"})
        \cup Must(Rows, parts, {schedule})
        \cup Must(Text, And(parts, On(schedule)), {schedule \o ".payment", schedule \o ".due"})
        \cup Must(Number, And(parts, On(schedule)), {schedule \o ".amount"})

(* The source files a service hands over, and at what price. *)
SourceFiles(s) ==
    LET yes == Is(s \o "_source_files_included", "yes") IN
    Must(Radio({"yes", "no"}), Always, {s \o "_source_files_included"})
    \cup Must(Text, yes, {s \o "_source_file_types"})
    \cup Must(Radio({"included", "additional"}), yes, {s \o "_source_files_price_mode"})
    \cup Must(Counted, And(yes, Is(s \o "_source_files_price_mode", "additional")),
              {s \o "_source_files_additional_fee"})

(* visualSteps *)
VisualDetails ==
    LET services == "visual_main_scope_services" IN
    Must(Text, Always, {"visual_project_name", "visual_project_purpose", "visual_output_formats",
         "visual_payment_method"})
    \cup May(Text, Always, {"visual_project_brief"})
    \cup Must(Rows, Always, {services})
    \cup Must(Options({"other"}), On(services), {services \o ".service"})
    \cup Must(Text, And(On(services), Is(services \o ".service", "other")), {services \o ".details"})
    \cup SourceFiles("visual")
    \cup Must(Counted, Always, {"visual_execution_duration_value", "visual_contract_value",
              "visual_breach_cure_days", "visual_nonpayment_termination_days",
              "visual_client_stoppage_days", "visual_post_notice_termination_days"})
    \cup Must(Options({}), Always, {"visual_execution_duration_unit"})
    \cup Must(Radio({"source_rule", "contract_date", "specific_date"}), Always,
              {"visual_execution_start_rule"})
    \cup Must(Date, Is("visual_execution_start_rule", "specific_date"), {"visual_execution_start_date"})
    \cup ServicePayment("visual", Always, "visual_main_payment_schedule")
    \cup Must(Number, Always, {"visual_revision_rounds"})
    \cup Must(Radio({"full_transfer", "specific_transfer", "license_only"}), Always,
              {"visual_ip_rights_mode"})
    \cup Must(Text, Is("visual_ip_rights_mode", "specific_transfer"), {"visual_ip_specific_rights"})
    \cup Must(Text, Is("visual_ip_rights_mode", "license_only"), {"visual_ip_license_scope"})
    \cup Must(Radio({"yes", "no"}), Always, {"visual_portfolio_permission"})
    \cup ServiceCommunications("visual")

(* websiteSteps *)
WebsiteDetails ==
    LET external == "website_external_services"
        listed   == AllOf({On(external \o "_enabled"), On(external)})
        platform == On("website_project_platform_enabled")
        fees     == On("website_legal_fees_enabled")
    IN  Must(Text, Always, {"website_project_name", "website_payment_method"})
        \cup Must(Options({"other"}), Always, {"website_project_type"})
        \cup Must(Text, Is("website_project_type", "other"), {"website_project_type_other"})
        \cup May(Text, Always, {"website_contact_email", "website_project_manager",
                 "website_approval_person", "website_billing_contact"})
        \cup Must(Counted, Always, {"website_execution_duration_value", "website_response_period_days",
                  "website_review_period_days", "website_total_price", "website_payment_grace_days",
                  "website_restart_threshold_days", "website_correction_attempts",
                  "website_warranty_duration_value", "website_confidentiality_years",
                  "website_contact_change_notice_days", "website_breach_cure_days",
                  "website_nonpayment_termination_days", "website_client_stoppage_days",
                  "website_force_majeure_notice_days", "website_force_majeure_termination_days",
                  "website_hardship_duration_days", "website_hardship_negotiation_days",
                  "website_non_solicitation_months"})
        \cup Must(Options({}), Always, {"website_execution_duration_unit", "website_duration_basis",
                  "website_warranty_duration_unit"})
        \cup Must(Radio({"agreed_or_requirements_later", "contract_date", "specific_date"}), Always,
                  {"website_execution_start_rule"})
        \cup Must(Date, Is("website_execution_start_rule", "specific_date"),
                  {"website_execution_start_date"})
        \cup ServicePayment("website", Always, "website_payment_schedule")
        \cup May(Flag, Always, {"website_restart_fee_enabled", external \o "_enabled",
                 "website_project_platform_enabled", "website_legal_fees_enabled"})
        \cup Must(Number, On("website_restart_fee_enabled"), {"website_restart_fee_amount"})
        \cup Must(Radio({"yes", "no"}), Always, {"website_portfolio_permission"})
        \cup Must(Rows, On(external \o "_enabled"), {external})
        \cup Must(Text, listed, {external \o ".service", external \o ".provider",
                  external \o ".duration"})
        \cup Must(Number, listed, {external \o ".amount"})
        \cup Must(Options({}), listed, {external \o ".payer"})
        \cup Must(Text, platform, {"website_project_platform_name", "website_project_platform_link"})
        \cup Must(Options({"other"}), fees, {"website_legal_fees_payer"})
        \cup Must(Text, And(fees, Is("website_legal_fees_payer", "other")), {"website_legal_fees_other"})
        \cup ServiceCommunications("website")

(* socialSteps: the activity, the accounts and who is responsible, *)
People == {"project_manager", "approval_person", "billing_contact"}
SocialActivity ==
    LET accounts == "social_accounts" IN
    Must(Text, Always, {"social_project_name", "social_business_nature", "social_target_market",
         "social_target_audience"})
    \cup May(Text, Always, {"social_brand_name", "social_project_brief"})
    \cup Must(Rows, Always, {accounts})
    \cup Must(Options({"other"}), On(accounts), {accounts \o ".platform"})
    \cup Must(Text, And(On(accounts), Is(accounts \o ".platform", "other")),
              {accounts \o ".platform_other"})
    \cup Must(Text, On(accounts), {accounts \o ".account"})
    \cup May(Flag, Always, {"social_" \o p \o "_custom" : p \in People})
    \cup UNION {Must(Text, On("social_" \o p \o "_custom"), {"social_" \o p}) : p \in People}

(* the services, the content they produce (socialContentServicesCondition), *)
ContentServices == {"social_service_" \o x : x \in
                      {"content_production", "copywriting", "design", "photography", "publishing"}}
SocialServices == ContentServices \cup {"social_service_" \o x : x \in
                      {"account_management", "strategy", "paid_ads", "reports",
                       "community_management", "coordination", "influencers"}}
SocialScope ==
    LET content == AnyOf({On(k) : k \in ContentServices})
        plan == "social_content_plan"
        planned == And(content, On(plan))
    IN  May(Flag, Always, SocialServices \cup {"social_service_other_enabled"})
        \cup Must(Text, On("social_service_other_enabled"), {"social_service_other"})
        \cup Must(Rows, content, {plan})
        \cup Must(Options({"other"}), planned, {plan \o ".content_type", plan \o ".frequency"})
        \cup Must(Number, planned, {plan \o ".quantity"})
        \cup UNION {Must(Text, And(planned, Is(plan \o c, "other")), {plan \o c \o "_other"})
                    : c \in {".content_type", ".frequency"}}
        \cup May(Text, content, {"social_content_scope_notes"})

(* the advertisements, the reports and the indicators of performance, *)
SocialAds ==
    LET ads == On("social_service_paid_ads")
        fixed == And(ads, Is("social_ad_budget_mode", "fixed"))
        reports == On("social_service_reports")
        kpis == AllOf({On("social_kpi_enabled"), On("social_kpis")})
    IN  Must(Radio({"fixed", "per_campaign"}), ads, {"social_ad_budget_mode"})
        \cup Must(Counted, fixed, {"social_ad_budget_amount"})
        \cup Must(Options({"other"}), fixed, {"social_ad_budget_period"})
        \cup Must(Text, And(fixed, Is("social_ad_budget_period", "other")),
                  {"social_ad_budget_period_other"})
        \cup Must(Options({}), ads, {"social_ad_budget_payer", "social_ad_budget_included_in_fee",
                  "social_ad_payment_management"})
        \cup Must(Options({"other"}), reports, {"social_report_frequency"})
        \cup Must(Text, And(reports, Is("social_report_frequency", "other")),
                  {"social_report_frequency_other"})
        \cup May(Flag, Always, {"social_kpi_enabled"})
        \cup Must(Options({}), On("social_kpi_enabled"), {"social_kpi_effect"})
        \cup Must(Rows, On("social_kpi_enabled"), {"social_kpis"})
        \cup Must(Text, kpis, {"social_kpis.indicator", "social_kpis.target"})

(* and the term, the fee, the reviews and the penalties of a delay. *)
SocialTerms ==
    LET periodic == Is("social_fee_nature", "periodic")
        penalty  == "social_delay_penalty"
    IN  Must(Date, Always, {"social_service_start_date"})
        \cup Must(Counted, Always, {"social_contract_duration_value", "social_fee",
                  "social_payment_grace_days", "social_content_review_days",
                  penalty \o "_cap_percentage", penalty \o "_cure_days", "social_breach_cure_days",
                  "social_nonpayment_termination_days", "social_client_stoppage_days",
                  "social_client_post_notice_termination_days", "social_force_majeure_notice_days"})
        \cup Must(Options({}), Always, {"social_contract_duration_unit"})
        \cup Must(Choice({"total", "periodic"}), Always, {"social_fee_nature"})
        \cup Must(Options({"other"}), periodic, {"social_fee_periodicity"})
        \cup Must(Text, And(periodic, Is("social_fee_periodicity", "other")),
                  {"social_fee_periodicity_other"})
        \cup Must(Text, periodic, {"social_periodic_due"})
        \cup ServicePayment("social", Is("social_fee_nature", "total"), "social_payment_schedule")
        \cup Must(Options({"other"}), Always, {"social_payment_method"})
        \cup Must(Text, Is("social_payment_method", "other"), {"social_payment_method_other"})
        \cup May(Flag, Always, {"social_legal_fees_enabled"})
        \cup May(Counted, Always, {"social_review_rounds"})
        \cup SourceFiles("social")
        \cup Must(Radio({"yes", "no"}), Always, {"social_portfolio_permission",
                  "social_ai_external_data_permission"})
        \cup Must(Radio({"amount", "percentage"}), Always, {penalty \o "_mode"})
        \cup UNION {Must(Counted, Is(penalty \o "_mode", m), {penalty \o "_" \o m})
                    : m \in {"amount", "percentage"}}
        \cup ServiceCommunications("social")

(* variants *)
ServiceFields(v) ==
    Must(Date, Always, {"contract_date"})
    \cup CASE v = "visual_identity_design"  -> VisualParties \cup VisualDetails
           [] v = "website_development"     -> WebsiteParties \cup WebsiteDetails
           [] v = "social_media_management" ->
                SocialParties \cup SocialActivity \cup SocialScope \cup SocialAds \cup SocialTerms

(* The defaults of each variant. *)
PartyDefaults(s) ==
    LET parties == {s \o "_client", s \o "_provider"} IN
    [k \in {q \o "_party_type" : q \in parties} |-> "individual"]
    @@ [k \in {q \o "_nationality" : q \in parties} |-> "x"]
    @@ [k \in {q \o "_identity_document_type" : q \in parties} |-> "national_id"]
    @@ [k \in {s \o "_notice_use_party_emails", s \o "_messaging_use_party_phones"} |-> "true"]
    @@ ((s \o "_payment_mode") :> "single")
Numbers(s, names) == [k \in {s \o "_" \o n : n \in names} |-> "9"]
VisualDefaults ==
    PartyDefaults("visual")
    @@ Numbers("visual", {"breach_cure_days", "nonpayment_termination_days",
               "client_stoppage_days", "revision_rounds", "post_notice_termination_days"})
    @@ ("visual_source_files_included" :> "no")
    @@ ("visual_execution_start_rule" :> "source_rule")
    @@ ("visual_portfolio_permission" :> "yes")
WebsiteDefaults ==
    PartyDefaults("website")
    @@ Numbers("website", {"breach_cure_days", "nonpayment_termination_days",
               "client_stoppage_days", "response_period_days", "review_period_days",
               "payment_grace_days", "restart_threshold_days", "correction_attempts",
               "confidentiality_years", "contact_change_notice_days",
               "force_majeure_notice_days", "force_majeure_termination_days",
               "hardship_duration_days", "hardship_negotiation_days", "contract_copies",
               "non_solicitation_months"})
    @@ ("website_execution_start_rule" :> "agreed_or_requirements_later")
    @@ ("website_duration_basis" :> "x") @@ ("website_portfolio_permission" :> "no")
SocialDefaults ==
    PartyDefaults("social")
    @@ Numbers("social", {"breach_cure_days", "nonpayment_termination_days",
               "client_stoppage_days", "payment_grace_days", "content_review_days",
               "delay_penalty_cure_days", "client_post_notice_termination_days",
               "force_majeure_notice_days", "contract_copies"})
    @@ ("social_service_account_management" :> "true")
    @@ ("social_ad_budget_mode" :> "per_campaign")
    @@ [k \in {"social_ad_budget_payer", "social_ad_budget_included_in_fee",
               "social_ad_payment_management"} |-> "x"]
    @@ ("social_fee_nature" :> "periodic") @@ ("social_fee_periodicity" :> "x")
    @@ ("social_payment_method" :> "x") @@ ("social_messaging_apps" :> "x")
    @@ ("social_delay_penalty_mode" :> "amount")
    @@ [k \in {"social_source_files_included", "social_portfolio_permission",
               "social_ai_external_data_permission"} |-> "no"]
ServiceDefaults(v) ==
    CASE v = "visual_identity_design"  -> VisualDefaults
      [] v = "website_development"     -> WebsiteDefaults
      [] v = "social_media_management" -> SocialDefaults

(* What validateDynamicDefinition asks of the answers together: one service *)
(* of a social media contract at least.                                    *)
ServiceChosen(v) ==
    IF v = "social_media_management"
    THEN AnyOf({On(k) : k \in SocialServices \cup {"social_service_other_enabled"}})
    ELSE Always

(* The variables of the articles (reviewedIdentityMainClauseOverrides,     *)
(* reviewedWebsiteMainClause and reviewedSocialMainClause), in the order in *)
(* which the code writes them.                                             *)
Names(s, xs) == Article(Always, {s \o "_" \o x : x \in xs})
Dated == Article(Always, {"contract_date"})
VisualArticles ==
    {Dated, Names("visual",
        {"client_party_definition", "provider_party_definition", "project_definition",
         "project_name", "project_purpose", "scope_services_text", "source_files_text",
         "execution_duration_text", "execution_start_text", "contract_value",
         "contract_value_words", "payment_schedule_text", "payment_method", "revision_rounds",
         "ip_rights_text", "portfolio_permission_text", "email_notices_text",
         "messaging_notices_text", "competent_court_text"})}
VisualClosingArticles ==
    {Names("visual",
        {"breach_cure_days", "nonpayment_termination_days", "client_stoppage_days",
         "post_notice_termination_days"})}
WebsiteArticles ==
    {Dated, Names("website",
        {"client_party_definition", "provider_party_definition", "project_definition",
         "project_name", "project_type_text", "response_period_days", "review_period_days",
         "approval_authority_text", "execution_duration_text", "execution_start_text",
         "duration_basis_text", "warranty_duration_text"})}
WebsitePriceArticles ==
    {Names("website",
        {"total_price", "total_price_words", "payment_schedule_text", "payment_method",
         "payment_grace_days", "restart_threshold_days", "restart_fee_text", "correction_attempts",
         "portfolio_permission_text", "external_services_text", "confidentiality_duration_text"})}
WebsiteClosingArticles ==
    {Names("website",
        {"breach_cure_days", "nonpayment_termination_days", "client_stoppage_days",
         "force_majeure_notice_days", "force_majeure_termination_days", "hardship_duration_days",
         "hardship_negotiation_days", "email_notices_text", "messaging_notices_text",
         "project_platform_text", "contact_change_notice_days", "competent_court_text",
         "contract_copies_text", "non_solicitation_duration_text", "legal_fees_text"})}
SocialArticles ==
    {Dated, Names("social",
        {"client_party_definition", "provider_party_definition", "activity_definition",
         "accounts_text", "responsible_people_text", "scope_services_text",
         "excluded_services_text", "ads_terms_text", "content_plan_text", "reports_kpi_text",
         "contract_duration_text", "service_start_text", "fee_nature_text", "fee", "fee_words",
         "payment_schedule_text", "payment_method_text", "payment_grace_days",
         "source_files_text"})}
SocialClosingArticles ==
    {Names("social",
        {"content_review_days", "review_rounds_text", "portfolio_permission_text",
         "ai_permission_text", "breach_cure_days", "nonpayment_termination_days",
         "client_stoppage_days", "client_post_notice_termination_days",
         "force_majeure_notice_days", "email_notices_text", "messaging_notices_text",
         "competent_court_text", "contract_copies_text"})}

(* socialDelayPenaltyAmountClause, socialDelayPenaltyPercentageClause and  *)
(* social_media_legal_fees_clause, the conditional articles.               *)
SocialConditional ==
    LET penalty == "social_delay_penalty" IN
    {Article(Is(penalty \o "_mode", m), {penalty \o x : x \in
         {"_mode", "_" \o m, "_cap_percentage", "_cure_days"}}) : m \in {"amount", "percentage"}}
    \cup {Article(On("social_legal_fees_enabled"), {"social_legal_fees_text"})}

(* freelancerTemplateDefinition *)
ServiceText(v) ==
    CASE v = "visual_identity_design"  -> VisualArticles \cup VisualClosingArticles
      [] v = "website_development"     ->
            WebsiteArticles \cup WebsitePriceArticles \cup WebsiteClosingArticles
      [] v = "social_media_management" ->
            SocialArticles \cup SocialClosingArticles \cup SocialConditional

-------------------------------------------------------------------------------
(* derivedClauseVariable, the variables of a service. *)

(* The definition of a party, and what a company's representative acts on. *)
ServicePartyText(s, p) ==
    LET q == s \o "_" \o p
        text == q \o "_party_definition"
        firm == AllOf({Is(q \o "_party_type", "company"), Filled(q \o "_company_name")})
    IN  PartyText(text, q, q \o "_tax_number", q \o "_company_phone")
        \cup IF s = "website" /\ p = "client" THEN {} ELSE
             Adds(text, And(firm, Is(q \o "_authority_basis", "commercial_register")),
                  {q \o "_authority_basis"})
             \cup AddsAll(text, And(firm, Is(q \o "_authority_basis", "power_of_attorney")),
                  {q \o "_power_of_attorney_number", q \o "_power_of_attorney_year",
                   q \o "_power_of_attorney_office"})

(* The notices, of which a service that has none says so, and the court. *)
ServiceNoticeText(s) ==
    LET mail == s \o "_email_notices_text"
        chat == s \o "_messaging_notices_text"
        apps == s \o "_messaging_apps"
        court == s \o "_competent_court"
    IN  Prints(mail, Off(s \o "_email_notices_enabled"), {})
        \cup Contacts(mail, s \o "_email_notices_enabled", s \o "_notice_use_party_emails",
                 s \o "_client", s \o "_provider", "_email",
                 {s \o "_notice_client_email", s \o "_notice_provider_email"}, Nothing)
        \cup Prints(chat, Off(apps \o "_enabled"), {})
        \cup Contacts(chat, apps \o "_enabled", s \o "_messaging_use_party_phones",
                 s \o "_client", s \o "_provider", "_phone",
                 {s \o "_messaging_client_number", s \o "_messaging_provider_number"},
                 IF s # "social" THEN {<<Filled(apps), {apps}>>}
                 ELSE {<<Is(apps, "x"), {apps}>>, <<Is(apps, "other"), {apps \o "_other"}>>})
        \cup OrOther(court \o "_text", Always, court, court \o "_other", {"x", "other"})

(* The schedule of the payments has no text when one of them has no amount; *)
(* the name of a payment may be missing.                                    *)
PaymentText(s, when, schedule) ==
    LET text == s \o "_payment_schedule_text"
        mode == s \o "_payment_mode"
        listed == AllOf({when, Is(mode, "installments"), On(schedule),
                         Positive(schedule \o ".amount"), Filled(schedule \o ".due")})
    IN  Prints(text, And(when, Is(mode, "single")), {s \o "_single_payment_due"})
        \cup Prints(text, listed, {schedule, schedule \o ".amount", schedule \o ".due"})
        \cup Adds(text, listed, {schedule \o ".payment"})

(* visual_source_files_text and social_source_files_text: `formats` are the *)
(* keys the text needs in every case.                                       *)
SourceFilesText(s, formats) ==
    LET text == s \o "_source_files_text"
        given == s \o "_source_files_included"
        price == s \o "_source_files_price_mode"
    IN  Prints(text, Is(given, "no"), formats \cup {given})
        \cup Prints(text, And(Is(given, "yes"), Is(price, "included")),
                    formats \cup {s \o "_source_file_types"})
        \cup Prints(text, AllOf({Is(given, "yes"), Is(price, "additional"),
                                Positive(s \o "_source_files_additional_fee")}),
                    formats \cup {s \o "_source_file_types", s \o "_source_files_additional_fee"})

Permission(key) == UNION {Prints(key \o "_text", Is(key, x), {key}) : x \in {"yes", "no"}}

(* Who acts for the client when nobody was named: its legal representative, *)
(* its name or its company's, the first that has an answer - whether or not *)
(* the client still is a company.                                           *)
ActingForClient(var, when, client) ==
    LET rep == client \o "_legal_representative"
        name == client \o "_name"
    IN  Adds(var, when, {rep}) \cup Adds(var, And(when, Missing(rep)), {name})
        \cup Adds(var, AllOf({when, Missing(rep), Missing(name)}), {client \o "_company_name"})

(* The parties, the project, the scope, the term, the rights and the        *)
(* notices of a visual identity.                                            *)
VisualText ==
    LET services == "visual_main_scope_services"
        scope == "visual_scope_services_text"
        start == "visual_execution_start"
        rights == "visual_ip_rights"
    IN  ServicePartyText("visual", "client") \cup ServicePartyText("visual", "provider")
        \cup Prints("visual_contract_value_words", Always, {"visual_contract_value"})
        \cup Prints("visual_project_definition", Always, {"visual_project_name", "visual_project_purpose"})
        \cup Adds("visual_project_definition", AllFilled({"visual_project_name", "visual_project_purpose"}),
                  {"visual_project_brief"})
        \cup OrOther(scope, On(services), services \o ".service", services \o ".details", {"x", "other"})
        \cup SourceFilesText("visual", {"visual_output_formats"})
        \cup Prints("visual_execution_duration_text", Always,
                    {"visual_execution_duration_value", "visual_execution_duration_unit"})
        \cup UNION {Prints(start \o "_text", Is(start \o "_rule", x), {start \o "_rule"})
                    : x \in {"contract_date", "source_rule"}}
        \cup Prints(start \o "_text", Is(start \o "_rule", "specific_date"), {start \o "_date"})
        \cup PaymentText("visual", Always, "visual_main_payment_schedule")
        \cup Prints(rights \o "_text", Is(rights \o "_mode", "full_transfer"), {rights \o "_mode"})
        \cup Prints(rights \o "_text", Is(rights \o "_mode", "specific_transfer"),
                    {"visual_ip_specific_rights"})
        \cup Prints(rights \o "_text", Is(rights \o "_mode", "license_only"), {"visual_ip_license_scope"})
        \cup Permission("visual_portfolio_permission")
        \cup ServiceNoticeText("visual")

(* The parties and the project of a website and who approves its work, *)
WebsiteProjectText ==
    LET text == "website_project_definition"
        type == "website_project_type"
        named == And(Filled("website_project_name"),
                     AnyOf({Is(type, "x"), AllOf({Is(type, "other"), Filled(type \o "_other")})}))
        approval == "website_approval_person"
    IN  ServicePartyText("website", "client") \cup ServicePartyText("website", "provider")
        \cup Prints("website_total_price_words", Always, {"website_total_price"})
        \cup Prints(text, And(named, Is(type, "x")), {"website_project_name", type})
        \cup Prints(text, And(named, Is(type, "other")), {"website_project_name", type \o "_other"})
        \cup Adds(text, named, {"website_contact_email", "website_project_manager", approval,
                  "website_billing_contact"})
        \cup ActingForClient(text, And(named, Missing(approval)), "website_client")
        \cup Prints("website_approval_authority_text", Always, {})
        \cup Adds("website_approval_authority_text", Always, {approval})
        \cup ActingForClient("website_approval_authority_text", Missing(approval), "website_client")

(* its durations and its kind, *)
WebsiteTermText ==
    LET start == "website_execution_start"
        type == "website_project_type"
    IN  UNION {Counts(n[1], Always, n[2]) :
               n \in {<<"website_contract_copies_text", "website_contract_copies">>,
                      <<"website_confidentiality_duration_text", "website_confidentiality_years">>,
                      <<"website_non_solicitation_duration_text", "website_non_solicitation_months">>}}
        \cup UNION {Prints(d \o "_text", Positive(d \o "_value"), {d \o "_value", d \o "_unit"})
                    : d \in {"website_execution_duration", "website_warranty_duration"}}
        \cup UNION {Prints(start \o "_text", Is(start \o "_rule", x), {start \o "_rule"})
                    : x \in {"contract_date", "agreed_or_requirements_later"}}
        \cup Prints(start \o "_text", Is(start \o "_rule", "specific_date"), {start \o "_date"})
        \cup Prints("website_duration_basis_text", Always, {"website_duration_basis"})
        \cup OrOther(type \o "_text", Always, type, type \o "_other", {"x", "other"})

(* and its payment, the services of others, the notices, the platform and  *)
(* the fees of the law.                                                    *)
WebsiteServicesText ==
    LET external == "website_external_services"
        platform == "website_project_platform"
        fees == "website_legal_fees"
        restart == "website_restart_fee"
    IN  PaymentText("website", Always, "website_payment_schedule")
        \cup Prints(restart \o "_text", Off(restart \o "_enabled"), {})
        \cup Prints(restart \o "_text", On(restart \o "_enabled"), {restart \o "_amount"})
        \cup Permission("website_portfolio_permission")
        \cup ServiceNoticeText("website")
        \cup Prints(external \o "_text", Off(external \o "_enabled"), {})
        \cup Prints(external \o "_text",
                    AllOf({On(external \o "_enabled"), On(external), Positive(external \o ".amount")}),
                    {external \o c : c \in {".service", ".provider", ".duration", ".amount", ".payer"}})
        \cup Prints(platform \o "_text", Off(platform \o "_enabled"), {})
        \cup Prints(platform \o "_text", On(platform \o "_enabled"),
                    {platform \o "_name", platform \o "_link"})
        \cup Prints(fees \o "_text", Off(fees \o "_enabled"), {})
        \cup OrOther(fees \o "_text", On(fees \o "_enabled"), fees \o "_payer", fees \o "_other",
                     {"x", "other"})

(* The parties, the activity, the accounts and the responsible people of a *)
(* social media contract,                                                  *)
SocialActivityText ==
    LET text == "social_activity_definition"
        activity == {"social_project_name", "social_business_nature", "social_target_market",
                     "social_target_audience"}
        accounts == "social_accounts"
        people == "social_responsible_people_text"
        known == AllOf({AnyOf({Off("social_" \o p \o "_custom"),
                               AllFilled({"social_" \o p \o "_custom", "social_" \o p})}) : p \in People})
    IN  ServicePartyText("social", "client") \cup ServicePartyText("social", "provider")
        \cup Prints(text, Always, activity)
        \cup Adds(text, AllFilled(activity), {"social_brand_name", "social_project_brief"})
        \cup UNION {Prints(accounts \o "_text", AllOf({On(accounts), Is(accounts \o ".platform", w[1])}),
                           {accounts, w[2], accounts \o ".account"})
                    : w \in {<<"x", accounts \o ".platform">>, <<"other", accounts \o ".platform_other">>}}
        \cup Prints(people, known, {})
        \cup UNION {Adds(people, And(known, On("social_" \o p \o "_custom")), {"social_" \o p})
                    : p \in People}
        \cup ActingForClient(people, And(known, AnyOf({Off("social_" \o p \o "_custom") : p \in People})),
                             "social_client")

(* its services and the plan of its content, which no service is asked for *)
(* before it is printed,                                                   *)
SocialScopeText ==
    LET scope == "social_scope_services_text"
        other == "social_service_other"
        plan == "social_content_plan"
        kinds == {<<"x", plan \o ".content_type">>, <<"other", plan \o ".content_type_other">>}
        times == {<<"x", plan \o ".frequency">>, <<"other", plan \o ".frequency_other">>}
        complete(k, t) == AllOf({On(plan), Positive(plan \o ".quantity"),
                                 Is(plan \o ".content_type", k[1]), Filled(k[2]),
                                 Is(plan \o ".frequency", t[1]), Filled(t[2])})
    IN  Prints(scope, And(AnyOf({On(k) : k \in SocialServices}), Off(other \o "_enabled")), {})
        \cup Prints(scope, On(other \o "_enabled"), {other})
        \cup UNION {Adds(scope, AnyOf({Off(other \o "_enabled"), Filled(other)}), {k}) : k \in SocialServices}
        \cup Prints("social_excluded_services_text", Always, {})
        \cup Prints(plan \o "_text", Off(plan), {})
        \cup UNION {Prints(plan \o "_text", complete(k, t), {plan, plan \o ".quantity", k[2], t[2]})
                    \cup Adds(plan \o "_text", complete(k, t), {"social_content_scope_notes"})
                    : k \in kinds, t \in times}

(* its advertisements and reports, *)
SocialAdsText ==
    LET text == "social_ads_terms_text"
        terms == {"social_ad_budget_payer", "social_ad_budget_included_in_fee",
                  "social_ad_payment_management"}
        ads == On("social_service_paid_ads")
        fixed == And(ads, Is("social_ad_budget_mode", "fixed"))
        period == "social_ad_budget_period"
        reports == "social_reports_kpi_text"
        frequency == "social_report_frequency"
        reported == AnyOf({Off("social_service_reports"),
                           AllOf({On("social_service_reports"), Is(frequency, "x")}),
                           AllOf({On("social_service_reports"), Is(frequency, "other"),
                                  Filled(frequency \o "_other")})})
        row == AllFilled({"social_kpis", "social_kpis.indicator", "social_kpis.target",
                      "social_kpi_effect"})
        measured == AnyOf({Off("social_kpi_enabled"), And(On("social_kpi_enabled"), row)})
        all == And(reported, measured)
    IN  Prints(text, Off("social_service_paid_ads"), {})
        \cup Prints(text, And(ads, Is("social_ad_budget_mode", "per_campaign")), terms)
        \cup OrOther(text, AllOf({fixed, Positive("social_ad_budget_amount"), AllFilled(terms)}), period,
                     period \o "_other", {"x", "other"})
        \cup AddsAll(text, And(fixed, Positive("social_ad_budget_amount")),
                     terms \cup {"social_ad_budget_amount"})
        \cup Prints(reports, all, {})
        \cup Adds(reports, AllOf({all, On("social_service_reports"), Is(frequency, "x")}), {frequency})
        \cup Adds(reports, AllOf({all, On("social_service_reports"), Is(frequency, "other")}),
                  {frequency \o "_other"})
        \cup Adds(reports, And(all, On("social_kpi_enabled")), {"social_kpis", "social_kpi_effect",
                  "social_kpis.indicator", "social_kpis.target"})

(* its term, its fee and the payment of it, *)
SocialTermText ==
    LET length == "social_contract_duration"
        fee == "social_fee_nature_text"
        total == Is("social_fee_nature", "total")
        periodic == Is("social_fee_nature", "periodic")
    IN  Prints(length \o "_text", Positive(length \o "_value"), {length \o "_value", length \o "_unit"})
        \cup Prints("social_service_start_text", Always, {"social_service_start_date"})
        \cup Prints(fee, total, {"social_fee_nature"})
        \cup OrOther(fee, periodic, "social_fee_periodicity", "social_fee_periodicity_other",
                     {"x", "other"})
        \cup Prints("social_fee_words", Always, {"social_fee"})
        \cup Prints("social_payment_schedule_text", periodic, {"social_periodic_due"})
        \cup PaymentText("social", AnyOf({total, Off("social_fee_nature")}), "social_payment_schedule")
        \cup OrOther("social_payment_method_text", Always, "social_payment_method",
                     "social_payment_method_other", {"x", "other"})

(* and its reviews, files, permissions, notices, copies and legal fees. *)
SocialReviewText ==
    Prints("social_review_rounds_text", Always, {})
    \cup {[r EXCEPT !.base = FALSE] : r \in Counts("social_review_rounds_text", Always,
                                                  "social_review_rounds")}
    \cup SourceFilesText("social", {})
    \cup Permission("social_portfolio_permission")
    \cup UNION {Prints("social_ai_permission_text", Is("social_ai_external_data_permission", x),
                       {"social_ai_external_data_permission"}) : x \in {"yes", "no"}}
    \cup ServiceNoticeText("social")
    \cup Counts("social_contract_copies_text", Always, "social_contract_copies")
    \cup Prints("social_legal_fees_text", On("social_legal_fees_enabled"), {})

ServiceRules ==
    VisualText \cup WebsiteProjectText \cup WebsiteTermText \cup WebsiteServicesText
    \cup SocialActivityText \cup SocialScopeText \cup SocialAdsText \cup SocialTermText
    \cup SocialReviewText
===============================================================================
